----------------------------- MODULE D40TestRun -----------------------------
(***************************************************************************)
(* The debugfs side of the DMA test module: reading the file test_<n> runs *)
(* d40_test_run, which runs test case n under tc_mutex and answers with    *)
(* one line.  Any process may read any file at any time.                   *)
(*                                                                         *)
(* Reading any of test_22 to test_25 runs tc_22_req, tc_23_no_irq,         *)
(* tc_24_irq and tc_25_free one after the other until one fails: request a *)
(* channel, run a job on it and sleep, run a job on it and wait, release   *)
(* it ("tc_22_25").  The channel is in a static, which a failure leaves    *)
(* set.  Every other test case requests channels and releases them before  *)
(* it ends ("plain"; TcEngine, TcParallel and TcLink are its details),     *)
(* sets up the MMC driver and answers with a script ("script", test cases  *)
(* 10 to 13) or has been configured out ("removed").  The endless tc_14 is *)
(* left out.                                                               *)
(*                                                                         *)
(* A signal that ends the sleep on tc_mutex opens the mutex of whoever has *)
(* it, and from then on test cases overlap.  The static is therefore read  *)
(* and written in steps of their own: requesting a channel and storing it, *)
(* testing the pointer, releasing the channel and clearing the pointer.    *)
(***************************************************************************)
EXTENDS Integers, Sequences

CONSTANTS
  Readers,   \* processes that read the files
  READS,     \* bound: reads per process
  CHANNELS   \* memcpy channels of the DMA engine

ASSUME ReadersAssumption == READS \in Nat /\ CHANNELS \in Nat

Tests == {"tc_22_25", "plain", "script", "removed"}
Answers == {"none", "OK", "FAIL", "echo OK", "echo FAIL", "removed OK"}

(* A job of tc_23 or tc_24: who submitted it, and in which of its reads.   *)
Jobs == [reader : Readers, test : {"tc_23", "tc_24"}, read : 1 .. READS]

(* The channels, and the pointer to none.                                  *)
Chans == 1 .. CHANNELS
NULL  == 0

(* Where a reader is between the lock and the unlock, and where it is when *)
(* it relies on the channel that tc_22_req has put into the static.        *)
Relying  == {"tc_23", "prep_23", "sleep", "tc_24", "prep_24", "irq", "tc_25", "release"}
Critical == {"switch", "run", "print", "store", "clear"} \cup Relying

EINVAL == 22
EINTR  == 4

VARIABLES
  loaded,         \* 0 until stedma40_test_init has created the files
  tc_mutex,       \* 1 while locked
  pc,             \* per reader: "out", "lock" or one of Critical
  test_id,        \* per reader: the test case it reads
  err,            \* per reader: the local of that name
  answer,         \* per reader: the last line it got
  reads,          \* per reader: reads begun
  own,            \* per reader: a channel (or NULL) that it has in a local
  tc_22_25_chan,  \* the static of that name, a channel or NULL
  free,           \* the channels that nobody has requested
  jobs,           \* per channel: its queue, a sequence of Jobs
  dropped,        \* history: jobs thrown away with the channel they were on
  signalled,      \* history: the sleeps that a signal has ended
  fault           \* "none", or what has been used too late or released twice

procVars == <<pc, test_id, err, answer, reads>>
dmaVars  == <<own, tc_22_25_chan, free, jobs, dropped>>
vars     == <<loaded, tc_mutex, procVars, dmaVars, signalled, fault>>

Init ==
  /\ loaded = 0 /\ tc_mutex = 0
  /\ pc = [r \in Readers |-> "out"] /\ test_id = [r \in Readers |-> "plain"]
  /\ err = [r \in Readers |-> 0] /\ answer = [r \in Readers |-> "none"]
  /\ reads = [r \in Readers |-> 0]
  /\ own = [r \in Readers |-> NULL] /\ tc_22_25_chan = NULL
  /\ free = Chans /\ jobs = [c \in Chans |-> <<>>] /\ dropped = {}
  /\ signalled = {} /\ fault = "none"

(* Creating the files, under the mutex.  A reader can be in open by then,  *)
(* so that creation and the first read overlap: here the module lets go of *)
(* the mutex in the same step, readers start before or after it.           *)
stedma40_test_init ==
  /\ loaded = 0 /\ tc_mutex = 0
  /\ loaded' = 1 /\ UNCHANGED <<signalled, tc_mutex, procVars, dmaVars, fault>>

(* modprobe -r once every reader has left.  The channel of tc_22 is not    *)
(* released: the module does not look at tc_22_25_chan when it goes.       *)
stedma40_test_exit ==
  /\ loaded = 1 /\ \A r \in Readers : pc[r] = "out" /\ reads[r] = READS
  /\ loaded' = 0 /\ UNCHANGED <<signalled, tc_mutex, procVars, dmaVars, fault>>

(* open and read test_<n>.                                                 *)
d40_debugfs_open(r) ==
  /\ loaded = 1 /\ pc[r] = "out" /\ reads[r] < READS
  /\ \E t \in Tests : test_id' = [test_id EXCEPT ![r] = t]
  /\ pc' = [pc EXCEPT ![r] = "lock"] /\ reads' = [reads EXCEPT ![r] = @ + 1]
  /\ UNCHANGED <<loaded, signalled, tc_mutex, err, answer, dmaVars, fault>>

(* Wrong variant: the test cases run without the mutex.                    *)
NoMutex(r) ==
  /\ pc[r] = "lock"
  /\ err' = [err EXCEPT ![r] = 0] /\ pc' = [pc EXCEPT ![r] = "switch"]
  /\ UNCHANGED <<loaded, signalled, tc_mutex, test_id, answer, reads, dmaVars, fault>>

(* mutex_lock_interruptible: takes a free mutex, ...                       *)
MutexLock(r) ==
  /\ pc[r] = "lock" /\ tc_mutex = 0
  /\ tc_mutex' = 1
  /\ err' = [err EXCEPT ![r] = 0] /\ pc' = [pc EXCEPT ![r] = "switch"]
  /\ UNCHANGED <<loaded, signalled, test_id, answer, reads, dmaVars, fault>>

(* ... or fails when a signal ends the sleep on a locked one; "goto out".  *)
MutexInterrupted(r) ==
  /\ pc[r] = "lock" /\ tc_mutex = 1 /\ signalled' = signalled \cup {"mutex"}
  /\ err' = [err EXCEPT ![r] = -EINTR] /\ pc' = [pc EXCEPT ![r] = "print"]
  /\ UNCHANGED <<loaded, tc_mutex, test_id, answer, reads, dmaVars, fault>>

(***************************************************************************)
(* The switch, one action per kind of test case.                           *)
(***************************************************************************)

Case(r, tests) == pc[r] = "switch" /\ test_id[r] \in tests

(* The test case ends with error e.                                        *)
Ends(r, e) == err' = [err EXCEPT ![r] = e] /\ pc' = [pc EXCEPT ![r] = "print"]

(* It goes on to step s.                                                   *)
Continues(r, s) == pc' = [pc EXCEPT ![r] = s] /\ UNCHANGED err

(* dma_request_channel (external): any free channel, or NULL if none is.   *)
Request(r) ==
  /\ \/ \E c \in free : own' = [own EXCEPT ![r] = c] /\ free' = free \ {c}
     \/ free = {} /\ own' = [own EXCEPT ![r] = NULL] /\ UNCHANGED free
  /\ UNCHANGED <<tc_22_25_chan, jobs, dropped>>

(* dma_release_channel (external) throws the channel's jobs away.  It must *)
(* be a channel, and one that is in use.                                   *)
Release(c) ==
  /\ free' = (free \cup {c}) \ {NULL}
  /\ jobs' = [d \in Chans |-> IF d = c THEN <<>> ELSE jobs[d]]
  /\ dropped' = IF c = NULL THEN dropped ELSE dropped \cup {jobs[c][k] : k \in DOMAIN jobs[c]}
  /\ fault' = IF c = NULL THEN "channel" ELSE IF c \in free THEN "release" ELSE fault

(* tc_22_req: requests a channel, ...                                      *)
tc_22_req(r) ==
  /\ Case(r, {"tc_22_25"})
  /\ Request(r) /\ Continues(r, "store")
  /\ UNCHANGED <<loaded, signalled, tc_mutex, test_id, answer, reads, fault>>

(* ... and stores it in the static, whatever that held.  The jobs of a     *)
(* channel so forgotten run on.                                            *)
tc_22_store(r) ==
  /\ pc[r] = "store"
  /\ tc_22_25_chan' = own[r] /\ own' = [own EXCEPT ![r] = NULL]
  /\ \/ own[r] # NULL /\ Continues(r, "tc_23")
     \/ own[r] = NULL /\ Ends(r, -EINVAL)
  /\ UNCHANGED <<loaded, signalled, tc_mutex, test_id, answer, reads, free, jobs, dropped, fault>>

(* tc_23_no_irq and tc_24_irq begin with a look at the static.             *)
TestChan(r, t, place) ==
  /\ pc[r] = t
  /\ \/ tc_22_25_chan = NULL /\ Ends(r, -EINVAL)
     \/ tc_22_25_chan # NULL /\ Continues(r, place)
  /\ UNCHANGED <<loaded, signalled, tc_mutex, test_id, answer, reads, dmaVars, fault>>

(* The job of function t in the read that r is in.                         *)
Job(r, t) == [reader |-> r, test |-> t, read |-> reads[r]]

(* Then, with buffers in hand, they submit and issue one job; the one now  *)
(* sleeps for a second, the other until the job's callback completes.      *)
SubmitJob(r, t, prep, place) ==
  /\ pc[r] = prep /\ Continues(r, place)
  /\ IF tc_22_25_chan = NULL \/ tc_22_25_chan \in free
     THEN fault' = "channel" /\ UNCHANGED jobs
     ELSE jobs' = [jobs EXCEPT ![tc_22_25_chan] = Append(@, Job(r, t))] /\ UNCHANGED fault
  /\ UNCHANGED <<loaded, signalled, tc_mutex, test_id, answer, reads,
                 own, tc_22_25_chan, free, dropped>>

(* Is the job still to be done, or will it never be?                       *)
Queued(r, t)  == \E c \in Chans : \E k \in DOMAIN jobs[c] : jobs[c][k] = Job(r, t)
Pending(r, t) == Queued(r, t) \/ Job(r, t) \in dropped

(* Does the reader still wait for job j?                                   *)
Awaited(j) == pc[j.reader] = "irq" /\ Job(j.reader, "tc_24") = j

(* The hardware (external) finishes a job of channel c and, for tc_24,     *)
(* runs tc_24_transmit_cb, which completes into the stack frame of         *)
(* tc_24_irq.                                                              *)
JobFinishes(c) ==
  /\ jobs[c] # <<>>
  /\ jobs' = [jobs EXCEPT ![c] = Tail(@)]
  /\ fault' = LET j == Head(jobs[c]) IN IF j.test = "tc_24" /\ ~Awaited(j) THEN "stack" ELSE fault
  /\ UNCHANGED <<loaded, signalled, tc_mutex, procVars, own, tc_22_25_chan, free, dropped>>

(* After the sleep: unmap through the channel's device and compare.  The   *)
(* buffers differ if the job has not been done or the engine is faulty;    *)
(* the channel is then kept.                                               *)
Compare(r, t, place) ==
  /\ \/ ~Pending(r, t) /\ Continues(r, place)
     \/ Ends(r, -EINVAL)
  /\ fault' = IF tc_22_25_chan = NULL THEN "channel" ELSE fault
  /\ UNCHANGED <<loaded, tc_mutex, test_id, answer, reads, dmaVars>>

(* msleep(1000) is over.                                                   *)
tc_23_no_irq(r) == pc[r] = "sleep" /\ Compare(r, "tc_23", "tc_24") /\ UNCHANGED signalled

(* Wrong variant: tc_24_irq sleeps for a second like tc_23_no_irq.         *)
tc_24_sleeps(r) == pc[r] = "irq" /\ Compare(r, "tc_24", "tc_25") /\ UNCHANGED signalled

(* wait_for_completion_interruptible is over.                              *)
tc_24_irq(r) ==
  /\ pc[r] = "irq" /\ ~Pending(r, "tc_24")
  /\ Compare(r, "tc_24", "tc_25") /\ UNCHANGED signalled

(* A signal ends it while the job is not done; the value is not looked at. *)
tc_24_interrupted(r) ==
  /\ pc[r] = "irq" /\ Pending(r, "tc_24")
  /\ Compare(r, "tc_24", "tc_25") /\ signalled' = signalled \cup {"irq"}

(* tc_25_free tests the static, ...                                        *)
tc_25_free(r) ==
  /\ pc[r] = "tc_25"
  /\ \/ tc_22_25_chan = NULL /\ Ends(r, -EINVAL) /\ UNCHANGED own
     \/ /\ tc_22_25_chan # NULL
        /\ own' = [own EXCEPT ![r] = tc_22_25_chan] /\ Continues(r, "release")
  /\ UNCHANGED <<loaded, signalled, tc_mutex, test_id, answer, reads,
                 tc_22_25_chan, free, jobs, dropped, fault>>

(* ... releases the channel, the one tested or, if the compiled code reads *)
(* the static again, the one that is there by now, ...                     *)
tc_25_release(r) ==
  /\ pc[r] = "release" /\ Continues(r, "clear")
  /\ \E c \in {own[r], tc_22_25_chan} : Release(c)
  /\ own' = [own EXCEPT ![r] = NULL]
  /\ UNCHANGED <<loaded, signalled, tc_mutex, test_id, answer, reads, tc_22_25_chan>>

(* Wrong variant: tc_22_25_chan is not cleared.                            *)
KeepsPointer(r) ==
  /\ pc[r] = "clear" /\ Ends(r, 0)
  /\ UNCHANGED <<loaded, signalled, tc_mutex, test_id, answer, reads, dmaVars, fault>>

(* ... and clears the static.                                              *)
tc_25_clear(r) ==
  /\ pc[r] = "clear" /\ tc_22_25_chan' = NULL /\ Ends(r, 0)
  /\ UNCHANGED <<loaded, signalled, tc_mutex, test_id, answer, reads,
                 own, free, jobs, dropped, fault>>

(* A test case with a channel of its own begins, ...                       *)
PlainStarts(r) ==
  /\ Case(r, {"plain"}) /\ Request(r)
  /\ \/ own'[r] = NULL /\ Ends(r, -EINVAL)
     \/ own'[r] # NULL /\ Continues(r, "run")
  /\ UNCHANGED <<loaded, signalled, tc_mutex, test_id, answer, reads, fault>>

(* ... and returns, having released it.                                    *)
PlainReturns(r) ==
  /\ pc[r] = "run"
  /\ Release(own[r]) /\ own' = [own EXCEPT ![r] = NULL]
  /\ \E e \in {0, -1} : Ends(r, e)
  /\ UNCHANGED <<loaded, signalled, tc_mutex, test_id, answer, reads, tc_22_25_chan>>

(* dd_setup succeeds if the MMC driver does; tc_nop always does.           *)
ScriptOrNop(r) ==
  /\ Case(r, {"script", "removed"})
  /\ \E e \in (IF test_id[r] = "script" THEN {0, -EINVAL} ELSE {0}) : Ends(r, e)
  /\ UNCHANGED <<loaded, signalled, tc_mutex, test_id, answer, reads, dmaVars, fault>>

(* Wrong variant: a failing test case returns without mutex_unlock.        *)
PrintKeepsMutex(r) ==
  /\ pc[r] = "print"
  /\ answer' = [answer EXCEPT ![r] = IF err[r] = 0 THEN "OK" ELSE "FAIL"]
  /\ tc_mutex' = IF err[r] = 0 THEN 0 ELSE tc_mutex
  /\ pc' = [pc EXCEPT ![r] = "out"]
  /\ UNCHANGED <<loaded, signalled, test_id, err, reads, dmaVars, fault>>

(* The answer: behind "echo " for a script, behind another line for a      *)
(* removed test case that was reached.                                     *)
Answer(r) ==
  LET verdict == IF err[r] = 0 THEN "OK" ELSE "FAIL"
  IN  CASE test_id[r] = "script" -> IF err[r] = 0 THEN "echo OK" ELSE "echo FAIL"
        [] test_id[r] = "removed" /\ err[r] = 0 -> "removed OK"
        [] OTHER -> verdict

(* out: print the line and mutex_unlock, held or not.                      *)
MutexUnlock(r) ==
  /\ pc[r] = "print"
  /\ answer' = [answer EXCEPT ![r] = Answer(r)]
  /\ tc_mutex' = 0
  /\ pc' = [pc EXCEPT ![r] = "out"]
  /\ UNCHANGED <<loaded, signalled, test_id, err, reads, dmaVars, fault>>

(***************************************************************************)
(* The specification.                                                      *)
(***************************************************************************)

d40_test_run(r) ==
  \/ MutexLock(r) \/ MutexUnlock(r)
  \/ tc_22_req(r) \/ tc_22_store(r)
  \/ TestChan(r, "tc_23", "prep_23") \/ SubmitJob(r, "tc_23", "prep_23", "sleep") \/ tc_23_no_irq(r)
  \/ TestChan(r, "tc_24", "prep_24") \/ SubmitJob(r, "tc_24", "prep_24", "irq") \/ tc_24_irq(r)
  \/ tc_25_free(r) \/ tc_25_release(r) \/ tc_25_clear(r)
  \/ PlainStarts(r) \/ PlainReturns(r) \/ ScriptOrNop(r)

(* A signal for reader r ends its sleep.                                   *)
Interrupted(r) == MutexInterrupted(r) \/ tc_24_interrupted(r)

(* Every file has been read, or the kernel has used what is gone.          *)
Over == fault # "none" \/ (loaded = 0 /\ \A r \in Readers : reads[r] = READS)

Next ==
  \/ /\ fault = "none"
     /\ \/ stedma40_test_init \/ stedma40_test_exit
        \/ \E c \in Chans : JobFinishes(c)
        \/ \E r \in Readers : d40_debugfs_open(r) \/ d40_test_run(r) \/ Interrupted(r)
  \/ Over /\ UNCHANGED vars

Spec == Init /\ [][Next]_vars

(* A process in d40_test_run goes on when it can; the hardware finishes a  *)
(* job that it has.  Nothing is assumed of signals.                        *)
FairSpec ==
  /\ Spec
  /\ \A c \in Chans : WF_vars(fault = "none" /\ JobFinishes(c))
  /\ \A r \in Readers : WF_vars(fault = "none" /\ d40_test_run(r))

(***************************************************************************)
(* Properties.                                                             *)
(***************************************************************************)

(* Every variable has its type.                                            *)
TypeOK ==
  /\ loaded \in {0, 1} /\ tc_mutex \in {0, 1} /\ signalled \subseteq {"mutex", "irq"}
  /\ pc \in [Readers -> {"out", "lock"} \cup Critical]
  /\ test_id \in [Readers -> Tests] /\ err \in [Readers -> {0, -1, -EINTR, -EINVAL}]
  /\ answer \in [Readers -> Answers] /\ reads \in [Readers -> 0 .. READS]
  /\ \A r \in Readers : pc[r] # "out" => reads[r] > 0
  /\ own \in [Readers -> Chans \cup {NULL}] /\ tc_22_25_chan \in Chans \cup {NULL}
  /\ free \subseteq Chans /\ jobs \in [Chans -> Seq(Jobs)] /\ dropped \subseteq Jobs
  /\ fault \in {"none", "stack", "channel", "release"}

Inside(r) == pc[r] \in Critical

(* Has tc_mutex kept its promise so far?  A signal that ends the sleep on  *)
(* it breaks it: the failed mutex_lock_interruptible goes to the same      *)
(* mutex_unlock as the successful one and opens another reader's mutex.    *)
Sound == "mutex" \notin signalled

(* One test case runs at a time: a reader is between the lock and the      *)
(* unlock exactly when the mutex is locked, and no two are.                *)
OneTestAtATime ==
  Sound =>
    /\ \A r, s \in Readers : Inside(r) /\ Inside(s) => r = s
    /\ tc_mutex = 1 <=> \E r \in Readers : Inside(r)

(* The channel in the static is not taken from under a reader: from        *)
(* tc_22_req to tc_25_free no other reader releases or replaces it, no job *)
(* is thrown away with its channel, and, unless a signal has ended tc_24's *)
(* wait too, no callback runs into a stack frame that is gone.             *)
SharedChannelStable ==
  Sound =>
    /\ fault \notin {"channel", "release"} /\ ("irq" \notin signalled => fault # "stack")
    /\ \A r \in Readers : pc[r] \in Relying => tc_22_25_chan \in Chans \ free
    /\ dropped = {}

(* Readers do not get into each other's way until a signal ends a sleep on *)
(* the mutex.                                                              *)
ReadersApart == OneTestAtATime /\ SharedChannelStable

(* No channel is free and in use at once, whatever tests are read in what  *)
(* order and whichever of them fail, until a signal ends a sleep on the    *)
(* mutex: a running test case has a channel of its own, which is neither   *)
(* free nor the one in the static; the static points to a free channel     *)
(* only while tc_25_free is about to clear it; and a free channel has no   *)
(* job.  (A channel may be neither free nor in use: after a failing tc_23  *)
(* or tc_24 the next tc_22 forgets it.)                                    *)
ChannelsApart ==
  Sound =>
    /\ \A r \in Readers : pc[r] = "run" => own[r] \in Chans \ (free \cup {tc_22_25_chan})
    /\ tc_22_25_chan \in free => \E r \in Readers : pc[r] = "clear"
    /\ \A c \in free : jobs[c] = <<>>

(* The channels that no failure has lost: the free ones and those that     *)
(* test cases at work have taken.                                          *)
Using(r) ==
  IF pc[r] \in {"run", "store"} THEN {own[r]}
  ELSE IF pc[r] \in Relying THEN {tc_22_25_chan} ELSE {}
Kept == (free \cup UNION {Using(r) : r \in Readers}) \ {NULL}

(* A read is served when its test case ends, before the answer is printed. *)
Server == INSTANCE TestServer WITH
  asked     <- [r \in Readers |-> IF pc[r] = "out" THEN "nothing" ELSE test_id[r]],
  result    <- [r \in Readers |-> IF pc[r] = "print" THEN err[r] ELSE 1],
  free      <- Kept,
  disturbed <- IF Sound THEN 0 ELSE 1

(* d40_test_run with its mutex, its shared channel, jobs and callbacks is  *)
(* the server that TestServer describes: whatever the readers interleave,  *)
(* each read has its effect at one moment, and until a signal ends a sleep *)
(* on the mutex no test case is refused because another one holds the      *)
(* channels that it would have got alone.                                  *)
ImplementsServer == Server!Spec

(* A reader waits for a job that another one's release has thrown away.    *)
Stranded(r) == pc[r] = "irq" /\ ~Queued(r, "tc_24") /\ Pending(r, "tc_24")

(* Every read that has begun is answered, if the kernel does not go wrong  *)
(* and no reader is stranded: whoever fails or is interrupted, the mutex   *)
(* is unlocked.  (Until a signal ends a sleep on the mutex ReadersApart    *)
(* excludes both but for a callback after an interrupted tc_24.)           *)
EveryReadAnswered ==
  \A r \in Readers :
    (pc[r] = "lock") ~> (pc[r] = "out" \/ fault # "none" \/ \E q \in Readers : Stranded(q))
=============================================================================
