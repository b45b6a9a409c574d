------------------------------ MODULE D40Proofs ------------------------------
(***************************************************************************)
(* Proofs about d40_test_run and the channel its test cases share, for any *)
(* readers and any number of reads and of channels.                        *)
(***************************************************************************)
EXTENDS D40TestRun, TLAPS

USE DEF EINVAL, EINTR, Critical, Relying

(* A job that is submitted is one of Jobs.                                 *)
LEMMA JobType ==
  ASSUME TypeOK, NEW r \in Readers, pc[r] # "out", NEW t \in {"tc_23", "tc_24"}
  PROVE  Job(r, t) \in Jobs
  BY ReadersAssumption DEF TypeOK, Job, Jobs

(* What requesting and releasing a channel do to the types.                *)
LEMMA RequestType ==
  ASSUME TypeOK, NEW r \in Readers, Request(r)
  PROVE  /\ own' \in [Readers -> Chans \cup {NULL}] /\ free' \subseteq Chans
         /\ own'[r] \in free \/ (own'[r] = NULL /\ free = {})
         /\ free' = free \ {own'[r]}
         /\ UNCHANGED <<tc_22_25_chan, jobs, dropped>>
  BY DEF TypeOK, Request

(* A release leaves every other channel with its jobs.                     *)
LEMMA ReleaseType ==
  ASSUME TypeOK, NEW c \in Chans \cup {NULL}, Release(c)
  PROVE  /\ free' \subseteq Chans /\ jobs' \in [Chans -> Seq(Jobs)] /\ dropped' \subseteq Jobs
         /\ fault' \in {"none", "stack", "channel", "release"}
<1>1. free' \subseteq Chans /\ fault' \in {"none", "stack", "channel", "release"}
  BY DEF TypeOK, Release
<1>2. jobs' = [d \in Chans |-> IF d = c THEN <<>> ELSE jobs[d]]
  BY DEF Release
<1>3. jobs' \in [Chans -> Seq(Jobs)]
  BY <1>2 DEF TypeOK
<1>4. c # NULL => \A k \in DOMAIN jobs[c] : jobs[c][k] \in Jobs
  BY DEF TypeOK
<1>5. dropped' \subseteq Jobs
  BY <1>4 DEF TypeOK, Release
<1> QED
  BY <1>1, <1>3, <1>5

(***************************************************************************)
(* Types.                                                                  *)
(***************************************************************************)

(* At the start no channel is requested and no job submitted.              *)
LEMMA InitTypes == Init => TypeOK
  BY ReadersAssumption DEF Init, TypeOK, Tests, Answers

(* A reader that goes to a place inside, and what it has in its locals.    *)
LEMMA ReaderTypes ==
  ASSUME TypeOK, NEW r \in Readers, pc[r] # "out",
         \/ \E e \in {0, -1, -EINTR, -EINVAL} : Ends(r, e)
         \/ \E s \in Critical : Continues(r, s)
  PROVE  /\ pc' \in [Readers -> {"out", "lock"} \cup Critical]
         /\ err' \in [Readers -> {0, -1, -EINTR, -EINVAL}]
         /\ \A q \in Readers : pc'[q] # "out" => pc[q] # "out"
  BY DEF TypeOK, Ends, Continues

(* One step per action.                                                    *)
LEMMA StepTypes == TypeOK /\ [Next]_vars => TypeOK'
<1> SUFFICES ASSUME TypeOK, [Next]_vars PROVE TypeOK'
  OBVIOUS
<1> USE DEF procVars, dmaVars
<1>1. CASE UNCHANGED vars \/ stedma40_test_init \/ stedma40_test_exit
  BY <1>1 DEF TypeOK, vars, stedma40_test_init, stedma40_test_exit
<1>2. ASSUME NEW c \in Chans, JobFinishes(c) PROVE TypeOK'
  <2>1. jobs \in [Chans -> Seq(Jobs)] /\ jobs[c] \in Seq(Jobs) /\ jobs[c] # <<>>
        /\ jobs' = [jobs EXCEPT ![c] = Tail(jobs[c])]
    BY <1>2 DEF TypeOK, JobFinishes
  <2>2. Tail(jobs[c]) \in Seq(Jobs)
    BY <2>1
  <2>3. jobs' \in [Chans -> Seq(Jobs)]
    BY <2>1, <2>2
  <2>4. /\ UNCHANGED <<loaded, signalled, tc_mutex, procVars, own, tc_22_25_chan, free, dropped>>
        /\ fault' \in {"none", "stack", "channel", "release"}
    BY <1>2 DEF TypeOK, JobFinishes
  <2> QED
    BY <2>3, <2>4 DEF TypeOK
<1>3. ASSUME NEW r \in Readers,
             d40_debugfs_open(r) \/ d40_test_run(r) \/ Interrupted(r)
      PROVE  TypeOK'
  <2>1. CASE d40_debugfs_open(r)
    BY <2>1, ReadersAssumption DEF d40_debugfs_open, TypeOK
  <2>2. CASE MutexLock(r) \/ MutexInterrupted(r) \/ MutexUnlock(r)
    <3>1. Answer(r) \in Answers
      BY DEF Answer, Answers
    <3>2. CASE MutexLock(r)
      BY <3>2 DEF TypeOK, MutexLock
    <3>3. CASE MutexInterrupted(r)
      BY <3>3 DEF TypeOK, MutexInterrupted
    <3>4. CASE MutexUnlock(r)
      BY <3>1, <3>4 DEF TypeOK, MutexUnlock
    <3> QED
      BY <2>2, <3>2, <3>3, <3>4
  <2>3. ASSUME pc[r] # "out",
               \/ \E e \in {0, -1, -EINTR, -EINVAL} : Ends(r, e)
               \/ \E s \in Critical : Continues(r, s),
               UNCHANGED <<loaded, tc_mutex, test_id, answer, reads>>,
               signalled' \subseteq signalled \cup {"mutex", "irq"},
               own' \in [Readers -> Chans \cup {NULL}], tc_22_25_chan' \in Chans \cup {NULL},
               free' \subseteq Chans, jobs' \in [Chans -> Seq(Jobs)], dropped' \subseteq Jobs,
               fault' \in {"none", "stack", "channel", "release"}
        PROVE  TypeOK'
    <3>1. /\ pc' \in [Readers -> {"out", "lock"} \cup Critical]
          /\ err' \in [Readers -> {0, -1, -EINTR, -EINVAL}]
          /\ \A q \in Readers : pc'[q] # "out" => pc[q] # "out"
      BY <2>3, ReaderTypes
    <3> QED
      BY <2>3, <3>1 DEF TypeOK
  <2>4. CASE ScriptOrNop(r)
    <3>1. pc[r] # "out" /\ \E e \in {0, -1, -EINTR, -EINVAL} : Ends(r, e)
      BY <2>4 DEF ScriptOrNop, Case
    <3>2. UNCHANGED <<loaded, signalled, tc_mutex, test_id, answer, reads, dmaVars, fault>>
      BY <2>4 DEF ScriptOrNop
    <3> QED
      BY <2>3, <3>1, <3>2 DEF TypeOK
  <2>5. CASE tc_22_req(r) \/ PlainStarts(r)
    <3>1. Request(r) /\ pc[r] # "out"
          /\ UNCHANGED <<loaded, signalled, tc_mutex, test_id, answer, reads, fault>>
      BY <2>5 DEF tc_22_req, PlainStarts, Case
    <3>2. \/ \E e \in {0, -1, -EINTR, -EINVAL} : Ends(r, e)
          \/ \E s \in Critical : Continues(r, s)
      BY <2>5 DEF tc_22_req, PlainStarts
    <3>3. /\ own' \in [Readers -> Chans \cup {NULL}] /\ free' \subseteq Chans
          /\ UNCHANGED <<tc_22_25_chan, jobs, dropped>>
      BY <3>1, RequestType
    <3> QED
      BY <2>3, <3>1, <3>2, <3>3 DEF TypeOK
  <2>6. CASE tc_22_store(r)
    <3>1. pc[r] # "out" /\ (Ends(r, -EINVAL) \/ Continues(r, "tc_23"))
      BY <2>6 DEF tc_22_store
    <3>2. /\ tc_22_25_chan' = own[r] /\ own' = [own EXCEPT ![r] = NULL]
          /\ UNCHANGED <<loaded, signalled, tc_mutex, test_id, answer, reads, free, jobs, dropped, fault>>
      BY <2>6 DEF tc_22_store
    <3> QED
      BY <2>3, <3>1, <3>2 DEF TypeOK
  <2>7. CASE TestChan(r, "tc_23", "prep_23") \/ TestChan(r, "tc_24", "prep_24")
    <3>1. pc[r] # "out" /\ (Ends(r, -EINVAL) \/ \E s \in {"prep_23", "prep_24"} : Continues(r, s))
      BY <2>7 DEF TestChan
    <3>2. UNCHANGED <<loaded, signalled, tc_mutex, test_id, answer, reads, dmaVars, fault>>
      BY <2>7 DEF TestChan
    <3> QED
      BY <2>3, <3>1, <3>2 DEF TypeOK
  <2>8. ASSUME NEW t \in {"tc_23", "tc_24"}, NEW prep \in Critical, NEW place \in Critical,
               SubmitJob(r, t, prep, place)
        PROVE  TypeOK'
    <3>1. pc[r] # "out" /\ Continues(r, place)
      BY <2>8 DEF SubmitJob
    <3>2. Job(r, t) \in Jobs
      BY <3>1, JobType
    <3>3. jobs' \in [Chans -> Seq(Jobs)] /\ fault' \in {"none", "stack", "channel", "release"}
      <4>1. CASE tc_22_25_chan = NULL \/ tc_22_25_chan \in free
        BY <2>8, <4>1 DEF SubmitJob, TypeOK
      <4>2. CASE ~(tc_22_25_chan = NULL \/ tc_22_25_chan \in free)
        <5>1. tc_22_25_chan \in Chans /\ jobs \in [Chans -> Seq(Jobs)]
              /\ jobs[tc_22_25_chan] \in Seq(Jobs)
          BY <4>2 DEF TypeOK
        <5>2. Append(jobs[tc_22_25_chan], Job(r, t)) \in Seq(Jobs)
          BY <3>2, <5>1
        <5>3. /\ jobs' = [jobs EXCEPT ![tc_22_25_chan] = Append(jobs[tc_22_25_chan], Job(r, t))]
              /\ fault' = fault
          BY <2>8, <4>2 DEF SubmitJob
        <5> QED
          BY <5>1, <5>2, <5>3 DEF TypeOK
      <4> QED
        BY <4>1, <4>2
    <3>4. UNCHANGED <<loaded, signalled, tc_mutex, test_id, answer, reads,
                      own, tc_22_25_chan, free, dropped>>
      BY <2>8 DEF SubmitJob
    <3> QED
      BY <2>3, <3>1, <3>3, <3>4 DEF TypeOK
  <2>9. CASE tc_23_no_irq(r) \/ tc_24_irq(r) \/ tc_24_interrupted(r)
    <3>1. /\ pc[r] # "out"
          /\ Ends(r, -EINVAL) \/ \E s \in {"tc_24", "tc_25"} : Continues(r, s)
      BY <2>9 DEF tc_23_no_irq, tc_24_irq, tc_24_interrupted, Compare
    <3>2. /\ UNCHANGED <<loaded, tc_mutex, test_id, answer, reads, dmaVars>>
          /\ signalled' \subseteq signalled \cup {"mutex", "irq"}
          /\ fault' \in {"none", "stack", "channel", "release"}
      BY <2>9 DEF tc_23_no_irq, tc_24_irq, tc_24_interrupted, Compare, TypeOK
    <3> QED
      BY <2>3, <3>1, <3>2 DEF TypeOK
  <2>10. CASE tc_25_free(r)
    <3>1. pc[r] # "out" /\ (Ends(r, -EINVAL) \/ Continues(r, "release"))
      BY <2>10 DEF tc_25_free
    <3>2. /\ own' = own \/ own' = [own EXCEPT ![r] = tc_22_25_chan]
          /\ UNCHANGED <<loaded, signalled, tc_mutex, test_id, answer, reads,
                         tc_22_25_chan, free, jobs, dropped, fault>>
      BY <2>10 DEF tc_25_free
    <3> QED
      BY <2>3, <3>1, <3>2 DEF TypeOK
  <2>11. CASE tc_25_release(r) \/ PlainReturns(r)
    <3>1. /\ pc[r] # "out"
          /\ \/ \E e \in {0, -1} : Ends(r, e)
             \/ Continues(r, "clear")
      BY <2>11 DEF tc_25_release, PlainReturns
    <3>2. /\ own' = [own EXCEPT ![r] = NULL]
          /\ UNCHANGED <<loaded, signalled, tc_mutex, test_id, answer, reads, tc_22_25_chan>>
      BY <2>11 DEF tc_25_release, PlainReturns
    <3>3. PICK c \in {own[r], tc_22_25_chan} : Release(c)
      BY <2>11 DEF tc_25_release, PlainReturns
    <3>4. /\ free' \subseteq Chans /\ jobs' \in [Chans -> Seq(Jobs)] /\ dropped' \subseteq Jobs
          /\ fault' \in {"none", "stack", "channel", "release"}
      <4>1. c \in Chans \cup {NULL}
        BY DEF TypeOK
      <4> QED
        BY <3>3, <4>1, ReleaseType
    <3> QED
      BY <2>3, <3>1, <3>2, <3>4 DEF TypeOK
  <2>12. CASE tc_25_clear(r)
    <3>1. /\ pc[r] # "out" /\ Ends(r, 0) /\ tc_22_25_chan' = NULL
          /\ UNCHANGED <<loaded, signalled, tc_mutex, test_id, answer, reads,
                         own, free, jobs, dropped, fault>>
      BY <2>12 DEF tc_25_clear
    <3> QED
      BY <2>3, <3>1 DEF TypeOK
  <2> QED
    BY <1>3, <2>1, <2>2, <2>4, <2>5, <2>6, <2>7, <2>8, <2>9, <2>10, <2>11, <2>12
       DEF d40_test_run, Interrupted
<1> QED
  BY <1>1, <1>2, <1>3 DEF Next

(* Type correctness of the debugfs side.                                   *)
THEOREM TypeCorrect == Spec => []TypeOK
BY InitTypes, StepTypes, PTL DEF Spec

(***************************************************************************)
(* The mutex and the channels, until a signal ends a sleep on the mutex.   *)
(***************************************************************************)

(* What holds of a reader's channel where the reader is; what the jobs of  *)
(* the channel are makes its release safe.                                 *)
InPlace(r) ==
  /\ pc[r] = "store" => \/ own[r] \in Chans \ (free \cup {tc_22_25_chan}) /\ jobs[own[r]] = <<>>
                        \/ own[r] = NULL /\ free = {}
  /\ pc[r] = "run" => own[r] \in Chans \ (free \cup {tc_22_25_chan}) /\ jobs[own[r]] = <<>>
  /\ pc[r] \in Relying => tc_22_25_chan \in Chans \ free
  /\ pc[r] \in Relying \ {"sleep", "irq"} => jobs[tc_22_25_chan] = <<>>
  /\ pc[r] = "sleep" =>
       \A k \in DOMAIN jobs[tc_22_25_chan] : jobs[tc_22_25_chan][k] = Job(r, "tc_23")
  /\ pc[r] = "irq" =>
       \A k \in DOMAIN jobs[tc_22_25_chan] : jobs[tc_22_25_chan][k] = Job(r, "tc_24")
  /\ pc[r] = "release" => own[r] = tc_22_25_chan
  /\ pc[r] = "clear" => tc_22_25_chan \in free

(* What holds of the channels wherever the readers are.                    *)
ChannelsInv ==
  /\ fault \notin {"channel", "release"} /\ dropped = {}
  /\ tc_22_25_chan \in free => \E r \in Readers : pc[r] = "clear"
  /\ \A c \in free : jobs[c] = <<>>

(* A job of tc_24 is queued only while its reader waits for it.            *)
IrqJobsAwaited ==
  signalled = {} =>
    /\ fault # "stack"
    /\ \A c \in Chans : \A k \in DOMAIN jobs[c] : jobs[c][k].test = "tc_24" => Awaited(jobs[c][k])

(* The invariant that makes the two properties inductive.                  *)
SharingInv ==
  /\ OneTestAtATime /\ IrqJobsAwaited
  /\ Sound => ChannelsInv /\ \A r \in Readers : InPlace(r)

(* At the start nobody reads and no channel has a job.                     *)
LEMMA InitSharing == Init => SharingInv
<1> SUFFICES ASSUME Init PROVE SharingInv
  OBVIOUS
<1>1. tc_22_25_chan \notin free
  BY ReadersAssumption DEF Init, Chans, NULL
<1>2. \A c \in Chans : jobs[c] = <<>>
  BY DEF Init
<1> QED
  BY <1>1, <1>2 DEF Init, SharingInv, OneTestAtATime, IrqJobsAwaited, ChannelsInv, InPlace, Inside

(* While r is inside nobody else is.                                       *)
LEMMA AloneInside ==
  ASSUME OneTestAtATime, Sound, NEW r \in Readers, Inside(r), NEW q \in Readers, pc[q] \in Critical
  PROVE  q = r
  BY DEF OneTestAtATime, Inside

(* A reader that steps from one place inside to another, without touching  *)
(* the mutex, keeps the exclusion, and the others stay out.                *)
LEMMA StaysInside ==
  ASSUME TypeOK, OneTestAtATime, Sound, NEW r \in Readers, Inside(r), tc_mutex' = tc_mutex,
         Ends(r, err'[r]) \/ \E s \in Critical : Continues(r, s)
  PROVE  /\ OneTestAtATime'
         /\ \A q \in Readers : q # r => pc[q] \notin Critical /\ pc'[q] \notin Critical
<1>1. PICK s \in Critical : pc' = [pc EXCEPT ![r] = s]
  BY DEF Ends, Continues
<1>2. \A q \in Readers : q # r => pc[q] \notin Critical /\ pc'[q] = pc[q]
  BY <1>1, AloneInside DEF TypeOK
<1>3. pc'[r] = s
  BY <1>1 DEF TypeOK
<1> QED
  BY <1>1, <1>2, <1>3 DEF OneTestAtATime, Inside

(* Nothing is asked of a reader that is not inside.                        *)
LEMMA OutsideInPlace ==
  ASSUME NEW r \in Readers, pc[r] \notin Critical
  PROVE  InPlace(r)
  BY DEF InPlace

(* Releasing a channel that is in use and has no jobs harms nobody.        *)
LEMMA ReleaseSafe ==
  ASSUME TypeOK, ChannelsInv, NEW c \in Chans \ free, jobs[c] = <<>>, Release(c)
  PROVE  /\ free' = free \cup {c} /\ jobs' = jobs /\ dropped' = dropped /\ fault' = fault
<1>1. c # NULL /\ free' = free \cup {c} /\ fault' = fault
  BY ReadersAssumption DEF Release, Chans, NULL, TypeOK
<1>2. dropped' = dropped
  BY <1>1 DEF Release
<1>3. jobs' = jobs
  BY DEF Release, TypeOK
<1> QED
  BY <1>1, <1>2, <1>3

(* Inside, a reader that does not wait for a job of tc_24 is alone without *)
(* one.                                                                    *)
LEMMA NoIrqJobs ==
  ASSUME TypeOK, SharingInv, signalled = {}, NEW r \in Readers, Inside(r),
         pc[r] # "irq" \/ ~Queued(r, "tc_24")
  PROVE  \A c \in Chans : \A k \in DOMAIN jobs[c] : jobs[c][k].test # "tc_24"
<1> SUFFICES ASSUME NEW c \in Chans, NEW k \in DOMAIN jobs[c], jobs[c][k].test = "tc_24"
             PROVE  FALSE
  OBVIOUS
<1>1. jobs[c][k] \in Jobs
  BY DEF TypeOK
<1>2. Awaited(jobs[c][k]) /\ jobs[c][k].reader \in Readers
  BY <1>1 DEF SharingInv, IrqJobsAwaited, Jobs
<1>3. jobs[c][k].reader = r
  BY <1>2, AloneInside DEF Awaited, SharingInv, Sound
<1>4. pc[r] = "irq" /\ jobs[c][k] = Job(r, "tc_24")
  BY <1>2, <1>3 DEF Awaited
<1> QED
  BY <1>4 DEF Queued

(* One step per action, and under it the parts of the invariant.           *)
LEMMA StepSharing == TypeOK /\ TypeOK' /\ SharingInv /\ [Next]_vars => SharingInv'
<1> SUFFICES ASSUME TypeOK, TypeOK', SharingInv, [Next]_vars, Sound' PROVE SharingInv'
  BY DEF SharingInv, OneTestAtATime, IrqJobsAwaited, Sound
<1> USE DEF procVars, dmaVars
<1>0. /\ NULL \notin Chans /\ jobs \in [Chans -> Seq(Jobs)] /\ free \subseteq Chans
      /\ \A c \in Chans : jobs[c] \in Seq(Jobs)
  BY ReadersAssumption DEF TypeOK, NULL, Chans
<1>1. CASE UNCHANGED vars \/ stedma40_test_init \/ stedma40_test_exit
  <2>1. UNCHANGED <<tc_mutex, procVars, dmaVars, signalled, fault>>
    BY <1>1 DEF vars, stedma40_test_init, stedma40_test_exit
  <2> QED
    BY <2>1 DEF SharingInv, OneTestAtATime, IrqJobsAwaited, ChannelsInv, InPlace, Inside,
                Awaited, Job, Sound
<1>2. ASSUME NEW c \in Chans, JobFinishes(c) PROVE SharingInv'
  <2>1. /\ UNCHANGED <<signalled, tc_mutex, procVars, own, tc_22_25_chan, free, dropped>>
        /\ jobs[c] # <<>> /\ jobs' = [jobs EXCEPT ![c] = Tail(jobs[c])]
        /\ fault' = IF Head(jobs[c]).test = "tc_24" /\ ~Awaited(Head(jobs[c])) THEN "stack" ELSE fault
    BY <1>2 DEF JobFinishes
  <2>2. Sound /\ ChannelsInv /\ \A r \in Readers : InPlace(r)
    BY <2>1 DEF Sound, SharingInv
  <2>3. \A d \in Chans : /\ jobs[d] = <<>> => jobs'[d] = <<>>
                         /\ \A k \in DOMAIN jobs'[d] : \E i \in DOMAIN jobs[d] : jobs'[d][k] = jobs[d][i]
    <3>1. \A k \in DOMAIN Tail(jobs[c]) : k + 1 \in DOMAIN jobs[c] /\ Tail(jobs[c])[k] = jobs[c][k + 1]
      BY <1>0, <2>1
    <3> QED
      BY <1>0, <2>1, <3>1
  <2>4. OneTestAtATime'
    BY <2>1 DEF SharingInv, OneTestAtATime, Inside, Sound
  <2>5. IrqJobsAwaited'
    <3> SUFFICES ASSUME signalled = {} PROVE fault' # "stack" /\ \A d \in Chans : \A k \in DOMAIN jobs'[d] :
                   jobs'[d][k].test = "tc_24" => Awaited(jobs'[d][k])
      BY <2>1 DEF IrqJobsAwaited, Awaited, Job
    <3>1. Head(jobs[c]) = jobs[c][1] /\ 1 \in DOMAIN jobs[c]
      BY <1>0, <2>1
    <3>2. fault' # "stack"
      BY <2>1, <3>1 DEF SharingInv, IrqJobsAwaited
    <3> QED
      BY <2>3, <3>2 DEF SharingInv, IrqJobsAwaited
  <2>6. ChannelsInv'
    BY <1>0, <2>1, <2>2, <2>3 DEF ChannelsInv
  <2>7. ASSUME NEW r \in Readers PROVE InPlace(r)'
    <3>1. /\ own[r] \in Chans => (jobs[own[r]] = <<>> => jobs'[own[r]] = <<>>)
          /\ tc_22_25_chan \in Chans => (jobs[tc_22_25_chan] = <<>> => jobs'[tc_22_25_chan] = <<>>)
          /\ tc_22_25_chan \in Chans => \A k \in DOMAIN jobs'[tc_22_25_chan] :
               \E i \in DOMAIN jobs[tc_22_25_chan] : jobs'[tc_22_25_chan][k] = jobs[tc_22_25_chan][i]
      BY <2>3
    <3>2. InPlace(r) /\ UNCHANGED <<pc, own, tc_22_25_chan, free, reads>>
      BY <2>1, <2>2
    <3> QED
      BY <3>1, <3>2 DEF InPlace, Job
  <2> QED
    BY <2>4, <2>5, <2>6, <2>7 DEF SharingInv
<1>3. ASSUME NEW r \in Readers,
             d40_debugfs_open(r) \/ d40_test_run(r) \/ Interrupted(r)
      PROVE  SharingInv'
  <2>1. ASSUME MutexInterrupted(r) PROVE FALSE
    BY <2>1 DEF MutexInterrupted, Sound
  <2>2. signalled \subseteq signalled' /\ (signalled' = {} => signalled = {})
    BY <1>3, <2>1 DEF d40_debugfs_open, d40_test_run, Interrupted, MutexLock, MutexUnlock,
       tc_22_req, tc_22_store, TestChan, SubmitJob, tc_23_no_irq, tc_24_irq, tc_24_interrupted,
       tc_25_free, tc_25_release, tc_25_clear, PlainStarts, PlainReturns, ScriptOrNop
  <2>3. /\ Sound /\ ChannelsInv /\ (\A q \in Readers : InPlace(q)) /\ OneTestAtATime
        /\ IrqJobsAwaited
    BY <2>2 DEF Sound, SharingInv
  <2>4. CASE d40_debugfs_open(r) \/ MutexLock(r) \/ MutexUnlock(r)
    <3>1. /\ UNCHANGED <<signalled, dmaVars, fault>>
          /\ pc[r] \in {"out", "lock", "print"}
          /\ \E s \in {"lock", "switch", "out"} : pc' = [pc EXCEPT ![r] = s]
          /\ \A q \in Readers : q # r => reads'[q] = reads[q]
      BY <2>4 DEF d40_debugfs_open, MutexLock, MutexUnlock, TypeOK
    <3>2. OneTestAtATime'
      <4>1. CASE d40_debugfs_open(r)
        <5>1. pc[r] = "out" /\ pc' = [pc EXCEPT ![r] = "lock"] /\ tc_mutex' = tc_mutex
          BY <4>1 DEF d40_debugfs_open
        <5>2. \A q \in Readers : Inside(q)' <=> Inside(q)
          BY <5>1 DEF Inside, TypeOK
        <5> QED
          BY <2>3, <3>1, <5>1, <5>2 DEF OneTestAtATime, Sound
      <4>2. CASE MutexLock(r)
        <5>1. tc_mutex = 0 /\ tc_mutex' = 1 /\ pc' = [pc EXCEPT ![r] = "switch"]
          BY <4>2 DEF MutexLock
        <5>2. \A q \in Readers : ~Inside(q)
          BY <2>3, <5>1 DEF OneTestAtATime
        <5>3. \A q \in Readers : Inside(q)' <=> q = r
          BY <5>1, <5>2 DEF Inside, TypeOK
        <5> QED
          BY <5>1, <5>3 DEF OneTestAtATime
      <4>3. CASE MutexUnlock(r)
        <5>1. pc[r] = "print" /\ tc_mutex' = 0 /\ pc' = [pc EXCEPT ![r] = "out"]
          BY <4>3 DEF MutexUnlock
        <5>2. \A q \in Readers : q # r => pc[q] \notin Critical
          BY <2>3, <5>1, AloneInside DEF Inside
        <5>3. \A q \in Readers : ~Inside(q)'
          BY <5>1, <5>2 DEF Inside, TypeOK
        <5> QED
          BY <5>1, <5>3 DEF OneTestAtATime
      <4> QED
        BY <2>4, <4>1, <4>2, <4>3
    <3>3. ASSUME NEW q \in Readers PROVE InPlace(q)'
      <4>1. CASE q = r
        BY <3>1, <4>1 DEF TypeOK, InPlace
      <4>2. CASE q # r
        BY <2>3, <3>1, <4>2 DEF TypeOK, InPlace, Job
      <4> QED
        BY <4>1, <4>2
    <3>4. ChannelsInv'
      BY <2>3, <3>1 DEF TypeOK, ChannelsInv
    <3>5. ASSUME NEW j \in Jobs, Awaited(j) PROVE Awaited(j)'
      BY <3>1, <3>5 DEF TypeOK, Awaited, Job, Jobs
    <3>6. \A c \in Chans : \A k \in DOMAIN jobs[c] : jobs[c][k] \in Jobs
      BY <1>0
    <3>7. IrqJobsAwaited'
      BY <2>3, <3>1, <3>5, <3>6 DEF IrqJobsAwaited
    <3> QED
      BY <3>2, <3>3, <3>4, <3>7 DEF SharingInv
  <2>5. ASSUME Inside(r), tc_mutex' = tc_mutex, reads' = reads,
               \/ \E e \in {0, -1, -EINTR, -EINVAL} : Ends(r, e)
               \/ \E s \in Critical : Continues(r, s),
               ChannelsInv', InPlace(r)', IrqJobsAwaited'
        PROVE  SharingInv'
    <3>1. Ends(r, err'[r]) \/ \E s \in Critical : Continues(r, s)
      BY <2>5 DEF Ends, TypeOK
    <3>2. /\ OneTestAtATime'
          /\ \A q \in Readers : q # r => pc[q] \notin Critical /\ pc'[q] \notin Critical
      BY <2>3, <2>5, <3>1, StaysInside
    <3>3. \A q \in Readers : InPlace(q)'
      BY <2>5, <3>2 DEF InPlace
    <3> QED
      BY <2>5, <3>2, <3>3 DEF SharingInv
  <2>6. ASSUME Inside(r), pc[r] # "irq" \/ ~Queued(r, "tc_24"), UNCHANGED <<jobs, fault>>
        PROVE  IrqJobsAwaited'
    BY <2>2, <2>3, <2>6, NoIrqJobs DEF IrqJobsAwaited
  <2>7. ASSUME Inside(r) PROVE \A q \in Readers : pc[q] \in Critical => q = r
    BY <2>3, <2>7, AloneInside
  <2>8. CASE ScriptOrNop(r)
    <3>1. /\ pc[r] = "switch" /\ pc' = [pc EXCEPT ![r] = "print"]
          /\ \E e \in {0, -1, -EINTR, -EINVAL} : Ends(r, e)
          /\ UNCHANGED <<tc_mutex, reads, dmaVars, fault>>
      BY <2>8 DEF ScriptOrNop, Case, Ends
    <3>2. ChannelsInv' /\ InPlace(r)'
      BY <2>3, <3>1 DEF ChannelsInv, InPlace, TypeOK
    <3>3. Inside(r) /\ pc[r] # "irq"
      BY <3>1 DEF Inside
    <3> QED
      BY <2>5, <2>6, <3>1, <3>2, <3>3
  <2>9. CASE tc_22_req(r) \/ PlainStarts(r)
    <3>1. /\ pc[r] = "switch" /\ Request(r) /\ UNCHANGED <<tc_mutex, reads, fault>>
          /\ \/ Continues(r, "store")
             \/ own'[r] = NULL /\ Ends(r, -EINVAL)
             \/ own'[r] # NULL /\ Continues(r, "run")
      BY <2>9 DEF tc_22_req, PlainStarts, Case
    <3>2. /\ own'[r] \in free \/ (own'[r] = NULL /\ free = {})
          /\ free' = free \ {own'[r]} /\ UNCHANGED <<tc_22_25_chan, jobs, dropped>>
      BY <3>1, RequestType
    <3>3. Inside(r) /\ pc[r] # "irq"
      BY <3>1 DEF Inside
    <3>4. tc_22_25_chan \notin free
      BY <2>3, <2>7, <3>1, <3>3 DEF ChannelsInv
    <3>5. ChannelsInv'
      BY <2>3, <3>1, <3>2, <3>4 DEF ChannelsInv
    <3>6. InPlace(r)'
      <4>1. pc'[r] \in {"store", "print"} \/ (pc'[r] = "run" /\ own'[r] # NULL)
        BY <3>1 DEF Ends, Continues, TypeOK
      <4>2. \/ own'[r] \in Chans \ (free' \cup {tc_22_25_chan'}) /\ jobs'[own'[r]] = <<>>
            \/ own'[r] = NULL /\ free' = {}
        BY <1>0, <2>3, <3>2, <3>4 DEF ChannelsInv
      <4> QED
        BY <4>1, <4>2 DEF InPlace
    <3>7. \/ \E e \in {0, -1, -EINTR, -EINVAL} : Ends(r, e)
          \/ \E s \in Critical : Continues(r, s)
      BY <3>1
    <3> QED
      BY <2>5, <2>6, <3>1, <3>2, <3>3, <3>5, <3>6, <3>7
  <2>10. CASE tc_22_store(r)
    <3>1. /\ pc[r] = "store" /\ tc_22_25_chan' = own[r] /\ own' = [own EXCEPT ![r] = NULL]
          /\ (own[r] # NULL /\ Continues(r, "tc_23")) \/ (own[r] = NULL /\ Ends(r, -EINVAL))
          /\ UNCHANGED <<tc_mutex, reads, free, jobs, dropped, fault>>
      BY <2>10 DEF tc_22_store
    <3>2. Inside(r) /\ pc[r] # "irq"
      BY <3>1 DEF Inside
    <3>3. \/ own[r] \in Chans \ free /\ jobs[own[r]] = <<>>
          \/ own[r] = NULL /\ free = {}
      BY <2>3, <3>1 DEF InPlace
    <3>4. ChannelsInv'
      BY <2>3, <3>1, <3>3 DEF ChannelsInv
    <3>5. InPlace(r)'
      BY <3>1, <3>3 DEF InPlace, Ends, Continues, TypeOK
    <3>6. \/ \E e \in {0, -1, -EINTR, -EINVAL} : Ends(r, e)
          \/ \E s \in Critical : Continues(r, s)
      BY <3>1
    <3> QED
      BY <2>5, <2>6, <3>1, <3>2, <3>4, <3>5, <3>6
  <2>11. ASSUME NEW t \in {"tc_23", "tc_24"}, NEW prep \in {"prep_23", "prep_24"}, TestChan(r, t, prep)
         PROVE  SharingInv'
    <3>1. /\ pc[r] = t /\ UNCHANGED <<tc_mutex, reads, dmaVars, fault>>
          /\ Ends(r, -EINVAL) \/ Continues(r, prep)
      BY <2>11 DEF TestChan
    <3>2. Inside(r) /\ pc[r] # "irq"
      BY <3>1 DEF Inside
    <3>3. tc_22_25_chan \in Chans \ free /\ jobs[tc_22_25_chan] = <<>>
      BY <2>3, <3>1 DEF InPlace
    <3>4. ChannelsInv'
      BY <2>3, <3>1, <3>3 DEF ChannelsInv
    <3>5. InPlace(r)'
      BY <3>1, <3>3 DEF InPlace, Ends, Continues, TypeOK
    <3>6. \/ \E e \in {0, -1, -EINTR, -EINVAL} : Ends(r, e)
          \/ \E s \in Critical : Continues(r, s)
      BY <3>1
    <3> QED
      BY <2>5, <2>6, <3>1, <3>2, <3>4, <3>5, <3>6
  <2>12. ASSUME NEW t \in {"tc_23", "tc_24"}, NEW prep \in {"prep_23", "prep_24"},
                NEW place \in {"sleep", "irq"}, t = "tc_24" <=> place = "irq",
                SubmitJob(r, t, prep, place)
         PROVE  SharingInv'
    <3>1. /\ pc[r] = prep /\ Continues(r, place)
          /\ UNCHANGED <<signalled, tc_mutex, reads, own, tc_22_25_chan, free, dropped>>
      BY <2>12 DEF SubmitJob
    <3>2. Inside(r) /\ pc[r] # "irq"
      BY <3>1 DEF Inside
    <3>3. tc_22_25_chan \in Chans \ free /\ jobs[tc_22_25_chan] = <<>>
      BY <2>3, <3>1 DEF InPlace
    <3>4. fault' = fault /\ jobs' = [jobs EXCEPT ![tc_22_25_chan] = Append(<<>>, Job(r, t))]
      BY <1>0, <2>12, <3>3 DEF SubmitJob
    <3>5. /\ Append(<<>>, Job(r, t)) = <<Job(r, t)>>
          /\ jobs'[tc_22_25_chan] = <<Job(r, t)>>
          /\ \A d \in Chans : d # tc_22_25_chan => jobs'[d] = jobs[d]
      BY <1>0, <3>3, <3>4
    <3>6. pc'[r] = place /\ \A q \in Readers : q # r => pc'[q] = pc[q]
      BY <3>1 DEF Continues, TypeOK
    <3>7. ChannelsInv'
      BY <1>0, <2>3, <3>1, <3>3, <3>4, <3>5 DEF ChannelsInv
    <3>8. Job(r, t)' = Job(r, t)
      BY <3>1 DEF Job
    <3>9. InPlace(r)'
      <4>1. \A k \in DOMAIN jobs'[tc_22_25_chan] : jobs'[tc_22_25_chan][k] = Job(r, t)
        BY <3>5
      <4>2. place = "sleep" => t = "tc_23"
        BY <2>12
      <4>3. UNCHANGED <<tc_22_25_chan, free>> /\ Job(r, "tc_23")' = Job(r, "tc_23")
            /\ Job(r, "tc_24")' = Job(r, "tc_24")
        BY <3>1 DEF Job
      <4> QED
        BY <2>12, <3>3, <3>6, <4>1, <4>2, <4>3 DEF InPlace
    <3>10. IrqJobsAwaited'
      <4> SUFFICES ASSUME signalled = {} PROVE IrqJobsAwaited'
        BY <3>1 DEF IrqJobsAwaited
      <4>1. \A c \in Chans : \A k \in DOMAIN jobs[c] : jobs[c][k].test # "tc_24"
        BY <3>2, NoIrqJobs
      <4>2. Job(r, t).test = t /\ Job(r, t).reader = r
        BY DEF Job
      <4>3. \A c \in Chans : \A k \in DOMAIN jobs'[c] :
              jobs'[c][k].test = "tc_24" => jobs'[c][k] = Job(r, t) /\ t = "tc_24"
        BY <3>5, <4>1, <4>2
      <4>4. fault' # "stack"
        BY <2>3, <3>4 DEF IrqJobsAwaited
      <4>5. \A c \in Chans : \A k \in DOMAIN jobs'[c] :
              jobs'[c][k].test = "tc_24" => jobs'[c][k].reader = r /\ pc'[r] = "irq" /\ Job(r, "tc_24")' = jobs'[c][k]
        BY <2>12, <3>6, <3>8, <4>2, <4>3
      <4> QED
        BY <4>4, <4>5 DEF IrqJobsAwaited, Awaited
    <3> QED
      BY <2>5, <3>1, <3>2, <3>7, <3>9, <3>10
  <2>13. CASE tc_23_no_irq(r) \/ tc_24_irq(r) \/ tc_24_interrupted(r)
    <3>1. /\ pc[r] \in {"sleep", "irq"} /\ UNCHANGED <<tc_mutex, reads, dmaVars>>
          /\ fault' = IF tc_22_25_chan = NULL THEN "channel" ELSE fault
          /\ \/ ~Pending(r, IF pc[r] = "sleep" THEN "tc_23" ELSE "tc_24")
                /\ \E s \in {"tc_24", "tc_25"} : Continues(r, s)
             \/ Ends(r, -EINVAL)
      BY <2>13 DEF tc_23_no_irq, tc_24_irq, tc_24_interrupted, Compare
    <3>2. Inside(r)
      BY <3>1 DEF Inside
    <3>3. tc_22_25_chan \in Chans \ free /\ fault' = fault
      BY <1>0, <2>3, <3>1 DEF InPlace
    <3>4. ChannelsInv'
      BY <2>3, <3>1, <3>3 DEF ChannelsInv
    <3>5. ~Pending(r, IF pc[r] = "sleep" THEN "tc_23" ELSE "tc_24") => jobs[tc_22_25_chan] = <<>>
      <4> SUFFICES ASSUME jobs[tc_22_25_chan] # <<>>
                   PROVE  Queued(r, IF pc[r] = "sleep" THEN "tc_23" ELSE "tc_24")
        BY DEF Pending
      <4>1. 1 \in DOMAIN jobs[tc_22_25_chan]
        BY <1>0, <3>3
      <4>2. jobs[tc_22_25_chan][1] = Job(r, IF pc[r] = "sleep" THEN "tc_23" ELSE "tc_24")
        BY <2>3, <3>1, <4>1 DEF InPlace
      <4> QED
        BY <3>3, <4>1, <4>2 DEF Queued
    <3>6. InPlace(r)'
      <4>1. pc'[r] = "print" \/ (pc'[r] \in {"tc_24", "tc_25"} /\ jobs[tc_22_25_chan] = <<>>)
        BY <3>1, <3>5 DEF Ends, Continues, TypeOK
      <4> QED
        BY <3>1, <3>3, <4>1 DEF InPlace
    <3>7. IrqJobsAwaited'
      <4>1. CASE tc_24_interrupted(r)
        BY <4>1 DEF tc_24_interrupted, IrqJobsAwaited
      <4>2. CASE tc_23_no_irq(r) \/ tc_24_irq(r)
        <5>1. pc[r] # "irq" \/ ~Queued(r, "tc_24")
          BY <4>2 DEF tc_23_no_irq, tc_24_irq, Pending
        <5> QED
          BY <2>6, <3>1, <3>2, <3>3, <5>1
      <4> QED
        BY <2>13, <4>1, <4>2
    <3>8. \/ \E e \in {0, -1, -EINTR, -EINVAL} : Ends(r, e)
          \/ \E s \in Critical : Continues(r, s)
      BY <3>1
    <3> QED
      BY <2>5, <3>1, <3>2, <3>4, <3>6, <3>7, <3>8
  <2>14. CASE tc_25_free(r)
    <3>1. /\ pc[r] = "tc_25" /\ UNCHANGED <<tc_mutex, reads, tc_22_25_chan, free, jobs, dropped, fault>>
          /\ \/ tc_22_25_chan = NULL /\ Ends(r, -EINVAL)
             \/ own' = [own EXCEPT ![r] = tc_22_25_chan] /\ Continues(r, "release")
      BY <2>14 DEF tc_25_free
    <3>2. Inside(r) /\ pc[r] # "irq"
      BY <3>1 DEF Inside
    <3>3. tc_22_25_chan \in Chans \ free /\ jobs[tc_22_25_chan] = <<>>
      BY <2>3, <3>1 DEF InPlace
    <3>4. ChannelsInv'
      BY <2>3, <3>1, <3>3 DEF ChannelsInv
    <3>5. own' = [own EXCEPT ![r] = tc_22_25_chan] /\ Continues(r, "release")
      BY <1>0, <3>1, <3>3
    <3>6. pc'[r] = "release" /\ own'[r] = tc_22_25_chan
      BY <3>5 DEF Continues, TypeOK
    <3>7. InPlace(r)'
      BY <3>1, <3>3, <3>6 DEF InPlace
    <3> QED
      BY <2>5, <2>6, <3>1, <3>2, <3>4, <3>5, <3>7
  <2>15. CASE tc_25_release(r) \/ PlainReturns(r)
    <3>1. /\ own' = [own EXCEPT ![r] = NULL] /\ UNCHANGED <<tc_mutex, reads, tc_22_25_chan>>
          /\ \/ pc[r] = "release" /\ Continues(r, "clear") /\ \E c \in {own[r], tc_22_25_chan} : Release(c)
             \/ pc[r] = "run" /\ Release(own[r]) /\ \E e \in {0, -1} : Ends(r, e)
      BY <2>15 DEF tc_25_release, PlainReturns
    <3>2. Inside(r) /\ pc[r] # "irq"
      BY <3>1 DEF Inside
    <3>3. /\ own[r] \in Chans \ free /\ jobs[own[r]] = <<>> /\ Release(own[r])
          /\ pc[r] = "release" => own[r] = tc_22_25_chan
      BY <2>3, <3>1 DEF InPlace
    <3>4. free' = free \cup {own[r]} /\ jobs' = jobs /\ dropped' = dropped /\ fault' = fault
      BY <2>3, <3>3, ReleaseSafe
    <3>5. /\ pc[r] = "release" => pc'[r] = "clear" /\ tc_22_25_chan \in free'
          /\ pc[r] = "run" => pc'[r] = "print" /\ tc_22_25_chan \notin free'
      <4>1. pc[r] = "run" => own[r] # tc_22_25_chan /\ tc_22_25_chan \notin free
        BY <2>3, <2>7, <3>2 DEF InPlace, ChannelsInv
      <4> QED
        BY <3>1, <3>3, <3>4, <4>1 DEF Ends, Continues, TypeOK
    <3>6. ChannelsInv'
      <4>1. tc_22_25_chan' \in free' => \E q \in Readers : pc'[q] = "clear"
        BY <3>1, <3>5
      <4> QED
        BY <2>3, <3>3, <3>4, <4>1 DEF ChannelsInv
    <3>7. InPlace(r)'
      BY <3>1, <3>5 DEF InPlace
    <3>8. \/ \E e \in {0, -1, -EINTR, -EINVAL} : Ends(r, e)
          \/ \E s \in Critical : Continues(r, s)
      BY <3>1
    <3> QED
      BY <2>5, <2>6, <3>1, <3>2, <3>4, <3>6, <3>7, <3>8
  <2>16. CASE tc_25_clear(r)
    <3>1. /\ pc[r] = "clear" /\ Ends(r, 0) /\ tc_22_25_chan' = NULL
          /\ UNCHANGED <<tc_mutex, reads, own, free, jobs, dropped, fault>>
      BY <2>16 DEF tc_25_clear
    <3>2. Inside(r) /\ pc[r] # "irq"
      BY <3>1 DEF Inside
    <3>3. ChannelsInv'
      BY <1>0, <2>3, <3>1 DEF ChannelsInv
    <3>4. InPlace(r)'
      BY <3>1 DEF InPlace, Ends, TypeOK
    <3> QED
      BY <2>5, <2>6, <3>1, <3>2, <3>3, <3>4
  <2> QED
    BY <1>3, <2>1, <2>4, <2>8, <2>9, <2>10, <2>11, <2>12, <2>13, <2>14, <2>15, <2>16
       DEF d40_test_run, Interrupted
<1> QED
  BY <1>1, <1>2, <1>3 DEF Next

(* The facts that hold together in every behaviour.                        *)
LEMMA SharingInvariant == Spec => []SharingInv
BY TypeCorrect, InitSharing, StepSharing, PTL DEF Spec

(* Mutual exclusion: until a signal ends a sleep on it, tc_mutex is locked *)
(* exactly while one reader is between the lock and the unlock.            *)
THEOREM MutualExclusion == Spec => []OneTestAtATime
<1>1. SharingInv => OneTestAtATime
  BY DEF SharingInv
<1> QED
  BY <1>1, SharingInvariant, PTL

(* Until then the shared channel is not taken from under a reader, no job  *)
(* is thrown away and, unless tc_24's wait has been interrupted, no        *)
(* callback of tc_24 runs into a stack frame that is gone.                 *)
THEOREM SharedChannelSafe == Spec => []SharedChannelStable
<1>1. TypeOK /\ SharingInv => SharedChannelStable
  <2> SUFFICES ASSUME TypeOK, SharingInv, Sound PROVE SharedChannelStable
    BY DEF SharedChannelStable
  <2>1. "irq" \notin signalled => signalled = {}
    BY DEF TypeOK, Sound
  <2> QED
    BY <2>1 DEF SharedChannelStable, SharingInv, ChannelsInv, InPlace, IrqJobsAwaited
<1> QED
  BY <1>1, TypeCorrect, SharingInvariant, PTL

(* Readers do not get into each other's way: nobody runs a test case while *)
(* another does, or takes the shared channel from under it.                *)
THEOREM KeptApart == Spec => []ReadersApart
BY MutualExclusion, SharedChannelSafe, PTL DEF ReadersApart

(* Until a signal ends a sleep on the mutex no channel is free and in use  *)
(* at once or used by two, and none is released twice: for any readers,    *)
(* reads and channels, whichever tests are read and fail, and whether or   *)
(* not a signal ends the wait of tc_24.                                    *)
THEOREM ChannelAccounting == Spec => []ChannelsApart
<1>1. SharingInv => ChannelsApart
  BY DEF SharingInv, ChannelsApart, ChannelsInv, InPlace
<1> QED
  BY <1>1, SharingInvariant, PTL

(***************************************************************************)
(* The implementation of TestServer.                                       *)
(***************************************************************************)

(* Who has a channel reads a test case that takes one, and there is one to *)
(* be had.                                                                 *)
PlaceInv ==
  \A r \in Readers :
    /\ pc[r] = "run" => test_id[r] = "plain" /\ Chans # {}
    /\ pc[r] = "store" => test_id[r] = "tc_22_25"
    /\ pc[r] \in {"clear"} \cup Relying => test_id[r] = "tc_22_25" /\ Chans # {}

(* Only the switch, which looks at the test case, leads to these places.   *)
LEMMA StepPlace == TypeOK /\ TypeOK' /\ PlaceInv /\ [Next]_vars => PlaceInv'
<1> SUFFICES ASSUME TypeOK, TypeOK', PlaceInv, [Next]_vars PROVE PlaceInv'
  OBVIOUS
<1> USE DEF procVars, dmaVars
<1>1. CASE UNCHANGED vars \/ stedma40_test_init \/ stedma40_test_exit \/ \E c \in Chans : JobFinishes(c)
  BY <1>1 DEF vars, stedma40_test_init, stedma40_test_exit, JobFinishes, PlaceInv
<1>2. ASSUME NEW r \in Readers,
             d40_debugfs_open(r) \/ d40_test_run(r) \/ Interrupted(r)
      PROVE  PlaceInv'
  <2>1. ASSUME NEW s, pc' = [pc EXCEPT ![r] = s], test_id' = test_id,
               s = "run" => test_id[r] = "plain" /\ Chans # {},
               s = "store" => test_id[r] = "tc_22_25",
               s \in {"clear"} \cup Relying => test_id[r] = "tc_22_25" /\ Chans # {}
        PROVE  PlaceInv'
    BY <2>1 DEF TypeOK, PlaceInv
  <2>2. CASE d40_debugfs_open(r)
    BY <2>2 DEF d40_debugfs_open, TypeOK, PlaceInv
  <2>3. CASE MutexLock(r) \/ MutexInterrupted(r) \/ MutexUnlock(r) \/ ScriptOrNop(r)
             \/ PlainReturns(r)
    <3>1. test_id' = test_id /\ \E s \in {"switch", "print", "out"} : pc' = [pc EXCEPT ![r] = s]
      BY <2>3 DEF MutexLock, MutexInterrupted, MutexUnlock, ScriptOrNop, PlainReturns, Ends
    <3> QED
      BY <2>1, <3>1
  <2>4. CASE tc_22_req(r) \/ PlainStarts(r) \/ tc_22_store(r)
    <3>1. Chans = {} => own[r] = NULL /\ own'[r] = NULL
      BY DEF TypeOK
    <3>2. /\ test_id' = test_id
          /\ \/ pc' = [pc EXCEPT ![r] = "print"]
             \/ pc' = [pc EXCEPT ![r] = "store"] /\ test_id[r] = "tc_22_25"
             \/ pc' = [pc EXCEPT ![r] = "tc_23"] /\ test_id[r] = "tc_22_25" /\ own[r] # NULL
             \/ pc' = [pc EXCEPT ![r] = "run"] /\ test_id[r] = "plain" /\ own'[r] # NULL
      BY <2>4 DEF tc_22_req, tc_22_store, PlainStarts, Case, Ends, Continues, PlaceInv
    <3> QED
      BY <2>1, <3>1, <3>2
  <2>5. CASE \/ TestChan(r, "tc_23", "prep_23") \/ SubmitJob(r, "tc_23", "prep_23", "sleep")
             \/ TestChan(r, "tc_24", "prep_24") \/ SubmitJob(r, "tc_24", "prep_24", "irq")
             \/ tc_23_no_irq(r) \/ tc_24_irq(r) \/ tc_24_interrupted(r)
             \/ tc_25_free(r) \/ tc_25_release(r) \/ tc_25_clear(r)
    <3>1. /\ test_id' = test_id /\ pc[r] \in {"clear"} \cup Relying
          /\ \E s \in {"print", "clear"} \cup Relying : pc' = [pc EXCEPT ![r] = s]
      BY <2>5 DEF TestChan, SubmitJob, tc_23_no_irq, tc_24_irq, tc_24_interrupted, tc_25_free,
                  tc_25_release, tc_25_clear, Compare, Ends, Continues
    <3>2. test_id[r] = "tc_22_25" /\ Chans # {}
      BY <3>1 DEF PlaceInv
    <3> QED
      BY <2>1, <3>1, <3>2
  <2> QED
    BY <1>2, <2>2, <2>3, <2>4, <2>5 DEF d40_test_run, Interrupted
<1> QED
  BY <1>1, <1>2 DEF Next

(* Alone inside, a reader with a channel or without determines what is     *)
(* kept.                                                                   *)
LEMMA KeptAlone ==
  ASSUME OneTestAtATime, Sound, NEW r \in Readers, Inside(r)
  PROVE  Kept = (free \cup Using(r)) \ {NULL}
<1>1. \A q \in Readers : q # r => Using(q) = {}
  BY AloneInside DEF Using
<1> QED
  BY <1>1 DEF Kept

(* The same after a step of that reader.                                   *)
LEMMA KeptAlonePrime ==
  ASSUME OneTestAtATime', Sound', NEW r \in Readers, Inside(r)'
  PROVE  Kept' = (free' \cup Using(r)') \ {NULL}
<1>1. \A q \in Readers : q # r => pc'[q] \notin Critical
  BY DEF OneTestAtATime, Inside
<1>2. \A q \in Readers : q # r => Using(q)' = {}
  BY <1>1 DEF Using
<1> QED
  BY <1>2 DEF Kept, NULL

(* A step from a place without a channel to another changes nothing.       *)
LEMMA KeptSame ==
  ASSUME TypeOK, NEW r \in Readers, NEW s, pc' = [pc EXCEPT ![r] = s],
         pc[r] \notin {"run", "store"} \cup Relying, s \notin {"run", "store"} \cup Relying,
         UNCHANGED <<own, tc_22_25_chan, free>>
  PROVE  Kept' = Kept
<1>1. \A q \in Readers : Using(q)' = Using(q)
  BY DEF TypeOK, Using
<1> QED
  BY <1>1 DEF Kept, NULL

(* What is kept after a step are channels.                                 *)
LEMMA KeptChans == TypeOK' => Kept' \in SUBSET Chans
<1> SUFFICES ASSUME TypeOK' PROVE Kept' \in SUBSET Chans
  OBVIOUS
<1>1. \A r \in Readers : Using(r)' \subseteq Chans \cup {NULL}
  BY DEF TypeOK, Using, Chans, NULL
<1>2. UNION {Using(r)' : r \in Readers} \subseteq Chans \cup {NULL}
  BY <1>1
<1>3. free' \subseteq Chans
  BY DEF TypeOK, Chans
<1> QED
  BY <1>2, <1>3 DEF Kept

(* The server hears of a signal at most once and for good.                 *)
Disturbed == IF Sound THEN 0 ELSE 1

(* A reader's test case ends, with an effect the server may have: the      *)
(* server serves the read.                                                 *)
LEMMA Served ==
  ASSUME TypeOK, TypeOK', NEW r \in Readers, pc[r] \notin {"out", "print"},
         NEW e \in {0, -1, -EINTR, -EINVAL}, Ends(r, e),
         UNCHANGED <<test_id, answer>>, Sound' => Sound,
         \/ Server!Effect(test_id[r], Kept, e, Kept')
         \/ ~Sound' /\ Server!Unaccounted(test_id[r], e)
  PROVE  Server!Serve(r)
<1> DEFINE asked == [q \in Readers |-> IF pc[q] = "out" THEN "nothing" ELSE test_id[q]]
           result == [q \in Readers |-> IF pc[q] = "print" THEN err[q] ELSE 1]
<1>1. pc' = [pc EXCEPT ![r] = "print"] /\ err' = [err EXCEPT ![r] = e]
  BY DEF Ends
<1>2. /\ pc \in [Readers -> {"out", "lock"} \cup Critical]
      /\ err \in [Readers -> {0, -1, -EINTR, -EINVAL}] /\ test_id[r] \in Tests
  BY DEF TypeOK
<1>3. asked[r] = test_id[r] /\ asked[r] # "nothing" /\ result[r] = 1
  BY <1>2 DEF Tests
<1>4. asked' = asked
  BY <1>1, <1>2
<1>5. result' = [result EXCEPT ![r] = e]
  BY <1>1, <1>2
<1>6. Kept' \in SUBSET Server!Chans
  BY KeptChans DEF Server!Chans, Chans
<1>7. Disturbed' \in {Disturbed, 1} /\ (~Sound' => Disturbed' = 1)
  BY DEF Disturbed
<1> HIDE DEF asked, result
<1> QED
  BY <1>3, <1>4, <1>5, <1>6, <1>7
     DEF Server!Serve, Server!PENDING, Server!EINVAL, Server!EINTR, asked, result, Disturbed

(* A reader steps from one place between the beginning of its read and the *)
(* end of its test case to another: nothing happens to the server but that *)
(* it may hear of a signal.                                                *)
LEMMA Works ==
  ASSUME TypeOK, TypeOK', NEW r \in Readers, pc[r] \notin {"out", "print"},
         NEW s, s \notin {"out", "print"}, pc' = [pc EXCEPT ![r] = s],
         err' = err \/ err' = [err EXCEPT ![r] = 0],
         UNCHANGED <<test_id, answer>>, Sound' => Sound /\ Kept' = Kept
  PROVE  UNCHANGED Server!vars \/ Server!Disturb
<1> DEFINE asked == [q \in Readers |-> IF pc[q] = "out" THEN "nothing" ELSE test_id[q]]
           result == [q \in Readers |-> IF pc[q] = "print" THEN err[q] ELSE 1]
<1>1. /\ pc \in [Readers -> {"out", "lock"} \cup Critical]
      /\ err \in [Readers -> {0, -1, -EINTR, -EINVAL}]
  BY DEF TypeOK
<1>2. asked' = asked
  BY <1>1
<1>3. result' = result
  BY <1>1
<1>4. Kept' \in SUBSET Server!Chans
  BY KeptChans DEF Server!Chans, Chans
<1> HIDE DEF asked, result
<1>5. CASE Sound'
  BY <1>2, <1>3, <1>5 DEF Server!vars, asked, result
<1>6. CASE ~Sound'
  BY <1>2, <1>3, <1>4, <1>6 DEF Server!Disturb, asked, result
<1> QED
  BY <1>5, <1>6

(* Whatever the channels are by now, a test case ends as it may.           *)
LEMMA EndsAsItMay ==
  ASSUME NEW t, NEW e,
         \/ t = "plain" /\ Chans # {} /\ e \in {0, -1}
         \/ t = "tc_22_25" /\ Chans # {} /\ e = 0
         \/ t \in {"plain", "tc_22_25"} /\ e = -EINVAL
         \/ e = -EINTR
  PROVE  Server!Unaccounted(t, e)
<1>1. Server!Chans = Chans
  BY DEF Chans, Server!Chans
<1>2. CASE e = -EINTR
  BY <1>2 DEF Server!Unaccounted, Server!EINTR
<1>3. CASE e # -EINTR /\ e # -EINVAL
  <2>1. Server!Effect(t, Chans, e, Chans)
    BY <1>3 DEF Server!Effect
  <2> QED
    BY <1>1, <2>1 DEF Server!Unaccounted
<1>4. CASE e = -EINVAL
  <2>1. Server!Effect(t, {}, e, {})
    BY <1>4 DEF Server!Effect, Server!EINVAL
  <2> QED
    BY <1>1, <2>1 DEF Server!Unaccounted
<1> QED
  BY <1>2, <1>3, <1>4

(* Every step is one of the server, or none.                               *)
LEMMA StepServer ==
  TypeOK /\ TypeOK' /\ SharingInv /\ SharingInv' /\ PlaceInv /\ [Next]_vars
    => [Server!Next]_(Server!vars)
<1> SUFFICES ASSUME TypeOK, TypeOK', SharingInv, SharingInv', PlaceInv, [Next]_vars
             PROVE  Server!Next \/ UNCHANGED Server!vars
  OBVIOUS
<1> USE DEF procVars, dmaVars
<1>0. NULL \notin Chans /\ NULL' = NULL /\ Chans' = Chans
  BY ReadersAssumption DEF NULL, Chans
<1>1. CASE UNCHANGED vars \/ stedma40_test_init \/ stedma40_test_exit \/ \E c \in Chans : JobFinishes(c)
  <2>1. UNCHANGED <<procVars, signalled, free, own, tc_22_25_chan>>
    BY <1>1 DEF vars, stedma40_test_init, stedma40_test_exit, JobFinishes
  <2>2. Kept' = Kept
    BY <2>1 DEF Kept, Using, NULL
  <2> QED
    BY <2>1, <2>2 DEF Server!vars, Sound
<1>2. ASSUME NEW r \in Readers,
             d40_debugfs_open(r) \/ d40_test_run(r) \/ Interrupted(r)
      PROVE  Server!Next \/ UNCHANGED Server!vars
  <2>1. ASSUME Server!Serve(r) \/ Server!Ask(r) \/ Server!Reply(r) \/ Server!Disturb
        PROVE  Server!Next
    BY <2>1 DEF Server!Next
  <2>2. Sound' => Sound
    BY <1>2 DEF Sound, d40_debugfs_open, d40_test_run, Interrupted, MutexInterrupted, MutexLock,
       MutexUnlock, tc_22_req, tc_22_store, TestChan, SubmitJob, tc_23_no_irq, tc_24_irq,
       tc_24_interrupted, tc_25_free, tc_25_release, tc_25_clear, PlainStarts, PlainReturns, ScriptOrNop
  <2>3. ASSUME pc[r] \notin {"out", "print"}, NEW e \in {0, -1, -EINTR, -EINVAL}, Ends(r, e),
               UNCHANGED <<test_id, answer>>,
               \/ Server!Effect(test_id[r], Kept, e, Kept')
               \/ ~Sound' /\ Server!Unaccounted(test_id[r], e)
        PROVE  Server!Next
    <3>1. Server!Serve(r)
      BY <2>2, <2>3, Served
    <3> QED
      BY <2>1, <3>1
  <2>4. ASSUME pc[r] \notin {"out", "print"}, NEW s, s \notin {"out", "print"}, Continues(r, s),
               UNCHANGED <<test_id, answer>>, Sound' => Kept' = Kept
        PROVE  Server!Next \/ UNCHANGED Server!vars
    <3>1. UNCHANGED Server!vars \/ Server!Disturb
      BY <2>2, <2>4, Works DEF Continues
    <3> QED
      BY <2>1, <3>1
  <2>5. ASSUME Sound', Inside(r), pc'[r] \in Critical
        PROVE  /\ Kept = (free \cup Using(r)) \ {NULL}
               /\ Kept' = (free' \cup Using(r)') \ {NULL}
               /\ InPlace(r) /\ ChannelsInv
    <3>1. OneTestAtATime /\ OneTestAtATime' /\ Sound
      BY <2>2, <2>5 DEF SharingInv
    <3>2. Kept = (free \cup Using(r)) \ {NULL}
      BY <2>5, <3>1, KeptAlone
    <3>3. Inside(r)'
      BY <2>5 DEF Inside
    <3>4. Kept' = (free' \cup Using(r)') \ {NULL}
      BY <2>5, <3>1, <3>3, KeptAlonePrime
    <3> QED
      BY <3>1, <3>2, <3>4 DEF SharingInv
  <2>6. free \subseteq Chans /\ pc \in [Readers -> {"out", "lock"} \cup Critical]
    BY DEF TypeOK
  <2>7. CASE d40_debugfs_open(r)
    <3>1. /\ pc[r] = "out" /\ pc' = [pc EXCEPT ![r] = "lock"]
          /\ UNCHANGED <<signalled, err, answer, own, tc_22_25_chan, free>>
      BY <2>7 DEF d40_debugfs_open
    <3>2. PICK t \in Tests : test_id' = [test_id EXCEPT ![r] = t]
      BY <2>7 DEF d40_debugfs_open
    <3>3. Kept' = Kept
      BY <3>1, KeptSame
    <3>4. /\ pc \in [Readers -> {"out", "lock"} \cup Critical] /\ test_id \in [Readers -> Tests]
          /\ Server!Tests = Tests
      BY DEF TypeOK, Tests, Server!Tests
    <3>5. Server!Ask(r)
      BY <3>1, <3>2, <3>3, <3>4 DEF Server!Ask, Sound
    <3> QED
      BY <2>1, <3>5
  <2>8. CASE MutexUnlock(r)
    <3>1. /\ pc[r] = "print" /\ pc' = [pc EXCEPT ![r] = "out"]
          /\ answer' = [answer EXCEPT ![r] = Answer(r)]
          /\ UNCHANGED <<signalled, err, test_id, own, tc_22_25_chan, free>>
      BY <2>8 DEF MutexUnlock
    <3>2. Kept' = Kept
      BY <3>1, KeptSame
    <3>3. /\ pc \in [Readers -> {"out", "lock"} \cup Critical] /\ test_id \in [Readers -> Tests]
          /\ err[r] \in {0, -1, -EINTR, -EINVAL}
      BY DEF TypeOK
    <3>4. Answer(r) = Server!Line(test_id[r], err[r])
      BY DEF Answer, Server!Line
    <3>5. Server!Reply(r)
      <4> DEFINE asked == [q \in Readers |-> IF pc[q] = "out" THEN "nothing" ELSE test_id[q]]
                 result == [q \in Readers |-> IF pc[q] = "print" THEN err[q] ELSE 1]
      <4>1. asked[r] = test_id[r] /\ result[r] = err[r] /\ result[r] # 1
        BY <3>1, <3>3
      <4>2. asked' = [asked EXCEPT ![r] = "nothing"]
        BY <3>1, <3>3
      <4>3. result' = [result EXCEPT ![r] = 1]
        BY <3>1, <3>3
      <4>4. answer' = [answer EXCEPT ![r] = Server!Line(asked[r], result[r])]
        BY <3>1, <3>4, <4>1
      <4>5. UNCHANGED <<Kept, Disturbed>>
        BY <3>1, <3>2 DEF Disturbed, Sound
      <4> HIDE DEF asked, result
      <4> QED
        BY <4>1, <4>2, <4>3, <4>4, <4>5 DEF Server!Reply, Server!PENDING, asked, result, Disturbed
    <3> QED
      BY <2>1, <3>5
  <2>9. CASE MutexLock(r)
    <3>1. /\ pc[r] = "lock" /\ pc' = [pc EXCEPT ![r] = "switch"] /\ err' = [err EXCEPT ![r] = 0]
          /\ UNCHANGED <<signalled, test_id, answer, own, tc_22_25_chan, free>>
      BY <2>9 DEF MutexLock
    <3>2. Kept' = Kept
      BY <3>1, KeptSame
    <3>3. UNCHANGED Server!vars \/ Server!Disturb
      BY <2>2, <3>1, <3>2, Works
    <3> QED
      BY <2>1, <3>3
  <2>10. CASE MutexInterrupted(r)
    <3>1. /\ pc[r] = "lock" /\ Ends(r, -EINTR) /\ ~Sound' /\ UNCHANGED <<test_id, answer>>
      BY <2>10 DEF MutexInterrupted, Ends, Sound
    <3>2. Server!Unaccounted(test_id[r], -EINTR)
      BY EndsAsItMay
    <3> QED
      BY <2>3, <3>1, <3>2
  <2>11. CASE ScriptOrNop(r)
    <3>1. PICK e \in (IF test_id[r] = "script" THEN {0, -EINVAL} ELSE {0}) : Ends(r, e)
      BY <2>11 DEF ScriptOrNop
    <3>2. /\ pc[r] = "switch" /\ test_id[r] \in {"script", "removed"}
          /\ UNCHANGED <<test_id, answer, own, tc_22_25_chan, free>>
      BY <2>11 DEF ScriptOrNop, Case
    <3>3. Kept' = Kept
      BY <3>1, <3>2, KeptSame DEF Ends
    <3>4. Server!Effect(test_id[r], Kept, e, Kept')
      BY <3>1, <3>2, <3>3 DEF Server!Effect, Server!EINVAL
    <3> QED
      BY <2>3, <3>1, <3>2, <3>4
  <2>12. CASE PlainStarts(r) \/ tc_22_req(r)
    <3>1. /\ pc[r] = "switch" /\ Request(r) /\ UNCHANGED <<test_id, answer>>
          /\ \/ Continues(r, "store")
             \/ test_id[r] = "plain" /\ own'[r] = NULL /\ Ends(r, -EINVAL)
             \/ Continues(r, "run")
      BY <2>12 DEF PlainStarts, tc_22_req, Case
    <3>2. own'[r] \in free \/ (own'[r] = NULL /\ free = {})
      BY <3>1, RequestType
    <3>3. free' = free \ {own'[r]}
      BY <3>1, RequestType
    <3>4. Inside(r) /\ Using(r) = {}
      BY <3>1 DEF Inside, Using
    <3>5. CASE Continues(r, "store") \/ Continues(r, "run")
      <4>1. PICK s \in {"store", "run"} : Continues(r, s)
        BY <3>5
      <4>2. pc'[r] \in {"store", "run"}
        BY <2>6, <4>1 DEF Continues
      <4>3. Sound' => Kept' = Kept
        <5> SUFFICES ASSUME Sound' PROVE Kept' = Kept
          OBVIOUS
        <5>1. Kept = (free \cup Using(r)) \ {NULL} /\ Kept' = (free' \cup Using(r)') \ {NULL}
          BY <2>5, <3>4, <4>2
        <5>2. Using(r)' = {own'[r]}
          BY <4>2 DEF Using
        <5> QED
          BY <1>0, <2>6, <3>2, <3>3, <3>4, <5>1, <5>2
      <4> QED
        BY <2>4, <3>1, <4>1, <4>3
    <3>6. CASE test_id[r] = "plain" /\ own'[r] = NULL /\ Ends(r, -EINVAL)
      <4>1. pc'[r] = "print"
        BY <2>6, <3>6 DEF Ends
      <4>2. Sound' => Server!Effect(test_id[r], Kept, -EINVAL, Kept')
        <5> SUFFICES ASSUME Sound' PROVE Server!Effect(test_id[r], Kept, -EINVAL, Kept')
          OBVIOUS
        <5>1. Kept = (free \cup Using(r)) \ {NULL} /\ Kept' = (free' \cup Using(r)') \ {NULL}
          BY <2>5, <3>4, <4>1
        <5>2. Using(r)' = {} /\ free = {}
          BY <1>0, <2>6, <3>2, <3>6, <4>1 DEF Using
        <5>3. Kept = {} /\ Kept' = {}
          BY <3>3, <3>4, <5>1, <5>2
        <5> QED
          BY <3>6, <5>3 DEF Server!Effect, Server!EINVAL
      <4>3. Server!Unaccounted(test_id[r], -EINVAL)
        BY <3>6, EndsAsItMay
      <4> QED
        BY <2>3, <3>1, <3>6, <4>2, <4>3
    <3> QED
      BY <3>1, <3>5, <3>6
  <2>13. CASE tc_22_store(r)
    <3>1. /\ pc[r] = "store" /\ UNCHANGED <<test_id, answer, free>> /\ tc_22_25_chan' = own[r]
          /\ \/ Continues(r, "tc_23")
             \/ own[r] = NULL /\ Ends(r, -EINVAL)
      BY <2>13 DEF tc_22_store
    <3>2. Inside(r) /\ Using(r) = {own[r]} /\ test_id[r] = "tc_22_25"
      BY <3>1 DEF Inside, Using, PlaceInv
    <3>3. CASE Continues(r, "tc_23")
      <4>1. pc'[r] = "tc_23" /\ Using(r)' = {own[r]}
        BY <2>6, <3>1, <3>3 DEF Continues, Using
      <4>2. Sound' => Kept' = Kept
        BY <2>5, <3>1, <3>2, <4>1
      <4> QED
        BY <2>4, <3>1, <3>3, <4>2
    <3>4. CASE own[r] = NULL /\ Ends(r, -EINVAL)
      <4>1. pc'[r] = "print" /\ Using(r)' = {}
        BY <2>6, <3>4 DEF Ends, Using
      <4>2. Sound' => Server!Effect(test_id[r], Kept, -EINVAL, Kept')
        <5> SUFFICES ASSUME Sound' PROVE Server!Effect(test_id[r], Kept, -EINVAL, Kept')
          OBVIOUS
        <5>1. /\ Kept = (free \cup Using(r)) \ {NULL} /\ Kept' = (free' \cup Using(r)') \ {NULL}
              /\ InPlace(r)
          BY <2>5, <3>2, <4>1
        <5>2. free = {}
          BY <1>0, <3>1, <3>4, <5>1 DEF InPlace
        <5>3. Kept = {} /\ Kept' = {}
          BY <3>1, <3>2, <3>4, <4>1, <5>1, <5>2
        <5> QED
          BY <3>2, <5>3 DEF Server!Effect, Server!EINVAL
      <4>3. Server!Unaccounted(test_id[r], -EINVAL)
        BY <3>2, EndsAsItMay
      <4> QED
        BY <2>3, <3>1, <3>4, <4>2, <4>3
    <3> QED
      BY <3>1, <3>3, <3>4
  <2>14. CASE \/ TestChan(r, "tc_23", "prep_23") \/ SubmitJob(r, "tc_23", "prep_23", "sleep")
              \/ TestChan(r, "tc_24", "prep_24") \/ SubmitJob(r, "tc_24", "prep_24", "irq")
              \/ tc_23_no_irq(r) \/ tc_24_irq(r) \/ tc_24_interrupted(r) \/ tc_25_free(r)
    <3>1. /\ pc[r] \in Relying /\ UNCHANGED <<test_id, answer, tc_22_25_chan, free>>
          /\ Ends(r, -EINVAL) \/ \E s \in Relying : Continues(r, s)
      <4>1. CASE \/ TestChan(r, "tc_23", "prep_23") \/ SubmitJob(r, "tc_23", "prep_23", "sleep")
                 \/ TestChan(r, "tc_24", "prep_24") \/ SubmitJob(r, "tc_24", "prep_24", "irq")
        BY <4>1 DEF TestChan, SubmitJob
      <4>2. CASE tc_23_no_irq(r) \/ tc_24_irq(r) \/ tc_24_interrupted(r) \/ tc_25_free(r)
        BY <4>2 DEF tc_23_no_irq, tc_24_irq, tc_24_interrupted, tc_25_free, Compare
      <4> QED
        BY <2>14, <4>1, <4>2
    <3>2. Inside(r) /\ Using(r) = {tc_22_25_chan} /\ test_id[r] = "tc_22_25"
      BY <3>1 DEF Inside, Using, PlaceInv
    <3>3. ASSUME NEW s \in Relying, Continues(r, s) PROVE Server!Next \/ UNCHANGED Server!vars
      <4>1. pc'[r] = s /\ Using(r)' = {tc_22_25_chan}
        BY <2>6, <3>1, <3>3 DEF Continues, Using
      <4>2. Sound' => Kept' = Kept
        BY <2>5, <3>1, <3>2, <4>1
      <4> QED
        BY <2>4, <3>1, <3>3, <4>2
    <3>4. CASE Ends(r, -EINVAL)
      <4>1. pc'[r] = "print" /\ Using(r)' = {}
        BY <2>6, <3>4 DEF Ends, Using
      <4>2. Sound' => Server!Effect(test_id[r], Kept, -EINVAL, Kept')
        <5> SUFFICES ASSUME Sound' PROVE Server!Effect(test_id[r], Kept, -EINVAL, Kept')
          OBVIOUS
        <5>1. /\ Kept = (free \cup Using(r)) \ {NULL} /\ Kept' = (free' \cup Using(r)') \ {NULL}
              /\ InPlace(r)
          BY <2>5, <3>2, <4>1
        <5>2. tc_22_25_chan \in Chans \ free
          BY <3>1, <5>1 DEF InPlace
        <5>3. tc_22_25_chan \in Kept /\ Kept' = Kept \ {tc_22_25_chan}
          BY <1>0, <2>6, <3>1, <3>2, <4>1, <5>1, <5>2
        <5> QED
          BY <3>2, <5>3 DEF Server!Effect, Server!EINVAL
      <4>3. Server!Unaccounted(test_id[r], -EINVAL)
        BY <3>2, EndsAsItMay
      <4> QED
        BY <2>3, <3>1, <3>4, <4>2, <4>3
    <3> QED
      BY <3>1, <3>3, <3>4
  <2>15. CASE tc_25_release(r)
    <3>1. /\ pc[r] = "release" /\ Continues(r, "clear") /\ UNCHANGED <<test_id, answer, tc_22_25_chan>>
          /\ \E c \in {own[r], tc_22_25_chan} : Release(c)
      BY <2>15 DEF tc_25_release
    <3>2. Inside(r) /\ Using(r) = {tc_22_25_chan} /\ pc'[r] = "clear" /\ Using(r)' = {}
      BY <2>6, <3>1 DEF Inside, Using, Continues
    <3>3. Sound' => Kept' = Kept
      <4> SUFFICES ASSUME Sound' PROVE Kept' = Kept
        OBVIOUS
      <4>1. /\ Kept = (free \cup Using(r)) \ {NULL} /\ Kept' = (free' \cup Using(r)') \ {NULL}
            /\ InPlace(r)
        BY <2>5, <3>2
      <4>2. own[r] = tc_22_25_chan
        BY <3>1, <4>1 DEF InPlace
      <4>3. free' = (free \cup {tc_22_25_chan}) \ {NULL}
        BY <3>1, <4>2 DEF Release
      <4> QED
        BY <3>2, <4>1, <4>3
    <3> QED
      BY <2>4, <3>1, <3>3
  <2>16. CASE tc_25_clear(r)
    <3>1. pc[r] = "clear" /\ Ends(r, 0) /\ UNCHANGED <<test_id, answer, free>>
      BY <2>16 DEF tc_25_clear
    <3>2. /\ Inside(r) /\ Using(r) = {} /\ pc'[r] = "print" /\ Using(r)' = {}
          /\ test_id[r] = "tc_22_25" /\ Chans # {}
      BY <2>6, <3>1 DEF Inside, Using, Ends, PlaceInv
    <3>3. Sound' => Server!Effect(test_id[r], Kept, 0, Kept')
      <4> SUFFICES ASSUME Sound' PROVE Server!Effect(test_id[r], Kept, 0, Kept')
        OBVIOUS
      <4>1. /\ Kept = (free \cup Using(r)) \ {NULL} /\ Kept' = (free' \cup Using(r)') \ {NULL}
            /\ InPlace(r)
        BY <2>5, <3>2
      <4>2. tc_22_25_chan \in free
        BY <3>1, <4>1 DEF InPlace
      <4>3. Kept # {} /\ Kept' = Kept
        BY <1>0, <2>6, <3>1, <3>2, <4>1, <4>2
      <4> QED
        BY <3>2, <4>3 DEF Server!Effect
    <3>4. Server!Unaccounted(test_id[r], 0)
      BY <3>2, EndsAsItMay
    <3> QED
      BY <2>3, <3>1, <3>3, <3>4
  <2>17. CASE PlainReturns(r)
    <3>1. PICK e \in {0, -1} : Ends(r, e)
      BY <2>17 DEF PlainReturns
    <3>2. pc[r] = "run" /\ Release(own[r]) /\ UNCHANGED <<test_id, answer>>
      BY <2>17 DEF PlainReturns
    <3>3. /\ Inside(r) /\ Using(r) = {own[r]} /\ pc'[r] = "print" /\ Using(r)' = {}
          /\ test_id[r] = "plain" /\ Chans # {}
      BY <2>6, <3>1, <3>2 DEF Inside, Using, Ends, PlaceInv
    <3>4. Sound' => Server!Effect(test_id[r], Kept, e, Kept')
      <4> SUFFICES ASSUME Sound' PROVE Server!Effect(test_id[r], Kept, e, Kept')
        OBVIOUS
      <4>1. /\ Kept = (free \cup Using(r)) \ {NULL} /\ Kept' = (free' \cup Using(r)') \ {NULL}
            /\ InPlace(r)
        BY <2>5, <3>3
      <4>2. own[r] \in Chans /\ free' = (free \cup {own[r]}) \ {NULL}
        BY <3>2, <4>1 DEF InPlace, Release
      <4>3. Kept # {} /\ Kept' = Kept
        BY <1>0, <3>3, <4>1, <4>2
      <4> QED
        BY <3>1, <3>3, <4>3 DEF Server!Effect
    <3>5. Server!Unaccounted(test_id[r], e)
      BY <3>1, <3>3, EndsAsItMay
    <3> QED
      BY <2>3, <3>1, <3>2, <3>4, <3>5
  <2> QED
    BY <1>2, <2>7, <2>8, <2>9, <2>10, <2>11, <2>12, <2>13, <2>14, <2>15, <2>16, <2>17
       DEF d40_test_run, Interrupted
<1> QED
  BY <1>1, <1>2 DEF Next

(* The debugfs side implements the server: whoever reads what, each read   *)
(* has its whole effect at one moment, and until a signal ends a sleep on  *)
(* the mutex none is refused but for want of a channel.                    *)
THEOREM ServerRefinement == Spec => ImplementsServer
<1>1. Init => Server!Init
  <2> SUFFICES ASSUME Init PROVE Server!Init
    OBVIOUS
  <2>1. \A r \in Readers : Using(r) = {}
    BY DEF Init, Using
  <2>2. Kept = Chans /\ Server!Chans = Chans
    BY <2>1, ReadersAssumption DEF Kept, Init, Chans, NULL, Server!Chans
  <2> QED
    BY <2>2 DEF Init, Server!Init, Server!PENDING, Sound
<1>2. Init => PlaceInv
  BY DEF Init, PlaceInv
<1>3. TypeOK /\ TypeOK' /\ SharingInv /\ SharingInv' /\ PlaceInv /\ [Next]_vars
        => [Server!Next]_(Server!vars)
  BY StepServer
<1> QED
  BY <1>1, <1>2, <1>3, StepPlace, TypeCorrect, SharingInvariant, PTL
     DEF Spec, ImplementsServer, Server!Spec
=============================================================================
