------------------------------- MODULE TcLink -------------------------------
(***************************************************************************)
(* tc_link_core, the body of tc_55 .. tc_69: several scatter-gather jobs,  *)
(* each with a buffer list of its own, prepared on ONE channel that the    *)
(* first list requests and the others borrow, then submitted together or   *)
(* one by one.  Neither a work queue nor a time-out is involved.           *)
(***************************************************************************)
EXTENDS Integers, FiniteSets

CONSTANT
  Links   \* the test cases: records [jobs, start_in_sequence]

ASSUME LinksAssumption ==
  Links \subseteq [jobs : Nat \ {0}, start_in_sequence : BOOLEAN]

EINVAL == 22

VARIABLES
  cfg,        \* the test case being run (never changes)
  pc,         \* where tc_link_core is
  i,          \* its loop index, from 1 here
  tc,         \* the array of tc_links: "none", "alloc" or "freed"
  dma_chan,   \* the local of that name: "NULL" or "chan"
  chan,       \* dma_request_channel calls minus dma_release_channel calls
  list,       \* per job, its buflist: "none", "alloc" or "freed"
  mapped,     \* per job, dma_map_sg calls minus dma_unmap_sg calls
  job,        \* per job: "none", "prepared", "submitted", "issued" or "finished"
  cb,         \* the job whose callback the driver is running, 0 if none
  done,       \* per job: completions not yet waited for
  differ,     \* the jobs whose destination differs from their source
  err,        \* the local of that name
  interrupted,\* history: has a signal ended a wait?
  fault       \* "none", or the first use of something freed

funVars == <<cfg, interrupted, tc, dma_chan, chan, list, mapped>>
vars    == <<funVars, pc, i, job, cb, done, differ, err, fault>>

Jobs == 1 .. cfg.jobs

Init ==
  /\ cfg \in Links
  /\ pc = "alloc" /\ i = 1 /\ tc = "none" /\ dma_chan = "NULL" /\ chan = 0
  /\ list = [j \in Jobs |-> "none"] /\ mapped = [j \in Jobs |-> 0]
  /\ job = [j \in Jobs |-> "none"] /\ cb = 0 /\ done = [j \in Jobs |-> 0]
  /\ differ = Jobs /\ err = 0 /\ fault = "none" /\ interrupted = FALSE

(* kmalloc of the array; without it tc_link_core returns err, still 0.     *)
Alloc ==
  /\ pc = "alloc"
  /\ \/ tc' = "alloc" /\ pc' = "create"
     \/ tc' = "none" /\ pc' = "done"
  /\ UNCHANGED <<cfg, interrupted, i, dma_chan, chan, list, mapped, job, cb, done, differ, err, fault>>

(* dmatest_buflist_create, the size list, dmatest_buflist_alloc, then map  *)
(* and prepare.  Only the first list requests a channel.                   *)
Create ==
  /\ pc = "create" /\ i <= cfg.jobs
  /\ chan' = IF dma_chan = "NULL" THEN chan + 1 ELSE chan
  /\ dma_chan' = "chan"
  /\ list' = [list EXCEPT ![i] = "alloc"] /\ mapped' = [mapped EXCEPT ![i] = 1]
  /\ job' = [job EXCEPT ![i] = "prepared"]
  /\ i' = i + 1
  /\ UNCHANGED <<cfg, interrupted, pc, tc, cb, done, differ, err, fault>>

(* There is no channel: "goto done", past all destruction.                 *)
CreateFails ==
  /\ pc = "create" /\ i <= cfg.jobs /\ dma_chan = "NULL"
  /\ err' = -EINVAL /\ pc' = "kfree"
  /\ UNCHANGED <<funVars, i, job, cb, done, differ, fault>>

AllCreated ==
  /\ pc = "create" /\ i > cfg.jobs
  /\ pc' = "submit" /\ i' = 1
  /\ UNCHANGED <<funVars, job, cb, done, differ, err, fault>>

(* tx_submit, followed at once by dma_async_issue_pending if the jobs are  *)
(* started in sequence.                                                    *)
Submit ==
  /\ pc = "submit" /\ i <= cfg.jobs
  /\ job' = [job EXCEPT ![i] = IF cfg.start_in_sequence THEN "issued" ELSE "submitted"]
  /\ i' = i + 1
  /\ UNCHANGED <<funVars, pc, cb, done, differ, err, fault>>

(* dma_async_issue_pending for all of them.                                *)
AllSubmitted ==
  /\ pc = "submit" /\ i > cfg.jobs
  /\ job' = [j \in Jobs |-> IF job[j] = "submitted" THEN "issued" ELSE job[j]]
  /\ pc' = "wait" /\ i' = 1
  /\ UNCHANGED <<funVars, cb, done, differ, err, fault>>

(***************************************************************************)
(* The DMA driver (external) and the callback.                             *)
(***************************************************************************)

(* The channel runs its issued jobs in order; a faulty one may leave the   *)
(* destination of a job different from its source.                         *)
HwFinish(j) ==
  /\ job[j] = "issued" /\ \A k \in 1 .. j - 1 : job[k] \in {"finished", "called"}
  /\ job' = [job EXCEPT ![j] = "finished"]
  /\ differ' \in {differ \ {j}, differ}
  /\ UNCHANGED <<funVars, pc, i, cb, done, err, fault>>

(* The driver takes the callback of a finished job off its list, ...       *)
TakeCallback(j) ==
  /\ cb = 0 /\ job[j] = "finished" /\ \A k \in 1 .. j - 1 : job[k] = "called"
  /\ cb' = j /\ job' = [job EXCEPT ![j] = "called"]
  /\ UNCHANGED <<funVars, pc, i, done, differ, err, fault>>

(* Wrong variant: every callback_param is tc, the first element.           *)
CallbackOnFirst ==
  /\ cb # 0 /\ tc = "alloc"
  /\ done' = [done EXCEPT ![1] = @ + 1] /\ cb' = 0
  /\ UNCHANGED <<funVars, pc, i, job, differ, err, fault>>

(* ... and runs it: complete(&tc->done).                                   *)
tc_link_callback ==
  /\ cb # 0
  /\ \/ /\ tc = "alloc"
        /\ done' = [done EXCEPT ![cb] = @ + 1] /\ cb' = 0 /\ UNCHANGED fault
     \/ /\ tc = "freed"
        /\ fault' = "callback" /\ UNCHANGED <<done, cb>>
  /\ UNCHANGED <<funVars, pc, i, job, differ, err>>

(***************************************************************************)
(* Wait, check, destroy.                                                   *)
(***************************************************************************)

(* dmatest_buflist_payload_check of list i, the error or-ed into err.      *)
payload_check ==
  /\ mapped' = [mapped EXCEPT ![i] = @ - 1]
  /\ err' = IF i \in differ THEN -1 ELSE err

(* Wrong variant: the check of every list overwrites the verdict.          *)
WaitOverwrites ==
  /\ pc = "wait" /\ i <= cfg.jobs /\ done[i] > 0
  /\ done' = [done EXCEPT ![i] = @ - 1]
  /\ mapped' = [mapped EXCEPT ![i] = @ - 1]
  /\ err' = IF i \in differ THEN -1 ELSE 0
  /\ i' = i + 1
  /\ UNCHANGED <<cfg, interrupted, pc, tc, dma_chan, chan, list, job, cb, differ, fault>>

(* Wrong variant: every job is checked once the first has completed.       *)
WaitForFirst ==
  /\ pc = "wait" /\ i <= cfg.jobs /\ (i = 1 => done[i] > 0)
  /\ payload_check
  /\ i' = i + 1
  /\ UNCHANGED <<cfg, interrupted, pc, tc, dma_chan, chan, list, job, cb, done, differ, fault>>

Wait ==
  /\ pc = "wait" /\ i <= cfg.jobs /\ done[i] > 0
  /\ done' = [done EXCEPT ![i] = @ - 1]
  /\ payload_check
  /\ i' = i + 1
  /\ UNCHANGED <<cfg, interrupted, pc, tc, dma_chan, chan, list, job, cb, differ, fault>>

(* A signal ends the wait; the list is checked all the same.               *)
WaitInterrupted ==
  /\ pc = "wait" /\ i <= cfg.jobs /\ done[i] = 0
  /\ payload_check
  /\ i' = i + 1 /\ interrupted' = TRUE
  /\ UNCHANGED <<cfg, pc, tc, dma_chan, chan, list, job, cb, done, differ, fault>>

AllChecked ==
  /\ pc = "wait" /\ i > cfg.jobs
  /\ pc' = "destroy" /\ i' = 1
  /\ UNCHANGED <<funVars, job, cb, done, differ, err, fault>>

(* dmatest_buflist_destroy releases the channel if the list has one; the   *)
(* first list is given it, the others NULL.  The driver drops the jobs of  *)
(* a released channel, but does not wait for a callback it has taken.      *)
Destroy ==
  /\ pc = "destroy" /\ i <= cfg.jobs
  /\ chan' = IF dma_chan = "chan" THEN chan - 1 ELSE chan
  /\ job' = [j \in Jobs |-> IF job[j] = "called" THEN "called" ELSE "none"]
  /\ dma_chan' = "NULL"
  /\ list' = [list EXCEPT ![i] = "freed"]
  /\ i' = i + 1
  /\ UNCHANGED <<cfg, interrupted, pc, tc, mapped, cb, done, differ, err, fault>>

AllDestroyed ==
  /\ pc = "destroy" /\ i > cfg.jobs
  /\ pc' = "kfree"
  /\ UNCHANGED <<funVars, i, job, cb, done, differ, err, fault>>

Free ==
  /\ pc = "kfree"
  /\ tc' = "freed" /\ pc' = "done"
  /\ UNCHANGED <<cfg, interrupted, i, dma_chan, chan, list, mapped, job, cb, done, differ, err, fault>>

(***************************************************************************)
(* The specification.                                                      *)
(***************************************************************************)

Ended == (pc = "done" /\ cb = 0) \/ fault # "none"

tc_link_core ==
  \/ Alloc \/ Create \/ CreateFails \/ AllCreated \/ Submit \/ AllSubmitted
  \/ Wait \/ AllChecked \/ Destroy \/ AllDestroyed \/ Free

Driver == tc_link_callback \/ \E j \in Jobs : HwFinish(j) \/ TakeCallback(j)

Next ==
  \/ fault = "none" /\ (tc_link_core \/ WaitInterrupted \/ Driver)
  \/ Ended /\ UNCHANGED vars

Spec == Init /\ [][Next]_vars

(* The function runs when it can and the channel finishes what it is       *)
(* given; nothing is assumed of signals.                                   *)
FairSpec == Spec /\ WF_vars(fault = "none" /\ tc_link_core) /\ WF_vars(fault = "none" /\ Driver)

(***************************************************************************)
(* Properties.                                                             *)
(***************************************************************************)

(* "Leaks previous allocated buflists" says the source of a failing        *)
(* creation.  It cannot: only the first creation, which has nothing before *)
(* it, can fail.  Whatever happens, also when a signal cuts the waits      *)
(* short, every list is freed and the channel is released exactly once.    *)
NothingLeaks ==
  pc = "done" => /\ chan = 0 /\ \A j \in Jobs : list[j] # "alloc"
                 /\ tc # "alloc"

(* The jobs borrow the channel of the first list: it is released while     *)
(* no job is on it and no callback of it is running.                       *)
ReleasedWhenQuiet ==
  (~interrupted /\ chan = 0) => cb = 0 /\ \A j \in Jobs : job[j] \in {"none", "called"}

(* 0 means that every job's list has been copied (if there was memory for  *)
(* the array at all); an error means that the engine or the request for a  *)
(* channel failed, never that a list was looked at too early.              *)
VerdictIsRight ==
  (~interrupted /\ pc = "done" /\ tc = "freed") =>
    /\ err = 0 => differ = {}
    /\ err = -1 => differ # {}

(* A list is mapped from before its job is submitted until after the job   *)
(* has finished, and is unmapped before it is compared.                    *)
MappedWhileRunning ==
  ~interrupted =>
    \A j \in Jobs : /\ job[j] \in {"prepared", "submitted", "issued", "finished"} => mapped[j] = 1
                    /\ pc \in {"destroy", "kfree", "done"} => mapped[j] = 0

(* What the jobs use is theirs while they use it, and is given back.       *)
LentAndReturned == ReleasedWhenQuiet /\ MappedWhileRunning /\ NothingLeaks

(* tc_link_core returns: no completion is lost, whichever of the jobs have *)
(* completed before the function begins to wait.                           *)
Terminates == <>(pc = "done")
=============================================================================
