----------------------------- MODULE TcParallel -----------------------------
(***************************************************************************)
(* The test cases that run a buffer list on each of several channels:      *)
(*   tc_run_parallel                (tc_26 .. tc_33, tc_35, tc_50, tc_53,  *)
(*                                   tc_54)                                *)
(*   tc_run_while_read_reg          (tc_36 .. tc_49)                       *)
(*   tc_pause_and_unpause_parallel  (tc_21, tc_34, tc_51, tc_52)           *)
(*                                                                         *)
(* Each initialises an array of tc_structs until dma_request_channel has   *)
(* no more channels, starts them, waits for them in order and frees them.  *)
(* A tc_struct is here what TestCase promises of it (TcEngine shows that   *)
(* it keeps the promise while no signal arrives): queued, then a number of *)
(* laps, each of which sets err, then the completion.                      *)
(***************************************************************************)
EXTENDS Integers, FiniteSets

CONSTANTS
  Groups,     \* the test cases: records [driver, max_channels, start, laps]
  CHANNELS,   \* how many memcpy channels are free when the test case starts
  BYTES,      \* the residue of a job, when it starts
  MAX_POLLS   \* bound: "max" of the first pause loop, 1000 in the code

Drivers == {"parallel", "read_reg", "pause"}

ASSUME GroupsAssumption ==
  Groups \subseteq [driver : Drivers, max_channels : Nat \ {0}, start : Nat, laps : Nat \ {0}]

ASSUME BoundsAssumption ==
  CHANNELS \in Nat /\ BYTES \in Nat \ {0} /\ MAX_POLLS \in Nat \ {0}

EINVAL == 22

VARIABLES
  cfg,           \* the test case being run (never changes)
  pc,            \* where its function is
  i,             \* the loop index
  max_channels,  \* the local of that name
  st,            \* per tc_struct: "zeroed", "failed", "ready", "queued", "running",
                 \*   "complete" or "freed"
  left,          \* per tc_struct: laps to go
  err,           \* per tc_struct: tc->err
  bytes,         \* per tc_struct: residue of the lap being transferred
  paused,        \* 1 while channel 0 is stopped by DMA_PAUSE
  bytes_left, bytes_left_prev,   \* the locals of the pause loops
  avail,         \* free channels
  result,        \* what the function returned
  interrupted,   \* history: has a signal ended a wait?
  fault          \* "none", "no_list" or "busy": what tc_test_free was called on

groupVars == <<cfg, interrupted, pc, i, max_channels, result, fault>>
tcVars    == <<st, left, err, bytes>>
loopVars  == <<paused, bytes_left, bytes_left_prev>>
vars      == <<groupVars, tcVars, loopVars, avail>>

All == 0 .. cfg.max_channels - 1

Init ==
  /\ cfg \in Groups
  /\ pc = "init" /\ i = 0 /\ max_channels = cfg.max_channels
  /\ st = [k \in All |-> "zeroed"] /\ left = [k \in All |-> cfg.laps]
  /\ err = [k \in All |-> 0] /\ bytes = [k \in All |-> BYTES]
  /\ paused = 0 /\ bytes_left = 0 /\ bytes_left_prev = 0
  /\ avail = CHANNELS /\ result = 0 /\ fault = "none"
  /\ interrupted = FALSE

(***************************************************************************)
(* Initialise, start.                                                      *)
(***************************************************************************)

(* tc_test_init succeeds.                                                  *)
InitOne ==
  /\ pc = "init" /\ i < cfg.max_channels /\ avail > 0
  /\ st' = [st EXCEPT ![i] = "ready"]
  /\ avail' = avail - 1 /\ i' = i + 1
  /\ UNCHANGED <<cfg, interrupted, pc, max_channels, result, fault, left, err, bytes, loopVars>>

(* It fails, for want of a channel or of a work queue: the loop breaks.    *)
InitFails ==
  /\ pc = "init" /\ i < cfg.max_channels
  /\ st' = [st EXCEPT ![i] = "failed"] /\ err' = [err EXCEPT ![i] = -EINVAL]
  /\ pc' = "initialised"
  /\ UNCHANGED <<cfg, interrupted, i, max_channels, result, fault, left, bytes, loopVars, avail>>

InitAll ==
  /\ pc = "init" /\ i = cfg.max_channels
  /\ pc' = "initialised"
  /\ UNCHANGED <<cfg, interrupted, i, max_channels, result, fault, tcVars, loopVars, avail>>

(* Not one channel: tc_run_parallel and tc_run_while_read_reg return,      *)
(* tc_pause_and_unpause_parallel goes on to free the whole array.          *)
NoChannel ==
  /\ pc = "initialised" /\ i = 0
  /\ result' = -EINVAL
  /\ pc' = IF cfg.driver = "pause" THEN "free" ELSE "done"
  /\ UNCHANGED <<cfg, interrupted, i, max_channels, fault, tcVars, loopVars, avail>>

SomeChannels ==
  /\ pc = "initialised" /\ i > 0
  /\ max_channels' = i /\ i' = cfg.start /\ pc' = "start"
  /\ UNCHANGED <<cfg, interrupted, result, fault, tcVars, loopVars, avail>>

(* tc_test_run for each channel from chan_start_index on.                  *)
tc_test_run ==
  /\ pc = "start" /\ i < max_channels
  /\ st' = [st EXCEPT ![i] = "queued"] /\ i' = i + 1
  /\ UNCHANGED <<cfg, interrupted, pc, max_channels, result, fault, left, err, bytes, loopVars, avail>>

AllStarted ==
  /\ pc = "start" /\ i >= max_channels
  /\ pc' = IF cfg.driver = "pause" THEN "poll_pause" ELSE "wait"
  /\ i' = IF cfg.driver = "pause" THEN 0 ELSE cfg.start
  /\ UNCHANGED <<cfg, interrupted, max_channels, result, fault, tcVars, loopVars, avail>>

(***************************************************************************)
(* The engines.                                                            *)
(***************************************************************************)

(* The work queue starts the first lap.                                    *)
Issue(k) ==
  /\ st[k] = "queued" /\ st' = [st EXCEPT ![k] = "running"]
  /\ UNCHANGED <<groupVars, left, err, bytes, loopVars, avail>>

Stopped(k) == k = 0 /\ paused = 1

(* The hardware transfers a part of the lap.                               *)
Progress(k) ==
  /\ st[k] = "running" /\ ~Stopped(k) /\ bytes[k] > 1
  /\ bytes' = [bytes EXCEPT ![k] = @ - 1]
  /\ UNCHANGED <<groupVars, st, left, err, loopVars, avail>>

(* A lap ends: tc_worker judges it and starts the next or completes.       *)
EndLap(k) ==
  /\ st[k] = "running" /\ ~Stopped(k) /\ bytes[k] = 1
  /\ \E verdict \in {0, -1} : err' = [err EXCEPT ![k] = verdict]
  /\ left' = [left EXCEPT ![k] = @ - 1]
  /\ \/ left[k] = 1 /\ st' = [st EXCEPT ![k] = "complete"] /\ bytes' = [bytes EXCEPT ![k] = 0]
     \/ left[k] > 1 /\ bytes' = [bytes EXCEPT ![k] = BYTES] /\ UNCHANGED st
  /\ UNCHANGED <<groupVars, loopVars, avail>>

Engine(k) == Progress(k) \/ EndLap(k)

(***************************************************************************)
(* The pause loops of tc_pause_and_unpause_parallel, on channel 0.         *)
(***************************************************************************)

(* device_tx_status: a job that is not being transferred has no residue.   *)
Residue == IF st[0] = "running" THEN bytes[0] ELSE 0

(* device_control(DMA_PAUSE): a channel with nothing to do is left alone.  *)
Pause(from, to) ==
  /\ pc = from /\ pc' = to
  /\ paused' = IF st[0] = "running" THEN 1 ELSE paused
  /\ UNCHANGED <<cfg, interrupted, i, max_channels, result, fault, tcVars, bytes_left, bytes_left_prev, avail>>

(* First loop: pause, look at the residue, until there is one or max tries *)
(* have been made.                                                         *)
PollPause == Pause("poll_pause", "poll_status")

(* Wrong variant: the last try gives up before it looks at the residue.    *)
PollGivesUp ==
  /\ pc = "poll_status"
  /\ bytes_left' = Residue
  /\ \/ i + 1 = MAX_POLLS /\ i' = 0 /\ pc' = "wait"
     \/ i + 1 < MAX_POLLS /\ Residue > 0 /\ pc' = "resume" /\ UNCHANGED i
     \/ i + 1 < MAX_POLLS /\ Residue = 0 /\ i' = i + 1 /\ pc' = "poll_pause"
  /\ UNCHANGED <<cfg, interrupted, max_channels, result, fault, tcVars, paused, bytes_left_prev, avail>>

PollStatus ==
  /\ pc = "poll_status"
  /\ bytes_left' = Residue
  /\ \/ Residue > 0 /\ pc' = "resume" /\ UNCHANGED i
     \/ Residue = 0 /\ i + 1 < MAX_POLLS /\ i' = i + 1 /\ pc' = "poll_pause"
     \/ Residue = 0 /\ i + 1 = MAX_POLLS /\ i' = 0 /\ pc' = "wait"
  /\ UNCHANGED <<cfg, interrupted, max_channels, result, fault, tcVars, paused, bytes_left_prev, avail>>

PollResume ==
  /\ pc = "resume" /\ pc' = "loop_pause" /\ paused' = 0
  /\ UNCHANGED <<cfg, interrupted, i, max_channels, result, fault, tcVars, bytes_left, bytes_left_prev, avail>>

(* Second loop: mdelay(1), pause, look at the residue, resume.             *)
LoopPause == Pause("loop_pause", "loop_status")

LoopStatus ==
  /\ pc = "loop_status" /\ pc' = "loop_resume"
  /\ bytes_left_prev' = bytes_left /\ bytes_left' = Residue
  /\ UNCHANGED <<cfg, interrupted, i, max_channels, result, fault, tcVars, paused, avail>>

(* while (bytes_left != 0 || bytes_left_prev != bytes_left)                *)
LoopAgain == bytes_left # 0 \/ bytes_left_prev # bytes_left

(* The residue has stopped falling.  The loop ends on two empty residues   *)
(* only, so that this is never so behind it.                               *)
Stuck == bytes_left # 0 /\ bytes_left_prev = bytes_left

LoopResume ==
  /\ pc = "loop_resume" /\ paused' = 0 /\ i' = 0
  /\ pc' = IF LoopAgain THEN "loop_pause" ELSE IF Stuck THEN "free" ELSE "wait"
  /\ err' = IF ~LoopAgain /\ Stuck THEN [err EXCEPT ![0] = -EINVAL] ELSE err
  /\ UNCHANGED <<cfg, interrupted, max_channels, result, fault, st, left, bytes, bytes_left,
                 bytes_left_prev, avail>>

(***************************************************************************)
(* Wait, free.                                                             *)
(***************************************************************************)

(* Wrong variant: the next channel is looked at without waiting.           *)
CompletedUnseen ==
  /\ pc = "wait" /\ i < max_channels
  /\ i' = i + 1
  /\ UNCHANGED <<cfg, interrupted, pc, max_channels, result, fault, tcVars, loopVars, avail>>

(* tc_test_wait, or the polling of tc_test_is_done, sees a completion.     *)
Completed ==
  /\ pc = "wait" /\ i < max_channels /\ st[i] = "complete"
  /\ i' = i + 1
  /\ UNCHANGED <<cfg, interrupted, pc, max_channels, result, fault, tcVars, loopVars, avail>>

(* A signal ends the wait for one channel; polling heeds no signal.        *)
WaitInterrupted ==
  /\ cfg.driver # "read_reg"
  /\ pc = "wait" /\ i < max_channels /\ st[i] # "complete"
  /\ i' = i + 1 /\ interrupted' = TRUE
  /\ UNCHANGED <<cfg, pc, max_channels, result, fault, tcVars, loopVars, avail>>

AllWaited ==
  /\ pc = "wait" /\ i >= max_channels
  /\ pc' = "free" /\ i' = 0
  /\ UNCHANGED <<cfg, interrupted, max_channels, result, fault, tcVars, loopVars, avail>>

(* tc_test_free: destroy_workqueue lets a queued start run first; then the *)
(* list goes, whether it is being transferred or was never created.        *)
tc_test_free ==
  /\ pc = "free" /\ i < max_channels /\ st[i] # "queued"
  /\ st' = [st EXCEPT ![i] = "freed"]
  /\ \/ st[i] \in {"ready", "complete"} /\ avail' = avail + 1 /\ UNCHANGED fault
     \/ st[i] = "running" /\ avail' = avail + 1 /\ fault' = "busy"
     \/ st[i] \in {"failed", "zeroed"} /\ fault' = "no_list" /\ UNCHANGED avail
  /\ i' = i + 1
  /\ UNCHANGED <<cfg, interrupted, pc, max_channels, result, left, err, bytes, loopVars>>

(* Wrong variant: err = tc[i].err, the last channel decides.               *)
ReturnLast ==
  /\ pc = "free" /\ i >= max_channels
  /\ result' = IF result # 0 \/ err[max_channels - 1] # 0 THEN -1 ELSE 0
  /\ pc' = "done"
  /\ UNCHANGED <<cfg, interrupted, i, max_channels, fault, tcVars, loopVars, avail>>

(* err |= tc[i].err: any failure makes the result negative.                *)
Return ==
  /\ pc = "free" /\ i >= max_channels
  /\ result' = IF result # 0 \/ \E k \in 0 .. max_channels - 1 : err[k] # 0 THEN -1 ELSE 0
  /\ pc' = "done"
  /\ UNCHANGED <<cfg, interrupted, i, max_channels, fault, tcVars, loopVars, avail>>

(***************************************************************************)
(* The specification.                                                      *)
(***************************************************************************)

Ended == (pc = "done" \/ fault # "none") /\ UNCHANGED vars

Function ==
  \/ InitOne \/ InitFails \/ InitAll \/ NoChannel \/ SomeChannels
  \/ tc_test_run \/ AllStarted
  \/ PollPause \/ PollStatus \/ PollResume \/ LoopPause \/ LoopStatus \/ LoopResume
  \/ Completed \/ AllWaited \/ tc_test_free \/ Return

Next ==
  \/ /\ fault = "none"
     /\ Function \/ WaitInterrupted \/ \E k \in All : Issue(k) \/ Engine(k)
  \/ Ended

Spec == Init /\ [][Next]_vars

(* The function and the work queues run when they can.  A channel makes    *)
(* progress if it is time and again allowed to: mdelay(1) gives it that    *)
(* time between a resume and the next pause, hence strong fairness.        *)
(* Nothing is assumed of signals.                                          *)
Fairness ==
  /\ WF_vars(fault = "none" /\ Function)
  /\ \A k \in 0 .. CHANNELS - 1 : WF_vars(fault = "none" /\ k \in All /\ Issue(k))
  /\ \A k \in 0 .. CHANNELS - 1 : SF_vars(fault = "none" /\ k \in All /\ Engine(k))

FairSpec == Spec /\ Fairness

(***************************************************************************)
(* Properties.                                                             *)
(***************************************************************************)

(* No list is destroyed while the engine still transfers it.  A signal     *)
(* breaks this for the test cases that sleep; those that poll heed none.   *)
NotFreedWhileBusy ==
  ~interrupted => fault # "busy"

Owned == {k \in All : st[k] \in {"ready", "queued", "running", "complete"}}

(* Every channel is either free or owned by exactly one tc_struct, and a   *)
(* test case that returns has given back all it requested, also when it    *)
(* could not get as many as it wanted or did not start them all.           *)
ChannelsConserved ==
  /\ avail + Cardinality(Owned) = CHANNELS
  /\ pc = "done" => Owned = {}

(* Resources come back, all of them, and none before its transfer is over; *)
(* and lists that were never created are destroyed only when no channel    *)
(* was to be had.                                                          *)
GivenBackInTime ==
  /\ NotFreedWhileBusy /\ ChannelsConserved
  /\ fault = "no_list" => avail = CHANNELS /\ result # 0

(* The test case never goes to sleep on a channel that it has paused.      *)
WaitsUnpaused == pc \in {"wait", "free"} => paused = 0

(* A result of 0 says of every channel that was started that all its laps  *)
(* were run and the last one passed; no started channel is forgotten when  *)
(* the errors are collected.  (If fewer channels are to be had than        *)
(* chan_start_index, no channel is started and the result is 0.)           *)
ZeroMeansAllPassed ==
  (~interrupted /\ pc = "done" /\ result = 0) =>
    \A k \in cfg.start .. max_channels - 1 : left[k] = 0 /\ err[k] = 0

(* Every test case returns: a channel completes while others are waited    *)
(* for and its completion is not lost, the pause loops end, and the        *)
(* channel they pause completes too.                                       *)
Terminates == <>(pc = "done" \/ fault # "none")
=============================================================================
