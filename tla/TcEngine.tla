------------------------------ MODULE TcEngine ------------------------------
(***************************************************************************)
(* One DMA test case: struct tc_struct and its struct buflist, from the    *)
(* creation of the buffer list to the value the test case returns.         *)
(*                                                                         *)
(* Four contexts touch that state, and nothing orders them except the      *)
(* calls modelled here:                                                    *)
(*   - the test-case function (tc_1 ... tc_20, tc_test_run), which         *)
(*     creates, queues work_start, sleeps on tc->done and tears down;      *)
(*   - the single-threaded work queue, which runs tc_worker_start_*;       *)
(*   - the DMA driver, which finishes issued jobs in order and runs their  *)
(*     callback, transmit_cb -> tc_worker, one at a time;                  *)
(*   - the kernel's event thread, which runs transfer_timedout when the    *)
(*     delayed work armed for a lap expires.                               *)
(*                                                                         *)
(* Every test case of the module sets do_check_buffer to 1, so the test of *)
(* that flag in tc_worker is not modelled.                                 *)
(***************************************************************************)
EXTENDS Integers, FiniteSets

CONSTANT
  Configs   \* the test cases: records [laps, list_len, sg, ack, wrapper]

(* How a test-case function treats a failing dmatest_buflist_create:       *)
(*   "init"       tc_test_init: destroys the work queue, returns -EINVAL   *)
(*   "goto_out"   tc_1, tc_2, tc_8, tc_sg_buffer: returns, keeps the queue *)
(*   "unchecked"  tc_3, tc_4, tc_5, tc_15..tc_20: goes on regardless       *)
Wrappers == {"init", "goto_out", "unchecked"}

TestCases == [laps : Nat \ {0}, list_len : Nat \ {0}, sg : BOOLEAN,
              ack : BOOLEAN, wrapper : Wrappers]

ASSUME ConfigsAssumption == Configs \subseteq TestCases

EINVAL == 22

VARIABLES
  cfg,            \* the test case being run (never changes)
  main,           \* where the test-case function is
  wq,             \* tc->wq: "none", "live" or "destroyed"
  chan,           \* buflist->dma_chan: "none", "held" or "released"
  buf,            \* the arrays of the buflist: "none", "alloc" or "freed"
  result,         \* what the test-case function returned
  work,           \* tc->work_start: "idle", "queued" or "issuing"
  laps,           \* tc->laps, counts down
  job_counter,    \* tc->job_counter
  finished_jobs,  \* buflist->finished_jobs
  err,            \* tc->err
  done,           \* tc->done: completions not yet waited for
  prepared,       \* buflist->is_dma_prepared, 0 or 1
  mapped,         \* dma_map_* calls minus dma_unmap_* calls per buffer
  timer,          \* buflist->timed_out: "idle", "armed" or "fired"
  log,            \* "Testcase: %s failed" messages printed, by origin
  submitted,      \* jobs submitted to the channel and not issued
  inflight,       \* jobs issued and not finished by the hardware
  due,            \* jobs finished whose callback the driver has not taken
  cb,             \* the driver's callback context: "none", "taken", "counted"
  wrong,          \* entries of the list whose destination differs from source
  disturbed,      \* history: has a "signal" ended the wait, a "timeout" expired?
  fault           \* the first use of something freed or never created

mainVars == <<cfg, disturbed, main, wq, chan, buf, result>>
tcVars   == <<laps, job_counter, finished_jobs, err, done>>
libVars  == <<prepared, mapped, log>>
hwVars   == <<submitted, inflight, due, wrong>>
vars == <<mainVars, tcVars, libVars, hwVars, work, timer, cb, fault>>

(* tc->nbr_returns_per_transfer: a scatter-gather lap is one job.          *)
nbr_returns_per_transfer == IF cfg.sg THEN 1 ELSE cfg.list_len

(* Jobs of the current lap that tc_worker has not counted yet.             *)
Outstanding == submitted + inflight + due + (IF cb = "none" THEN 0 ELSE 1)

(***************************************************************************)
(* The test-case function.                                                 *)
(***************************************************************************)

(* The whole list is destination 0xAA against the pattern of the source:   *)
(* every entry differs until a job copies it.                              *)
Init ==
  /\ cfg \in Configs
  /\ main = "create" /\ wq = "none" /\ chan = "none" /\ buf = "none" /\ result = 0
  /\ work = "idle" /\ laps = cfg.laps /\ job_counter = 0 /\ finished_jobs = 0
  /\ err = 0 /\ done = 0 /\ prepared = 0 /\ mapped = 0
  /\ timer = "idle" /\ log = {} /\ fault = "none"
  /\ submitted = 0 /\ inflight = 0 /\ due = 0 /\ cb = "none"
  /\ wrong = 1 .. cfg.list_len /\ disturbed = {}

(* create_singlethread_workqueue, dmatest_buflist_create with a channel,   *)
(* dmatest_sizelist_*, dmatest_buflist_alloc.                              *)
Create ==
  /\ main = "create"
  /\ wq' = "live" /\ chan' = "held" /\ buf' = "alloc"
  /\ main' = "run"
  /\ UNCHANGED <<cfg, disturbed, result, tcVars, libVars, hwVars, work, timer, cb, fault>>

(* dma_request_channel found no channel: dmatest_buflist_create returns    *)
(* -EINVAL.  An unchecked caller goes on to write buflist->list_size[0],   *)
(* which is NULL.                                                          *)
CreateFails ==
  /\ main = "create"
  /\ \/ /\ cfg.wrapper = "init"
        /\ wq' = "destroyed" /\ result' = -EINVAL /\ main' = "done"
        /\ UNCHANGED fault
     \/ /\ cfg.wrapper = "goto_out"
        /\ wq' = "live" /\ result' = -EINVAL /\ main' = "done"
        /\ UNCHANGED fault
     \/ /\ cfg.wrapper = "unchecked"
        /\ wq' = "live" /\ fault' = "no_list"
        /\ UNCHANGED <<result, main>>
  /\ UNCHANGED <<cfg, disturbed, chan, buf, tcVars, libVars, hwVars, work, timer, cb>>

(* queue_work(tc->wq, &tc->work_start), then sleep on tc->done.            *)
tc_test_run ==
  /\ main = "run"
  /\ work' = "queued" /\ main' = "wait"
  /\ UNCHANGED <<cfg, disturbed, wq, chan, buf, result, tcVars, libVars, hwVars, timer, cb, fault>>

(* Wrong variant: a wait that does not block.                              *)
WaitWithoutBlocking ==
  /\ main = "wait"
  /\ done' = done - 1 /\ main' = "destroy_wq"
  /\ UNCHANGED <<cfg, disturbed, wq, chan, buf, result, laps, job_counter, finished_jobs, err,
                 libVars, hwVars, work, timer, cb, fault>>

(* wait_for_completion_interruptible: the completion is consumed.          *)
tc_test_wait ==
  /\ main = "wait" /\ done > 0
  /\ done' = done - 1 /\ main' = "destroy_wq"
  /\ UNCHANGED <<cfg, disturbed, wq, chan, buf, result, laps, job_counter, finished_jobs, err,
                 libVars, hwVars, work, timer, cb, fault>>

(* A signal ends the same call early; its return value is not looked at.   *)
WaitInterrupted ==
  /\ main = "wait" /\ done = 0
  /\ main' = "destroy_wq" /\ disturbed' = disturbed \cup {"signal"}
  /\ UNCHANGED <<cfg, wq, chan, buf, result, tcVars, libVars, hwVars, work, timer, cb, fault>>

(* destroy_workqueue returns once the queued work has run.                 *)
DestroyWorkqueue ==
  /\ main = "destroy_wq" /\ work = "idle"
  /\ wq' = "destroyed" /\ main' = "destroy_buf"
  /\ UNCHANGED <<cfg, disturbed, chan, buf, result, tcVars, libVars, hwVars, work, timer, cb, fault>>

(* dmatest_buflist_destroy gives the channel back, which drops its jobs    *)
(* but does not wait for a callback already taken, frees the buffers and   *)
(* the arrays; the function returns tc.err.                                *)
dmatest_buflist_destroy ==
  /\ main = "destroy_buf"
  /\ chan' = "released" /\ buf' = "freed"
  /\ submitted' = 0 /\ inflight' = 0 /\ due' = 0
  /\ result' = err /\ main' = "done"
  /\ UNCHANGED <<cfg, disturbed, wq, tcVars, libVars, wrong, work, timer, cb, fault>>

(***************************************************************************)
(* The work queue: tc_worker_start_single, tc_worker_start_sg.             *)
(***************************************************************************)

(* Wrong variant: nothing is mapped again once it has been prepared.       *)
MapsOnce == prepared = 0

(* A scatter-gather start maps its list every time; a start of single jobs *)
(* maps and prepares only if DMA_CTRL_ACK is set or nothing is prepared.   *)
Maps == cfg.sg \/ cfg.ack \/ prepared = 0

(* dmatest_buflist_start_single / _sg: map, prepare, submit every job,     *)
(* arm the delayed work (schedule_delayed_work does nothing to one that is *)
(* still pending).                                                         *)
dmatest_buflist_start ==
  /\ work = "queued"
  /\ mapped' = IF Maps THEN mapped + 1 ELSE mapped
  /\ prepared' = 1
  /\ submitted' = submitted + nbr_returns_per_transfer
  /\ timer' = IF timer = "idle" THEN "armed" ELSE timer
  /\ work' = "issuing"
  /\ UNCHANGED <<mainVars, tcVars, log, inflight, due, wrong, cb, fault>>

(* ... and dma_async_issue_pending hands the jobs to the hardware.         *)
dma_async_issue_pending ==
  /\ work = "issuing"
  /\ inflight' = inflight + submitted /\ submitted' = 0
  /\ work' = "idle"
  /\ UNCHANGED <<mainVars, tcVars, libVars, due, wrong, timer, cb, fault>>

(***************************************************************************)
(* The DMA driver (external).                                              *)
(***************************************************************************)

(* The entries the oldest issued job writes: jobs finish in order, a       *)
(* scatter-gather job writes the whole list.                               *)
JobEntries ==
  IF cfg.sg THEN 1 .. cfg.list_len
            ELSE {nbr_returns_per_transfer - submitted - inflight + 1}

(* One job finishes.  A sound engine copies every entry of the job; a      *)
(* faulty one may leave entries as they are or write them wrongly.         *)
HwFinish ==
  /\ inflight > 0
  /\ inflight' = inflight - 1 /\ due' = due + 1
  /\ \E ok, ko \in SUBSET JobEntries : wrong' = (wrong \ ok) \cup ko
  /\ UNCHANGED <<mainVars, tcVars, libVars, submitted, work, timer, cb, fault>>

(* The driver takes the callback of a finished job off its list.           *)
TakeCallback ==
  /\ due > 0 /\ cb = "none"
  /\ due' = due - 1 /\ cb' = "taken"
  /\ UNCHANGED <<mainVars, tcVars, libVars, submitted, inflight, wrong, work, timer, fault>>

(***************************************************************************)
(* The callback: transmit_cb, which ends by calling tc_worker.             *)
(***************************************************************************)

UseAfterFree(what) ==
  /\ fault' = what
  /\ UNCHANGED <<mainVars, tcVars, libVars, hwVars, work, timer, cb>>

(* cancel_delayed_work stops a timer that has not expired; it neither      *)
(* removes nor waits for a handler that is already queued.                 *)
transmit_cb ==
  /\ cb = "taken"
  /\ \/ /\ buf = "freed"
        /\ UseAfterFree("callback")
     \/ /\ buf # "freed"
        /\ timer' = IF timer = "armed" THEN "idle" ELSE timer
        /\ finished_jobs' = finished_jobs + 1
        /\ cb' = "counted"
        /\ UNCHANGED <<mainVars, laps, job_counter, err, done, libVars, hwVars, work, fault>>

(* Wrong variant: a check that trusts the engine.                          *)
NoPayloadCheck == 0

(* dmatest_buflist_payload_check: 0 if every destination equals its        *)
(* source, else -1; it unmaps the list and prints a failure.               *)
PayloadCheck == IF wrong = {} THEN 0 ELSE -1

payload_check ==
  /\ err' = PayloadCheck
  /\ mapped' = mapped - 1
  /\ log' = IF wrong = {} THEN log ELSE log \cup {"payload"}
  /\ UNCHANGED prepared

(* tc_worker, not the lap's last job.                                      *)
CountJob ==
  /\ job_counter + 1 # nbr_returns_per_transfer
  /\ job_counter' = job_counter + 1
  /\ cb' = "none"
  /\ UNCHANGED <<mainVars, laps, finished_jobs, err, done, libVars, hwVars, work, timer, fault>>

(* tc_worker, last job of the last lap: complete(&tc->done).               *)
LastLap ==
  /\ job_counter + 1 = nbr_returns_per_transfer /\ laps - 1 = 0
  /\ job_counter' = job_counter + 1
  /\ payload_check
  /\ laps' = laps - 1
  /\ done' = done + 1
  /\ cb' = "none"
  /\ UNCHANGED <<mainVars, finished_jobs, hwVars, work, timer, fault>>

(* Wrong variant: tc_worker does not reset job_counter between laps.       *)
NextLapKeepsCounter ==
  /\ job_counter + 1 = nbr_returns_per_transfer /\ laps - 1 # 0
  /\ payload_check
  /\ laps' = laps - 1
  /\ finished_jobs' = 0 /\ job_counter' = job_counter + 1
  /\ cb' = "none"
  /\ wq = "live" /\ work' = "queued"
  /\ UNCHANGED <<mainVars, done, hwVars, timer, fault>>

(* Wrong variant: tc_worker completes at the end of every lap.             *)
NextLapCompletes ==
  /\ job_counter + 1 = nbr_returns_per_transfer /\ laps - 1 # 0
  /\ payload_check
  /\ laps' = laps - 1 /\ done' = done + 1
  /\ finished_jobs' = 0 /\ job_counter' = 0
  /\ cb' = "none"
  /\ wq = "live" /\ work' = "queued"
  /\ UNCHANGED <<mainVars, hwVars, timer, fault>>

(* tc_worker, last job of an earlier lap: reset the counters and queue the *)
(* next start; queue_work on a destroyed queue uses freed memory.          *)
NextLap ==
  /\ job_counter + 1 = nbr_returns_per_transfer /\ laps - 1 # 0
  /\ payload_check
  /\ laps' = laps - 1
  /\ finished_jobs' = 0 /\ job_counter' = 0
  /\ cb' = "none"
  /\ \/ wq = "live" /\ work' = "queued" /\ UNCHANGED fault
     \/ wq # "live" /\ fault' = "workqueue" /\ UNCHANGED work
  /\ UNCHANGED <<mainVars, done, hwVars, timer>>

tc_worker ==
  /\ cb = "counted"
  /\ \/ buf = "freed" /\ UseAfterFree("callback")
     \/ buf # "freed" /\ (CountJob \/ LastLap \/ NextLap)

(***************************************************************************)
(* The time-out.                                                           *)
(***************************************************************************)

TimerExpires ==
  /\ timer = "armed" /\ timer' = "fired"
  /\ disturbed' = disturbed \cup {"timeout"}
  /\ UNCHANGED <<cfg, main, wq, chan, buf, result, tcVars, libVars, hwVars, work, cb, fault>>

(* It prints the failure and walks list_size; it wakes nobody.             *)
transfer_timedout ==
  /\ timer = "fired"
  /\ \/ /\ buf = "freed"
        /\ UseAfterFree("timeout")
     \/ /\ buf # "freed"
        /\ log' = log \cup {"timeout"} /\ timer' = "idle"
        /\ UNCHANGED <<mainVars, tcVars, prepared, mapped, hwVars, work, cb, fault>>

(***************************************************************************)
(* The specification.                                                      *)
(***************************************************************************)

(* The test case has returned, or the kernel has oopsed.                   *)
Ended ==
  /\ main = "done" \/ fault # "none"
  /\ UNCHANGED vars

Step ==
  \/ Create \/ CreateFails \/ tc_test_run \/ tc_test_wait \/ WaitInterrupted
  \/ DestroyWorkqueue \/ dmatest_buflist_destroy
  \/ dmatest_buflist_start \/ dma_async_issue_pending
  \/ HwFinish \/ TakeCallback \/ transmit_cb \/ tc_worker
  \/ TimerExpires \/ transfer_timedout

Next == (fault = "none" /\ Step) \/ Ended

Spec == Init /\ [][Next]_vars

(* What the kernel's scheduling and a working engine guarantee: a runnable *)
(* thread, tasklet or work item eventually runs, an issued job eventually  *)
(* finishes.  Nothing is assumed of signals and of the timer.              *)
Fairness ==
  /\ WF_vars(Create \/ CreateFails) /\ WF_vars(tc_test_run) /\ WF_vars(tc_test_wait)
  /\ WF_vars(DestroyWorkqueue) /\ WF_vars(dmatest_buflist_destroy)
  /\ WF_vars(dmatest_buflist_start) /\ WF_vars(dma_async_issue_pending)
  /\ WF_vars(HwFinish) /\ WF_vars(TakeCallback)
  /\ WF_vars(transmit_cb) /\ WF_vars(tc_worker) /\ WF_vars(transfer_timedout)

FairSpec == Spec /\ Fairness

(***************************************************************************)
(* Properties.                                                             *)
(***************************************************************************)

(* No signal has ended the wait; no lap has exceeded its time-out.         *)
Unsignalled == "signal" \notin disturbed
Punctual    == "timeout" \notin disturbed

(* Every variable has its type.                                            *)
TypeOK ==
  /\ cfg \in Configs
  /\ main \in {"create", "run", "wait", "destroy_wq", "destroy_buf", "done"}
  /\ wq \in {"none", "live", "destroyed"}
  /\ chan \in {"none", "held", "released"}
  /\ buf \in {"none", "alloc", "freed"}
  /\ result \in {0, -1, -EINVAL} /\ err \in {0, -1}
  /\ work \in {"idle", "queued", "issuing"}
  /\ laps \in Nat /\ job_counter \in Nat /\ finished_jobs \in Nat
  /\ done \in Nat /\ prepared \in {0, 1} /\ mapped \in Int
  /\ timer \in {"idle", "armed", "fired"}
  /\ log \subseteq {"payload", "timeout"}
  /\ submitted \in Nat /\ inflight \in Nat /\ due \in Nat
  /\ cb \in {"none", "taken", "counted"}
  /\ wrong \subseteq 1 .. cfg.list_len /\ disturbed \subseteq {"signal", "timeout"}
  /\ fault \in {"none", "no_list", "callback", "workqueue", "timeout"}

(* The four places a lap can be in once work_start has been queued.        *)
LapQueued ==
  work = "queued" /\ Outstanding = 0 /\ job_counter = 0 /\ finished_jobs = 0 /\ laps > 0
LapSubmitted ==
  /\ work = "issuing" /\ submitted = nbr_returns_per_transfer
  /\ inflight = 0 /\ due = 0 /\ cb = "none"
  /\ job_counter = 0 /\ finished_jobs = 0 /\ laps > 0
LapTransferring ==
  /\ work = "idle" /\ submitted = 0 /\ Outstanding > 0
  /\ Outstanding + job_counter = nbr_returns_per_transfer
  /\ finished_jobs = job_counter + (IF cb = "counted" THEN 1 ELSE 0)
  /\ laps > 0
LapsOver ==
  work = "idle" /\ Outstanding = 0 /\ laps = 0

(* Laps never overlap and no job is lost or counted twice: while the list  *)
(* exists, either the next lap is queued and no job of an earlier one is   *)
(* outstanding, or the jobs outstanding and the jobs tc_worker has counted *)
(* add up to one transfer, or all laps are over.  tc_worker decides on     *)
(* job_counter, transmit_cb counts finished_jobs: the two agree.           *)
JobAccounting ==
  (buf = "alloc" /\ main # "run" /\ fault = "none") =>
    LapQueued \/ LapSubmitted \/ LapTransferring \/ LapsOver

(* Which of queue, channel and buffers exist at each point of the          *)
(* test-case function.                                                     *)
Lifecycle ==
  /\ main = "create" => chan = "none" /\ buf = "none"
  /\ main \in {"run", "wait", "destroy_wq"} => wq = "live" /\ chan = "held" /\ buf = "alloc"
  /\ main = "destroy_buf" => wq = "destroyed" /\ chan = "held" /\ buf = "alloc"
  /\ main = "done" =>
       \/ chan = "none" /\ buf = "none" /\ (wq = "destroyed" \/ cfg.wrapper = "goto_out")
       \/ chan = "released" /\ buf = "freed" /\ wq = "destroyed"

(* Before work_start is queued for the first time nothing has happened.    *)
NotStarted ==
  (buf = "none" \/ main = "run") =>
    /\ work = "idle" /\ submitted = 0 /\ inflight = 0 /\ due = 0 /\ cb = "none"
    /\ job_counter = 0 /\ finished_jobs = 0 /\ laps > 0 /\ done = 0
    /\ timer = "idle" /\ mapped = 0

(* The completion, or its being consumed, implies that all laps are over   *)
(* and nothing is outstanding: the test case tears down a quiet engine.    *)
(* With a signal the wait ends anyway, and this is lost.                   *)
TeardownQuiescent ==
  (Unsignalled /\ chan # "none" /\ (done > 0 \/ main \in {"destroy_wq", "destroy_buf", "done"})) =>
    LapsOver

(* No callback, time-out handler or queue_work touches what the test case  *)
(* has destroyed, when no signal ends its wait and every lap meets its     *)
(* time-out.  ("no_list" is the creation error an unchecked caller makes.) *)
NoUseAfterFree ==
  (Unsignalled /\ Punctual) => fault \in {"none", "no_list"}

(* A test case that ran and returned 0 leaves every destination equal to   *)
(* its source, whatever the engine did in the last lap.                    *)
ZeroMeansCopied ==
  (Unsignalled /\ main = "done" /\ chan = "released" /\ result = 0) => wrong = {}

(* A buffer is mapped for DMA exactly once while a job of the lap is       *)
(* outstanding and not at all otherwise.  Not so for single jobs without   *)
(* DMA_CTRL_ACK (tc_35): from the second lap on they run unmapped, because *)
(* payload_check unmaps and start_single does not map again.               *)
MappedWhileTransferring ==
  ((cfg.sg \/ cfg.ack) /\ buf = "alloc" /\ fault = "none") =>
    mapped = IF Outstanding > 0 THEN 1 ELSE 0

(* The time-out of a lap is pending from its submission until transmit_cb  *)
(* sees the lap's first job, and at no other time.  (From then on the      *)
(* remaining jobs of the lap run without one.)                             *)
TimerGuardsFirstJob ==
  (Punctual /\ buf = "alloc" /\ fault = "none") =>
    (timer = "armed" <=> (Outstanding = nbr_returns_per_transfer /\ cb # "counted"))

(* While jobs of a lap are outstanding their buffers are mapped, and until *)
(* the first of them is seen the time-out is pending; neither outlives     *)
(* them.                                                                   *)
TransferGuarded == MappedWhileTransferring /\ TimerGuardsFirstJob

(* The inductive invariant: what holds of the engine at every step until   *)
(* the kernel oopses.  It adds to the properties above that a completion   *)
(* stands for the last lap, that no work is queued once the queue is       *)
(* destroyed, and that tc->err is the verdict on the buffers as they are   *)
(* once the laps are over.                                                 *)
EngineInv ==
  fault = "none" =>
    /\ Lifecycle /\ NotStarted /\ JobAccounting
    /\ done > 0 => laps = 0
    /\ wq = "destroyed" => work = "idle"
    /\ buf = "freed" => submitted = 0 /\ inflight = 0 /\ due = 0
    /\ (buf = "alloc" /\ laps = 0) => err = PayloadCheck
    /\ TeardownQuiescent
    /\ Punctual => timer # "fired"
    /\ TimerGuardsFirstJob
    /\ (Punctual /\ Unsignalled /\ buf = "freed") => timer = "idle"
    /\ (Unsignalled /\ buf = "freed") => result = PayloadCheck
    /\ MappedWhileTransferring

(* What a test case acquires it gives back before it returns: the channel, *)
(* the buffers and the work queue.  The functions that leave with          *)
(* "goto out" on a failed creation keep their work queue.                  *)
NothingLeaks ==
  main = "done" =>
    /\ chan # "held" /\ buf # "alloc"
    /\ wq = "destroyed" \/ (cfg.wrapper = "goto_out" /\ chan = "none")

(* The test case tears down all of a quiet engine, on every path.          *)
TornDown == TeardownQuiescent /\ NothingLeaks

(* The engine implements the promise of a test case: the caller cannot     *)
(* tell work queue, callbacks and time-out from a loop that runs the laps  *)
(* one after the other.                                                    *)
Promise == INSTANCE TestCase WITH
  phase   <- CASE main = "create" -> "idle" [] main = "done" -> "returned"
                  [] OTHER -> "running",
  left    <- laps,
  cut     <- "signal" \in disturbed,
  differ  <- wrong # {},
  judged  <- err,
  verdict <- result

ImplementsTestCase == Promise!Spec

(* Every test case returns, if the engine finishes what it is given.       *)
Terminates == <>(main = "done" \/ fault \in {"no_list", "workqueue"})

(* A lap whose payload check printed "Testcase: ... failed" makes the test *)
(* case fail.                                                              *)
MismatchFails == (main = "done" /\ "payload" \in log) => result # 0

=============================================================================
