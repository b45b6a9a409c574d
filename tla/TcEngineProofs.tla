--------------------------- MODULE TcEngineProofs ---------------------------
(***************************************************************************)
(* Proofs about the test-case engine, for every set of test cases (any     *)
(* number of laps, any list length) and every behaviour of the engine, the *)
(* signals and the timer; and, last, about the size lists of the buffers   *)
(* it works on, for every call and every random number.                    *)
(***************************************************************************)
EXTENDS TcEngine, SizeList, TLAPS

USE DEF EINVAL

(* A configuration is a test case; a lap has at least one job.             *)
LEMMA ConfigFacts ==
  ASSUME TypeOK
  PROVE  /\ cfg \in TestCases
         /\ cfg.laps \in Nat \ {0} /\ cfg.list_len \in Nat \ {0}
         /\ cfg.sg \in BOOLEAN /\ cfg.ack \in BOOLEAN /\ cfg.wrapper \in Wrappers
         /\ nbr_returns_per_transfer \in Nat \ {0}
  BY ConfigsAssumption DEF TypeOK, TestCases, nbr_returns_per_transfer

(* The types hold at the start, ...                                        *)
LEMMA InitType == Init => TypeOK
  BY ConfigsAssumption DEF Init, TypeOK, TestCases

(* The jobs of a lap that the hardware still has are at most a transfer.   *)
LEMMA JobBound ==
  ASSUME TypeOK, EngineInv, fault = "none", inflight > 0
  PROVE  buf = "alloc" /\ submitted = 0 /\ inflight <= nbr_returns_per_transfer /\ laps > 0
<1> USE ConfigFacts DEF TypeOK
<1>1. buf = "alloc" /\ main # "run"
  BY DEF EngineInv, NotStarted
<1>2. QED
  BY <1>1 DEF EngineInv, JobAccounting, LapQueued, LapSubmitted, LapTransferring,
              LapsOver, Outstanding

(* A callback that finds the buffer list belongs to a lap in progress.     *)
LEMMA CallbackLap ==
  ASSUME TypeOK, EngineInv, fault = "none", cb # "none", buf # "freed"
  PROVE  buf = "alloc" /\ main # "run" /\ LapTransferring
<1> USE ConfigFacts DEF TypeOK
<1>1. buf = "alloc" /\ main # "run"
  BY DEF EngineInv, NotStarted
<1>2. QED
  BY <1>1 DEF EngineInv, JobAccounting, LapQueued, LapSubmitted, LapTransferring,
              LapsOver, Outstanding

(* The hardware writes entries of the list only.                           *)
LEMMA JobWrites ==
  ASSUME TypeOK, EngineInv, fault = "none", HwFinish
  PROVE  wrong' \subseteq 1 .. cfg.list_len
<1>1. JobEntries \subseteq 1 .. cfg.list_len
  BY JobBound, ConfigFacts DEF JobEntries, TypeOK, HwFinish, nbr_returns_per_transfer
<1>2. QED
  BY <1>1 DEF HwFinish, TypeOK

(* ... and are kept, since the invariant bounds what is counted.           *)
LEMMA StepType == TypeOK /\ EngineInv /\ [Next]_vars => TypeOK'
<1> SUFFICES ASSUME TypeOK, EngineInv, [Next]_vars PROVE TypeOK'
  OBVIOUS
<1> USE DEF TypeOK, mainVars, tcVars, libVars, hwVars
<1>1. CASE UNCHANGED vars
  BY <1>1 DEF vars
<1>2. CASE fault = "none" /\ Step
  <2>1. CASE Create
    BY <2>1 DEF Create
  <2>2. CASE CreateFails
    BY <2>2 DEF CreateFails
  <2>3. CASE tc_test_run
    BY <2>3 DEF tc_test_run
  <2>4. CASE tc_test_wait
    BY <2>4 DEF tc_test_wait
  <2>5. CASE WaitInterrupted
    BY <2>5 DEF WaitInterrupted
  <2>6. CASE DestroyWorkqueue
    BY <2>6 DEF DestroyWorkqueue
  <2>7. CASE dmatest_buflist_destroy
    BY <2>7 DEF dmatest_buflist_destroy
  <2>8. CASE dmatest_buflist_start
    BY <2>8, ConfigFacts DEF dmatest_buflist_start
  <2>9. CASE dma_async_issue_pending
    BY <2>9 DEF dma_async_issue_pending
  <2>10. CASE HwFinish
    <3>1. /\ inflight' \in Nat /\ due' \in Nat
          /\ UNCHANGED <<mainVars, tcVars, libVars, submitted, work, timer, cb, fault>>
      BY <2>10 DEF HwFinish
    <3>2. wrong' \subseteq 1 .. cfg.list_len
      BY <1>2, <2>10, JobWrites
    <3>3. QED
      BY <3>1, <3>2
  <2>11. CASE TakeCallback
    BY <2>11 DEF TakeCallback
  <2>12. CASE UseAfterFree("callback") \/ UseAfterFree("timeout")
    <3>1. fault' \in {"callback", "timeout"}
      BY <2>12 DEF UseAfterFree
    <3>2. UNCHANGED <<mainVars, tcVars, libVars, hwVars, work, timer, cb>>
      BY <2>12 DEF UseAfterFree
    <3>3. QED
      BY <3>1, <3>2
  <2>13. CASE transmit_cb /\ buf # "freed"
    <3>1. /\ timer' \in {"idle", "armed", "fired"} /\ finished_jobs' \in Nat /\ cb' = "counted"
          /\ UNCHANGED <<mainVars, laps, job_counter, err, done, libVars, hwVars, work, fault>>
      BY <2>13 DEF transmit_cb, UseAfterFree
    <3>2. QED
      BY <3>1
  <2>14. CASE CountJob
    BY <2>14 DEF CountJob
  <2>15. CASE LastLap
    BY <2>15 DEF LastLap, payload_check, PayloadCheck
  <2>16. CASE cb = "counted" /\ buf # "freed" /\ NextLap
    <3>1. err' \in {0, -1} /\ log' \subseteq {"payload", "timeout"}
      BY <2>16 DEF NextLap, payload_check, PayloadCheck
    <3>2. work' \in {"idle", "queued", "issuing"}
          /\ fault' \in {"none", "no_list", "callback", "workqueue", "timeout"}
      BY <2>16 DEF NextLap
    <3>3. /\ laps' = laps - 1 /\ mapped' = mapped - 1
          /\ finished_jobs' = 0 /\ job_counter' = 0 /\ cb' = "none"
          /\ UNCHANGED <<prepared, mainVars, done, hwVars, timer>>
      BY <2>16 DEF NextLap, payload_check
    <3>4. laps' \in Nat
      BY <1>2, <2>16, <3>3, CallbackLap DEF LapTransferring
    <3>5. QED
      BY <3>1, <3>2, <3>3, <3>4
  <2>17. CASE TimerExpires
    BY <2>17 DEF TimerExpires
  <2>18. CASE transfer_timedout /\ buf # "freed"
    <3>1. timer' = "idle" /\ log' \subseteq {"payload", "timeout"}
      BY <2>18 DEF transfer_timedout
    <3>2. UNCHANGED <<mainVars, tcVars, prepared, mapped, hwVars, work, cb, fault>>
      BY <2>18 DEF transfer_timedout
    <3>3. QED
      BY <3>1, <3>2
  <2>19. QED
    BY <1>2, <2>1, <2>2, <2>3, <2>4, <2>5, <2>6, <2>7, <2>8, <2>9, <2>10, <2>11, <2>12,
       <2>13, <2>14, <2>15, <2>16, <2>17, <2>18
       DEF Step, transmit_cb, tc_worker, transfer_timedout
<1>3. QED
  BY <1>1, <1>2 DEF Next, Ended

-----------------------------------------------------------------------------

(* The invariant holds before the test case is created, ...                *)
LEMMA InitEngine == Init => EngineInv
  BY InitType, ConfigFacts
     DEF Init, TypeOK, EngineInv, Lifecycle, NotStarted, JobAccounting, TeardownQuiescent,
         TimerGuardsFirstJob, MappedWhileTransferring, Outstanding, LapsOver

(* What has disturbed the test case is never forgotten.                    *)
LEMMA DisturbedGrows == ASSUME [Next]_vars PROVE disturbed \subseteq disturbed'
  BY DEF Next, Step, Ended, vars, mainVars, Create, CreateFails, tc_test_run, tc_test_wait,
         WaitInterrupted, DestroyWorkqueue, dmatest_buflist_destroy, dmatest_buflist_start,
         dma_async_issue_pending, HwFinish, TakeCallback, transmit_cb, tc_worker, CountJob,
         LastLap, NextLap, UseAfterFree, TimerExpires, transfer_timedout

(* The configuration, and with it the number of jobs of a lap, is fixed.   *)
LEMMA SameConfig ==
  ASSUME [Next]_vars
  PROVE  cfg' = cfg /\ nbr_returns_per_transfer' = nbr_returns_per_transfer
<1>1. cfg' = cfg
  BY DEF Next, Step, Ended, vars, mainVars, Create, CreateFails, tc_test_run, tc_test_wait,
         WaitInterrupted, DestroyWorkqueue, dmatest_buflist_destroy, dmatest_buflist_start,
         dma_async_issue_pending, HwFinish, TakeCallback, transmit_cb, tc_worker, CountJob,
         LastLap, NextLap, UseAfterFree, TimerExpires, transfer_timedout
<1>2. QED
  BY <1>1 DEF nbr_returns_per_transfer

(* ... and is kept: one step per action, the disturbed parts under it.     *)
LEMMA StepEngine == TypeOK /\ EngineInv /\ [Next]_vars => EngineInv'
<1> SUFFICES ASSUME TypeOK, EngineInv, [Next]_vars PROVE EngineInv'
  OBVIOUS
<1>0. /\ TypeOK' /\ cfg' = cfg
      /\ nbr_returns_per_transfer' = nbr_returns_per_transfer
      /\ nbr_returns_per_transfer \in Nat \ {0}
  BY StepType, SameConfig, ConfigFacts
<1> USE <1>0
    DEF TypeOK, mainVars, tcVars, libVars, hwVars, EngineInv, Lifecycle, NotStarted,
        JobAccounting, LapQueued, LapSubmitted, LapTransferring, LapsOver, Outstanding,
        TeardownQuiescent, TimerGuardsFirstJob, MappedWhileTransferring, PayloadCheck,
        Unsignalled, Punctual
<1>1. CASE UNCHANGED vars
  BY <1>1 DEF vars
<1>2. CASE fault = "none" /\ Step
  <2>1. CASE Create
    BY <2>1 DEF Create
  <2>2. CASE CreateFails
    BY <2>2 DEF CreateFails
  <2>3. CASE tc_test_run
    BY <2>3 DEF tc_test_run
  <2>4. CASE tc_test_wait
    BY <2>4 DEF tc_test_wait
  <2>5. CASE WaitInterrupted
    BY <2>5 DEF WaitInterrupted
  <2>6. CASE DestroyWorkqueue
    BY <2>6 DEF DestroyWorkqueue
  <2>7. CASE dmatest_buflist_destroy
    BY <2>7 DEF dmatest_buflist_destroy
  <2>8. CASE dmatest_buflist_start
    BY <2>8, <1>2 DEF dmatest_buflist_start, Maps
  <2>9. CASE dma_async_issue_pending
    BY <2>9, <1>2 DEF dma_async_issue_pending
  <2>10. CASE HwFinish
    BY <2>10, <1>2, JobBound DEF HwFinish
  <2>11. CASE TakeCallback
    BY <2>11, <1>2 DEF TakeCallback
  <2>12. CASE UseAfterFree("callback") \/ UseAfterFree("timeout")
    BY <2>12 DEF UseAfterFree
  <2>13. CASE transmit_cb /\ buf # "freed"
    <3>1. LapTransferring /\ cb = "taken" /\ buf = "alloc" /\ main # "run"
      BY <2>13, <1>2, CallbackLap DEF transmit_cb
    <3>2. /\ timer' = (IF timer = "armed" THEN "idle" ELSE timer)
          /\ finished_jobs' = finished_jobs + 1 /\ cb' = "counted"
          /\ UNCHANGED <<mainVars, laps, job_counter, err, done, libVars, hwVars, work, fault>>
      BY <2>13 DEF transmit_cb, UseAfterFree
    <3>3. QED
      BY <1>2, <3>1, <3>2
  <2>14. CASE cb = "counted" /\ buf # "freed" /\ CountJob
    BY <2>14, <1>2, CallbackLap DEF CountJob
  <2>15. CASE cb = "counted" /\ buf # "freed" /\ LastLap
    BY <2>15, <1>2, CallbackLap DEF LastLap, payload_check
  <2>16. CASE cb = "counted" /\ buf # "freed" /\ NextLap
    BY <2>16, <1>2, CallbackLap DEF NextLap, payload_check
  <2>17. CASE TimerExpires
    BY <2>17, <1>2 DEF TimerExpires
  <2>18. CASE transfer_timedout /\ buf # "freed"
    <3>1. /\ timer = "fired" /\ timer' = "idle" /\ log' = log \cup {"timeout"}
          /\ UNCHANGED <<mainVars, tcVars, prepared, mapped, hwVars, work, cb, fault>>
      BY <2>18 DEF transfer_timedout
    <3>2. QED
      BY <1>2, <3>1
  <2>19. QED
    BY <1>2, <2>1, <2>2, <2>3, <2>4, <2>5, <2>6, <2>7, <2>8, <2>9, <2>10, <2>11, <2>12,
       <2>13, <2>14, <2>15, <2>16, <2>17, <2>18
       DEF Step, transmit_cb, tc_worker, transfer_timedout
<1>3. QED
  BY <1>1, <1>2 DEF Next, Ended

-----------------------------------------------------------------------------

(* Without signals a callback never meets a torn-down test case.           *)
LEMMA CallbackBeforeTeardown ==
  ASSUME TypeOK, EngineInv, Unsignalled, fault = "none", cb # "none"
  PROVE  buf = "alloc" /\ wq = "live" /\ main = "wait" /\ LapTransferring
<1> USE DEF TypeOK
<1>1. chan # "none"
  BY DEF EngineInv, NotStarted, Lifecycle
<1>2. main \notin {"destroy_wq", "destroy_buf", "done"}
  BY <1>1 DEF EngineInv, TeardownQuiescent, LapsOver, Outstanding
<1>3. main = "wait" /\ buf = "alloc" /\ wq = "live"
  BY <1>1, <1>2 DEF EngineInv, Lifecycle, NotStarted
<1>4. QED
  BY <1>3, CallbackLap

(* From the invariant: nothing is used after it has been freed.            *)
LEMMA StepNoUseAfterFree ==
  TypeOK /\ EngineInv /\ NoUseAfterFree /\ [Next]_vars => NoUseAfterFree'
<1> SUFFICES ASSUME TypeOK, EngineInv, NoUseAfterFree, [Next]_vars, Unsignalled', Punctual'
             PROVE  fault' \in {"none", "no_list"}
  BY DEF NoUseAfterFree
<1>0. Unsignalled /\ Punctual
  BY DisturbedGrows DEF Unsignalled, Punctual
<1> USE DEF TypeOK, NoUseAfterFree
<1>1. CASE UNCHANGED vars
  BY <1>0, <1>1 DEF vars
<1>2. CASE fault = "none" /\ Step
  <2>1. CASE transmit_cb \/ tc_worker
    <3>1. cb # "none"
      BY <2>1 DEF transmit_cb, tc_worker
    <3>2. buf = "alloc" /\ wq = "live"
      BY <1>0, <1>2, <3>1, CallbackBeforeTeardown
    <3>3. QED
      BY <1>2, <2>1, <3>2 DEF transmit_cb, tc_worker, CountJob, LastLap, NextLap
  <2>2. CASE transfer_timedout
    BY <1>0, <1>2, <2>2 DEF EngineInv, transfer_timedout
  <2>3. CASE CreateFails
    BY <1>2, <2>3 DEF CreateFails
  <2>4. CASE Create \/ tc_test_run \/ tc_test_wait \/ WaitInterrupted \/ DestroyWorkqueue
             \/ dmatest_buflist_destroy \/ dmatest_buflist_start \/ dma_async_issue_pending
             \/ HwFinish \/ TakeCallback \/ TimerExpires
    BY <1>2, <2>4 DEF Create, tc_test_run, tc_test_wait, WaitInterrupted, DestroyWorkqueue,
         dmatest_buflist_destroy, dmatest_buflist_start, dma_async_issue_pending, HwFinish,
         TakeCallback, TimerExpires
  <2>5. QED
    BY <1>2, <2>1, <2>2, <2>3, <2>4 DEF Step
<1>3. QED
  BY <1>1, <1>2 DEF Next, Ended

(* Every behaviour of the engine satisfies the inductive invariant: the    *)
(* types, the accounting of jobs and laps, the time-out's life and the     *)
(* mapping of the buffers.                                                 *)
THEOREM EngineInvariant == Spec => [](TypeOK /\ EngineInv)
<1>1. Init => TypeOK /\ EngineInv
  BY InitType, InitEngine
<1>2. TypeOK /\ EngineInv /\ [Next]_vars => (TypeOK /\ EngineInv)'
  BY StepType, StepEngine
<1>3. QED
  BY <1>1, <1>2, PTL DEF Spec

(* Type correctness: in particular no counter of the engine ever goes      *)
(* below zero and the hardware writes inside the list only.                *)
THEOREM TypeCorrect == Spec => []TypeOK
  BY EngineInvariant, PTL

(* Laps never overlap: the accounting of jobs in transmit_cb and tc_worker *)
(* is exact for every number of laps and entries.                          *)
THEOREM LapsNeverOverlap == Spec => []JobAccounting
<1>1. EngineInv => JobAccounting
  BY DEF EngineInv, JobAccounting
<1>2. QED
  BY <1>1, EngineInvariant, PTL

(* Without signals and late laps no handler uses freed memory.             *)
THEOREM Safety == Spec => []NoUseAfterFree
<1>1. Init => NoUseAfterFree
  BY DEF Init, NoUseAfterFree
<1>2. QED
  BY <1>1, StepNoUseAfterFree, EngineInvariant, PTL DEF Spec

(* Without signals, a step that oopses changes nothing the test case or    *)
(* the hardware will look at.                                              *)
LEMMA OopsStep ==
  ASSUME TypeOK, EngineInv, Unsignalled, fault = "none", fault' # "none", Step
  PROVE  UNCHANGED <<main, chan, result, tcVars, hwVars, work, cb>>
<1>1. CASE CreateFails
  BY <1>1 DEF CreateFails
<1>2. CASE UseAfterFree("callback") \/ UseAfterFree("timeout")
  BY <1>2 DEF UseAfterFree, mainVars
<1>3. CASE cb = "counted" /\ NextLap
  BY <1>3, CallbackBeforeTeardown DEF NextLap
<1>4. QED
  BY <1>1, <1>2, <1>3
     DEF Step, Create, tc_test_run, tc_test_wait, WaitInterrupted, DestroyWorkqueue,
         dmatest_buflist_destroy, dmatest_buflist_start, dma_async_issue_pending, HwFinish,
         TakeCallback, TimerExpires, transmit_cb, tc_worker, CountJob, LastLap,
         transfer_timedout

(* Without signals the test case tears down only after its last lap, with  *)
(* nothing outstanding, even if laps are late.                             *)
THEOREM TeardownAfterLastLap == Spec => []TeardownQuiescent
<1>1. Init => TeardownQuiescent
  BY DEF Init, TeardownQuiescent
<1>2. TypeOK /\ EngineInv /\ TeardownQuiescent /\ [Next]_vars /\ EngineInv' => TeardownQuiescent'
  <2> SUFFICES ASSUME TypeOK, EngineInv, TeardownQuiescent, [Next]_vars, EngineInv', Unsignalled'
               PROVE  TeardownQuiescent'
    BY DEF TeardownQuiescent
  <2>0. Unsignalled
    BY DisturbedGrows DEF Unsignalled
  <2>1. CASE fault' = "none"
    BY <2>1 DEF EngineInv
  <2>2. CASE UNCHANGED vars
    BY <2>0, <2>2 DEF TeardownQuiescent, LapsOver, Outstanding, vars, mainVars, tcVars, hwVars
  <2>3. CASE fault = "none" /\ fault' # "none" /\ Step
    BY <2>0, <2>3, OopsStep DEF TeardownQuiescent, LapsOver, Outstanding, tcVars, hwVars
  <2>4. QED
    BY <2>1, <2>2, <2>3 DEF Next, Ended
<1>3. QED
  BY <1>1, <1>2, EngineInvariant, PTL DEF Spec

(* The channel, the buffers and the work queue are given back on every     *)
(* path, also after a failed creation, a signal or an oops.                *)
LEMMA NothingIsLeaked == Spec => []NothingLeaks
<1>1. Init => NothingLeaks
  BY DEF Init, NothingLeaks
<1>2. EngineInv /\ NothingLeaks /\ [Next]_vars /\ EngineInv' => NothingLeaks'
  <2> SUFFICES ASSUME EngineInv, NothingLeaks, [Next]_vars, EngineInv'
               PROVE  NothingLeaks'
    OBVIOUS
  <2>1. CASE fault' = "none"
    BY <2>1 DEF EngineInv, Lifecycle, NothingLeaks
  <2>2. CASE UNCHANGED vars
    BY <2>2 DEF NothingLeaks, vars, mainVars
  <2>3. CASE fault = "none" /\ fault' # "none" /\ Step
    <3>1. CASE CreateFails
      BY <2>3, <3>1 DEF CreateFails, NothingLeaks
    <3>2. CASE UseAfterFree("callback") \/ UseAfterFree("timeout")
      BY <2>3, <3>2 DEF UseAfterFree, mainVars, NothingLeaks
    <3>3. CASE cb = "counted" /\ NextLap
      BY <2>3, <3>3 DEF NextLap, NothingLeaks, mainVars
    <3>4. QED
      BY <2>3, <3>1, <3>2, <3>3
         DEF Step, Create, tc_test_run, tc_test_wait, WaitInterrupted, DestroyWorkqueue,
             dmatest_buflist_destroy, dmatest_buflist_start, dma_async_issue_pending, HwFinish,
             TakeCallback, TimerExpires, transmit_cb, tc_worker, CountJob, LastLap,
             transfer_timedout
  <2>4. QED
    BY <2>1, <2>2, <2>3 DEF Next, Ended
<1>3. QED
  BY <1>1, <1>2, EngineInvariant, PTL DEF Spec

(* Both together: the teardown is complete, and of a quiet engine.         *)
THEOREM TeardownComplete == Spec => []TornDown
<1>1. TeardownQuiescent /\ NothingLeaks => TornDown
  BY DEF TornDown
<1>2. QED
  BY <1>1, TeardownAfterLastLap, NothingIsLeaked, PTL

(* Mapping and time-out go with the jobs of a lap, for any number of laps. *)
THEOREM TransfersGuarded == Spec => []TransferGuarded
<1>1. EngineInv => TransferGuarded
  BY DEF EngineInv, TransferGuarded, MappedWhileTransferring, TimerGuardsFirstJob
<1>2. QED
  BY <1>1, EngineInvariant, PTL

(* Without signals a test case that returns 0 has copied every buffer.     *)
THEOREM ZeroIsTrustworthy == Spec => []ZeroMeansCopied
<1>1. Init => ZeroMeansCopied
  BY DEF Init, ZeroMeansCopied
<1>2. TypeOK /\ EngineInv /\ ZeroMeansCopied /\ [Next]_vars /\ EngineInv' => ZeroMeansCopied'
  <2> SUFFICES ASSUME TypeOK, EngineInv, ZeroMeansCopied, [Next]_vars, EngineInv', Unsignalled'
               PROVE  ZeroMeansCopied'
    BY DEF ZeroMeansCopied
  <2>0. Unsignalled
    BY DisturbedGrows DEF Unsignalled
  <2>1. CASE fault' = "none"
    BY <2>1 DEF EngineInv, Lifecycle, ZeroMeansCopied, PayloadCheck
  <2>2. CASE UNCHANGED vars
    BY <2>0, <2>2 DEF ZeroMeansCopied, vars, mainVars, hwVars
  <2>3. CASE fault = "none" /\ fault' # "none" /\ Step
    BY <2>0, <2>3, OopsStep DEF ZeroMeansCopied, hwVars
  <2>4. QED
    BY <2>1, <2>2, <2>3 DEF Next, Ended
<1>3. QED
  BY <1>1, <1>2, EngineInvariant, PTL DEF Spec

-----------------------------------------------------------------------------

(* Under the mapping of Promise every step of the engine is a step of the  *)
(* promise or leaves it alone.                                             *)
LEMMA StepPromise ==
  ASSUME TypeOK, EngineInv, [Next]_vars
  PROVE  [Promise!Next]_(Promise!vars)
<1> USE DEF TypeOK, Promise!vars, mainVars, tcVars, libVars, hwVars
<1>1. CASE UNCHANGED vars
  BY <1>1 DEF vars
<1>2. CASE fault = "none" /\ Step
  <2>1. CASE Create
    BY <2>1 DEF Create, Promise!Next, Promise!Start
  <2>2. CASE CreateFails
    BY <2>2 DEF CreateFails, Promise!Next, Promise!Refuse, EINVAL
  <2>3. CASE tc_test_run
    BY <2>3 DEF tc_test_run
  <2>4. CASE tc_test_wait
    BY <2>4 DEF tc_test_wait
  <2>5. CASE DestroyWorkqueue
    BY <2>5 DEF DestroyWorkqueue
  <2>6. CASE dmatest_buflist_destroy
    <3>1. laps = 0 \/ "signal" \in disturbed
      BY <1>2, <2>6 DEF dmatest_buflist_destroy, EngineInv, Lifecycle, TeardownQuiescent, LapsOver,
                        Unsignalled
    <3>2. QED
      BY <2>6, <3>1 DEF dmatest_buflist_destroy, Promise!Next, Promise!Return
  <2>7. CASE dmatest_buflist_start
    BY <2>7 DEF dmatest_buflist_start
  <2>8. CASE dma_async_issue_pending
    BY <2>8 DEF dma_async_issue_pending
  <2>9. CASE HwFinish
    <3>1. laps > 0 /\ buf = "alloc"
      BY <1>2, <2>9, JobBound DEF HwFinish
    <3>2. main \notin {"create", "done"}
      BY <1>2, <3>1 DEF EngineInv, Lifecycle
    <3>3. UNCHANGED <<mainVars, tcVars>>
      BY <2>9 DEF HwFinish
    <3>4. QED
      BY <3>1, <3>2, <3>3 DEF Promise!Next, Promise!Transfer
  <2>10. CASE TakeCallback
    BY <2>10 DEF TakeCallback
  <2>11. CASE UseAfterFree("callback") \/ UseAfterFree("timeout")
    BY <2>11 DEF UseAfterFree
  <2>12. CASE transmit_cb /\ buf # "freed"
    BY <2>12 DEF transmit_cb
  <2>13. CASE CountJob
    BY <2>13 DEF CountJob
  <2>14. CASE cb = "counted" /\ buf # "freed" /\ (LastLap \/ NextLap)
    <3>1. laps > 0 /\ main \notin {"create", "done"}
      BY <1>2, <2>14, CallbackLap DEF LapTransferring, EngineInv, Lifecycle
    <3>2. /\ laps' = laps - 1 /\ err' = PayloadCheck
          /\ UNCHANGED <<mainVars, hwVars>>
      BY <2>14 DEF LastLap, NextLap, payload_check
    <3>3. QED
      BY <3>1, <3>2 DEF PayloadCheck, Promise!Next, Promise!EndLap
  <2>15. CASE TimerExpires
    BY <2>15 DEF TimerExpires
  <2>16. CASE transfer_timedout /\ buf # "freed"
    BY <2>16 DEF transfer_timedout
  <2>17. CASE WaitInterrupted
    BY <2>17 DEF WaitInterrupted, Promise!Next, Promise!Signal
  <2>18. QED
    BY <1>2, <2>1, <2>2, <2>3, <2>4, <2>5, <2>6, <2>7, <2>8, <2>9, <2>10, <2>11, <2>12,
       <2>13, <2>14, <2>15, <2>16, <2>17
       DEF Step, transmit_cb, tc_worker, transfer_timedout
<1>3. QED
  BY <1>1, <1>2 DEF Next, Ended

(* The engine, with all its contexts, late laps and signals, implements    *)
(* the promise of a test case.                                             *)
THEOREM Refinement == Spec => ImplementsTestCase
<1>1. Init => Promise!Init
  <2> SUFFICES ASSUME Init PROVE Promise!Init
    OBVIOUS
  <2>1. cfg.laps \in Nat \ {0} /\ 1 \in 1 .. cfg.list_len
    BY InitType, ConfigFacts
  <2>2. QED
    BY <2>1 DEF Init, Promise!Init
<1>2. TypeOK /\ EngineInv /\ [Next]_vars => [Promise!Next]_(Promise!vars)
  BY StepPromise
<1>3. QED
  BY <1>1, <1>2, EngineInvariant, PTL DEF Spec, ImplementsTestCase, Promise!Spec

-----------------------------------------------------------------------------
(* The sizes of a buffer list stay between their bounds and the list stays *)
(* inside its allocation.                                                  *)

(* What a quotient is.                                                      *)
LEMMA QuotientFacts ==
  ASSUME NEW n \in Nat, NEW d \in Nat \ {0}
  PROVE  /\ n \div d \in Nat /\ n % d \in 0 .. d - 1
         /\ n = d * (n \div d) + (n % d)
BY Z3

(* A product grows with its factor.                                         *)
LEMMA ProductMonotone ==
  ASSUME NEW a \in Nat, NEW b \in Nat, NEW d \in Nat, a <= b
  PROVE  d * a <= d * b
BY Z3

(* Only one number fits between the multiples of the divisor.               *)
LEMMA QuotientUnique ==
  ASSUME NEW n \in Nat, NEW d \in Nat \ {0}, NEW q \in Nat,
         d * q <= n, n < d * q + d
  PROVE  n \div d = q
<1> DEFINE p == n \div d
<1>1. p \in Nat /\ n % d \in 0 .. d - 1 /\ n = d * p + (n % d)
  BY QuotientFacts
<1>2. CASE p < q
  <2>1. d * (p + 1) <= d * q
    BY <1>1, <1>2, ProductMonotone
  <2>2. d * (p + 1) = d * p + d
    BY <1>1
  <2> QED
    BY <1>1, <2>1, <2>2
<1>3. CASE p > q
  <2>1. d * (q + 1) <= d * p
    BY <1>1, <1>3, ProductMonotone
  <2>2. d * (q + 1) = d * q + d
    BY <1>1
  <2> QED
    BY <1>1, <2>1, <2>2
<1> QED
  BY <1>1, <1>2, <1>3

(* A quotient grows with its dividend.                                      *)
LEMMA QuotientMonotone ==
  ASSUME NEW m \in Nat, NEW n \in Nat, NEW d \in Nat \ {0}, m <= n
  PROVE  m \div d <= n \div d
<1> DEFINE p == m \div d
           q == n \div d
<1>1. p \in Nat /\ m % d \in 0 .. d - 1 /\ m = d * p + (m % d)
  BY QuotientFacts
<1>2. q \in Nat /\ n % d \in 0 .. d - 1 /\ n = d * q + (n % d)
  BY QuotientFacts
<1>3. CASE q < p
  <2>1. d * (q + 1) <= d * p
    BY <1>1, <1>2, <1>3, ProductMonotone
  <2>2. d * (q + 1) = d * q + d
    BY <1>2
  <2> QED
    BY <1>1, <1>2, <2>1, <2>2
<1> QED
  BY <1>1, <1>2, <1>3

U32 == 2 * INT_MAX + 1

(* U32_MAX_div is division of 0xFFFFFFFF, written so that TLC's integers    *)
(* suffice.                                                                 *)
LEMMA DivisionOfU32Max ==
  ASSUME NEW d \in Nat \ {0}
  PROVE  U32_MAX_div(d) = U32 \div d
<1> DEFINE a == INT_MAX \div d
           b == INT_MAX % d
           e == 2 * b + 1
           f == e \div d
<1>1. INT_MAX \in Nat
  BY DEF INT_MAX
<1>2. a \in Nat /\ b \in 0 .. d - 1 /\ INT_MAX = d * a + b
  BY <1>1, QuotientFacts
<1>3. e \in Nat
  BY <1>2
<1>4. f \in Nat /\ (e % d) \in 0 .. d - 1 /\ e = d * f + (e % d)
  BY <1>3, QuotientFacts
<1>5. d * (2 * a + f) = 2 * (d * a) + d * f
  BY <1>2, <1>4
<1>6. U32 = d * (2 * a + f) + (e % d)
  BY <1>1, <1>2, <1>3, <1>4, <1>5 DEF U32
<1>7. U32 \in Nat /\ 2 * a + f \in Nat
  BY <1>1, <1>2, <1>4 DEF U32
<1>8. d * (2 * a + f) <= U32 /\ U32 < d * (2 * a + f) + d
  BY <1>4, <1>6, <1>7
<1>9. U32 \div d = 2 * a + f
  BY <1>7, <1>8, QuotientUnique
<1> QED
  BY <1>9 DEF U32_MAX_div

(* Dividing by the quotient gives the divisor back, if the quotient is the  *)
(* larger of the two.                                                       *)
LEMMA DivideByQuotient ==
  ASSUME NEW u \in Nat, NEW d \in Nat \ {0}, d < u \div d
  PROVE  u \div (u \div d) = d
<1> DEFINE q == u \div d
           r == u % d
<1> HIDE DEF q, r
<1>1. q \in Nat /\ r \in 0 .. d - 1 /\ u = d * q + r /\ d < q
  BY QuotientFacts DEF q, r
<1>2. d * q = q * d /\ q * d \in Nat
  BY <1>1
<1>3. q * d <= u /\ u < q * d + q
  BY <1>1, <1>2
<1>4. u \div q = d
  BY <1>1, <1>3, QuotientUnique
<1> QED
  BY <1>4 DEF q

(* The quotient is at least as large as any factor that fits.               *)
LEMMA QuotientAtLeast ==
  ASSUME NEW u \in Nat, NEW d \in Nat \ {0}, NEW k \in Nat, d * k <= u
  PROVE  u \div d \in Nat /\ k <= u \div d
<1>1. d * k \in Nat
  OBVIOUS
<1>2. (d * k) \div d = k
  BY <1>1, QuotientUnique
<1>3. (d * k) \div d <= u \div d
  BY <1>1, QuotientMonotone
<1> QED
  BY <1>2, <1>3, QuotientFacts

(* Dividing 0xFFFFFFFF by d and again by the quotient gives d back, for     *)
(* every d below 2^16: the quotient is then larger than d.                  *)
LEMMA DivideTwice ==
  ASSUME NEW d \in Nat \ {0}, d < 65536
  PROVE  U32_MAX_div(U32_MAX_div(d)) = d
<1> DEFINE u == U32
           q == u \div d
<1>1. u \in Nat /\ d * 65537 <= u
  BY DEF U32, INT_MAX
<1> HIDE DEF u
<1>2. q \in Nat /\ 65537 <= q
  BY <1>1, QuotientAtLeast
<1>3. d < q
  BY <1>2
<1>4. u \div q = d
  BY <1>1, <1>3, DivideByQuotient
<1> HIDE DEF q
<1>5. U32_MAX_div(d) = q
  BY DivisionOfU32Max DEF q, u
<1>6. U32_MAX_div(q) = u \div q
  BY <1>2, DivisionOfU32Max DEF u
<1> QED
  BY <1>4, <1>5, <1>6

(* ALIGN keeps the order, and rounds up by less than the alignment.         *)
LEMMA AlignMonotone ==
  ASSUME NEW x \in Nat, NEW y \in Nat, NEW a \in Nat \ {0}, x <= y
  PROVE  /\ ALIGN(x, a) \in Nat /\ ALIGN(y, a) \in Nat
         /\ ALIGN(x, a) <= ALIGN(y, a)
<1> DEFINE p == (x + a - 1) \div a
           q == (y + a - 1) \div a
<1>1. x + a - 1 \in Nat /\ y + a - 1 \in Nat /\ x + a - 1 <= y + a - 1
  OBVIOUS
<1>2. p \in Nat /\ q \in Nat /\ p <= q
  BY <1>1, QuotientFacts, QuotientMonotone
<1>3. a * p <= a * q
  BY <1>2, ProductMonotone
<1>4. a * p = p * a /\ a * q = q * a /\ p * a \in Nat /\ q * a \in Nat
  BY <1>2
<1> QED
  BY <1>3, <1>4 DEF ALIGN

(* The quotient drawn for a random size is at most max - min.               *)
LEMMA DrawsBound ==
  ASSUME NEW c \in Calls, c.size.kind = "randomize", NEW q \in Draws(c.size)
  PROVE  q \in 0 .. c.size.max - c.size.min
<1> DEFINE lo == c.size.min
           hi == c.size.max
<1>1. lo \in Nat /\ hi \in Nat /\ lo < hi /\ hi - lo < 65536
  BY CallsAssumption
<1>2. q \in 0 .. U32_MAX_div(U32_MAX_div(hi - lo))
  BY DEF Draws
<1> HIDE DEF lo, hi
<1>3. hi - lo \in Nat \ {0}
  BY <1>1
<1>4. U32_MAX_div(U32_MAX_div(hi - lo)) = hi - lo
  BY <1>1, <1>3, DivideTwice
<1>5. q \in 0 .. hi - lo
  BY <1>2, <1>4
<1> QED
  BY <1>5 DEF lo, hi

(* What CallsAssumption says of the call being made.                        *)
LEMMA CallFacts ==
  ASSUME NEW c \in Calls
  PROVE  /\ c.size.min \in Nat /\ c.size.max \in Nat /\ c.size.min <= c.size.max
         /\ c.align \in Nat \ {0} /\ c.length \in Nat \ {0}
BY CallsAssumption

(* A size written by either loop is between the aligned bounds.             *)
LEMMA SizeBetween ==
  ASSUME NEW c \in Calls, NEW x \in c.size.min .. c.size.max
  PROVE  /\ ALIGN(x, c.align) \in Nat
         /\ ALIGN(c.size.min, c.align) <= ALIGN(x, c.align)
         /\ ALIGN(x, c.align) <= ALIGN(c.size.max, c.align)
<1> DEFINE lo == c.size.min
           hi == c.size.max
           a == c.align
<1>1. lo \in Nat /\ hi \in Nat /\ a \in Nat \ {0}
  BY CallFacts
<1> HIDE DEF lo, hi, a
<1>2. x \in Nat /\ lo <= x /\ x <= hi
  BY <1>1 DEF lo, hi
<1>3. ALIGN(x, a) \in Nat /\ ALIGN(lo, a) <= ALIGN(x, a) /\ ALIGN(x, a) <= ALIGN(hi, a)
  BY <1>1, <1>2, AlignMonotone
<1> QED
  BY <1>3 DEF lo, hi, a

(* Appending such a size keeps the invariant.                               *)
LEMMA AppendSize ==
  ASSUME SizeInv, pc = "fill", Len(list_size) < call.length, NEW size \in Nat,
         ALIGN(call.size.min, call.align) <= size, size <= ALIGN(call.size.max, call.align),
         list_size' = Append(list_size, size), pc' = "fill", call' = call
  PROVE  SizeInv'
<1> USE DEF SizeInv
<1>1. /\ list_size \in Seq(Int) /\ call \in Calls /\ call.length \in Nat
      /\ Len(list_size) \in Nat
  BY CallFacts DEF SizeTypeOK
<1>2. /\ Len(list_size') = Len(list_size) + 1
      /\ list_size'[Len(list_size) + 1] = size
      /\ \A i \in 1 .. Len(list_size) : list_size'[i] = list_size[i]
  BY <1>1
<1>3. SizeTypeOK'
  BY <1>1 DEF SizeTypeOK
<1>4. SizesInRange'
  BY <1>1, <1>2 DEF SizesInRange
<1>5. \A i \in 1 .. Len(list_size') : i <= call'.length => list_size'[i] \in Nat
  BY <1>1, <1>2
<1> QED
  BY <1>1, <1>2, <1>3, <1>4, <1>5

(* Every step keeps the invariant.                                          *)
LEMMA StepSizes == SizeInv /\ [SizeNext]_sizeVars => SizeInv'
<1> SUFFICES ASSUME SizeInv, [SizeNext]_sizeVars PROVE SizeInv'
  OBVIOUS
<1>1. call \in Calls /\ list_size \in Seq(Int)
  BY DEF SizeInv, SizeTypeOK
<1>2. CASE dmatest_sizelist_randomize
  <2>1. PICK q \in Draws(call.size) :
          LET size == ALIGN(q + call.size.min, call.align)
          IN  /\ list_size' = Append(list_size, size)
              /\ pc' = IF size > ALIGN(call.size.max, call.align) THEN "bug" ELSE "fill"
    BY <1>2 DEF dmatest_sizelist_randomize
  <2>2. q \in 0 .. call.size.max - call.size.min
    BY <1>1, <1>2, DrawsBound DEF dmatest_sizelist_randomize
  <2>3. q + call.size.min \in call.size.min .. call.size.max
    BY <1>1, <2>2, CallFacts
  <2> DEFINE size == ALIGN(q + call.size.min, call.align)
             top == ALIGN(call.size.max, call.align)
  <2>4. /\ size \in Nat /\ ALIGN(call.size.min, call.align) <= size /\ size <= top
    BY <1>1, <2>3, SizeBetween
  <2>5. top \in Nat
    BY <1>1, CallFacts, AlignMonotone
  <2>6. list_size' = Append(list_size, size) /\ (size <= top => pc' = "fill")
    BY <2>1, <2>4, <2>5
  <2>7. pc = "fill" /\ Len(list_size) < call.length /\ call' = call
    BY <1>2 DEF dmatest_sizelist_randomize
  <2> HIDE DEF size
  <2> QED
    BY <2>4, <2>6, <2>7, AppendSize
<1>3. CASE dmatest_sizelist_set
  <2>1. call.size.min \in call.size.min .. call.size.max
    BY <1>1, CallFacts
  <2> DEFINE size == ALIGN(call.size.min, call.align)
  <2>2. size \in Nat /\ size <= ALIGN(call.size.max, call.align) /\ size <= size
    BY <1>1, <2>1, SizeBetween
  <2>3. /\ pc = "fill" /\ Len(list_size) < call.length /\ call' = call
        /\ list_size' = Append(list_size, size) /\ pc' = "fill"
    BY <1>3 DEF dmatest_sizelist_set
  <2> QED
    BY <2>2, <2>3, AppendSize
<1>4. CASE Terminate
  <2>1. /\ Len(list_size) = call.length /\ call' = call /\ pc' = "done"
        /\ list_size' = Append(list_size, -1) /\ call.length \in Nat
    BY <1>1, <1>4, CallFacts DEF Terminate
  <2>2. /\ Len(list_size') = call.length + 1 /\ list_size'[call.length + 1] = -1
        /\ \A i \in 1 .. call.length : list_size'[i] = list_size[i]
    BY <1>1, <2>1
  <2>3. SizeTypeOK'
    BY <1>1, <2>1 DEF SizeTypeOK
  <2>4. SizesInRange'
    BY <2>1, <2>2 DEF SizeInv, SizesInRange
  <2> QED
    BY <2>1, <2>2, <2>3, <2>4 DEF SizeInv
<1>5. CASE UNCHANGED sizeVars
  BY <1>5 DEF sizeVars, SizeInv, SizeTypeOK, SizesInRange
<1> QED
  BY <1>2, <1>3, <1>4, <1>5 DEF SizeNext, SizeEnded

(* The invariant holds throughout.                                          *)
LEMMA SizeInvariant == SizeSpec => []SizeInv
<1>1. SizeInit => SizeInv
  <2> SUFFICES ASSUME SizeInit PROVE SizeInv
    OBVIOUS
  <2>1. call \in Calls /\ list_size = <<>> /\ pc = "fill" /\ Len(list_size) = 0
    BY DEF SizeInit
  <2>2. call.length \in Nat
    BY <2>1, CallFacts
  <2> QED
    BY <2>1, <2>2 DEF SizeInv, SizeTypeOK, SizesInRange
<1> QED
  BY <1>1, StepSizes, PTL DEF SizeSpec

(* dmatest_sizelist_randomize never trips its BUG_ON and every buffer is    *)
(* between min and max long, for every list length and random sequence.     *)
THEOREM SizesBounded == SizeSpec => []SizesInRange
<1>1. SizeInv => SizesInRange
  BY DEF SizeInv
<1> QED
  BY <1>1, SizeInvariant, PTL

(* One byte more than the sizes need is room for the four bytes of the      *)
(* terminator, because kmalloc rounds up; and no size is mistaken for it.   *)
THEOREM ListTerminated == SizeSpec => []WalkStops
<1>1. SizeInv => WalkStops
  <2> SUFFICES ASSUME SizeInv PROVE WalkStops
    OBVIOUS
  <2> DEFINE n == call.length
             k == (4 * n + 1 + 8 - 1) \div 8
  <2>1. n \in Nat \ {0} /\ list_size \in Seq(Int) /\ Len(list_size) \in Nat
    BY CallFacts DEF SizeInv, SizeTypeOK
  <2>2. CASE pc = "bug"
    BY <2>2 DEF SizeInv, SizesInRange
  <2>3. CASE pc \in {"fill", "done"}
    <3>1. Len(list_size) <= n + 1
      BY <2>1, <2>3 DEF SizeInv
    <3>2. Room = k * 8
      BY DEF Room, ALIGN
    <3> HIDE DEF n
    <3>3. 4 * (n + 1) <= k * 8
      BY <2>1
    <3>4. 4 * Len(list_size) <= Room
      BY <2>1, <3>1, <3>2, <3>3
    <3>5. ASSUME pc = "done", NEW i \in 1 .. Len(list_size)
          PROVE  list_size[i] = -1 <=> i = n + 1
      BY <2>1, <3>5 DEF SizeInv, n
    <3> QED
      BY <3>4, <3>5 DEF WalkStops, n
  <2> QED
    BY <2>2, <2>3 DEF SizeInv, SizeTypeOK
<1> QED
  BY <1>1, SizeInvariant, PTL

(* Both: a list is as its users need it, whatever it is asked for.          *)
THEOREM ListsAreRight == SizeSpec => []ListRight
<1>1. SizesInRange /\ WalkStops => ListRight
  BY DEF ListRight
<1> QED
  BY <1>1, SizesBounded, ListTerminated, PTL

=============================================================================
