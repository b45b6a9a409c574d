------------------------------ MODULE TestCase ------------------------------
(***************************************************************************)
(* What a DMA test case promises its caller, without work queues,          *)
(* callbacks and timers: it either refuses to start, or runs all its laps, *)
(* judges the buffers at the end of each, and returns the judgement of the *)
(* last one.  Only a signal makes it return earlier, with the judgement    *)
(* reached so far.                                                         *)
(***************************************************************************)
EXTENDS Integers

VARIABLES
  phase,    \* "idle", "running" or "returned"
  left,     \* laps still to run
  cut,      \* has a signal cut the wait for the laps short?
  differ,   \* does some destination differ from its source?
  judged,   \* the judgement of the lap that ended last
  verdict   \* what the test case returned

vars == <<phase, left, cut, differ, judged, verdict>>

Init ==
  /\ phase = "idle" /\ left \in Nat \ {0}
  /\ cut = FALSE /\ differ = TRUE /\ judged = 0 /\ verdict = 0

(* No channel: the test case fails at once.                                *)
Refuse ==
  /\ phase = "idle" /\ phase' = "returned"
  /\ verdict' = -22
  /\ UNCHANGED <<left, cut, differ, judged>>

Start ==
  /\ phase = "idle" /\ phase' = "running"
  /\ UNCHANGED <<left, cut, differ, judged, verdict>>

(* The engine writes destinations, only while a lap is running.            *)
Transfer ==
  /\ phase = "running" /\ left > 0
  /\ differ' \in BOOLEAN
  /\ UNCHANGED <<phase, left, cut, judged, verdict>>

EndLap ==
  /\ phase = "running" /\ left > 0
  /\ left' = left - 1
  /\ judged' = IF differ THEN -1 ELSE 0
  /\ UNCHANGED <<phase, cut, differ, verdict>>

Signal ==
  /\ phase = "running" /\ cut' = TRUE
  /\ UNCHANGED <<phase, left, differ, judged, verdict>>

(* Without a signal the verdict is the judgement of the last lap.          *)
Return ==
  /\ phase = "running" /\ (left = 0 \/ cut)
  /\ phase' = "returned" /\ verdict' = judged
  /\ UNCHANGED <<left, cut, differ, judged>>

Next == Refuse \/ Start \/ Transfer \/ EndLap \/ Signal \/ Return

Spec == Init /\ [][Next]_vars
=============================================================================
