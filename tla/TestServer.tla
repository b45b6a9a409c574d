------------------------------ MODULE TestServer ------------------------------
(***************************************************************************)
(* What the files test_<n> promise whoever reads them, without a mutex,    *)
(* jobs, callbacks and places in the code: each read is served at one      *)
(* moment between its beginning and its end, from the channels that are    *)
(* free at that moment.  A test case is refused (-EINVAL) for want of a    *)
(* channel only when none is free, none comes back, and only a failure of  *)
(* test_22 to test_25 loses one.  Once a signal has ended a sleep on the   *)
(* mutex, reads still are served and answered one by one, but any number   *)
(* of channels may have been lost, or released while in use.               *)
(***************************************************************************)
EXTENDS Integers

CONSTANTS Readers, CHANNELS

VARIABLES
  asked,      \* per reader: the test case whose file it reads, or "nothing"
  result,     \* per reader: what its test case returned, or PENDING
  answer,     \* per reader: the last line it got
  free,       \* the channels that no test case has lost
  disturbed   \* 1 once a signal has ended a sleep on the mutex

vars == <<asked, result, answer, free, disturbed>>

Tests == {"tc_22_25", "plain", "script", "removed"}
Chans   == 1 .. CHANNELS
PENDING == 1   \* no error code is positive
EINVAL  == 22
EINTR   == 4

Init ==
  /\ asked = [r \in Readers |-> "nothing"] /\ result = [r \in Readers |-> PENDING]
  /\ answer = [r \in Readers |-> "none"]
  /\ free = Chans /\ disturbed = 0

Ask(r) ==
  /\ asked[r] = "nothing" /\ \E t \in Tests : asked' = [asked EXCEPT ![r] = t]
  /\ UNCHANGED <<result, answer, free, disturbed>>

(* What test case t may return with these channels, of which it leaves     *)
(* the rest: all of a read's effect, in one step.                          *)
Effect(t, channels, e, rest) ==
  \/ t = "script" /\ e \in {0, -EINVAL} /\ rest = channels
  \/ t = "removed" /\ e = 0 /\ rest = channels
  \/ t = "plain" /\ channels # {} /\ e \in {0, -1} /\ rest = channels
  \/ t = "tc_22_25" /\ channels # {} /\ e = 0 /\ rest = channels
  \/ t = "tc_22_25" /\ e = -EINVAL /\ \E c \in channels : rest = channels \ {c}
  \/ t \in {"plain", "tc_22_25"} /\ channels = {} /\ e = -EINVAL /\ rest = channels

(* What a signal, now or before, adds: the read fails on the mutex, or     *)
(* ends as it would with other channels.                                   *)
Unaccounted(t, e) == e = -EINTR \/ \E channels, rest \in SUBSET Chans : Effect(t, channels, e, rest)

Serve(r) ==
  /\ asked[r] # "nothing" /\ result[r] = PENDING
  /\ disturbed' \in {disturbed, 1} /\ free' \in SUBSET Chans
  /\ \E e \in {0, -1, -EINTR, -EINVAL} :
       /\ result' = [result EXCEPT ![r] = e]
       /\ \/ Effect(asked[r], free, e, free')
          \/ disturbed' = 1 /\ Unaccounted(asked[r], e)
  /\ UNCHANGED <<asked, answer>>

(* The line for result e of test case t.                                   *)
Line(t, e) ==
  CASE t = "script"             -> IF e = 0 THEN "echo OK" ELSE "echo FAIL"
    [] t = "removed" /\ e = 0   -> "removed OK"
    [] OTHER                    -> IF e = 0 THEN "OK" ELSE "FAIL"

Reply(r) ==
  /\ result[r] # PENDING
  /\ answer' = [answer EXCEPT ![r] = Line(asked[r], result[r])]
  /\ asked' = [asked EXCEPT ![r] = "nothing"] /\ result' = [result EXCEPT ![r] = PENDING]
  /\ UNCHANGED <<free, disturbed>>

(* A signal ends a sleep, or a disturbed test case takes or releases some. *)
Disturb == disturbed' = 1 /\ free' \in SUBSET Chans /\ UNCHANGED <<asked, result, answer>>

Next == Disturb \/ \E r \in Readers : Ask(r) \/ Serve(r) \/ Reply(r)

Spec == Init /\ [][Next]_vars
=============================================================================
