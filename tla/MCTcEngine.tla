----------------------------- MODULE MCTcEngine -----------------------------
(* Small test cases for TLC: up to three laps of up to three entries, every *)
(* way of starting a lap and of handling a failed creation that occurs in   *)
(* the test module.                                                         *)
EXTENDS TcEngine

SmallTestCases ==
  {c \in [laps : 1 .. 3, list_len : 1 .. 3, sg : BOOLEAN, ack : BOOLEAN,
          wrapper : Wrappers] : c.wrapper # "init" => c.ack}

Table == INSTANCE TcTable

AtMost(n, bound) == IF n < bound THEN n ELSE bound

(* The proofs apply to the test cases of the module, and the small ones     *)
(* are all of these, cut down to three laps and entries.                    *)
ASSUME TableIsCovered ==
  /\ Table!EngineConfigs \subseteq TestCases
  /\ {[c EXCEPT !.laps = AtMost(@, 3), !.list_len = AtMost(@, 3)] : c \in Table!EngineConfigs}
       \subseteq SmallTestCases
=============================================================================
