------------------------------ MODULE MCTcLink ------------------------------
(* Up to four jobs; the test cases have one, two, four and ten.             *)
EXTENDS TcLink

SmallLinks == [jobs : 1 .. 4, start_in_sequence : BOOLEAN]

Table == INSTANCE TcTable

(* The small links are those of the test module, cut down to four jobs.     *)
ASSUME TableIsCovered ==
  {[jobs |-> IF l.jobs < 4 THEN l.jobs ELSE 4, start_in_sequence |-> l.start_in_sequence] :
     l \in Table!LinkTests} \subseteq SmallLinks
=============================================================================
