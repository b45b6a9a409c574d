------------------------------ MODULE MCTlibio ------------------------------
(* The methods of both tables, and some that combine them or add bits as a   *)
(* number, on each kind of descriptor.                                       *)
EXTENDS Tlibio

Letters == {<<t>> : t \in DOMAIN Lio_info1}

Lists == {<<t>> : t \in DOMAIN Lio_info2}
           \cup {<<"async", "active">>, <<"alistio", "recall">>, <<"slistio", "sigpause">>,
                 <<"sync", "nowait">>}

Given(letter, tokens, number) ==
  [op : {"write", "read"}, fd : {"file", "fifo", "bad"}, letter : {letter}, tokens : tokens,
   number : number, size : {0, 2, 3}, sig : {0, 1}]

AllCalls ==
  Given(TRUE, Letters, {{}}) \cup Given(FALSE, Lists, {{}, {"USE_SIGNAL"}, {"CBSUSPEND"}, {"SIGSUSPEND"}})
=============================================================================
