------------------------------ MODULE MCTstRes ------------------------------
(* Two messages, one file, and tst_brk with two valid types and an invalid *)
(* one.                                                                    *)
EXTENDS TstRes

CONSTANTS m1, m2, f1

TwoMesgs == {m1, m2}
OneFile  == {f1}
NoFiles  == {}
SomeBreaks == {"TFAIL", "TBROK", "TPASS"}
=============================================================================
