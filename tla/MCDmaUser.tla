----------------------------- MODULE MCDmaUser -----------------------------
(* Small instances of DmaUser.                                             *)
EXTENDS DmaUser

\* The table, the ends of the range of tests, some tests in it, one behind it.
Options == {0, 1, 22, 25, 30, 69, 70}
============================================================================
