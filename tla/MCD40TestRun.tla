---------------------------- MODULE MCD40TestRun ----------------------------
(* Two readers, of which one could be dma_test_all.sh and one the dma        *)
(* program.  Every order of the tests they read is tried, not only the       *)
(* scripts' own.                                                             *)
EXTENDS D40TestRun

CONSTANTS r1, r2
TwoReaders == {r1, r2}
=============================================================================
