------------------------------ MODULE DmaUser ------------------------------
(***************************************************************************)
(* dma.c, the user-space program of the DMA test: it loads the kernel      *)
(* module, reads test_<n> for the tests of its table (or for the one that  *)
(* option -n names), reports each answer with tst_resm and unloads the     *)
(* module.  The answers are those of D40TestRun; tst_resm is TstRes's,     *)
(* of which only the count matters here.                                   *)
(***************************************************************************)
EXTENDS Integers, Sequences

CONSTANTS
  Testnums,  \* the numbers option -n is given; 0 stands for "no option"
  LOOPS      \* bound: iterations of TEST_LOOPING, option -i

ASSUME TestnumsAssumption == Testnums \subseteq Nat /\ LOOPS \in Nat

(* The table, test_cases[0] first.                                         *)
test_cases ==
  <<22, 23, 24, 25, 1, 2, 3, 4, 6, 7, 8, 21, 15, 16, 17, 18, 19, 20, 21, 55, 56,
    57, 58, 59, 60, 61, 62, 63, 64, 65, 66, 67, 68, 26, 7, 32, 33, 5, 34, 27, 28, 29>>

(* The files the module creates.                                           *)
TestFiles == 1 .. 69

(* The lines d40_test_run answers with.                                    *)
Verdicts == {"OK", "FAIL", "echo OK", "echo FAIL", "removed OK"}

VARIABLES
  testnum,    \* option -n, or 0 (never changes)
  STD_FUNCTIONAL_TEST,   \* 0 with option -f (never changes)
  TST_TOTAL,  \* the global of that name
  module,     \* is the kernel module loaded?  0 or 1
  pc,         \* "start", "loop", "open", "read", "report", "end" or "fault"
  lc, count,  \* the loop counters
  num,        \* the test being run
  Tst_count,  \* the global of tst_res.c
  fds,        \* open file descriptors of the program
  answer,     \* what read returned: <<test, verdict>>, or <<>>
  err,        \* what dma_test returned
  results     \* the results reported: records [num, test, type, answer]

opts == <<testnum, STD_FUNCTIONAL_TEST>>
dmaVars == <<opts, TST_TOTAL, module, pc, lc, count, num, Tst_count, fds, answer, err, results>>

DmaInit ==
  /\ testnum \in Testnums /\ STD_FUNCTIONAL_TEST \in {0, 1}
  /\ TST_TOTAL = 4 * Len(test_cases)        \* sizeof(test_cases), int is 4 bytes
  /\ module = 0 /\ pc = "start" /\ lc = 0 /\ count = 0 /\ num = 0
  /\ Tst_count = 0 /\ fds = 0 /\ answer = <<>> /\ err = 0 /\ results = <<>>

(* The option, then modprobe, which may fail.                              *)
Start ==
  /\ pc = "start"
  /\ TST_TOTAL' = IF testnum # 0 THEN 1 ELSE TST_TOTAL
  /\ module' \in {0, 1}
  /\ pc' = "loop"
  /\ UNCHANGED <<opts, lc, count, num, Tst_count, fds, answer, err, results>>

(* num = test_cases[Tst_count]: behind the table is not the program's.     *)
Select ==
  /\ pc = "loop" /\ lc < LOOPS /\ STD_FUNCTIONAL_TEST = 1 /\ count < TST_TOTAL
  /\ \/ /\ TST_TOTAL = 1 \/ Tst_count < Len(test_cases)
        /\ num' = IF TST_TOTAL = 1 THEN testnum ELSE test_cases[Tst_count + 1]
        /\ Tst_count' = num' - 1
        /\ pc' = "open"
     \/ /\ TST_TOTAL # 1 /\ Tst_count >= Len(test_cases)
        /\ pc' = "fault" /\ UNCHANGED <<num, Tst_count>>
  /\ UNCHANGED <<opts, TST_TOTAL, module, lc, count, fds, answer, err, results>>

(* Both loops: the next iteration of TEST_LOOPING, or the end.             *)
EndOfTable ==
  /\ pc = "loop" /\ lc < LOOPS /\ (STD_FUNCTIONAL_TEST = 0 \/ count >= TST_TOTAL)
  /\ lc' = lc + 1 /\ count' = 0
  /\ UNCHANGED <<opts, TST_TOTAL, module, pc, num, Tst_count, fds, answer, err, results>>

(* modprobe -r, tst_exit.                                                  *)
EndOfLoops ==
  /\ pc = "loop" /\ lc >= LOOPS
  /\ module' = 0 /\ pc' = "end"
  /\ UNCHANGED <<opts, TST_TOTAL, lc, count, num, Tst_count, fds, answer, err, results>>

(***************************************************************************)
(* dma_test.                                                               *)
(***************************************************************************)

Open ==
  /\ pc = "open"
  /\ \/ /\ module = 1 /\ num \in TestFiles
        /\ fds' = fds + 1 /\ pc' = "read" /\ UNCHANGED err
     \/ /\ module = 0 \/ num \notin TestFiles
        /\ err' = -1 /\ pc' = "report" /\ UNCHANGED fds
  /\ answer' = <<>>
  /\ UNCHANGED <<opts, TST_TOTAL, module, lc, count, num, Tst_count, results>>

(* Wrong variant: the verdict is looked for anywhere in the answer.        *)
AcceptsAnywhere(a) == a[2] \in {"OK", "echo OK", "removed OK"}

(* size == strlen(answer) and strncmp: the answer is "Finished test n: OK".*)
Accepts(a) == a = <<num, "OK">>

(* The answers that differ from the expected one in length.                *)
OtherLength(a) == a[2] # "OK"

(* read, compare, close.                                                   *)
Read ==
  /\ pc = "read"
  /\ \/ answer' = <<>> /\ err' = -2
     \/ \E v \in Verdicts :
          /\ answer' = <<num, v>>
          /\ err' = IF Accepts(answer') THEN 0 ELSE IF OtherLength(answer') THEN -3 ELSE -4
  /\ fds' = fds - 1 /\ pc' = "report"
  /\ UNCHANGED <<opts, TST_TOTAL, module, lc, count, num, Tst_count, results>>

(* tst_resm numbers the result Tst_count + 1 and counts it.                *)
Report ==
  /\ pc = "report"
  /\ results' = Append(results, [num |-> Tst_count + 1, test |-> num, answer |-> answer,
                                 type |-> IF err = 0 THEN "TPASS" ELSE "TFAIL"])
  /\ Tst_count' = Tst_count + 1 /\ err' = 0
  /\ count' = count + 1 /\ pc' = "loop"
  /\ UNCHANGED <<opts, TST_TOTAL, module, lc, num, fds, answer>>

Ended == pc \in {"end", "fault"} /\ UNCHANGED dmaVars

DmaNext == Start \/ Select \/ EndOfTable \/ EndOfLoops \/ Open \/ Read \/ Report \/ Ended

DmaSpec == DmaInit /\ [][DmaNext]_dmaVars

(***************************************************************************)
(* Properties.                                                             *)
(***************************************************************************)

(* "tst_xxx will use Tst_count as test nr": a result carries the number of *)
(* the test it is about, in every iteration, and is TPASS exactly if the   *)
(* kernel answered that this test is OK.  With -n, every iteration runs    *)
(* the test that was asked for, once, the table is not left, and the       *)
(* module is gone when the program ends.                                   *)
ResultsRight ==
  /\ \A k \in 1 .. Len(results) :
       LET r == results[k] IN
       /\ r.num = r.test
       /\ r.type = "TPASS" <=> r.answer = <<r.test, "OK">>
  /\ testnum # 0 =>
       /\ pc # "fault"
       /\ \A k \in 1 .. Len(results) : results[k].test = testnum
       /\ pc = "end" => Len(results) = STD_FUNCTIONAL_TEST * LOOPS /\ module = 0
=============================================================================
