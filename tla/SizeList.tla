------------------------------ MODULE SizeList ------------------------------
(***************************************************************************)
(* buflist->list_size: the lengths of a test case's buffers, filled by     *)
(* dmatest_sizelist_set or dmatest_sizelist_randomize and ended by a -1    *)
(* that every later walk over the list stops at.                           *)
(*                                                                         *)
(* The arithmetic is that of the code: u32, on the largest u32 U32_MAX =   *)
(* 2 * INT_MAX + 1, which is above TLC's integers and never written out.   *)
(***************************************************************************)
EXTENDS Integers, Sequences, TcTable

CONSTANTS
  Calls,   \* calls of dmatest_sizelist_*: records [test, size, align, length]
  SAMPLE   \* bound: how many quotients at each end of their range are drawn

ASSUME CallsAssumption ==
  \A c \in Calls :
    /\ c.size.kind \in {"set", "randomize"}
    /\ c.size.min \in Nat /\ c.size.max \in Nat
    /\ c.align \in Nat \ {0} /\ c.length \in Nat \ {0}
    /\ c.size.kind = "set" => c.size.min = c.size.max
    /\ c.size.kind = "randomize" => c.size.min < c.size.max /\ c.size.max - c.size.min < 65536

ASSUME SampleAssumption == SAMPLE \in Nat

VARIABLES
  call,       \* the call
  list_size,  \* what has been written to buflist->list_size
  pc          \* "fill", "done", or "bug" after BUG_ON

sizeVars == <<call, list_size, pc>>

INT_MAX == 2147483647

(* 0xFFFFFFFF / d.                                                         *)
U32_MAX_div(d) == 2 * (INT_MAX \div d) + (2 * (INT_MAX % d) + 1) \div d

(* The kernel's ALIGN: round x up to a multiple of a.                      *)
ALIGN(x, a) == ((x + a - 1) \div a) * a

(* Wrong variant: the divisor counts the values from min to max.           *)
InclusiveDraws(size) ==
  LET top == U32_MAX_div(U32_MAX_div(size.max - size.min + 1))
  IN  (0 .. SAMPLE \cup top - SAMPLE .. top) \cap 0 .. top

(* random32() / (0xFFFFFFFF / (max - min)): random32() takes every u32     *)
(* value, so the quotient takes every value from 0 to that of 0xFFFFFFFF.  *)
Draws(size) ==
  LET top == U32_MAX_div(U32_MAX_div(size.max - size.min))
  IN  (0 .. SAMPLE \cup top - SAMPLE .. top) \cap 0 .. top

(* kmalloc(sizeof(buflist->list_size) * length + 1): four-byte pointers,   *)
(* and kmalloc's objects are multiples of eight bytes.                     *)
Room == ALIGN(4 * call.length + 1, 8)

SizeInit == call \in Calls /\ list_size = <<>> /\ pc = "fill"

(* One iteration of the loop of dmatest_sizelist_randomize.                *)
dmatest_sizelist_randomize ==
  /\ pc = "fill" /\ call.size.kind = "randomize" /\ Len(list_size) < call.length
  /\ \E q \in Draws(call.size) :
       LET size == ALIGN(q + call.size.min, call.align)
       IN  /\ list_size' = Append(list_size, size)
           /\ pc' = IF size > ALIGN(call.size.max, call.align) THEN "bug" ELSE "fill"
  /\ UNCHANGED call

(* One iteration of the loop of dmatest_sizelist_set.                      *)
dmatest_sizelist_set ==
  /\ pc = "fill" /\ call.size.kind = "set" /\ Len(list_size) < call.length
  /\ list_size' = Append(list_size, ALIGN(call.size.min, call.align))
  /\ UNCHANGED <<call, pc>>

(* buflist->list_size[i] = -1 after the loop of either.                    *)
Terminate ==
  /\ pc = "fill" /\ Len(list_size) = call.length
  /\ list_size' = Append(list_size, -1) /\ pc' = "done"
  /\ UNCHANGED call

SizeEnded == pc # "fill" /\ UNCHANGED sizeVars

SizeNext == dmatest_sizelist_randomize \/ dmatest_sizelist_set \/ Terminate \/ SizeEnded

SizeSpec == SizeInit /\ [][SizeNext]_sizeVars

(***************************************************************************)
(* Properties.                                                             *)
(***************************************************************************)

(* Every variable has its type.                                            *)
SizeTypeOK ==
  /\ call \in Calls
  /\ list_size \in Seq(Int)
  /\ pc \in {"fill", "done", "bug"}

(* "random values between min and max", and no BUG_ON: every size is       *)
(* between min and max, each rounded up to the alignment.  It rests on     *)
(* dividing twice: U \div (U \div d) = d for U = 0xFFFFFFFF and d < 2^16.  *)
SizesInRange ==
  /\ pc # "bug"
  /\ \A i \in 1 .. Len(list_size) :
       i <= call.length => /\ list_size[i] >= ALIGN(call.size.min, call.align)
                           /\ list_size[i] <= ALIGN(call.size.max, call.align)

(* A walk that stops at -1 visits the entries of the list and no other:    *)
(* the terminator is there, behind the last size, and inside the object    *)
(* that kmalloc returned for "length + 1 byte".                            *)
WalkStops ==
  /\ 4 * Len(list_size) <= Room
  /\ pc = "done" => \A i \in 1 .. Len(list_size) :
                      list_size[i] = -1 <=> i = call.length + 1

(* A list as its users need it.                                            *)
ListRight == SizesInRange /\ WalkStops

(* The inductive invariant behind both: where the list is in its loop, and *)
(* that what is written before the terminator is no terminator.            *)
SizeInv ==
  /\ SizeTypeOK /\ SizesInRange
  /\ \A i \in 1 .. Len(list_size) : i <= call.length => list_size[i] \in Nat
  /\ pc = "fill" => Len(list_size) <= call.length
  /\ pc = "done" => Len(list_size) = call.length + 1 /\ list_size[call.length + 1] = -1

=============================================================================
