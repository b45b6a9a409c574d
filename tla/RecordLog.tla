------------------------------ MODULE RecordLog ------------------------------
(***************************************************************************)
(* What a log of write_log.c promises those who write it, without bytes,   *)
(* offsets, descriptors and locks: a set of records in an order, to which  *)
(* each writer adds one behind all others, is told its place and marks it  *)
(* there as done.  Nothing else happens to a record, whoever wrote it.  A  *)
(* short write, which wlog_record_write does not notice, ends the promise. *)
(***************************************************************************)
EXTENDS Integers

CONSTANT Writers

VARIABLES
  wanted,    \* per writer: the path that its record is to carry (never changes)
  records,   \* the records: [at, id, path, done], "at" being their place in the order
  told,      \* per writer: the place of its record, or 0
  sure,      \* the writers that have just been told that theirs is marked
  cut        \* 1 once a write was short

vars == <<wanted, records, told, sure, cut>>

Init ==
  /\ cut = 0 /\ \A r \in records : r.id \notin Writers
  /\ told = [p \in Writers |-> 0] /\ sure = {}

Append(p) ==
  /\ cut = 0 /\ \A r \in records : r.id # p
  /\ \E r \in records' :
       /\ records' = records \cup {r}
       /\ r.id = p /\ r.path = wanted[p] /\ r.done = 0
       /\ \A q \in records : q.at < r.at
  /\ UNCHANGED <<wanted, told, sure, cut>>

Tell(p) ==
  /\ cut = 0 /\ told[p] = 0
  /\ \E r \in records : r.id = p /\ told' = [told EXCEPT ![p] = r.at]
  /\ UNCHANGED <<wanted, records, sure, cut>>

Mark(p) ==
  /\ cut = 0
  /\ \E r \in records :
       /\ r.id = p /\ r.at = told[p]
       /\ records' = (records \ {r}) \cup {[r EXCEPT !.done = 1]}
  /\ sure' = sure \cup {p}
  /\ UNCHANGED <<wanted, told, cut>>

Leave(p) == sure' = sure \ {p} /\ UNCHANGED <<wanted, records, told, cut>>

(* A write is short, or was: anything may be in the log.                   *)
Tear == cut' = 1 /\ UNCHANGED wanted

Next == Tear \/ \E p \in Writers : Append(p) \/ Tell(p) \/ Mark(p) \/ Leave(p)

Spec == Init /\ [][Next]_vars
=============================================================================
