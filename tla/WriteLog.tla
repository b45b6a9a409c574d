------------------------------ MODULE WriteLog ------------------------------
(***************************************************************************)
(* write_log.c and file_lock.c: processes that append records to one log,  *)
(* overlay them when their I/O is done, and a process that scans the log   *)
(* from its end.  Nothing in the repository calls the two: the clients     *)
(* here do what the comments of wlog_record_write say they do.             *)
(*                                                                         *)
(* The log is a sequence of bytes: the fixed part of a record is one byte, *)
(* its path, host and pattern are `path' bytes, and the trailer is the     *)
(* length in two digits of base B, of bytes that are unsigned as on ARM.   *)
(***************************************************************************)
EXTENDS Integers, Sequences, FiniteSets, SequencesExt

CONSTANTS
  Clients,  \* the processes that write, numbered from 1
  Paths,    \* the lengths of the paths they write: functions on Clients
  Logs,     \* the logs before: sequences of bytes
  Ways,     \* how they share the log: records [fork, lock, block]
  Scans,    \* the scans: records [nrecs, stop]; stop = 0 does not stop
  B,        \* the base of the trailer, 256
  BUF,      \* sizeof(buf), which holds many records
  WLOG_MAX_PATH,   \* the longest path, which is one too long for its field
  FILL      \* the byte that stands for all data

(* "Length is asumed to fit into 2 bytes."                                 *)
ASSUME SizesAssumption ==
  /\ {B, BUF, WLOG_MAX_PATH, FILL} \subseteq Nat
  /\ B > 1 /\ WLOG_MAX_PATH \in 1 .. B * B - 1 /\ BUF >= 2 * (WLOG_MAX_PATH + 3)
  /\ Clients \subseteq Nat \ {0} /\ 1 \in Clients
  /\ \A f \in Paths : f \in [Clients -> 0 .. WLOG_MAX_PATH]
  /\ \A s \in Scans : s.nrecs \in Nat /\ s.stop \in Nat

(* Those who share descriptors lock the log: the offset that               *)
(* wlog_record_write returns is another's otherwise.                       *)
ASSUME WaysAssumption == \A w \in Ways : w.fork = 1 => w.lock = 1

-----------------------------------------------------------------------------

(* w_pathlen has the bits for the lengths below WLOG_MAX_PATH.             *)
Field(path) == path % WLOG_MAX_PATH

(* The bytes of a record: each knows whose it is; done is 0 or 1.          *)
Fixed(id, path, done) == [id |-> id, part |-> "fixed", path |-> Field(path), done |-> done, val |-> FILL]
Text(id)     == [id |-> id, part |-> "text", path |-> 0, done |-> 0, val |-> FILL]
Digit(id, v) == [id |-> id, part |-> "length", path |-> 0, done |-> 0, val |-> v]

(* flag: "also pack the variable length parts".                            *)
wlog_rec_pack(id, path, done, flag) ==
  <<Fixed(id, path, done)>> \o [k \in 1 .. IF flag THEN Field(path) ELSE 0 |-> Text(id)]

(* What wlog_record_write appends.                                         *)
WithLength(id, path) ==
  LET rec == wlog_rec_pack(id, path, 0, TRUE)
  IN rec \o <<Digit(id, Len(rec) \div B), Digit(id, Len(rec) % B)>>

wlog_rec_unpack(rec) == <<rec[1].id, rec[1].path>>

Byte == [id : Int, part : {"fixed", "text", "length"}, path : Nat, done : {0, 1}, val : Nat]

(* The fixed parts in a log.                                               *)
Fixes(l) == {k \in 1 .. Len(l) : l[k].part = "fixed"}

(* The last byte of the record that begins at k.                           *)
EndOf(l, k) == k + l[k].path + 2

(* A log is records one behind the other, each with its length at its end. *)
Records(l) ==
  /\ Len(l) = 0 \/ \E k \in Fixes(l) : EndOf(l, k) = Len(l)
  /\ \A k \in Fixes(l) :
       /\ EndOf(l, k) <= Len(l) /\ (k + 1 .. EndOf(l, k)) \cap Fixes(l) = {}
       /\ l[EndOf(l, k) - 1].val * B + l[EndOf(l, k)].val = 1 + l[k].path
       /\ k = 1 \/ \E j \in Fixes(l) : EndOf(l, j) = k - 1

(* What is in a log was written by processes before.                       *)
ASSUME LogsAssumption ==
  \A l \in Logs : l \in Seq(Byte) /\ Records(l) /\ \A k \in 1 .. Len(l) : l[k].id \notin Clients

VARIABLES
  path,     \* what each client writes (never changes)
  way,      \* how the log is shared (never changes)
  scan,     \* what the scan is asked for (never changes)
  log,      \* the bytes of the file
  apos,     \* the offsets of the descriptors w_afd ...
  rpos,     \* ... and w_rfd, for each open file description
  lock,     \* the fcntl lock of each client: "none", "R" or "W"
  wpc, off,  \* where each client is; the offset of its record, or -1
  torn,     \* bound: writes that were short
  spc,      \* where the scan is
  size,     \* the size of the log that it found
  offset,   \* its offset
  rest,     \* the bytes between bufstart and cp; its length is leftover
  calls     \* what func was called with

asked == <<path, way, scan>>
writing == <<log, apos, rpos, lock, wpc, off, torn>>
scanning == <<spc, size, offset, rest, calls>>
wlogVars == <<asked, writing, scanning>>

(* Descriptions are shared by forked processes.                            *)
Desc(p) == IF way.fork = 1 THEN 1 ELSE p

WlogInit ==
  /\ path \in Paths /\ way \in Ways /\ scan \in Scans
  /\ log \in Logs
  /\ apos = [d \in Clients |-> 0] /\ rpos = [d \in Clients |-> 0]
  /\ lock = [p \in Clients |-> "none"]
  /\ wpc = [p \in Clients |-> "open"] /\ off = [p \in Clients |-> -1] /\ torn = 0
  /\ spc = "open" /\ size = 0 /\ offset = 0 /\ rest = <<>> /\ calls = <<>>

Goto(p, place) == wpc' = [wpc EXCEPT ![p] = place]

(***************************************************************************)
(* file_lock.                                                              *)
(***************************************************************************)

(* LOCK_UN before LOCK_EX before LOCK_SH, the lock of the whole file.      *)
LockType(flags) ==
  IF "UN" \in flags THEN "none" ELSE IF "EX" \in flags THEN "W"
  ELSE IF "SH" \in flags THEN "R" ELSE "invalid"

(* The locks of two processes conflict if one of them is to write.         *)
Compatible(p, type) == \A q \in Clients \ {p} : "W" \in {type, lock[q]} => lock[q] = "none"

(* F_SETLKW sleeps, and a signal ends it with EINTR; with LOCK_NB, F_SETLK *)
(* fails with EAGAIN, which is not among the errors that are tried again.  *)
file_lock(p, flags, next, failed) ==
  \/ /\ Compatible(p, LockType(flags))
     /\ lock' = [lock EXCEPT ![p] = LockType(flags)] /\ Goto(p, next)
  \/ /\ "NB" \notin flags \/ ~Compatible(p, LockType(flags))
     /\ Goto(p, failed) /\ UNCHANGED lock

(* Wrong variant: the lock is shared.                                      *)
FlagsShared == IF way.block = 1 THEN {"SH"} ELSE {"SH", "NB"}

Flags == IF way.block = 1 THEN {"EX"} ELSE {"EX", "NB"}

(* A client locks before each of its two calls, or does not lock at all.   *)
Lock(p) ==
  /\ \E c \in {<<"append", "write", "closing">>, <<"overlay", "seek", "closing">>} :
       /\ wpc[p] = c[1]
       /\ IF way.lock = 1 THEN file_lock(p, Flags, c[2], c[3]) ELSE Goto(p, c[2]) /\ UNCHANGED lock
  /\ UNCHANGED <<asked, log, apos, rpos, off, torn, scanning>>

Unlock(p) ==
  /\ \E c \in {<<"appended", "overlay">>, <<"overlaid", "closing">>, <<"failed", "closing">>} :
       wpc[p] = c[1] /\ Goto(p, c[2])
  /\ lock' = [lock EXCEPT ![p] = LockType({"UN"})]
  /\ UNCHANGED <<asked, log, apos, rpos, off, torn, scanning>>

(***************************************************************************)
(* wlog_open, wlog_record_write, wlog_close.                               *)
(***************************************************************************)

(* One of the two calls of open fails, and then no descriptor stays.       *)
wlog_open(p) ==
  /\ wpc[p] = "open"
  /\ Goto(p, "append") \/ Goto(p, "closed")
  /\ UNCHANGED <<asked, log, apos, rpos, lock, off, torn, scanning>>

(* write on w_afd: the bytes go to the end, the offset behind them.        *)
Write(p, bytes) ==
  /\ log' = log \o bytes
  /\ apos' = [apos EXCEPT ![Desc(p)] = Len(log')]

AppendWrite(p) ==
  /\ wpc[p] = "write"
  /\ \/ Write(p, WithLength(p, path[p])) /\ Goto(p, "tell") /\ UNCHANGED torn
     \/ /\ torn = 0 /\ torn' = 1 /\ Goto(p, "tell")
        /\ Write(p, Front(WithLength(p, path[p])))
     \/ Goto(p, "failed") /\ UNCHANGED <<log, apos, torn>>
  /\ UNCHANGED <<asked, rpos, lock, off, scanning>>

(* lseek(w_afd, 0, SEEK_CUR) - reclen is what the call returns.  A failing *)
(* lseek, which the code would not notice, is left out.                    *)
AppendTell(p) ==
  /\ wpc[p] = "tell"
  /\ off' = [off EXCEPT ![p] = apos[Desc(p)] - Len(WithLength(p, path[p]))]
  /\ Goto(p, "appended")
  /\ UNCHANGED <<asked, log, apos, rpos, lock, torn, scanning>>

OverlaySeek(p) ==
  /\ wpc[p] = "seek"
  /\ rpos' = [rpos EXCEPT ![Desc(p)] = off[p]]
  /\ Goto(p, "rewrite")
  /\ UNCHANGED <<asked, log, apos, lock, off, torn, scanning>>

(* The fixed part alone, with w_done set.  A part of it is never written.  *)
OverlayWrite(p) ==
  /\ wpc[p] = "rewrite"
  /\ \/ /\ LET rec == wlog_rec_pack(p, path[p], 1, FALSE)  at == rpos[Desc(p)]
           IN /\ log' = [k \in 1 .. Len(log) |-> IF k \in at + 1 .. at + Len(rec) THEN rec[k - at] ELSE log[k]]
              /\ rpos' = [rpos EXCEPT ![Desc(p)] = at + Len(rec)]
        /\ Goto(p, "overlaid")
     \/ Goto(p, "failed") /\ UNCHANGED <<log, rpos>>
  /\ UNCHANGED <<asked, apos, lock, off, torn, scanning>>

(* Closing a descriptor of the file releases the locks of the process.     *)
wlog_close(p) ==
  /\ wpc[p] = "closing"
  /\ Goto(p, "closed") /\ lock' = [lock EXCEPT ![p] = "none"]
  /\ UNCHANGED <<asked, log, apos, rpos, off, torn, scanning>>

(***************************************************************************)
(* wlog_scan_backward, by a process of its own.                            *)
(***************************************************************************)

ScanStart ==
  /\ spc = "open"
  /\ size' = Len(log) /\ offset' = Len(log) /\ spc' = "outer"
  /\ UNCHANGED <<asked, writing, rest, calls>>

(* Wrong variant: the beginning of the file does not end the scan.         *)
MoreToTheBeginning == scan.nrecs = 0 \/ Len(calls) < scan.nrecs

More == (scan.nrecs = 0 \/ Len(calls) < scan.nrecs) /\ offset > 0

(* How many bytes the next read gets: the buffer less what is left over in *)
(* it, or all there are.                                                   *)
Block == IF offset + Len(rest) < BUF THEN offset ELSE BUF - Len(rest)

(* lseek and read: the block goes before the bytes left over.              *)
ScanRead ==
  /\ spc = "outer" /\ More
  /\ \/ /\ offset' = offset - Block
        /\ rest' = SubSeq(log, offset' + 1, offset) \o rest
        /\ spc' = "inner"
     \/ spc' = "failed" /\ UNCHANGED <<offset, rest>>
  /\ UNCHANGED <<asked, writing, size, calls>>

reclen == rest[Len(rest) - 1].val * B + rest[Len(rest)].val

(* Is the record with its length in the buffer?                            *)
RecordComplete == Len(rest) >= 2 /\ Len(rest) >= reclen + 2

(* Wrong variant: what is left over is not copied to the end of the buffer.*)
LeftoverLost ==
  /\ spc = "inner" /\ ~RecordComplete
  /\ spc' = "outer" /\ rest' = <<>>
  /\ UNCHANGED <<asked, writing, size, offset, calls>>

(* What is left over stays.                                                *)
ScanLeftover ==
  /\ spc = "inner" /\ ~RecordComplete
  /\ spc' = "outer"
  /\ UNCHANGED <<asked, writing, size, offset, rest, calls>>

(* func is called; WLOG_STOP_SCAN and the nrecs-th record break the inner  *)
(* loop, with leftover 0.                                                  *)
ScanRecord ==
  /\ spc = "inner" /\ RecordComplete
  /\ LET start == Len(rest) - (reclen + 2)
         call  == wlog_rec_unpack(SubSeq(rest, start + 1, Len(rest) - 2))
         stops == Len(calls) + 1 = scan.stop \/ Len(calls) + 1 = scan.nrecs
     IN /\ calls' = Append(calls, call)
        /\ IF stops THEN rest' = <<>> /\ spc' = "outer"
                    ELSE rest' = SubSeq(rest, 1, start) /\ UNCHANGED spc
  /\ UNCHANGED <<asked, writing, size, offset>>

ScanEnd ==
  /\ spc = "outer" /\ ~More
  /\ spc' = "done"
  /\ UNCHANGED <<asked, writing, size, offset, rest, calls>>

Scan == ScanStart \/ ScanRead \/ ScanLeftover \/ ScanRecord \/ ScanEnd

Client(p) ==
  \/ wlog_open(p) \/ Lock(p) \/ AppendWrite(p) \/ AppendTell(p) \/ Unlock(p)
  \/ OverlaySeek(p) \/ OverlayWrite(p) \/ wlog_close(p)

Ended == spc \in {"done", "failed"} /\ (\A p \in Clients : wpc[p] = "closed") /\ UNCHANGED wlogVars

WlogNext == Scan \/ (\E p \in Clients : Client(p)) \/ Ended

WlogSpec == WlogInit /\ [][WlogNext]_wlogVars

(* Each process runs.                                                      *)
WlogFairSpec == WlogSpec /\ WF_wlogVars(Scan) /\ \A p \in Clients : WF_wlogVars(Client(p))

(***************************************************************************)
(* Properties.  A short write, which the code does not notice, ends what   *)
(* they promise.                                                           *)
(***************************************************************************)

(* "overlay the record which exists at the indicated offset": the offset   *)
(* that a client got is the place of its own record, whoever else appends  *)
(* and overlays meanwhile; nobody's record is overwritten by another's or  *)
(* loses the mark that its I/O is done.                                    *)
RecordsIntact ==
  torn = 0 =>
    \A p \in Clients :
      LET at == {k \in 1 .. Len(log) : log[k].part = "fixed" /\ log[k].id = p} IN
      /\ wpc[p] \in {"appended", "overlay", "seek", "rewrite", "overlaid"} => at = {off[p] + 1}
      /\ wpc[p] = "overlaid" => log[off[p] + 1].done = 1

(* The record whose fixed part is at k, and all of them.                   *)
Rec(k) == [at |-> k, id |-> log[k].id, path |-> log[k].path, done |-> log[k].done]
Recs   == {Rec(k) : k \in Fixes(log)}

(* What the clients know of theirs.                                        *)
Told == [p \in Clients |-> off[p] + 1]
Sure == {p \in Clients : wpc[p] = "overlaid"}

(* The bytes, offsets, descriptors and locks implement the log of records  *)
(* that RecordLog describes: the offset that a client is told is the place *)
(* of its own record, and no step of any process changes, moves or drops a *)
(* record, but for adding one of its own at the end and marking it.        *)
Promised == INSTANCE RecordLog WITH
  Writers <- Clients, wanted <- [p \in Clients |-> Field(path[p])], records <- Recs,
  told <- Told, sure <- Sure, cut <- torn
ImplementsRecordLog == Promised!Spec

(* The records that were in the log when the scan began, and the place of  *)
(* each of them counted from the end.                                      *)
Found == Fixes(log) \cap 1 .. size
Place(k) == Cardinality({m \in Found : m >= k})

(* func is called with the records that were in the log when the scan      *)
(* began, each of them once, the last one first, wherever the buffer cuts  *)
(* them and whatever is appended or overlaid meanwhile; a scan that ends   *)
(* has called it for all, or for as many as it was asked for.  A scan that *)
(* func stopped is not meant, for it goes on with the block before.        *)
ScanRight ==
  (torn = 0 /\ (scan.stop = 0 \/ Len(calls) <= scan.stop)) =>
    /\ Len(calls) <= Cardinality(Found)
    /\ \A k \in Found : Place(k) <= Len(calls) => calls[Place(k)] = wlog_rec_unpack(<<log[k]>>)
    /\ spc = "done" =>
         \/ Len(calls) = Cardinality(Found)
         \/ Len(calls) \in {scan.nrecs, scan.stop} \ {0}

(* A scan that is not stopped by func ends.                                *)
ScanEnds == scan.stop = 0 => <>(spc \in {"done", "failed"} \/ torn # 0)

=============================================================================
