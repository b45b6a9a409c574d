------------------------------ MODULE IoProofs ------------------------------
(***************************************************************************)
(* Proofs about the I/O of the library: one call of lio_write_buffer or    *)
(* lio_read_buffer, for any methods, sizes and descriptors, any number of  *)
(* short transfers and of signals, and any moment of completion; then the  *)
(* write log, for any number of writers, any paths, any log, any buffer    *)
(* that holds two records, and any base of the trailer; and the generators *)
(* and checks of data, for any patterns, sizes, offsets and changes.       *)
(***************************************************************************)
EXTENDS Tlibio, WriteLog, DataPatterns, TLAPS, FiniteSetTheorems

TypeOK ==
  /\ call \in Calls /\ sig \in {0, 1} /\ notify \in {"none", "signal", "thread"}
  /\ pc \in {"start", "select", "wait", "listwait", "check", "looping", "returned"} \cup LIO_IO_ATYPES
  /\ left \in Nat /\ moved \in Nat /\ aio \in {"idle", "inflight", "done", "failed"}
  /\ held \in {0, 1} /\ pending \in {0, 1} /\ Received_signal \in Nat
  /\ tries \in Nat /\ signals \in Nat /\ result \in Int

(* The control block is on the stack and has been submitted.               *)
Waiting == pc \in {"wait", "listwait", "check", "looping"}

(* Nothing is in flight before the submission, and a call that leaves I/O  *)
(* in flight has been interrupted and says so.                             *)
FlightInv ==
  /\ ~Waiting /\ pc # "returned" => aio = "idle"
  /\ Waiting => aio # "idle"
  /\ pc = "check" /\ aio = "inflight" => signals > 0
  /\ pc = "looping" => signals > 0
  /\ pc = "returned" /\ aio = "inflight" => signals > 0 /\ result < 0

(* The loops of read and write count down what is left; the other types    *)
(* transfer once.                                                          *)
AmountInv ==
  /\ pc \in {"SYNC", "select"} => moved + left = call.size
  /\ pc \notin {"SYNC", "select", "returned"} => left = call.size
  /\ ~Waiting /\ pc \notin {"SYNC", "select", "returned"} => moved = 0
  /\ Waiting => moved <= call.size /\ (aio = "inflight" => moved = 0)

(* The signal is blocked from the submission to the first look at the      *)
(* result, and sent in between only.                                       *)
SignalInv ==
  /\ sig = 1 /\ "USE_SIGNAL" \notin method /\ pc # "start" => notify = "signal"
  /\ notify = "signal" => sig = 1
  /\ held <= sig
  /\ ~Waiting /\ pc # "returned" => held = 0
  /\ pc \in {"looping", "returned"} /\ notify = "signal" => held = 0
  /\ pending = 1 => notify = "signal" /\ held = 1

IoInv == TypeOK /\ FlightInv /\ AmountInv /\ SignalInv /\ AmountRight

-----------------------------------------------------------------------------

(* What is chosen of the signal fits the method.                           *)
LEMMA SignalChosen ==
  ASSUME NEW m
  PROVE  /\ UsesSignal(m) \in {0, 1} /\ Notify(m) \in {"none", "signal", "thread"}
         /\ UsesSignal(m) = 1 /\ "USE_SIGNAL" \notin m => Notify(m) = "signal"
         /\ Notify(m) = "signal" => UsesSignal(m) = 1
BY DEF UsesSignal, Notify

(* Every method has an I/O type.                                           *)
LEMMA TypeChosen == ASSUME NEW m PROVE Type(m) \in LIO_IO_ATYPES
BY DEF Type, LIO_IO_ATYPES, LIO_IO_TYPES

(* A call begins with nothing moved and nothing in flight.                 *)
LEMMA InitIo == Init => IoInv
<1> SUFFICES ASSUME Init PROVE IoInv
  OBVIOUS
<1>1. call \in Calls /\ call.size \in Nat
  BY CallsAssumption DEF Init
<1>2. pc = "start" /\ left = call.size /\ moved = 0 /\ sig = 0 /\ held = 0 /\ pending = 0 /\ aio = "idle"
  BY DEF Init
<1>3. TypeOK
  BY <1>1 DEF Init, TypeOK
<1>4. FlightInv /\ AmountInv
  BY <1>1, <1>2 DEF FlightInv, AmountInv, Waiting
<1>5. SignalInv /\ AmountRight
  BY <1>2 DEF Init, SignalInv, AmountRight, Waiting
<1> QED
  BY <1>3, <1>4, <1>5 DEF IoInv

(* One step per action, and under it the parts of the invariant.           *)
LEMMA StepIo == IoInv /\ [Next]_vars => IoInv'
<1> SUFFICES ASSUME IoInv, [Next]_vars PROVE IoInv'
  OBVIOUS
<1>0. /\ TypeOK /\ FlightInv /\ AmountInv /\ SignalInv /\ AmountRight
      /\ call.size \in Nat
  BY CallsAssumption DEF IoInv, TypeOK
<1> USE DEF setup, signalling, Return, Waiting, LIO_IO_ATYPES, LIO_IO_TYPES
<1>1. CASE StartWrite \/ StartRead
  <2>1. PICK m : /\ method' = m /\ sig' = UsesSignal(m) /\ notify' = Notify(m)
                 /\ IF call.fd = "bad" THEN Return(-1) ELSE pc' = Type(m) /\ UNCHANGED result
    BY <1>1 DEF StartWrite, StartRead, Prepare
  <2>2. /\ pc = "start"
        /\ UNCHANGED <<call, left, moved, aio, held, pending, Received_signal, tries, signals>>
    BY <1>1 DEF StartWrite, StartRead, Prepare
  <2>3. /\ sig' \in {0, 1} /\ notify' \in {"none", "signal", "thread"}
        /\ sig' = 1 /\ "USE_SIGNAL" \notin method' => notify' = "signal"
        /\ notify' = "signal" => sig' = 1
        /\ \/ pc' = "returned" /\ result' = -1
           \/ pc' \in LIO_IO_ATYPES /\ result' = result
    BY <2>1, SignalChosen, TypeChosen
  <2>4. TypeOK'
    BY <1>0, <2>2, <2>3 DEF TypeOK
  <2>5. FlightInv' /\ AmountInv'
    BY <1>0, <2>2, <2>3 DEF TypeOK, FlightInv, AmountInv
  <2>6. SignalInv' /\ AmountRight'
    BY <1>0, <2>2, <2>3 DEF TypeOK, SignalInv, AmountRight
  <2> QED
    BY <2>4, <2>5, <2>6 DEF IoInv
<1>2. CASE SyncFails
  <2>1. TypeOK'
    BY <1>0, <1>2 DEF SyncFails, TypeOK
  <2>2. FlightInv'
    BY <1>0, <1>2 DEF SyncFails, TypeOK, FlightInv
  <2>3. AmountInv'
    BY <1>0, <1>2 DEF SyncFails, TypeOK, FlightInv, AmountInv
  <2>4. SignalInv'
    BY <1>0, <1>2 DEF SyncFails, TypeOK, FlightInv, SignalInv
  <2>5. AmountRight'
    BY <1>0, <1>2 DEF SyncFails, TypeOK, FlightInv, AmountInv, AmountRight
  <2> QED
    BY <2>1, <2>2, <2>3, <2>4, <2>5 DEF IoInv
<1>3. CASE SyncNotReady
  <2>1. TypeOK'
    BY <1>0, <1>3 DEF SyncNotReady, TypeOK
  <2>2. FlightInv'
    BY <1>0, <1>3 DEF SyncNotReady, TypeOK, FlightInv
  <2>3. AmountInv'
    BY <1>0, <1>3 DEF SyncNotReady, TypeOK, FlightInv, AmountInv
  <2>4. SignalInv'
    BY <1>0, <1>3 DEF SyncNotReady, TypeOK, FlightInv, SignalInv
  <2>5. AmountRight'
    BY <1>0, <1>3 DEF SyncNotReady, TypeOK, FlightInv, AmountInv, AmountRight
  <2> QED
    BY <2>1, <2>2, <2>3, <2>4, <2>5 DEF IoInv
<1>4. CASE SyncWrite
  <2>1. TypeOK'
    BY <1>0, <1>4 DEF SyncWrite, Transfer, TypeOK
  <2>2. FlightInv'
    BY <1>0, <1>4 DEF SyncWrite, Transfer, TypeOK, FlightInv
  <2>3. AmountInv'
    BY <1>0, <1>4 DEF SyncWrite, Transfer, TypeOK, FlightInv, AmountInv
  <2>4. SignalInv'
    BY <1>0, <1>4 DEF SyncWrite, Transfer, TypeOK, FlightInv, SignalInv
  <2>5. AmountRight'
    BY <1>0, <1>4 DEF SyncWrite, Transfer, TypeOK, FlightInv, AmountInv, AmountRight
  <2> QED
    BY <2>1, <2>2, <2>3, <2>4, <2>5 DEF IoInv
<1>5. CASE SyncRead
  <2>1. TypeOK'
    BY <1>0, <1>5 DEF SyncRead, Transfer, TypeOK
  <2>2. FlightInv'
    BY <1>0, <1>5 DEF SyncRead, Transfer, TypeOK, FlightInv
  <2>3. AmountInv'
    BY <1>0, <1>5 DEF SyncRead, Transfer, TypeOK, FlightInv, AmountInv
  <2>4. SignalInv'
    BY <1>0, <1>5 DEF SyncRead, Transfer, TypeOK, FlightInv, SignalInv
  <2>5. AmountRight'
    BY <1>0, <1>5 DEF SyncRead, Transfer, TypeOK, FlightInv, AmountInv, AmountRight
  <2> QED
    BY <2>1, <2>2, <2>3, <2>4, <2>5 DEF IoInv
<1>6. CASE wait4sync_io
  <2>1. TypeOK'
    BY <1>0, <1>6 DEF wait4sync_io, TypeOK
  <2>2. FlightInv'
    BY <1>0, <1>6 DEF wait4sync_io, TypeOK, FlightInv
  <2>3. AmountInv'
    BY <1>0, <1>6 DEF wait4sync_io, TypeOK, FlightInv, AmountInv
  <2>4. SignalInv'
    BY <1>0, <1>6 DEF wait4sync_io, TypeOK, FlightInv, SignalInv
  <2>5. AmountRight'
    BY <1>0, <1>6 DEF wait4sync_io, TypeOK, FlightInv, AmountInv, AmountRight
  <2> QED
    BY <2>1, <2>2, <2>3, <2>4, <2>5 DEF IoInv
<1>7. ASSUME NEW type \in {"SYNCV", "SYNCP"}, NEW op, Once(type, op)
      PROVE  IoInv'
  <2>1. TypeOK'
    BY <1>0, <1>7 DEF Once, TypeOK
  <2>2. FlightInv'
    BY <1>0, <1>7 DEF Once, TypeOK, FlightInv
  <2>3. AmountInv'
    BY <1>0, <1>7 DEF Once, TypeOK, FlightInv, AmountInv
  <2>4. SignalInv'
    BY <1>0, <1>7 DEF Once, TypeOK, FlightInv, SignalInv
  <2>5. AmountRight'
    BY <1>0, <1>7 DEF Once, TypeOK, FlightInv, AmountInv, AmountRight
  <2> QED
    BY <2>1, <2>2, <2>3, <2>4, <2>5 DEF IoInv
<1>8. ASSUME NEW type \in {"ASYNC", "ALISTIO", "SLISTIO"}, NEW op,
             NEW next \in {"wait", "listwait"}, Submit(type, op, next)
      PROVE  IoInv'
  <2>1. TypeOK'
    BY <1>0, <1>8 DEF Submit, TypeOK
  <2>2. FlightInv'
    BY <1>0, <1>8 DEF Submit, TypeOK, FlightInv
  <2>3. AmountInv'
    BY <1>0, <1>8 DEF Submit, TypeOK, FlightInv, AmountInv
  <2>4. SignalInv'
    BY <1>0, <1>8 DEF Submit, TypeOK, FlightInv, SignalInv
  <2>5. AmountRight'
    BY <1>0, <1>8 DEF Submit, TypeOK, FlightInv, AmountInv, AmountRight
  <2> QED
    BY <2>1, <2>2, <2>3, <2>4, <2>5 DEF IoInv
<1>9. CASE ListioDone
  <2>1. TypeOK'
    BY <1>0, <1>9 DEF ListioDone, sigrelse, TypeOK
  <2>2. FlightInv'
    BY <1>0, <1>9 DEF ListioDone, sigrelse, TypeOK, FlightInv
  <2>3. AmountInv'
    BY <1>0, <1>9 DEF ListioDone, sigrelse, TypeOK, FlightInv, AmountInv
  <2>4. SignalInv'
    BY <1>0, <1>9 DEF ListioDone, sigrelse, TypeOK, FlightInv, SignalInv
  <2>5. AmountRight'
    BY <1>0, <1>9 DEF ListioDone, sigrelse, TypeOK, FlightInv, AmountInv, AmountRight
  <2> QED
    BY <2>1, <2>2, <2>3, <2>4, <2>5 DEF IoInv
<1>10. CASE ListioInterrupted
  <2>1. TypeOK'
    BY <1>0, <1>10 DEF ListioInterrupted, sigrelse, TypeOK
  <2>2. FlightInv'
    BY <1>0, <1>10 DEF ListioInterrupted, sigrelse, TypeOK, FlightInv
  <2>3. AmountInv'
    BY <1>0, <1>10 DEF ListioInterrupted, sigrelse, TypeOK, FlightInv, AmountInv
  <2>4. SignalInv'
    BY <1>0, <1>10 DEF ListioInterrupted, sigrelse, TypeOK, FlightInv, SignalInv
  <2>5. AmountRight'
    BY <1>0, <1>10 DEF ListioInterrupted, sigrelse, TypeOK, FlightInv, AmountInv, AmountRight
  <2> QED
    BY <2>1, <2>2, <2>3, <2>4, <2>5 DEF IoInv
<1>11. CASE Complete
  <2>1. TypeOK'
    BY <1>0, <1>11 DEF Complete, TypeOK
  <2>2. FlightInv'
    BY <1>0, <1>11 DEF Complete, TypeOK, FlightInv
  <2>3. AmountInv'
    BY <1>0, <1>11 DEF Complete, TypeOK, FlightInv, AmountInv
  <2>4. SignalInv'
    BY <1>0, <1>11 DEF Complete, TypeOK, FlightInv, SignalInv
  <2>5. AmountRight'
    BY <1>0, <1>11 DEF Complete, TypeOK, FlightInv, AmountInv, AmountRight
  <2> QED
    BY <2>1, <2>2, <2>3, <2>4, <2>5 DEF IoInv
<1>12. CASE Waited
  <2>1. TypeOK'
    BY <1>0, <1>12 DEF Waited, TypeOK
  <2>2. FlightInv'
    BY <1>0, <1>12 DEF Waited, TypeOK, FlightInv
  <2>3. AmountInv'
    BY <1>0, <1>12 DEF Waited, TypeOK, FlightInv, AmountInv
  <2>4. SignalInv'
    BY <1>0, <1>12 DEF Waited, TypeOK, FlightInv, SignalInv
  <2>5. AmountRight'
    BY <1>0, <1>12 DEF Waited, TypeOK, FlightInv, AmountInv, AmountRight
  <2> QED
    BY <2>1, <2>2, <2>3, <2>4, <2>5 DEF IoInv
<1>13. CASE SuspendInterrupted
  <2>1. TypeOK'
    BY <1>0, <1>13 DEF SuspendInterrupted, ContinuesAfterEINTR, TypeOK
  <2>2. FlightInv'
    BY <1>0, <1>13 DEF SuspendInterrupted, ContinuesAfterEINTR, TypeOK, FlightInv
  <2>3. AmountInv'
    BY <1>0, <1>13 DEF SuspendInterrupted, ContinuesAfterEINTR, TypeOK, FlightInv, AmountInv
  <2>4. SignalInv'
    BY <1>0, <1>13 DEF SuspendInterrupted, ContinuesAfterEINTR, TypeOK, FlightInv, SignalInv
  <2>5. AmountRight'
    BY <1>0, <1>13 DEF SuspendInterrupted, ContinuesAfterEINTR, TypeOK, FlightInv, AmountInv, AmountRight
  <2> QED
    BY <2>1, <2>2, <2>3, <2>4, <2>5 DEF IoInv
<1>14. CASE lio_check_asyncio
  <2>1. pc = "check" /\ UNCHANGED <<setup, left, moved, aio, tries, signals>>
    BY <1>14 DEF lio_check_asyncio
  <2>2. /\ aio = "done" => pc' = "returned" /\ result' = moved
        /\ aio = "failed" => pc' = "returned" /\ result' = -1
        /\ aio = "inflight" => pc' = "looping" /\ result' = result
    BY <1>14 DEF lio_check_asyncio
  <2>3. IF notify = "signal"
        THEN held' = 0 /\ pending' = 0 /\ Received_signal' = Received_signal + pending
        ELSE UNCHANGED <<held, pending, Received_signal>>
    BY <1>14 DEF lio_check_asyncio, ReleaseSignal, sigrelse
  <2>4. aio \in {"done", "failed", "inflight"}
    BY <1>0, <2>1 DEF TypeOK, FlightInv
  <2>5. TypeOK'
    <3>1. /\ pc' \in {"returned", "looping"} /\ result' \in Int
          /\ held' \in {0, 1} /\ pending' \in {0, 1} /\ Received_signal' \in Nat
      BY <1>0, <2>2, <2>3, <2>4 DEF TypeOK
    <3> QED
      BY <1>0, <2>1, <3>1 DEF TypeOK
  <2>6. FlightInv' /\ AmountInv'
    BY <1>0, <2>1, <2>2, <2>4 DEF TypeOK, FlightInv, AmountInv
  <2>7. SignalInv'
    BY <1>0, <2>1, <2>2, <2>3, <2>4 DEF TypeOK, SignalInv
  <2>8. AmountRight'
    BY <1>0, <2>1, <2>2, <2>4 DEF TypeOK, AmountInv, AmountRight
  <2> QED
    BY <2>5, <2>6, <2>7, <2>8 DEF IoInv
<1>15. CASE LoopEnds
  <2>1. TypeOK'
    BY <1>0, <1>15 DEF LoopEnds, TypeOK
  <2>2. FlightInv'
    BY <1>0, <1>15 DEF LoopEnds, TypeOK, FlightInv
  <2>3. AmountInv'
    BY <1>0, <1>15 DEF LoopEnds, TypeOK, FlightInv, AmountInv
  <2>4. SignalInv'
    BY <1>0, <1>15 DEF LoopEnds, TypeOK, FlightInv, SignalInv
  <2>5. AmountRight'
    BY <1>0, <1>15 DEF LoopEnds, TypeOK, FlightInv, AmountInv, AmountRight
  <2> QED
    BY <2>1, <2>2, <2>3, <2>4, <2>5 DEF IoInv
<1>16. CASE UNCHANGED vars
  BY <1>0, <1>16 DEF vars, IoInv, TypeOK, FlightInv, AmountInv, SignalInv, AmountRight
<1> QED
  BY <1>1, <1>2, <1>3, <1>4, <1>5, <1>6, <1>7, <1>8, <1>9, <1>10, <1>11, <1>12, <1>13, <1>14, <1>15, <1>16
  DEF Next, Call, Returned, writev, readv, pwrite, pread,
      aio_write, aio_read, alistio_write, alistio_read, slistio_write, slistio_read

-----------------------------------------------------------------------------

(* The invariant of a call.                                                *)
THEOREM CallInvariant == Spec => []IoInv
BY InitIo, StepIo, PTL DEF Spec

(* No byte is reported that was not moved, and the amount is exact unless  *)
(* the call was resumed or interrupted (tlibio.c, lio_write_buffer and     *)
(* lio_read_buffer).                                                       *)
THEOREM AmountReturned == Spec => []AmountRight
<1>1. IoInv => AmountRight
  BY DEF IoInv
<1> QED
  BY CallInvariant, <1>1, PTL

(* A call that nobody interrupted leaves no I/O in flight, and no call     *)
(* leaves the completion signal pending.                                   *)
THEOREM LeavesNothing == Spec => []NothingLeftBehind
<1>1. IoInv => NothingLeftBehind
  BY DEF IoInv, TypeOK, FlightInv, SignalInv, Waiting, NothingLeftBehind
<1> QED
  BY CallInvariant, <1>1, PTL

-----------------------------------------------------------------------------

(***************************************************************************)
(* The write log.                                                          *)
(***************************************************************************)

Stages == {"open", "append", "write", "tell", "appended", "overlay", "seek", "rewrite",
           "overlaid", "failed", "closing", "closed"}
Locked == {"write", "tell", "appended", "seek", "rewrite", "overlaid", "failed"}

WlogType ==
  /\ path \in Paths /\ way \in Ways /\ scan \in Scans /\ torn \in {0, 1}
  /\ log \in Seq(Byte) /\ wpc \in [Clients -> Stages] /\ lock \in [Clients -> {"none", "W"}]
  /\ apos \in [Clients -> Int] /\ rpos \in [Clients -> Int] /\ off \in [Clients -> Int]

(* A lock is to write, and one process has it.                             *)
LockInv ==
  /\ way.lock = 1 => \A p \in Clients : wpc[p] \in Locked => lock[p] = "W"
  /\ \A p, q \in Clients : p # q /\ lock[p] = "W" => lock[q] = "none"

(* The log is whole, and each fixed part is its writer's.                  *)
LogInv ==
  /\ Records(log)
  /\ \A k \in Fixes(log) :
       log[k].id \in Clients => log[k].path = Field(path[log[k].id]) /\ log[k].val = FILL

Own(p) == {k \in Fixes(log) : log[k].id = p}

(* Where the record of a client is, and where his descriptors are.         *)
OwnInv ==
  \A p \in Clients :
    /\ wpc[p] \in {"open", "append", "write"} => Own(p) = {}
    /\ wpc[p] = "tell" => Own(p) = {apos[Desc(p)] - (Field(path[p]) + 3) + 1}
    /\ wpc[p] \in {"appended", "overlay", "seek", "rewrite", "overlaid"} => Own(p) = {off[p] + 1}
    /\ wpc[p] = "rewrite" => rpos[Desc(p)] = off[p]
    /\ wpc[p] = "overlaid" => log[off[p] + 1].done = 1

WriteInv == WlogType /\ LockInv /\ (torn = 0 => LogInv /\ OwnInv)

-----------------------------------------------------------------------------

ScanType ==
  /\ spc \in {"open", "outer", "inner", "failed", "done"}
  /\ size \in 0 .. Len(log) /\ offset \in 0 .. size
  /\ rest \in Seq(Byte) /\ Len(rest) <= BUF /\ offset + Len(rest) <= size
  /\ calls \in Seq({calls[j] : j \in DOMAIN calls})
  /\ spc = "open" => rest = <<>> /\ calls = <<>>

(* The byte up to which the log remains to be scanned.                     *)
Bound == offset + Len(rest)

(* Does func or the count end the scan?                                    *)
Over == \E n \in {scan.stop, scan.nrecs} \ {0} : Len(calls) >= n

Alike(a, b) == a.id = b.id /\ a.part = b.part /\ a.path = b.path /\ a.val = b.val

(* Until then what remains ends with a record, whose bytes are in the      *)
(* buffer as far as they were read, and the records behind it are counted. *)
PlaceInv ==
  ~Over =>
    /\ Bound = 0 \/ \E k \in Fixes(log) : EndOf(log, k) = Bound
    /\ Len(calls) = Cardinality({m \in Found : m > Bound})
    /\ \A j \in 1 .. Len(rest) : Alike(rest[j], log[offset + j])
    /\ spc \in {"outer", "done"} /\ offset = 0 => rest = <<>>
    /\ spc = "done" => offset = 0

CallsInv ==
  (scan.stop = 0 \/ Len(calls) <= scan.stop) =>
    /\ Len(calls) <= Cardinality(Found)
    /\ \A k \in Found : Place(k) <= Len(calls) => calls[Place(k)] = <<log[k].id, log[k].path>>

StopInv == scan.nrecs # 0 => Len(calls) <= scan.nrecs /\ (Len(calls) = scan.nrecs => spc # "inner")

ScanInv == ScanType /\ StopInv /\ (torn = 0 => PlaceInv /\ CallsInv)

-----------------------------------------------------------------------------

(* The sizes are numbers.                                                  *)
LEMMA Sizes ==
  /\ B \in Nat \ {0} /\ BUF \in Nat /\ WLOG_MAX_PATH \in Nat \ {0} /\ FILL \in Nat
  /\ BUF >= 2 * (WLOG_MAX_PATH + 3)
  /\ Clients \subseteq Nat \ {0} /\ 1 \in Clients
<1>1. B \in Nat /\ BUF \in Nat /\ WLOG_MAX_PATH \in Nat /\ FILL \in Nat
  BY SizesAssumption
<1>2. B > 1 /\ BUF >= 2 * (WLOG_MAX_PATH + 3) /\ WLOG_MAX_PATH \in 1 .. B * B - 1
  BY SizesAssumption
<1>3. WLOG_MAX_PATH >= 1
  BY <1>1, <1>2
<1> QED
  BY <1>1, <1>2, <1>3, SizesAssumption

(* A function on the first n numbers is a sequence.                        *)
LEMMA SequenceOf ==
  ASSUME NEW S, NEW n \in Nat, NEW s \in [1 .. n -> S]
  PROVE  s \in Seq(S) /\ Len(s) = n
OBVIOUS

(* The parts of a concatenation.                                           *)
LEMMA Joined ==
  ASSUME NEW S, NEW s \in Seq(S), NEW t \in Seq(S)
  PROVE  /\ s \o t \in Seq(S) /\ Len(s \o t) = Len(s) + Len(t)
         /\ \A k \in 1 .. Len(s) : (s \o t)[k] = s[k]
         /\ \A k \in Len(s) + 1 .. Len(s) + Len(t) : (s \o t)[k] = t[k - Len(s)]
<1>1. s \o t \in Seq(S) /\ Len(s \o t) = Len(s) + Len(t) /\ Len(s) \in Nat /\ Len(t) \in Nat
  OBVIOUS
<1>2. ASSUME NEW k \in 1 .. Len(s) PROVE (s \o t)[k] = s[k]
  BY <1>1
<1>3. ASSUME NEW k \in Len(s) + 1 .. Len(s) + Len(t) PROVE (s \o t)[k] = t[k - Len(s)]
  BY <1>1
<1> QED
  BY <1>1, <1>2, <1>3

(* What a quotient is.                                                     *)
LEMMA DigitsOf ==
  ASSUME NEW n \in Nat, NEW d \in Nat \ {0}
  PROVE  n \div d \in Nat /\ n % d \in 0 .. d - 1 /\ n = d * (n \div d) + (n % d)
BY Z3

(* The field for the length of a path has a length in it.                  *)
LEMMA FieldType ==
  ASSUME NEW n \in Nat
  PROVE  Field(n) \in 0 .. WLOG_MAX_PATH - 1
BY DigitsOf, Sizes DEF Field

(* What wlog_rec_pack packs: the fixed part, and the others behind it.     *)
LEMMA PackShape ==
  ASSUME NEW id \in Int, NEW n \in Nat, NEW done \in {0, 1}, NEW flag \in BOOLEAN
  PROVE  LET r == wlog_rec_pack(id, n, done, flag)
             f == IF flag THEN Field(n) ELSE 0 IN
         /\ r \in Seq(Byte) /\ Len(r) = f + 1 /\ r[1] = Fixed(id, n, done)
         /\ \A k \in 2 .. f + 1 : r[k] = Text(id)
<1> DEFINE f == IF flag THEN Field(n) ELSE 0
           t == [k \in 1 .. f |-> Text(id)]
           h == <<Fixed(id, n, done)>>
<1>1. f \in Nat /\ Field(n) \in Nat
  BY FieldType, Sizes
<1>2. Text(id) \in Byte /\ Fixed(id, n, done) \in Byte
  BY <1>1, Sizes DEF Text, Fixed, Byte
<1> HIDE DEF f
<1>3. t \in Seq(Byte) /\ Len(t) = f /\ \A k \in 1 .. f : t[k] = Text(id)
  BY <1>1, <1>2
<1>4. h \in Seq(Byte) /\ Len(h) = 1 /\ h[1] = Fixed(id, n, done)
  BY <1>2
<1>5. wlog_rec_pack(id, n, done, flag) = h \o t
  BY DEF wlog_rec_pack, f
<1> HIDE DEF h, t
<1>6. /\ h \o t \in Seq(Byte) /\ Len(h \o t) = f + 1 /\ (h \o t)[1] = Fixed(id, n, done)
      /\ \A k \in 2 .. f + 1 : (h \o t)[k] = t[k - 1]
  <2>1. /\ h \o t \in Seq(Byte) /\ Len(h \o t) = Len(h) + Len(t)
        /\ \A k \in 1 .. Len(h) : (h \o t)[k] = h[k]
        /\ \A k \in Len(h) + 1 .. Len(h) + Len(t) : (h \o t)[k] = t[k - Len(h)]
    BY <1>3, <1>4, Joined
  <2>2. ASSUME NEW k \in 2 .. f + 1 PROVE (h \o t)[k] = t[k - 1]
    BY <1>1, <1>3, <1>4, <2>1
  <2> QED
    BY <1>1, <1>3, <1>4, <2>1, <2>2
<1>7. \A k \in 2 .. f + 1 : (h \o t)[k] = Text(id)
  BY <1>1, <1>3, <1>6
<1> QED
  BY <1>5, <1>6, <1>7 DEF f

(* The fixed part alone.                                                   *)
LEMMA PackFixed ==
  ASSUME NEW id \in Int, NEW n \in Nat, NEW done \in {0, 1}
  PROVE  LET r == wlog_rec_pack(id, n, done, FALSE) IN
         r \in Seq(Byte) /\ Len(r) = 1 /\ r[1] = Fixed(id, n, done) /\ Fixed(id, n, done) \in Byte
<1> DEFINE h == <<Fixed(id, n, done)>>
           t == [k \in 1 .. 0 |-> Text(id)]
<1>1. Field(n) \in Nat
  BY FieldType, Sizes
<1>2. Fixed(id, n, done) \in Byte
  BY <1>1, Sizes DEF Fixed, Byte
<1>3. t \in Seq(Byte) /\ Len(t) = 0
  <2>1. t = <<>>
    OBVIOUS
  <2> QED
    BY <2>1
<1>4. h \in Seq(Byte) /\ Len(h) = 1 /\ h[1] = Fixed(id, n, done)
  BY <1>2
<1>5. wlog_rec_pack(id, n, done, FALSE) = h \o t
  BY DEF wlog_rec_pack
<1> HIDE DEF h, t
<1>6. h \o t \in Seq(Byte) /\ Len(h \o t) = 1 /\ (h \o t)[1] = h[1]
  BY <1>3, <1>4, Joined
<1> QED
  BY <1>2, <1>4, <1>5, <1>6

(* A record ends with the length of what is before.                        *)
LEMMA RecordShape ==
  ASSUME NEW id \in Int, NEW n \in Nat
  PROVE  LET r == WithLength(id, n)
             f == Field(n) IN
         /\ r \in Seq(Byte) /\ Len(r) = f + 3 /\ r[1] = Fixed(id, n, 0)
         /\ \A k \in 2 .. f + 3 : r[k].part # "fixed"
         /\ \A k \in 1 .. f + 3 : r[k].id = id
         /\ r[f + 2].val * B + r[f + 3].val = f + 1
<1> DEFINE f == Field(n)
           r == wlog_rec_pack(id, n, 0, TRUE)
           d1 == Digit(id, Len(r) \div B)
           d2 == Digit(id, Len(r) % B)
           t == <<d1, d2>>
<1>1. f \in Nat
  BY FieldType, Sizes
<1>2. r \in Seq(Byte) /\ Len(r) = f + 1 /\ r[1] = Fixed(id, n, 0) /\ \A k \in 2 .. f + 1 : r[k] = Text(id)
  BY PackShape
<1> HIDE DEF f, r
<1>3. /\ (f + 1) \div B \in Nat /\ (f + 1) % B \in Nat
      /\ f + 1 = B * ((f + 1) \div B) + ((f + 1) % B)
  BY <1>1, DigitsOf, Sizes
<1>4. d1 \in Byte /\ d2 \in Byte /\ d1.id = id /\ d2.id = id /\ d1.part = "length" /\ d2.part = "length"
  BY <1>2, <1>3 DEF Digit, Byte
<1>5. d1.val * B + d2.val = f + 1
  <2> DEFINE x == (f + 1) \div B
             y == (f + 1) % B
  <2>1. d1.val = x /\ d2.val = y
    BY <1>2 DEF Digit
  <2>2. x \in Nat /\ y \in Nat /\ f + 1 = B * x + y
    BY <1>3
  <2> HIDE DEF x, y, d1, d2
  <2> QED
    BY <2>1, <2>2, <1>1, Sizes, Z3
<1>6. WithLength(id, n) = r \o t
  BY DEF WithLength, r
<1> HIDE DEF d1, d2
<1>7. t \in Seq(Byte) /\ Len(t) = 2 /\ t[1] = d1 /\ t[2] = d2
  BY <1>4
<1> HIDE DEF t
<1>8. /\ r \o t \in Seq(Byte) /\ Len(r \o t) = f + 3
      /\ \A k \in 1 .. f + 1 : (r \o t)[k] = r[k]
      /\ (r \o t)[f + 2] = d1 /\ (r \o t)[f + 3] = d2
  <2>1. /\ r \o t \in Seq(Byte) /\ Len(r \o t) = Len(r) + Len(t)
        /\ \A k \in 1 .. Len(r) : (r \o t)[k] = r[k]
        /\ \A k \in Len(r) + 1 .. Len(r) + Len(t) : (r \o t)[k] = t[k - Len(r)]
    BY <1>2, <1>7, Joined
  <2>2. ASSUME NEW k \in Nat, NEW i \in 1 .. 2, k = f + 1 + i PROVE (r \o t)[k] = t[i]
    <3>1. k \in Len(r) + 1 .. Len(r) + Len(t) /\ k - Len(r) = i
      BY <1>1, <1>2, <1>7, <2>2
    <3> QED
      BY <2>1, <3>1
  <2>3. f + 2 \in Nat /\ f + 2 = f + 1 + 1 /\ f + 3 \in Nat /\ f + 3 = f + 1 + 2
    BY <1>1
  <2>4. (r \o t)[f + 2] = t[1] /\ (r \o t)[f + 3] = t[2]
    <3>1. PICK k \in Nat : k = f + 2
      BY <2>3
    <3>2. PICK m \in Nat : m = f + 3
      BY <2>3
    <3>3. k = f + 1 + 1 /\ 1 \in 1 .. 2 /\ m = f + 1 + 2 /\ 2 \in 1 .. 2
      BY <1>1, <3>1, <3>2
    <3>4. (r \o t)[k] = t[1]
      BY <2>2, <3>3
    <3>5. (r \o t)[m] = t[2]
      BY <2>2, <3>3
    <3> QED
      BY <3>1, <3>2, <3>4, <3>5
  <2> QED
    BY <1>1, <1>2, <1>7, <2>1, <2>4
<1>9. Text(id).id = id /\ Text(id).part # "fixed" /\ Fixed(id, n, 0).id = id
  BY DEF Text, Fixed
<1>10. /\ \A k \in 2 .. f + 3 : (r \o t)[k].part # "fixed"
       /\ \A k \in 1 .. f + 3 : (r \o t)[k].id = id
  <2> DEFINE P(k) == (r \o t)[k].id = id /\ (k # 1 => (r \o t)[k].part # "fixed")
  <2>1. P(1)
    BY <1>1, <1>2, <1>8, <1>9
  <2>2. ASSUME NEW k \in 2 .. f + 1 PROVE P(k)
    BY <1>1, <1>2, <1>8, <1>9
  <2>3. P(f + 2) /\ P(f + 3)
    BY <1>4, <1>8
  <2>4. \A k \in 1 .. f + 3 : P(k)
    <3> HIDE DEF P
    <3> QED
      BY <1>1, <2>1, <2>2, <2>3
  <2>5. \A k \in 2 .. f + 3 : k \in 1 .. f + 3 /\ k # 1
    BY <1>1
  <2> QED
    BY <2>4, <2>5
<1>11. (r \o t)[1] = Fixed(id, n, 0)
  BY <1>1, <1>2, <1>8
<1> HIDE DEF d1, d2
<1> QED
  BY <1>5, <1>6, <1>8, <1>10, <1>11 DEF f

(* What a fixed part in a log is.                                          *)
LEMMA InLog ==
  ASSUME NEW l \in Seq(Byte), NEW k \in Fixes(l)
  PROVE  /\ k \in 1 .. Len(l) /\ l[k] \in Byte /\ l[k].path \in Nat /\ l[k].id \in Int
         /\ EndOf(l, k) \in Nat /\ EndOf(l, k) >= k + 2
<1>1. k \in 1 .. Len(l)
  BY DEF Fixes
<1>2. l[k] \in Byte
  BY <1>1
<1>3. l[k].path \in Nat /\ l[k].id \in Int
  BY <1>2 DEF Byte
<1>4. k \in Int /\ EndOf(l, k) = k + l[k].path + 2
  BY <1>1 DEF EndOf
<1>5. EndOf(l, k) \in Int /\ EndOf(l, k) >= k + 2
  BY <1>3, <1>4
<1>6. Len(l) \in Nat
  OBVIOUS
<1>7. k >= 1
  BY <1>1, <1>6
<1> QED
  BY <1>1, <1>2, <1>3, <1>4, <1>5, <1>7

(* A log with a record more is records one behind the other.               *)
LEMMA RecordAppended ==
  ASSUME NEW l \in Seq(Byte), Records(l), NEW id \in Int, NEW n \in Nat
  PROVE  LET m == l \o WithLength(id, n) IN
         /\ m \in Seq(Byte) /\ Len(m) = Len(l) + Field(n) + 3
         /\ \A k \in 1 .. Len(l) : m[k] = l[k]
         /\ Fixes(m) = Fixes(l) \cup {Len(l) + 1} /\ m[Len(l) + 1] = Fixed(id, n, 0)
         /\ Records(m)
<1> DEFINE r == WithLength(id, n)
           f == Field(n)
           m == l \o r
           L == Len(l)
<1>1. f \in Nat /\ L \in Nat
  <2>1. WLOG_MAX_PATH \in Nat
    BY Sizes
  <2>2. f \in 0 .. WLOG_MAX_PATH - 1
    BY FieldType
  <2>3. L \in Nat
    OBVIOUS
  <2> HIDE DEF f, L
  <2> QED
    BY <2>1, <2>2, <2>3
<1>2. /\ r \in Seq(Byte) /\ Len(r) = f + 3 /\ r[1] = Fixed(id, n, 0)
      /\ \A k \in 2 .. f + 3 : r[k].part # "fixed"
      /\ \A k \in 1 .. f + 3 : r[k].id = id
      /\ r[f + 2].val * B + r[f + 3].val = f + 1
  <2>1. /\ r \in Seq(Byte) /\ Len(r) = f + 3 /\ r[1] = Fixed(id, n, 0)
        /\ \A k \in 2 .. f + 3 : r[k].part # "fixed"
        /\ \A k \in 1 .. f + 3 : r[k].id = id
    BY RecordShape
  <2>2. r[f + 2].val * B + r[f + 3].val = f + 1
    BY RecordShape
  <2> QED
    BY <2>1, <2>2
<1> HIDE DEF r, f
<1>3. /\ m \in Seq(Byte) /\ Len(m) = L + Len(r)
      /\ \A k \in 1 .. L : m[k] = l[k]
      /\ \A k \in L + 1 .. L + Len(r) : m[k] = r[k - L]
  BY <1>2, Joined
<1>4. Len(m) = L + f + 3
  BY <1>1, <1>2, <1>3
<1>5. ASSUME NEW j \in 1 .. f + 3 PROVE m[L + j] = r[j]
  <2>1. L + j \in L + 1 .. L + Len(r) /\ L + j - L = j
    BY <1>1, <1>2
  <2> QED
    BY <1>3, <2>1
<1> HIDE DEF m
<1>6. m[L + 1] = Fixed(id, n, 0) /\ m[L + 1].part = "fixed" /\ m[L + 1].path = f
  <2>1. m[L + 1] = Fixed(id, n, 0)
    <3>1. 1 \in 1 .. f + 3
      BY <1>1
    <3>2. m[L + 1] = r[1]
      BY <1>5, <3>1
    <3>3. r[1] = Fixed(id, n, 0)
      BY <1>2
    <3> QED
      BY <3>2, <3>3
  <2> QED
    BY <2>1 DEF Fixed, f
<1>7. ASSUME NEW j \in 2 .. f + 3 PROVE m[L + j].part # "fixed"
  <2>1. j \in 1 .. f + 3
    BY <1>1
  <2>2. m[L + j] = r[j]
    BY <1>5, <2>1
  <2>3. r[j].part # "fixed"
    BY <1>2
  <2> QED
    BY <2>2, <2>3
<1>8. Fixes(m) = Fixes(l) \cup {L + 1}
  <2>1. ASSUME NEW k \in Fixes(l) PROVE k \in Fixes(m)
    BY <1>1, <1>3, <1>4, <2>1 DEF Fixes
  <2>2. L + 1 \in Fixes(m)
    BY <1>1, <1>4, <1>6 DEF Fixes
  <2>3. ASSUME NEW k \in Fixes(m), k # L + 1 PROVE k \in Fixes(l)
    <3>1. k \in 1 .. L + f + 3 /\ m[k].part = "fixed"
      BY <1>4 DEF Fixes
    <3>2. CASE k \in 1 .. L
      BY <1>3, <3>1, <3>2 DEF Fixes
    <3>3. CASE k \in L + 2 .. L + f + 3
      <4>1. k - L \in 2 .. f + 3 /\ L + (k - L) = k
        BY <1>1, <3>3
      <4> QED
        BY <1>7, <3>1, <4>1
    <3> QED
      BY <1>1, <2>3, <3>1, <3>2, <3>3
  <2> QED
    BY <2>1, <2>2, <2>3
<1>9. ASSUME NEW k \in Fixes(l)
      PROVE  k \in 1 .. L /\ EndOf(m, k) = EndOf(l, k)
  BY <1>3, InLog DEF EndOf
<1>10. EndOf(m, L + 1) = Len(m)
  BY <1>1, <1>4, <1>6 DEF EndOf
<1>11. ASSUME NEW k \in Fixes(m)
       PROVE  /\ EndOf(m, k) <= Len(m) /\ (k + 1 .. EndOf(m, k)) \cap Fixes(m) = {}
              /\ m[EndOf(m, k) - 1].val * B + m[EndOf(m, k)].val = 1 + m[k].path
              /\ k = 1 \/ \E j \in Fixes(m) : EndOf(m, j) = k - 1
  <2>1. CASE k = L + 1
    <3>1. (k + 1 .. EndOf(m, k)) \cap Fixes(m) = {}
      BY <1>1, <1>8, <1>9, <2>1
    <3>2. m[EndOf(m, k) - 1].val * B + m[EndOf(m, k)].val = 1 + m[k].path
      <4>1. EndOf(m, k) - 1 = L + (f + 2) /\ EndOf(m, k) = L + (f + 3)
        BY <1>1, <1>4, <1>10, <2>1
      <4>2. m[L + (f + 2)] = r[f + 2] /\ m[L + (f + 3)] = r[f + 3]
        BY <1>1, <1>5
      <4>3. 1 + f = f + 1
        BY <1>1
      <4> QED
        BY <1>2, <1>6, <2>1, <4>1, <4>2, <4>3
    <3>3. k = 1 \/ \E j \in Fixes(m) : EndOf(m, j) = k - 1
      <4>1. CASE L = 0
        BY <2>1, <4>1
      <4>2. CASE L # 0
        <5>1. PICK j \in Fixes(l) : EndOf(l, j) = L
          BY <4>2 DEF Records
        <5>2. j \in Fixes(m) /\ EndOf(m, j) = L /\ k - 1 = L
          BY <1>1, <1>8, <1>9, <2>1, <5>1
        <5> QED
          BY <5>2
      <4> QED
        BY <4>1, <4>2
    <3>4. Len(m) \in Nat
      BY <1>1, <1>4
    <3> QED
      BY <1>10, <2>1, <3>1, <3>2, <3>3, <3>4
  <2>2. CASE k \in Fixes(l)
    <3>1. /\ EndOf(l, k) <= L /\ (k + 1 .. EndOf(l, k)) \cap Fixes(l) = {}
          /\ l[EndOf(l, k) - 1].val * B + l[EndOf(l, k)].val = 1 + l[k].path
          /\ k = 1 \/ \E j \in Fixes(l) : EndOf(l, j) = k - 1
      BY <2>2 DEF Records
    <3>2. k \in 1 .. L /\ EndOf(l, k) \in Nat /\ EndOf(l, k) >= k + 2 /\ EndOf(m, k) = EndOf(l, k)
      BY <1>9, <2>2, InLog
    <3>3. m[k] = l[k] /\ m[EndOf(l, k) - 1] = l[EndOf(l, k) - 1] /\ m[EndOf(l, k)] = l[EndOf(l, k)]
      <4>1. EndOf(l, k) - 1 \in 1 .. L /\ EndOf(l, k) \in 1 .. L
        BY <1>1, <3>1, <3>2
      <4> QED
        BY <1>3, <3>2, <4>1
    <3>4. (k + 1 .. EndOf(m, k)) \cap Fixes(m) = {}
      BY <1>1, <1>8, <3>1, <3>2
    <3>5. k = 1 \/ \E j \in Fixes(m) : EndOf(m, j) = k - 1
      BY <1>8, <1>9, <3>1
    <3>6. EndOf(m, k) <= Len(m)
      BY <1>1, <1>4, <3>1, <3>2
    <3> QED
      BY <3>1, <3>2, <3>3, <3>4, <3>5, <3>6
  <2> QED
    BY <1>8, <2>1, <2>2
<1>12. Records(m)
  <2>1. L + 1 \in Fixes(m) /\ EndOf(m, L + 1) = Len(m)
    BY <1>8, <1>10
  <2> QED
    BY <1>11, <2>1 DEF Records
<1> QED
  BY <1>3, <1>4, <1>6, <1>8, <1>12 DEF m, r, f

(* Marks do not change what a log is made of.                              *)
LEMMA RecordsAlike ==
  ASSUME NEW l \in Seq(Byte), NEW m \in Seq(Byte), Len(m) = Len(l),
         \A k \in 1 .. Len(l) : Alike(m[k], l[k]), Records(l)
  PROVE  /\ Fixes(m) = Fixes(l) /\ \A k \in Fixes(l) : EndOf(m, k) = EndOf(l, k)
         /\ Records(m)
<1>1. Fixes(m) = Fixes(l)
  BY DEF Fixes, Alike
<1>2. ASSUME NEW k \in Fixes(l) PROVE EndOf(m, k) = EndOf(l, k) /\ m[k].path = l[k].path
  BY InLog DEF EndOf, Alike
<1>3. Len(m) = 0 \/ \E k \in Fixes(m) : EndOf(m, k) = Len(m)
  BY <1>1, <1>2 DEF Records
<1>4. ASSUME NEW k \in Fixes(m)
      PROVE  /\ EndOf(m, k) <= Len(m) /\ (k + 1 .. EndOf(m, k)) \cap Fixes(m) = {}
             /\ m[EndOf(m, k) - 1].val * B + m[EndOf(m, k)].val = 1 + m[k].path
             /\ k = 1 \/ \E j \in Fixes(m) : EndOf(m, j) = k - 1
  <2> DEFINE e == EndOf(l, k)
  <2>1. /\ e <= Len(l) /\ (k + 1 .. e) \cap Fixes(l) = {}
        /\ l[e - 1].val * B + l[e].val = 1 + l[k].path
        /\ k = 1 \/ \E j \in Fixes(l) : EndOf(l, j) = k - 1
    BY <1>1 DEF Records
  <2>2. EndOf(m, k) = e /\ m[k].path = l[k].path /\ e \in Nat /\ e >= k + 2 /\ k \in 1 .. Len(l)
    BY <1>1, <1>2, InLog
  <2>3. e \in 1 .. Len(l) /\ e - 1 \in 1 .. Len(l)
    <3> HIDE DEF e
    <3> QED
      BY <2>1, <2>2
  <2>4. m[e].val = l[e].val /\ m[e - 1].val = l[e - 1].val
    <3> HIDE DEF e
    <3> QED
      BY <2>3 DEF Alike
  <2>5. k = 1 \/ \E j \in Fixes(m) : EndOf(m, j) = k - 1
    BY <1>1, <1>2, <2>1
  <2> HIDE DEF e
  <2> QED
    BY <1>1, <2>1, <2>2, <2>4, <2>5
<1> QED
  BY <1>1, <1>2, <1>3, <1>4 DEF Records

(* Those who hold the lock, or whose descriptors are their own, share none *)
(* with another who is between the same calls.                             *)
LEMMA Alone ==
  ASSUME WlogType, LockInv, NEW p \in Clients, NEW q \in Clients, p # q,
         wpc[p] \in Locked, wpc[q] \in Locked
  PROVE  Desc(p) # Desc(q)
<1>1. CASE way.fork = 1
  <2>1. way.lock = 1
    BY <1>1, WaysAssumption DEF WlogType
  <2>2. lock[p] = "W" /\ lock[q] = "W"
    BY <2>1 DEF LockInv
  <2> QED
    BY <2>2 DEF LockInv
<1>2. CASE way.fork # 1
  BY <1>2 DEF Desc
<1> QED
  BY <1>1, <1>2

(* A descriptor is some client's.                                          *)
LEMMA DescType ==
  ASSUME NEW p \in Clients
  PROVE  Desc(p) \in Clients
BY Sizes DEF Desc

(* What a client writes, and how long it is.                               *)
LEMMA PathType ==
  ASSUME WlogType, NEW p \in Clients
  PROVE  /\ p \in Int /\ path[p] \in Nat /\ Field(path[p]) \in Nat
         /\ Len(WithLength(p, path[p])) = Field(path[p]) + 3
<1>1. path \in [Clients -> 0 .. WLOG_MAX_PATH]
  BY SizesAssumption DEF WlogType
<1>2. p \in Int /\ path[p] \in Nat
  BY <1>1, Sizes
<1>3. Field(path[p]) \in Nat
  BY <1>2, FieldType, Sizes
<1>4. Len(WithLength(p, path[p])) = Field(path[p]) + 3
  BY <1>2, RecordShape
<1> QED
  BY <1>2, <1>3, <1>4

(* What the steps of a client that leave the log alone do with the lock.   *)
LEMMA LockStep ==
  ASSUME WlogType, LockInv, NEW p \in Clients, Client(p)
  PROVE  /\ wpc' \in [Clients -> Stages] /\ lock' \in [Clients -> {"none", "W"}]
         /\ LockInv' /\ way' = way /\ path' = path /\ scan' = scan
<1> USE DEF WlogType
<1>1. way' = way /\ path' = path /\ scan' = scan
  BY DEF Client, wlog_open, Lock, AppendWrite, AppendTell, Unlock, OverlaySeek, OverlayWrite, wlog_close, asked
<1>2. ASSUME NEW s \in Stages, NEW t \in {"none", "W"},
             wpc' = [wpc EXCEPT ![p] = s] /\ lock' = [lock EXCEPT ![p] = t],
             t = "W" => \A q \in Clients \ {p} : lock[q] = "none",
             way.lock = 1 /\ s \in Locked => t = "W"
      PROVE  wpc' \in [Clients -> Stages] /\ lock' \in [Clients -> {"none", "W"}] /\ LockInv'
  <2>1. wpc' \in [Clients -> Stages] /\ lock' \in [Clients -> {"none", "W"}]
    BY <1>2
  <2>2. \A q \in Clients : wpc'[q] = (IF q = p THEN s ELSE wpc[q]) /\ lock'[q] = (IF q = p THEN t ELSE lock[q])
    BY <1>2
  <2> QED
    BY <1>1, <1>2, <2>1, <2>2 DEF LockInv
<1>3. ASSUME NEW s \in Stages, wpc' = [wpc EXCEPT ![p] = s] /\ lock' = lock,
             s \in Locked => wpc[p] \in Locked \/ way.lock # 1
      PROVE  wpc' \in [Clients -> Stages] /\ lock' \in [Clients -> {"none", "W"}] /\ LockInv'
  <2>1. \A q \in Clients : wpc'[q] = (IF q = p THEN s ELSE wpc[q])
    BY <1>3
  <2> QED
    BY <1>1, <1>3, <2>1 DEF LockInv
<1>4. CASE wlog_open(p)
  <2>1. PICK s \in {"append", "closed"} : wpc' = [wpc EXCEPT ![p] = s] /\ lock' = lock
    BY <1>4 DEF wlog_open, Goto
  <2>2. s \in Stages /\ s \notin Locked
    BY DEF Stages, Locked
  <2> QED
    BY <1>1, <1>3, <2>1, <2>2
<1>5. CASE Lock(p)
  <2>1. PICK c \in {<<"append", "write", "closing">>, <<"overlay", "seek", "closing">>} :
            /\ wpc[p] = c[1]
            /\ IF way.lock = 1 THEN file_lock(p, Flags, c[2], c[3]) ELSE Goto(p, c[2]) /\ UNCHANGED lock
    BY <1>5 DEF Lock
  <2>2. c[2] \in Stages /\ c[3] \in Stages /\ c[3] = "closing" /\ c[3] \notin Locked
    BY DEF Stages, Locked
  <2>3. LockType(Flags) = "W"
    BY DEF LockType, Flags
  <2> DEFINE s == c[2]
  <2>4. CASE way.lock # 1
    <3>1. s \in Stages /\ wpc' = [wpc EXCEPT ![p] = s] /\ lock' = lock
      BY <2>1, <2>2, <2>4 DEF Goto
    <3> HIDE DEF s
    <3> QED
      BY <1>1, <1>3, <2>4, <3>1
  <2>5. CASE way.lock = 1 /\ Goto(p, c[3]) /\ UNCHANGED lock
    <3>1. "closing" \in Stages /\ "closing" \notin Locked /\ wpc' = [wpc EXCEPT ![p] = "closing"] /\ lock' = lock
      BY <2>2, <2>5 DEF Goto
    <3> QED
      BY <1>1, <1>3, <3>1
  <2>6. CASE way.lock = 1 /\ Compatible(p, "W") /\ lock' = [lock EXCEPT ![p] = "W"] /\ Goto(p, c[2])
    <3>1. s \in Stages /\ "W" \in {"none", "W"} /\ wpc' = [wpc EXCEPT ![p] = s] /\ lock' = [lock EXCEPT ![p] = "W"]
      BY <2>2, <2>6 DEF Goto
    <3>2. \A q \in Clients \ {p} : lock[q] = "none"
      BY <2>6 DEF Compatible
    <3> HIDE DEF s
    <3> QED
      BY <1>1, <1>2, <3>1, <3>2
  <2> QED
    BY <2>1, <2>3, <2>4, <2>5, <2>6 DEF file_lock
<1>6. CASE AppendWrite(p)
  <2>1. PICK s \in {"tell", "failed"} : wpc' = [wpc EXCEPT ![p] = s] /\ lock' = lock /\ wpc[p] = "write"
    BY <1>6 DEF AppendWrite, Goto
  <2>2. s \in Stages /\ wpc[p] \in Locked
    BY <2>1 DEF Stages, Locked
  <2> QED
    BY <1>1, <1>3, <2>1, <2>2
<1>7. CASE AppendTell(p)
  <2>1. wpc' = [wpc EXCEPT ![p] = "appended"] /\ lock' = lock /\ "appended" \in Stages /\ wpc[p] \in Locked
    BY <1>7 DEF AppendTell, Goto, Stages, Locked
  <2> QED
    BY <1>1, <1>3, <2>1
<1>8. CASE Unlock(p)
  <2>1. PICK c \in {<<"appended", "overlay">>, <<"overlaid", "closing">>, <<"failed", "closing">>} :
            wpc[p] = c[1] /\ Goto(p, c[2])
    BY <1>8 DEF Unlock
  <2> DEFINE s == c[2]
  <2>2. s \in Stages /\ s \notin Locked
    BY DEF Stages, Locked
  <2>3. wpc' = [wpc EXCEPT ![p] = s] /\ lock' = [lock EXCEPT ![p] = "none"]
    BY <1>8, <2>1 DEF Unlock, LockType, Goto
  <2> HIDE DEF s
  <2> QED
    BY <1>1, <1>2, <2>2, <2>3
<1>9. CASE OverlaySeek(p)
  <2>1. wpc' = [wpc EXCEPT ![p] = "rewrite"] /\ lock' = lock /\ "rewrite" \in Stages /\ wpc[p] \in Locked
    BY <1>9 DEF OverlaySeek, Goto, Stages, Locked
  <2> QED
    BY <1>1, <1>3, <2>1
<1>10. CASE OverlayWrite(p)
  <2>1. PICK s \in {"overlaid", "failed"} : wpc' = [wpc EXCEPT ![p] = s] /\ lock' = lock /\ wpc[p] = "rewrite"
    BY <1>10 DEF OverlayWrite, Goto
  <2>2. s \in Stages /\ wpc[p] \in Locked
    BY <2>1 DEF Stages, Locked
  <2> QED
    BY <1>1, <1>3, <2>1, <2>2
<1>11. CASE wlog_close(p)
  <2>1. wpc' = [wpc EXCEPT ![p] = "closed"] /\ lock' = [lock EXCEPT ![p] = "none"]
        /\ "closed" \in Stages /\ "closed" \notin Locked
    BY <1>11 DEF wlog_close, Goto, Stages, Locked
  <2> QED
    BY <1>1, <1>2, <2>1
<1> QED
  BY <1>1, <1>4, <1>5, <1>6, <1>7, <1>8, <1>9, <1>10, <1>11 DEF Client

(* The steps of a client that leave the log alone keep each record where   *)
(* its writer looks for it.                                                *)
LEMMA QuietStep ==
  ASSUME WlogType, LockInv, OwnInv, NEW p \in Clients,
         wlog_open(p) \/ Lock(p) \/ AppendTell(p) \/ Unlock(p) \/ OverlaySeek(p) \/ wlog_close(p)
  PROVE  /\ log' = log /\ torn' = torn /\ OwnInv'
         /\ apos' \in [Clients -> Int] /\ rpos' \in [Clients -> Int] /\ off' \in [Clients -> Int]
<1> USE DEF WlogType
<1>1. /\ log' = log /\ torn' = torn /\ path' = path /\ way' = way
  BY DEF wlog_open, Lock, AppendTell, Unlock, OverlaySeek, wlog_close, asked
<1>2. \A q \in Clients : Own(q)' = Own(q) /\ Desc(q)' = Desc(q)
  BY <1>1 DEF Own, Fixes, Desc
<1>3. ASSUME apos' = apos, rpos' = rpos, off' = off,
             NEW s \in Stages, wpc' = [wpc EXCEPT ![p] = s],
             s \in {"append", "write"} => wpc[p] \in {"open", "append"},
             s \in {"overlay", "seek"} => wpc[p] \in {"appended", "overlay"},
             s \notin {"tell", "appended", "rewrite", "overlaid", "open"}
      PROVE  OwnInv'
  <2>1. ASSUME NEW q \in Clients PROVE wpc'[q] = IF q = p THEN s ELSE wpc[q]
    BY <1>3
  <2>2. ASSUME NEW q \in Clients
        PROVE  /\ wpc'[q] \in {"open", "append", "write"} => Own(q) = {}
               /\ wpc'[q] = "tell" => Own(q) = {apos[Desc(q)] - (Field(path[q]) + 3) + 1}
               /\ wpc'[q] \in {"appended", "overlay", "seek", "rewrite", "overlaid"} => Own(q) = {off[q] + 1}
               /\ wpc'[q] = "rewrite" => rpos[Desc(q)] = off[q]
               /\ wpc'[q] = "overlaid" => log[off[q] + 1].done = 1
    BY <1>3, <2>1 DEF OwnInv, Stages
  <2> QED
    BY <1>1, <1>2, <1>3, <2>2 DEF OwnInv
<1>4. CASE wlog_open(p)
  <2>1. /\ apos' = apos /\ rpos' = rpos /\ off' = off /\ wpc[p] = "open"
    BY <1>4 DEF wlog_open
  <2>2. PICK s \in {"append", "closed"} : wpc' = [wpc EXCEPT ![p] = s]
    BY <1>4 DEF wlog_open, Goto
  <2>3. s \in Stages
    BY DEF Stages
  <2>4. OwnInv'
    BY <1>3, <2>1, <2>2, <2>3
  <2> QED
    BY <1>1, <2>1, <2>4
<1>5. CASE Lock(p)
  <2>1. /\ apos' = apos /\ rpos' = rpos /\ off' = off
    BY <1>5 DEF Lock
  <2>2. PICK c \in {<<"append", "write", "closing">>, <<"overlay", "seek", "closing">>} :
            wpc[p] = c[1] /\ (Goto(p, c[2]) \/ Goto(p, c[3]))
    BY <1>5 DEF Lock, file_lock
  <2>3. PICK s \in {c[2], c[3]} : wpc' = [wpc EXCEPT ![p] = s]
    BY <2>2 DEF Goto
  <2>4. /\ s \in Stages /\ s \notin {"tell", "appended", "rewrite", "overlaid", "open"}
        /\ s \in {"append", "write"} => wpc[p] = "append"
        /\ s \in {"overlay", "seek"} => wpc[p] = "overlay"
    BY <2>2, <2>3 DEF Stages
  <2>5. OwnInv'
    BY <1>3, <2>1, <2>3, <2>4
  <2> QED
    BY <1>1, <2>1, <2>5
<1>6. CASE Unlock(p)
  <2>1. /\ apos' = apos /\ rpos' = rpos /\ off' = off
    BY <1>6 DEF Unlock
  <2>2. PICK c \in {<<"appended", "overlay">>, <<"overlaid", "closing">>, <<"failed", "closing">>} :
            wpc[p] = c[1] /\ Goto(p, c[2])
    BY <1>6 DEF Unlock
  <2>3. PICK s \in {c[2]} : wpc' = [wpc EXCEPT ![p] = s]
    BY <2>2 DEF Goto
  <2>4. /\ s \in Stages /\ s \notin {"tell", "appended", "rewrite", "overlaid", "open", "append", "write"}
        /\ s \in {"overlay", "seek"} => wpc[p] = "appended"
    BY <2>2, <2>3 DEF Stages
  <2>5. OwnInv'
    BY <1>3, <2>1, <2>3, <2>4
  <2> QED
    BY <1>1, <2>1, <2>5
<1>7. CASE wlog_close(p)
  <2>1. /\ apos' = apos /\ rpos' = rpos /\ off' = off /\ wpc' = [wpc EXCEPT ![p] = "closed"]
    BY <1>7 DEF wlog_close, Goto
  <2>2. "closed" \in Stages
    BY DEF Stages
  <2>3. OwnInv'
    BY <1>3, <2>1, <2>2
  <2> QED
    BY <1>1, <2>1, <2>3
<1>8. CASE AppendTell(p)
  <2>1. /\ apos' = apos /\ rpos' = rpos /\ wpc[p] = "tell" /\ wpc' = [wpc EXCEPT ![p] = "appended"]
        /\ off' = [off EXCEPT ![p] = apos[Desc(p)] - (Field(path[p]) + 3)]
    BY <1>8, PathType DEF AppendTell, Goto
  <2>2. apos[Desc(p)] - (Field(path[p]) + 3) \in Int
    BY PathType, DescType
  <2> DEFINE o == apos[Desc(p)] - (Field(path[p]) + 3)
  <2>3. Own(p) = {o + 1}
    BY <2>1 DEF OwnInv
  <2> HIDE DEF o
  <2>4. off' \in [Clients -> Int] /\ \A q \in Clients : off'[q] = IF q = p THEN o ELSE off[q]
    BY <2>1, <2>2 DEF o
  <2>5. \A q \in Clients : wpc'[q] = IF q = p THEN "appended" ELSE wpc[q]
    BY <2>1
  <2>6. OwnInv'
    BY <1>1, <1>2, <2>1, <2>3, <2>4, <2>5 DEF OwnInv
  <2> QED
    BY <1>1, <2>1, <2>4, <2>6
<1>9. CASE OverlaySeek(p)
  <2>1. /\ apos' = apos /\ off' = off /\ wpc[p] = "seek" /\ wpc' = [wpc EXCEPT ![p] = "rewrite"]
        /\ rpos' = [rpos EXCEPT ![Desc(p)] = off[p]]
    BY <1>9 DEF OverlaySeek, Goto
  <2>2. rpos' \in [Clients -> Int] /\ \A d \in Clients : rpos'[d] = IF d = Desc(p) THEN off[p] ELSE rpos[d]
    BY <2>1, DescType
  <2>3. \A q \in Clients : wpc'[q] = IF q = p THEN "rewrite" ELSE wpc[q]
    BY <2>1
  <2>4. \A q \in Clients : q # p /\ wpc[q] = "rewrite" => Desc(q) # Desc(p)
    BY <2>1, Alone DEF Locked
  <2>5. \A q \in Clients : Desc(q) \in Clients
    BY DescType
  <2>6. OwnInv'
    <3>1. ASSUME NEW q \in Clients
          PROVE  /\ wpc'[q] \in {"open", "append", "write"} => Own(q) = {}
                 /\ wpc'[q] = "tell" => Own(q) = {apos[Desc(q)] - (Field(path[q]) + 3) + 1}
                 /\ wpc'[q] \in {"appended", "overlay", "seek", "rewrite", "overlaid"} => Own(q) = {off[q] + 1}
                 /\ wpc'[q] = "rewrite" => rpos'[Desc(q)] = off[q]
                 /\ wpc'[q] = "overlaid" => log[off[q] + 1].done = 1
      <4>1. CASE q = p
        BY <2>1, <2>2, <2>3, <2>5, <4>1 DEF OwnInv
      <4>2. CASE q # p
        BY <2>2, <2>3, <2>4, <2>5, <4>2 DEF OwnInv
      <4> QED
        BY <4>1, <4>2
    <3> QED
      BY <1>1, <1>2, <2>1, <3>1 DEF OwnInv
  <2> QED
    BY <1>1, <2>1, <2>2, <2>6
<1> QED
  BY <1>4, <1>5, <1>6, <1>7, <1>8, <1>9

(* A whole record goes to the end of the log, and the offset behind it is  *)
(* the writer's until he has taken his own from it.                        *)
LEMMA AppendStep ==
  ASSUME WlogType, LockInv, LogInv, OwnInv, NEW p \in Clients, AppendWrite(p), torn' = 0
  PROVE  LogInv' /\ OwnInv'
<1> USE DEF WlogType
<1>1. /\ path' = path /\ way' = way /\ rpos' = rpos /\ off' = off /\ wpc[p] = "write"
  BY DEF AppendWrite, asked
<1>2. \A q \in Clients : Desc(q)' = Desc(q) /\ Desc(q) \in Clients
  BY <1>1, DescType DEF Desc
<1>3. CASE log' = log /\ apos' = apos /\ Goto(p, "failed")
  <2>1. \A q \in Clients : wpc'[q] = IF q = p THEN "failed" ELSE wpc[q]
    BY <1>3 DEF Goto
  <2>2. \A q \in Clients : Own(q)' = Own(q)
    BY <1>3 DEF Own, Fixes
  <2>3. LogInv'
    BY <1>1, <1>3 DEF LogInv, Records, Fixes, EndOf
  <2>4. OwnInv'
    BY <1>1, <1>2, <1>3, <2>1, <2>2 DEF OwnInv
  <2> QED
    BY <2>3, <2>4
<1>4. CASE Write(p, WithLength(p, path[p])) /\ Goto(p, "tell")
  <2> DEFINE L == Len(log)
             f == Field(path[p])
  <2>1. p \in Int /\ path[p] \in Nat /\ f \in Nat /\ L \in Nat
    BY PathType
  <2>2. /\ log' \in Seq(Byte) /\ Len(log') = L + f + 3
        /\ \A k \in 1 .. L : log'[k] = log[k]
        /\ Fixes(log') = Fixes(log) \cup {L + 1} /\ log'[L + 1] = Fixed(p, path[p], 0)
        /\ Records(log')
    <3>1. log' = log \o WithLength(p, path[p]) /\ log \in Seq(Byte) /\ Records(log)
      BY <1>4 DEF Write, LogInv
    <3>2. p \in Int /\ path[p] \in Nat
      BY <2>1
    <3> QED
      BY <3>1, <3>2, RecordAppended, Zenon
  <2> HIDE DEF f, L
  <2>3. \A k \in Fixes(log) : k \in 1 .. L
    BY DEF Fixes, L
  <2>4. log'[L + 1].id = p /\ log'[L + 1].path = f /\ log'[L + 1].val = FILL
    BY <2>2 DEF Fixed, f
  <2>5. LogInv'
    <3>1. ASSUME NEW k \in Fixes(log'), log'[k].id \in Clients
          PROVE  log'[k].path = Field(path[log'[k].id]) /\ log'[k].val = FILL
      BY <2>2, <2>3, <2>4, <3>1 DEF LogInv, f
    <3> QED
      BY <1>1, <2>2, <3>1 DEF LogInv
  <2>6. ASSUME NEW q \in Clients PROVE Own(q)' = IF q = p THEN Own(p) \cup {L + 1} ELSE Own(q)
    BY <2>2, <2>3, <2>4 DEF Own
  <2>7. \A q \in Clients : wpc'[q] = IF q = p THEN "tell" ELSE wpc[q]
    BY <1>4 DEF Goto
  <2>8. \A d \in Clients : apos'[d] = IF d = Desc(p) THEN L + f + 3 ELSE apos[d]
    BY <1>2, <1>4, <2>2 DEF Write
  <2>9. \A q \in Clients : q # p /\ wpc[q] = "tell" => Desc(q) # Desc(p)
    BY <1>1, Alone DEF Locked
  <2>10. OwnInv'
    <3>1. ASSUME NEW q \in Clients
          PROVE  /\ wpc'[q] \in {"open", "append", "write"} => Own(q)' = {}
                 /\ wpc'[q] = "tell" => Own(q)' = {apos'[Desc(q)] - (Field(path[q]) + 3) + 1}
                 /\ wpc'[q] \in {"appended", "overlay", "seek", "rewrite", "overlaid"} => Own(q)' = {off[q] + 1}
                 /\ wpc'[q] = "rewrite" => rpos[Desc(q)] = off[q]
                 /\ wpc'[q] = "overlaid" => log'[off[q] + 1].done = 1
      <4>1. CASE q = p
        <5>1. Own(q)' = {L + 1}
          BY <1>1, <2>6, <4>1 DEF OwnInv
        <5>2. apos'[Desc(q)] = L + f + 3 /\ wpc'[q] = "tell" /\ Field(path[q]) = f
          BY <1>2, <2>7, <2>8, <4>1 DEF f
        <5>3. apos'[Desc(q)] - (Field(path[q]) + 3) + 1 = L + 1
          BY <2>1, <5>2
        <5> QED
          BY <5>1, <5>2, <5>3
      <4>2. CASE q # p
        <5>1. Own(q)' = Own(q) /\ wpc'[q] = wpc[q] /\ (wpc[q] = "tell" => apos'[Desc(q)] = apos[Desc(q)])
          BY <1>2, <2>6, <2>7, <2>8, <2>9, <4>2
        <5>2. wpc[q] = "overlaid" => log'[off[q] + 1].done = 1
          <6>1. ASSUME wpc[q] = "overlaid" PROVE off[q] + 1 \in Fixes(log) /\ log[off[q] + 1].done = 1
            BY <6>1 DEF OwnInv, Own
          <6> QED
            BY <2>2, <2>3, <6>1
        <5> QED
          BY <5>1, <5>2 DEF OwnInv
      <4> QED
        BY <4>1, <4>2
    <3> QED
      BY <1>1, <1>2, <3>1 DEF OwnInv
  <2> QED
    BY <2>5, <2>10
<1>5. torn' = 0 => (log' = log /\ apos' = apos /\ Goto(p, "failed"))
                   \/ (Write(p, WithLength(p, path[p])) /\ Goto(p, "tell"))
  BY DEF AppendWrite
<1> QED
  BY <1>3, <1>4, <1>5

(* The mark goes into the fixed part of the writer's own record.           *)
LEMMA OverlayStep ==
  ASSUME WlogType, LockInv, LogInv, OwnInv, NEW p \in Clients, OverlayWrite(p)
  PROVE  /\ LogInv' /\ OwnInv' /\ Len(log') = Len(log)
         /\ \A k \in 1 .. Len(log) :
              /\ Alike(log'[k], log[k])
              /\ log'[k] = log[k] \/ (k \in Own(p) /\ log'[k].done = 1)
<1> USE DEF WlogType
<1>1. /\ path' = path /\ way' = way /\ apos' = apos /\ off' = off /\ wpc[p] = "rewrite"
  BY DEF OverlayWrite, asked
<1>2. \A q \in Clients : Desc(q)' = Desc(q) /\ Desc(q) \in Clients
  BY <1>1, DescType DEF Desc
<1>3. CASE log' = log /\ rpos' = rpos /\ Goto(p, "failed")
  <2>1. \A q \in Clients : wpc'[q] = IF q = p THEN "failed" ELSE wpc[q]
    BY <1>3 DEF Goto
  <2>2. \A q \in Clients : Own(q)' = Own(q)
    BY <1>3 DEF Own, Fixes
  <2>3. LogInv'
    BY <1>1, <1>3 DEF LogInv, Records, Fixes, EndOf
  <2>4. OwnInv'
    BY <1>1, <1>2, <1>3, <2>1, <2>2 DEF OwnInv
  <2> QED
    BY <1>3, <2>3, <2>4 DEF Alike
<1>4. CASE /\ LET rec == wlog_rec_pack(p, path[p], 1, FALSE)  at == rpos[Desc(p)]
              IN /\ log' = [k \in 1 .. Len(log) |-> IF k \in at + 1 .. at + Len(rec) THEN rec[k - at] ELSE log[k]]
                 /\ rpos' = [rpos EXCEPT ![Desc(p)] = at + Len(rec)]
           /\ Goto(p, "overlaid")
  <2> DEFINE rec == wlog_rec_pack(p, path[p], 1, FALSE)
             o == off[p]
             L == Len(log)
  <2>1. rec \in Seq(Byte) /\ Len(rec) = 1 /\ rec[1] = Fixed(p, path[p], 1)
    BY PathType, PackFixed
  <2>2. /\ o \in Int /\ L \in Nat /\ rpos[Desc(p)] = o /\ Own(p) = {o + 1}
    BY <1>1 DEF OwnInv
  <2>3. /\ log' = [k \in 1 .. L |-> IF k \in o + 1 .. o + Len(rec) THEN rec[k - o] ELSE log[k]]
        /\ rpos' = [rpos EXCEPT ![Desc(p)] = o + Len(rec)]
    BY <1>4, <2>2
  <2> HIDE DEF rec, o, L
  <2>4. o + 1 \in Fixes(log) /\ o + 1 \in 1 .. L /\ log[o + 1].id = p /\ log[o + 1].part = "fixed"
    BY <2>2 DEF Own, Fixes, L
  <2>5. log[o + 1].path = Field(path[p]) /\ log[o + 1].val = FILL
    BY <2>4 DEF LogInv
  <2>6. ASSUME NEW k \in 1 .. L
        PROVE  log'[k] = IF k = o + 1 THEN Fixed(p, path[p], 1) ELSE log[k]
    <3>1. CASE k = o + 1
      <4>1. k \in o + 1 .. o + Len(rec) /\ k - o = 1
        BY <2>1, <2>2, <3>1
      <4> QED
        BY <2>1, <2>3, <3>1, <4>1
    <3>2. CASE k # o + 1
      <4>1. k \notin o + 1 .. o + Len(rec)
        BY <2>1, <2>2, <3>2
      <4> QED
        BY <2>3, <3>2, <4>1
    <3> QED
      BY <3>1, <3>2
  <2>7. log' \in Seq(Byte) /\ Len(log') = L
    <3>1. Fixed(p, path[p], 1) \in Byte
      BY PathType, PackFixed
    <3>2. ASSUME NEW k \in 1 .. L PROVE log'[k] \in Byte
      <4>1. log[k] \in Byte
        BY DEF L
      <4> QED
        BY <2>6, <3>1, <4>1
    <3>3. \A k \in 1 .. L : (IF k \in o + 1 .. o + Len(rec) THEN rec[k - o] ELSE log[k]) \in Byte
      BY <2>3, <3>2
    <3>4. log' \in [1 .. L -> Byte]
      BY <2>3, <3>3
    <3> QED
      BY <2>2, <3>4, SequenceOf
  <2>8. ASSUME NEW k \in 1 .. L PROVE Alike(log'[k], log[k])
    <3>1. CASE k = o + 1
      BY <2>4, <2>5, <2>6, <3>1 DEF Alike, Fixed
    <3>2. CASE k # o + 1
      BY <2>6, <3>2 DEF Alike
    <3> QED
      BY <3>1, <3>2
  <2>9. /\ Fixes(log') = Fixes(log) /\ Records(log')
    BY <2>7, <2>8, RecordsAlike DEF L, LogInv
  <2>10. ASSUME NEW k \in Fixes(log)
         PROVE  k \in 1 .. L /\ log'[k].id = log[k].id /\ log'[k].path = log[k].path /\ log'[k].val = log[k].val
    BY <2>8 DEF Alike, Fixes, L
  <2>11. LogInv'
    BY <1>1, <2>9, <2>10 DEF LogInv
  <2>12. ASSUME NEW q \in Clients PROVE Own(q)' = Own(q)
    BY <2>9, <2>10 DEF Own
  <2>13. \A q \in Clients : wpc'[q] = IF q = p THEN "overlaid" ELSE wpc[q]
    BY <1>4 DEF Goto
  <2>14. \A d \in Clients : d # Desc(p) => rpos'[d] = rpos[d]
    BY <2>3
  <2>15. \A q \in Clients : q # p /\ wpc[q] = "rewrite" => Desc(q) # Desc(p)
    BY <1>1, Alone DEF Locked
  <2>16. OwnInv'
    <3>1. ASSUME NEW q \in Clients
          PROVE  /\ wpc'[q] \in {"open", "append", "write"} => Own(q) = {}
                 /\ wpc'[q] = "tell" => Own(q) = {apos[Desc(q)] - (Field(path[q]) + 3) + 1}
                 /\ wpc'[q] \in {"appended", "overlay", "seek", "rewrite", "overlaid"} => Own(q) = {off[q] + 1}
                 /\ wpc'[q] = "rewrite" => rpos'[Desc(q)] = off[q]
                 /\ wpc'[q] = "overlaid" => log'[off[q] + 1].done = 1
      <4>1. CASE q = p
        <5>1. wpc'[q] = "overlaid" /\ Own(q) = {off[q] + 1}
          BY <2>2, <2>13, <4>1 DEF o
        <5>2. log'[off[q] + 1].done = 1
          BY <2>4, <2>6, <4>1 DEF o, Fixed
        <5> QED
          BY <5>1, <5>2
      <4>2. CASE q # p
        <5>1. wpc'[q] = wpc[q] /\ (wpc[q] = "rewrite" => rpos'[Desc(q)] = rpos[Desc(q)])
          BY <1>2, <2>13, <2>14, <2>15, <4>2
        <5>2. wpc[q] = "overlaid" => log'[off[q] + 1].done = 1
          <6>1. ASSUME wpc[q] = "overlaid"
                PROVE  /\ off[q] + 1 \in Fixes(log) /\ log[off[q] + 1].done = 1 /\ log[off[q] + 1].id = q
            BY <6>1 DEF OwnInv, Own
          <6>2. ASSUME wpc[q] = "overlaid" PROVE off[q] + 1 \in 1 .. L /\ off[q] + 1 # o + 1
            BY <2>4, <4>2, <6>1, <6>2 DEF Fixes, L
          <6> QED
            BY <2>6, <6>1, <6>2
        <5> QED
          BY <5>1, <5>2 DEF OwnInv
      <4> QED
        BY <4>1, <4>2
    <3> QED
      BY <1>1, <1>2, <2>12, <3>1 DEF OwnInv
  <2>17. ASSUME NEW k \in 1 .. L PROVE log'[k] = log[k] \/ (k \in Own(p) /\ log'[k].done = 1)
    <3>1. CASE k = o + 1
      <4>1. log'[k].done = 1
        BY <2>6, <3>1 DEF Fixed
      <4> QED
        BY <2>2, <3>1, <4>1
    <3>2. CASE k # o + 1
      BY <2>6, <3>2
    <3> QED
      BY <3>1, <3>2
  <2> QED
    BY <2>7, <2>8, <2>11, <2>16, <2>17 DEF L
<1>5. \/ log' = log /\ rpos' = rpos /\ Goto(p, "failed")
      \/ /\ LET rec == wlog_rec_pack(p, path[p], 1, FALSE)  at == rpos[Desc(p)]
            IN /\ log' = [k \in 1 .. Len(log) |-> IF k \in at + 1 .. at + Len(rec) THEN rec[k - at] ELSE log[k]]
               /\ rpos' = [rpos EXCEPT ![Desc(p)] = at + Len(rec)]
         /\ Goto(p, "overlaid")
  BY DEF OverlayWrite
<1> QED
  BY <1>3, <1>4, <1>5

(* The invariant of the writers, step by step; the scan writes nothing.    *)
LEMMA WriteStep ==
  WriteInv /\ [WlogNext]_wlogVars => WriteInv'
<1> SUFFICES ASSUME WriteInv, [WlogNext]_wlogVars PROVE WriteInv'
  OBVIOUS
<1> USE DEF WriteInv
<1>1. CASE UNCHANGED <<asked, writing>>
  <2>1. /\ path' = path /\ way' = way /\ scan' = scan /\ log' = log /\ apos' = apos /\ rpos' = rpos
        /\ lock' = lock /\ wpc' = wpc /\ off' = off /\ torn' = torn
    BY <1>1 DEF asked, writing
  <2>2. WlogType'
    BY <2>1 DEF WlogType
  <2>3. LockInv'
    BY <2>1 DEF LockInv
  <2>4. LogInv => LogInv'
    BY <2>1 DEF LogInv, Records, Fixes, EndOf
  <2>5. OwnInv => OwnInv'
    BY <2>1 DEF OwnInv, Own, Fixes, Desc
  <2> QED
    BY <2>1, <2>2, <2>3, <2>4, <2>5
<1>2. CASE \E p \in Clients : Client(p)
  <2>1. PICK p \in Clients : Client(p)
    BY <1>2
  <2>2. /\ wpc' \in [Clients -> Stages] /\ lock' \in [Clients -> {"none", "W"}]
        /\ LockInv' /\ way' = way /\ path' = path /\ scan' = scan
    BY <2>1, LockStep
  <2>3. CASE wlog_open(p) \/ Lock(p) \/ AppendTell(p) \/ Unlock(p) \/ OverlaySeek(p) \/ wlog_close(p)
    <3>1. torn' = torn /\ log' = log
      BY <2>3 DEF wlog_open, Lock, AppendTell, Unlock, OverlaySeek, wlog_close
    <3>2. apos' \in [Clients -> Int] /\ rpos' \in [Clients -> Int] /\ off' \in [Clients -> Int]
      <4>1. apos' = apos
        BY <2>3 DEF wlog_open, Lock, AppendTell, Unlock, OverlaySeek, wlog_close
      <4>2. rpos' = rpos \/ rpos' = [rpos EXCEPT ![Desc(p)] = off[p]]
        BY <2>3 DEF wlog_open, Lock, AppendTell, Unlock, OverlaySeek, wlog_close
      <4>3. off' = off \/ off' = [off EXCEPT ![p] = apos[Desc(p)] - Len(WithLength(p, path[p]))]
        BY <2>3 DEF wlog_open, Lock, AppendTell, Unlock, OverlaySeek, wlog_close
      <4>4. apos[Desc(p)] - Len(WithLength(p, path[p])) \in Int /\ off[p] \in Int
        BY PathType, DescType DEF WlogType
      <4> QED
        BY <4>1, <4>2, <4>3, <4>4 DEF WlogType
    <3>3. WlogType'
      BY <2>2, <3>1, <3>2 DEF WlogType
    <3>4. torn = 0 => LogInv' /\ OwnInv'
      <4>1. torn = 0 => OwnInv'
        BY <2>3, QuietStep
      <4>2. torn = 0 => LogInv'
        BY <2>2, <3>1 DEF LogInv, Records, Fixes, EndOf
      <4> QED
        BY <4>1, <4>2
    <3> QED
      BY <2>2, <3>1, <3>3, <3>4
  <2>4. CASE AppendWrite(p)
    <3>1. /\ rpos' = rpos /\ off' = off
          /\ torn' = torn \/ torn' = 1
      BY <2>4 DEF AppendWrite
    <3>2. log' \in Seq(Byte) /\ apos' \in [Clients -> Int]
      <4> DEFINE r == WithLength(p, path[p])
      <4>1. r \in Seq(Byte) /\ Len(r) \in Nat \ {0}
        <5>1. p \in Int /\ path[p] \in Nat /\ Len(r) \in Nat \ {0}
          BY PathType
        <5> QED
          BY <5>1, RecordShape
      <4>2. \/ log' = log /\ apos' = apos
            \/ log' = log \o r /\ apos' = [apos EXCEPT ![Desc(p)] = Len(log')]
            \/ log' = log \o Front(r) /\ apos' = [apos EXCEPT ![Desc(p)] = Len(log')]
        BY <2>4 DEF AppendWrite, Write
      <4> HIDE DEF r
      <4>3. Front(r) \in Seq(Byte)
        BY <4>1 DEF Front
      <4>4. log \in Seq(Byte) /\ apos \in [Clients -> Int]
        BY DEF WlogType
      <4>5. log' \in Seq(Byte)
        <5>1. ASSUME NEW t \in Seq(Byte) PROVE log \o t \in Seq(Byte)
          BY <4>4, Joined
        <5>2. log \o r \in Seq(Byte) /\ log \o Front(r) \in Seq(Byte)
          BY <4>1, <4>3, <5>1
        <5> QED
          BY <4>2, <4>4, <5>2
      <4> QED
        BY <4>2, <4>4, <4>5
    <3>3. WlogType'
      BY <2>2, <3>1, <3>2 DEF WlogType
    <3>4. torn' = 0 => torn = 0
      BY <2>4 DEF AppendWrite
    <3> QED
      BY <2>2, <2>4, <3>3, <3>4, AppendStep
  <2>5. CASE OverlayWrite(p)
    <3>1. apos' = apos /\ off' = off /\ torn' = torn
      BY <2>5 DEF OverlayWrite
    <3>2. log' \in Seq(Byte) /\ rpos' \in [Clients -> Int]
      <4> DEFINE rec == wlog_rec_pack(p, path[p], 1, FALSE)
                 at == rpos[Desc(p)]
                 L == Len(log)
      <4>1. rec \in Seq(Byte)
        BY PathType, PackFixed
      <4>2. at \in Int /\ L \in Nat /\ log \in Seq(Byte) /\ rpos \in [Clients -> Int] /\ Len(rec) \in Nat
        <5>1. log \in Seq(Byte) /\ rpos \in [Clients -> Int] /\ Desc(p) \in Clients
          BY DescType DEF WlogType
        <5> HIDE DEF rec
        <5> QED
          BY <4>1, <5>1
      <4>3. \/ log' = log /\ rpos' = rpos
            \/ /\ log' = [k \in 1 .. L |-> IF k \in at + 1 .. at + Len(rec) THEN rec[k - at] ELSE log[k]]
               /\ rpos' = [rpos EXCEPT ![Desc(p)] = at + Len(rec)]
        BY <2>5 DEF OverlayWrite
      <4>4. ASSUME NEW k \in 1 .. L
            PROVE  (IF k \in at + 1 .. at + Len(rec) THEN rec[k - at] ELSE log[k]) \in Byte
        <5>1. log[k] \in Byte
          BY <4>2
        <5> HIDE DEF rec, at, L
        <5>2. ASSUME k \in at + 1 .. at + Len(rec) PROVE rec[k - at] \in Byte
          <6>1. k - at \in 1 .. Len(rec)
            BY <4>2, <5>2
          <6> QED
            BY <4>1, <6>1
        <5> QED
          BY <5>1, <5>2
      <4> HIDE DEF rec, at, L
      <4>5. ASSUME log' = [k \in 1 .. L |-> IF k \in at + 1 .. at + Len(rec) THEN rec[k - at] ELSE log[k]]
            PROVE  log' \in Seq(Byte)
        <5>1. log' \in [1 .. L -> Byte]
          BY <4>4, <4>5
        <5> QED
          BY <4>2, <5>1, SequenceOf
      <4> QED
        BY <4>1, <4>2, <4>3, <4>5
    <3>3. WlogType'
      BY <2>2, <3>1, <3>2 DEF WlogType
    <3> QED
      BY <2>2, <2>5, <3>1, <3>3, OverlayStep
  <2> QED
    BY <2>1, <2>3, <2>4, <2>5 DEF Client
<1>3. CASE Scan
  BY <1>1, <1>3 DEF Scan, ScanStart, ScanRead, ScanLeftover, ScanRecord, ScanEnd
<1>4. CASE Ended \/ UNCHANGED wlogVars
  BY <1>1, <1>4 DEF Ended, wlogVars
<1> QED
  BY <1>2, <1>3, <1>4 DEF WlogNext

(* A log as it was found has no record of a client.                        *)
LEMMA WriteInit ==
  WlogInit => WriteInv
<1> SUFFICES ASSUME WlogInit PROVE WriteInv
  OBVIOUS
<1>1. log \in Seq(Byte) /\ Records(log) /\ \A k \in 1 .. Len(log) : log[k].id \notin Clients
  BY LogsAssumption DEF WlogInit
<1>2. WlogType
  BY <1>1 DEF WlogInit, WlogType, Stages
<1>3. LockInv
  BY DEF WlogInit, LockInv, Locked
<1>4. LogInv /\ \A p \in Clients : Own(p) = {}
  BY <1>1 DEF LogInv, Own, Fixes
<1>5. OwnInv
  BY <1>4 DEF OwnInv, WlogInit
<1> QED
  BY <1>2, <1>3, <1>4, <1>5 DEF WriteInv

(* Each client's record is in the log once, at the offset that the client  *)
(* got from wlog_record_write, and has its mark once it is overlaid,       *)
(* whoever else appends and overlays in between.                           *)
THEOREM RecordsKept == WlogSpec => []RecordsIntact
<1>1. WriteInv => RecordsIntact
  BY DEF WriteInv, OwnInv, Own, Fixes, RecordsIntact
<1> QED
  BY <1>1, WriteInit, WriteStep, PTL DEF WlogSpec

(* A record is told by its place.                                          *)
LEMMA RecFacts ==
  ASSUME NEW k \in Fixes(log)
  PROVE  Rec(k) \in Recs /\ Rec(k).at = k /\ Rec(k).id = log[k].id /\ Rec(k).path = log[k].path
         /\ Rec(k).done = log[k].done
BY DEF Rec, Recs

(* Who has not come so far knows no offset.                                *)
UntoldInv ==
  \A p \in Clients : wpc[p] \in {"open", "append", "write", "tell"} => off[p] = -1

(* Nobody is told an offset but by AppendTell.                             *)
LEMMA UntoldStep ==
  WlogType /\ UntoldInv /\ [WlogNext]_wlogVars => UntoldInv'
<1> SUFFICES ASSUME WlogType, UntoldInv, [WlogNext]_wlogVars PROVE UntoldInv'
  OBVIOUS
<1>1. CASE UNCHANGED <<wpc, off>>
  BY <1>1 DEF UntoldInv
<1>2. ASSUME NEW p \in Clients, AppendTell(p) PROVE UntoldInv'
  <2>1. /\ wpc' = [wpc EXCEPT ![p] = "appended"]
        /\ \A q \in Clients \ {p} : off'[q] = off[q]
    BY <1>2 DEF AppendTell, Goto, WlogType
  <2> QED
    BY <2>1 DEF UntoldInv, WlogType
<1>3. ASSUME NEW p \in Clients, Client(p), ~AppendTell(p) PROVE UntoldInv'
  <2>1. off' = off
    BY <1>3 DEF Client, wlog_open, Lock, AppendWrite, Unlock, OverlaySeek, OverlayWrite, wlog_close
  <2>2. PICK place : /\ wpc' = [wpc EXCEPT ![p] = place]
                     /\ place \in {"open", "append", "write", "tell"} =>
                          wpc[p] \in {"open", "append", "write", "tell"}
    <3>1. CASE Lock(p)
      <4>1. \/ wpc[p] = "append" /\ \E place \in {"write", "closing"} : Goto(p, place)
            \/ wpc[p] = "overlay" /\ \E place \in {"seek", "closing"} : Goto(p, place)
        BY <3>1 DEF Lock, file_lock
      <4> QED
        BY <4>1 DEF Goto
    <3>2. CASE Unlock(p)
      <4>1. /\ wpc[p] \in {"appended", "overlaid", "failed"}
            /\ \E place \in {"overlay", "closing"} : Goto(p, place)
        BY <3>2 DEF Unlock
      <4> QED
        BY <4>1 DEF Goto
    <3>3. CASE wlog_open(p) \/ AppendWrite(p)
      BY <3>3 DEF wlog_open, AppendWrite, Goto
    <3>4. CASE OverlaySeek(p) \/ OverlayWrite(p) \/ wlog_close(p)
      BY <3>4 DEF OverlaySeek, OverlayWrite, wlog_close, Goto
    <3> QED
      BY <1>3, <3>1, <3>2, <3>3, <3>4 DEF Client
  <2> QED
    BY <2>1, <2>2 DEF UntoldInv, WlogType
<1>4. ASSUME Scan \/ Ended \/ UNCHANGED wlogVars PROVE UNCHANGED <<wpc, off>>
  BY <1>4 DEF Scan, ScanStart, ScanRead, ScanLeftover, ScanRecord, ScanEnd, Ended, wlogVars,
              writing
<1> QED
  BY <1>1, <1>2, <1>3, <1>4 DEF WlogNext

(* A step to another place, not from or to where a client is sure.         *)
LEMMA SureKept ==
  ASSUME WlogType, NEW p \in Clients, NEW place, Goto(p, place),
         wpc[p] # "overlaid", place # "overlaid"
  PROVE  Sure' = Sure
BY DEF WlogType, Goto, Sure

(* A whole record behind all others is what the promise calls appending.   *)
LEMMA AppendKept ==
  ASSUME WriteInv, NEW p \in Clients, AppendWrite(p), torn' = 0
  PROVE  Promised!Append(p) \/ UNCHANGED Promised!vars
<1>1. torn = 0 /\ path' = path /\ wpc[p] = "write"
  BY DEF AppendWrite, asked
<1>2. log \in Seq(Byte) /\ LogInv /\ Own(p) = {}
  BY <1>1 DEF WriteInv, WlogType, OwnInv
<1>0. Told' = Told /\ Sure' = Sure
  <2>1. off' = off /\ (Goto(p, "tell") \/ Goto(p, "failed")) /\ WlogType
    BY DEF AppendWrite, WriteInv
  <2> QED
    BY <1>1, <2>1, SureKept DEF Told
<1>3. CASE log' = log
  BY <1>0, <1>1, <1>3 DEF Promised!vars, Recs, Rec, Fixes
<1>4. CASE Write(p, WithLength(p, path[p]))
  <2> DEFINE L == Len(log)
             n == Field(path[p])
  <2>1. p \in Int /\ path[p] \in Nat
    BY PathType DEF WriteInv
  <2>2. /\ log' \in Seq(Byte) /\ Len(log') = L + n + 3
        /\ \A k \in 1 .. L : log'[k] = log[k]
        /\ Fixes(log') = Fixes(log) \cup {L + 1} /\ log'[L + 1] = Fixed(p, path[p], 0)
        /\ Records(log')
    <3>1. log' = log \o WithLength(p, path[p]) /\ log \in Seq(Byte) /\ Records(log)
      BY <1>2, <1>4 DEF Write, LogInv
    <3>2. p \in Int /\ path[p] \in Nat
      BY <2>1
    <3> QED
      BY <3>1, <3>2, RecordAppended, Zenon
  <2>3. L \in Nat /\ \A k \in Fixes(log) : k \in 1 .. L /\ k < L + 1
    BY <1>2 DEF Fixes
  <2>4. PICK r : r = [at |-> L + 1, id |-> p, path |-> n, done |-> 0]
    OBVIOUS
  <2>5. \A k \in Fixes(log) : Rec(k)' = Rec(k)
    BY <2>2, <2>3 DEF Rec
  <2>6. Recs' = Recs \cup {r}
    <3>1. PICK a : a = L + 1
      OBVIOUS
    <3>2. Rec(a)' = [at |-> a, id |-> log'[a].id, path |-> log'[a].path, done |-> log'[a].done]
      BY DEF Rec
    <3>3. Rec(a)' = r
      BY <2>2, <2>4, <3>1, <3>2 DEF Fixed
    <3>4. Recs' = {Rec(k)' : k \in Fixes(log) \cup {a}}
      BY <2>2, <3>1 DEF Recs
    <3>5. Recs' = {Rec(k) : k \in Fixes(log)} \cup {r}
      <4> HIDE DEF L, n
      <4> QED
        BY <2>5, <3>3, <3>4
    <3> QED
      BY <3>5 DEF Recs
  <2>7. \A q \in Recs : q.at < L + 1 /\ q.id # p
    <3>1. \A k \in Fixes(log) : Rec(k).at < L + 1 /\ Rec(k).id # p
      BY <1>2, <2>3, RecFacts DEF Own
    <3> QED
      BY <3>1 DEF Recs
  <2> HIDE DEF L, n
  <2>8. r \in Recs' /\ r.id = p /\ r.path = [q \in Clients |-> Field(path[q])][p] /\ r.done = 0
        /\ \A q \in Recs : q.at < r.at
    BY <2>4, <2>6, <2>7 DEF n
  <2> QED
    BY <1>0, <1>1, <2>6, <2>7, <2>8 DEF Promised!Append
<1> QED
  BY <1>1, <1>3, <1>4 DEF AppendWrite

(* What a client is told is the place of its own record.                   *)
LEMMA TellKept ==
  ASSUME WriteInv, WriteInv', UntoldInv, NEW p \in Clients, AppendTell(p), torn = 0
  PROVE  Promised!Tell(p)
<1>1. /\ path' = path /\ torn' = torn /\ log' = log /\ wpc[p] = "tell"
      /\ Goto(p, "appended") /\ WlogType
  BY DEF AppendTell, asked, WriteInv
<1>2. Recs' = Recs /\ Sure' = Sure
  <2>1. Recs' = Recs
    BY <1>1 DEF Recs, Rec, Fixes
  <2> QED
    BY <1>1, <2>1, SureKept
<1>3. Told[p] = 0
  BY <1>1 DEF UntoldInv, Told
<1>4. PICK o : o = off'[p] + 1
  OBVIOUS
<1>5. Told' = [Told EXCEPT ![p] = o]
  <2>1. off \in [Clients -> Int] /\ off' = [off EXCEPT ![p] = off'[p]]
    BY DEF AppendTell, WriteInv, WlogType
  <2> QED
    BY <1>4, <2>1 DEF Told
<1>6. o \in Fixes(log) /\ log[o].id = p
  <2>1. wpc'[p] = "appended"
    BY <1>1 DEF WlogType, Goto
  <2>2. Own(p)' = {off'[p] + 1}
    BY <1>1, <2>1 DEF WriteInv, OwnInv
  <2> QED
    BY <1>1, <1>4, <2>2 DEF Own, Fixes
<1>7. Rec(o) \in Recs /\ Rec(o).id = p /\ Rec(o).at = o
  BY <1>6, RecFacts
<1> QED
  BY <1>1, <1>2, <1>3, <1>5, <1>7 DEF Promised!Tell

(* An overlay that succeeds marks the record of its writer.                *)
LEMMA OverlayKept ==
  ASSUME WriteInv, WriteInv', NEW p \in Clients, OverlayWrite(p), torn = 0
  PROVE  Promised!Mark(p) \/ UNCHANGED Promised!vars
<1>1. /\ path' = path /\ torn' = torn /\ off' = off /\ wpc[p] = "rewrite" /\ log \in Seq(Byte)
      /\ Told' = Told /\ WlogType
  BY DEF OverlayWrite, asked, WriteInv, WlogType, Told
<1>2. /\ Len(log') = Len(log) /\ Own(p) = {off[p] + 1}
      /\ \A k \in 1 .. Len(log) : /\ Alike(log'[k], log[k])
                                  /\ log'[k] = log[k] \/ (k \in Own(p) /\ log'[k].done = 1)
  BY <1>1, OverlayStep DEF WriteInv, OwnInv
<1>3. PICK o : o = off[p] + 1
  OBVIOUS
<1>4. Own(p) = {o} /\ Fixes(log') = Fixes(log) /\ o \in Fixes(log) /\ log[o].id = p
  BY <1>2, <1>3 DEF Fixes, Alike, Own
<1>5. CASE log' = log /\ Goto(p, "failed")
  <2>1. Recs' = Recs
    BY <1>5 DEF Recs, Rec, Fixes
  <2> QED
    BY <1>1, <1>5, <2>1, SureKept DEF Promised!vars
<1>6. CASE Goto(p, "overlaid")
  <2>1. wpc'[p] = "overlaid" /\ Sure' = Sure \cup {p}
    BY <1>1, <1>6 DEF WlogType, Goto, Sure
  <2>2. log'[o].done = 1
    BY <1>1, <1>3, <2>1 DEF WriteInv, OwnInv
  <2>3. Rec(o)' = [Rec(o) EXCEPT !.done = 1]
    <3>1. log'[o].id = log[o].id /\ log'[o].path = log[o].path
      BY <1>2, <1>4 DEF Alike, Fixes
    <3> QED
      BY <2>2, <3>1 DEF Rec
  <2>4. \A k \in Fixes(log) \ {o} : Rec(k)' = Rec(k) /\ Rec(k) # Rec(o)
    <3>1. \A k \in Fixes(log) \ {o} : log'[k] = log[k]
      BY <1>2, <1>4 DEF Fixes
    <3> QED
      BY <1>4, <3>1, RecFacts DEF Rec
  <2>5. Recs' = (Recs \ {Rec(o)}) \cup {[Rec(o) EXCEPT !.done = 1]}
    <3>1. Recs' = {Rec(k)' : k \in Fixes(log) \ {o}} \cup {Rec(o)'}
      BY <1>4 DEF Recs
    <3>2. {Rec(k)' : k \in Fixes(log) \ {o}} = {Rec(k) : k \in Fixes(log) \ {o}}
      BY <2>4
    <3>3. Recs \ {Rec(o)} = {Rec(k) : k \in Fixes(log) \ {o}}
      BY <1>4, <2>4 DEF Recs
    <3> QED
      BY <2>3, <3>1, <3>2, <3>3
  <2>6. Rec(o) \in Recs /\ Rec(o).id = p /\ Rec(o).at = Told[p]
    BY <1>3, <1>4, RecFacts DEF Told
  <2> QED
    BY <1>1, <2>1, <2>5, <2>6 DEF Promised!Mark
<1> QED
  BY <1>5, <1>6 DEF OverlayWrite

(* Nothing else touches the log or what the clients were told.             *)
LEMMA OthersKept ==
  ASSUME WlogType, NEW p \in Clients, Client(p),
         ~AppendWrite(p), ~AppendTell(p), ~OverlayWrite(p)
  PROVE  UNCHANGED <<path, log, torn, off>> /\ Sure' \in {Sure, Sure \ {p}}
<1>1. UNCHANGED <<path, log, torn, off>>
  BY DEF Client, wlog_open, Lock, Unlock, OverlaySeek, wlog_close, asked
<1>2. PICK place : wpc' = [wpc EXCEPT ![p] = place] /\ place # "overlaid"
  BY DEF Client, wlog_open, Lock, file_lock, Unlock, OverlaySeek, wlog_close, Goto
<1>3. Sure' = Sure \ {p}
  BY <1>2 DEF WlogType, Sure
<1> QED
  BY <1>1, <1>3

(* The log of bytes, with the offsets, descriptors and locks of its        *)
(* writers, implements the log of records: who is told a place is told     *)
(* that of its own record, and nobody's record is changed, moved or        *)
(* dropped, until a write is short.                                        *)
THEOREM RecordLogRefinement == WlogSpec => ImplementsRecordLog
<1>1. WlogInit => Promised!Init /\ UntoldInv
  <2> SUFFICES ASSUME WlogInit PROVE Promised!Init /\ UntoldInv
    OBVIOUS
  <2>1. \A k \in 1 .. Len(log) : log[k].id \notin Clients
    BY LogsAssumption DEF WlogInit
  <2>2. \A k \in Fixes(log) : Rec(k).id \notin Clients
    BY <2>1, RecFacts DEF Fixes
  <2>3. Told = [p \in Clients |-> 0] /\ Sure = {}
    BY DEF WlogInit, Told, Sure
  <2> QED
    BY <2>2, <2>3 DEF WlogInit, Promised!Init, Recs, UntoldInv
<1>2. WriteInv /\ WriteInv' /\ UntoldInv /\ [WlogNext]_wlogVars
        => [Promised!Next]_(Promised!vars)
  <2> SUFFICES ASSUME WriteInv, WriteInv', UntoldInv, [WlogNext]_wlogVars
               PROVE  Promised!Next \/ UNCHANGED Promised!vars
    OBVIOUS
  <2>1. CASE UNCHANGED <<path, log, torn, off, wpc>>
    <3>1. Recs' = Recs /\ Told' = Told /\ Sure' = Sure
      BY <2>1 DEF Recs, Rec, Fixes, Told, Sure
    <3> QED
      BY <2>1, <3>1 DEF Promised!vars
  <2>2. ASSUME NEW p \in Clients, AppendWrite(p) \/ AppendTell(p) \/ OverlayWrite(p)
        PROVE  Promised!Next \/ UNCHANGED Promised!vars
    <3>1. path' = path /\ torn' \in {0, 1} /\ (torn' = 0 => torn = 0)
      BY <2>2 DEF AppendWrite, AppendTell, OverlayWrite, asked, WriteInv, WlogType
    <3>2. CASE torn' = 1
      BY <3>1, <3>2 DEF Promised!Next, Promised!Tear
    <3>3. CASE torn' = 0
      BY <2>2, <3>1, <3>3, AppendKept, TellKept, OverlayKept DEF Promised!Next
    <3> QED
      BY <3>1, <3>2, <3>3
  <2>3. ASSUME NEW p \in Clients, Client(p), ~AppendWrite(p), ~AppendTell(p), ~OverlayWrite(p)
        PROVE  Promised!Next \/ UNCHANGED Promised!vars
    <3>1. UNCHANGED <<path, log, torn, off>> /\ Sure' \in {Sure, Sure \ {p}}
      BY <2>3, OthersKept DEF WriteInv
    <3>2. Recs' = Recs /\ Told' = Told
      BY <3>1 DEF Recs, Rec, Fixes, Told
    <3> QED
      BY <3>1, <3>2 DEF Promised!Next, Promised!Leave, Promised!vars
  <2>4. ASSUME Scan \/ Ended \/ UNCHANGED wlogVars PROVE UNCHANGED <<path, log, torn, off, wpc>>
    BY <2>4 DEF Scan, ScanStart, ScanRead, ScanLeftover, ScanRecord, ScanEnd, Ended, wlogVars,
                asked, writing
  <2> QED
    BY <2>1, <2>2, <2>3, <2>4 DEF WlogNext
<1>3. WriteInv => WlogType
  BY DEF WriteInv
<1> QED
  BY <1>1, <1>2, <1>3, WriteInit, WriteStep, UntoldStep, PTL
     DEF WlogSpec, ImplementsRecordLog, Promised!Spec

(* A part of a finite set.                                                 *)
LEMMA PartOf ==
  ASSUME NEW S, IsFiniteSet(S), NEW T \in SUBSET S
  PROVE  IsFiniteSet(T) /\ Cardinality(T) \in Nat /\ Cardinality(T) <= Cardinality(S)
<1>1. IsFiniteSet(T) /\ Cardinality(T) <= Cardinality(S)
  BY FS_Subset
<1> QED
  BY <1>1, FS_CardinalityType

(* A finite set with one element more.                                     *)
LEMMA OneMore ==
  ASSUME NEW S, IsFiniteSet(S), NEW x, x \notin S
  PROVE  IsFiniteSet(S \cup {x}) /\ Cardinality(S \cup {x}) = Cardinality(S) + 1
BY FS_AddElement

(* A finite set with something in it.                                      *)
LEMMA SomeOf ==
  ASSUME NEW S, IsFiniteSet(S), NEW x \in S
  PROVE  Cardinality(S) \in Nat \ {0}
<1>1. Cardinality({x}) = 1 /\ {x} \in SUBSET S
  BY FS_Singleton
<1>2. Cardinality({x}) <= Cardinality(S) /\ Cardinality(S) \in Nat
  BY <1>1, PartOf
<1> QED
  BY <1>1, <1>2

(* A part of a sequence.                                                   *)
LEMMA Cut ==
  ASSUME NEW S, NEW l \in Seq(S), NEW o \in Nat, NEW e \in Nat, o <= e, e <= Len(l)
  PROVE  /\ SubSeq(l, o + 1, e) \in Seq(S) /\ Len(SubSeq(l, o + 1, e)) = e - o
         /\ \A j \in 1 .. e - o : SubSeq(l, o + 1, e)[j] = l[o + j]
<1>1. Len(l) \in Nat
  OBVIOUS
<1>2. \A i \in o + 1 .. e : l[i] \in S
  BY <1>1
<1>3. SubSeq(l, o + 1, e) \in Seq(S)
  BY <1>1, <1>2
<1>4. Len(SubSeq(l, o + 1, e)) = e - o
  <2>1. IF o + 1 <= e THEN Len(SubSeq(l, o + 1, e)) = e - (o + 1) + 1 ELSE Len(SubSeq(l, o + 1, e)) = 0
    BY <1>1
  <2> QED
    BY <2>1
<1>5. ASSUME NEW j \in 1 .. e - o PROVE SubSeq(l, o + 1, e)[j] = l[o + j]
  <2>1. j \in 1 .. e - (o + 1) + 1 /\ o + 1 + j - 1 = o + j
    OBVIOUS
  <2>2. SubSeq(l, o + 1, e)[j] = l[o + 1 + j - 1]
    BY <1>1, <2>1
  <2> QED
    BY <2>1, <2>2
<1> QED
  BY <1>3, <1>4, <1>5

(* A sequence is one of its own elements.                                  *)
LEMMA OwnElements ==
  ASSUME NEW S, NEW s \in Seq(S)
  PROVE  s \in Seq({s[j] : j \in DOMAIN s})
<1>1. s \in [1 .. Len(s) -> S] /\ DOMAIN s = 1 .. Len(s) /\ Len(s) \in Nat
  OBVIOUS
<1> DEFINE R == {s[j] : j \in DOMAIN s}
<1>2. \A j \in 1 .. Len(s) : s[j] \in R
  BY <1>1
<1> HIDE DEF R
<1>3. s \in [1 .. Len(s) -> R]
  BY <1>1, <1>2
<1>4. s \in Seq(R)
  BY <1>1, <1>2, <1>3
<1> QED
  BY <1>4 DEF R

(* What the scan is asked for are numbers.                                 *)
LEMMA ScanNumbers ==
  ASSUME WlogType
  PROVE  scan.nrecs \in Nat /\ scan.stop \in Nat
BY SizesAssumption DEF WlogType

(* The records that the scan finds are finitely many.                      *)
LEMMA FoundFinite ==
  ASSUME ScanType, WlogType
  PROVE  /\ size \in Nat /\ Len(log) \in Nat /\ Found \subseteq 1 .. size
         /\ IsFiniteSet(Found) /\ Cardinality(Found) \in Nat
<1>1. size \in Nat /\ Len(log) \in Nat
  BY DEF ScanType, WlogType
<1>2. IsFiniteSet(1 .. size)
  BY <1>1, FS_Interval
<1>3. Found \subseteq 1 .. size
  BY DEF Found
<1>4. IsFiniteSet(Found) /\ Cardinality(Found) \in Nat
  BY <1>2, <1>3, PartOf
<1> QED
  BY <1>1, <1>3, <1>4

(* A record that is found has a place.                                     *)
LEMMA PlaceType ==
  ASSUME ScanType, WlogType, NEW k \in Found
  PROVE  Place(k) \in Nat \ {0} /\ Place(k) <= Cardinality(Found)
<1> DEFINE S == {m \in Found : m >= k}
<1>1. IsFiniteSet(S) /\ Cardinality(S) <= Cardinality(Found)
  BY FoundFinite, PartOf
<1>2. k \in S
  BY FoundFinite
<1>3. Place(k) = Cardinality(S)
  BY DEF Place
<1> HIDE DEF S
<1> QED
  BY <1>1, <1>2, <1>3, SomeOf

(* The place of the record that ends at b is behind those that begin       *)
(* after b.                                                                *)
LEMMA NextPlace ==
  ASSUME ScanType, WlogType, Records(log), NEW k \in Fixes(log), NEW b \in Nat, EndOf(log, k) = b, b <= size
  PROVE  LET n == Cardinality({m \in Found : m > b}) IN
         /\ n \in Nat /\ k \in Found /\ k \in 1 .. b /\ Place(k) = n + 1
         /\ Cardinality({m \in Found : m > k - 1}) = n + 1 /\ n + 1 <= Cardinality(Found)
         /\ \A j \in Found : /\ j > b => Place(j) <= n
                             /\ j <= b /\ j # k => Place(j) > n + 1
<1> DEFINE U == {m \in Found : m > b}
           S == {m \in Found : m >= k}
<1>1. /\ size \in Nat /\ Len(log) \in Nat /\ Found \subseteq 1 .. size
      /\ IsFiniteSet(Found) /\ Cardinality(Found) \in Nat
  BY FoundFinite
<1>2. k \in 1 .. Len(log) /\ b >= k + 2
  BY InLog DEF WlogType
<1>3. k \in Found /\ k \in 1 .. b
  BY <1>1, <1>2 DEF Found
<1>4. (k + 1 .. b) \cap Fixes(log) = {}
  BY DEF Records
<1>5. \A m \in Found : m \in Nat /\ (m <= k \/ m > b)
  BY <1>1, <1>2, <1>4 DEF Found
<1>6. S = U \cup {k} /\ k \notin U /\ S = {m \in Found : m > k - 1}
  <2>1. \A m \in Found : m \in Nat /\ (m >= k <=> m = k \/ m > b) /\ (m >= k <=> m > k - 1)
    BY <1>1, <1>2, <1>5
  <2>2. S = U \cup {k}
    BY <1>3, <2>1
  <2>3. k \notin U
    <3>1. ~(k > b)
      BY <1>1, <1>2
    <3> QED
      BY <3>1
  <2>4. S = {m \in Found : m > k - 1}
    BY <2>1
  <2> QED
    BY <2>2, <2>3, <2>4
<1>7. IsFiniteSet(U) /\ Cardinality(U) \in Nat
  BY <1>1, PartOf
<1>8. IsFiniteSet(S) /\ Cardinality(S) = Cardinality(U) + 1
  <2> HIDE DEF U, S
  <2> QED
    BY <1>6, <1>7, OneMore
<1>9. Cardinality(S) <= Cardinality(Found)
  BY <1>1, PartOf
<1>10. Place(k) = Cardinality(S)
  BY DEF Place
<1>11. ASSUME NEW j \in Found, j > b PROVE Place(j) <= Cardinality(U)
  <2> DEFINE T == {m \in Found : m >= j}
  <2>1. T \subseteq U
    BY <1>5, <1>11
  <2>2. Place(j) = Cardinality(T)
    BY DEF Place
  <2> HIDE DEF T, U
  <2> QED
    BY <1>7, <2>1, <2>2, PartOf
<1>12. ASSUME NEW j \in Found, j <= b, j # k PROVE Place(j) > Cardinality(U) + 1
  <2> DEFINE T == {m \in Found : m >= j}
  <2>1. j < k /\ j \in Nat /\ k \in Nat
    BY <1>1, <1>2, <1>5, <1>12
  <2>2. S \cup {j} \subseteq T /\ j \notin S
    <3>1. \A m \in S : m \in Found /\ m \in Nat /\ m >= k
      BY <1>5
    <3>2. \A m \in S : m >= j /\ m # j
      BY <2>1, <3>1
    <3>3. j \in T
      BY <2>1
    <3> QED
      BY <3>1, <3>2, <3>3
  <2>3. IsFiniteSet(T) /\ Cardinality(T) \in Nat
    BY <1>1, PartOf
  <2>4. Place(j) = Cardinality(T)
    BY DEF Place
  <2> HIDE DEF T, U, S
  <2>5. Cardinality(S \cup {j}) = Cardinality(S) + 1
    BY <1>8, <2>2, OneMore
  <2>6. Cardinality(S \cup {j}) <= Cardinality(T)
    BY <2>2, <2>3, PartOf
  <2> QED
    BY <1>7, <1>8, <2>3, <2>4, <2>5, <2>6
<1> HIDE DEF S
<1>13. Cardinality({m \in Found : m > k - 1}) = Cardinality(U) + 1
  BY <1>6, <1>8
<1> HIDE DEF U
<1>14. \A j \in Found : /\ j > b => Place(j) <= Cardinality(U)
                        /\ j <= b /\ j # k => Place(j) > Cardinality(U) + 1
  BY <1>11, <1>12
<1>15. Cardinality(U) + 1 <= Cardinality(Found) /\ Place(k) = Cardinality(U) + 1
  BY <1>8, <1>9, <1>10
<1> QED
  BY <1>3, <1>7, <1>13, <1>14, <1>15 DEF U

(* The length that the scan takes from what remains is that of the record  *)
(* which ends there.                                                       *)
LEMMA LengthRead ==
  ASSUME ScanType, WlogType, Records(log), PlaceInv, ~Over, Len(rest) >= 2,
         NEW k \in Fixes(log), EndOf(log, k) = Bound
  PROVE  /\ reclen = 1 + log[k].path /\ log[k].path \in Nat
         /\ offset + (Len(rest) - (reclen + 2)) = k - 1
<1> DEFINE n == Len(rest)
           b == Bound
<1>1. n \in Nat /\ offset \in Nat /\ b = offset + n /\ size \in Nat /\ Len(log) \in Nat /\ b <= size /\ size <= Len(log)
  BY DEF ScanType, Bound, WlogType
<1>2. k \in 1 .. Len(log) /\ log[k].path \in Nat /\ b = k + log[k].path + 2
  BY InLog DEF WlogType, EndOf
<1>3. log[b - 1].val * B + log[b].val = 1 + log[k].path
  BY DEF Records
<1>4. \A j \in 1 .. n : rest[j].val = log[offset + j].val
  BY DEF PlaceInv, Alike
<1> HIDE DEF n, b
<1>5. n - 1 \in 1 .. n /\ n \in 1 .. n /\ offset + (n - 1) = b - 1 /\ offset + n = b
  BY <1>1 DEF n
<1>6. rest[n - 1].val = log[b - 1].val /\ rest[n].val = log[b].val
  BY <1>4, <1>5
<1>7. reclen = 1 + log[k].path
  BY <1>3, <1>6 DEF reclen, n
<1>8. offset + (n - (reclen + 2)) = k - 1
  <2> DEFINE x == log[k].path
             y == reclen
  <2>1. x \in Nat /\ offset + n = k + x + 2 /\ y = 1 + x /\ k \in Nat
    BY <1>1, <1>2, <1>7
  <2> HIDE DEF x, y
  <2>2. offset + (n - (y + 2)) = k - 1
    BY <1>1, <2>1
  <2> QED
    BY <2>2 DEF y
<1> QED
  BY <1>2, <1>7, <1>8 DEF n

(* What the clients do to the log: it gets longer, and what was in it      *)
(* stays, but for the marks.                                               *)
LEMMA LogGrows ==
  ASSUME WriteInv, WriteInv', NEW p \in Clients, Client(p)
  PROVE  /\ Len(log) <= Len(log') /\ scan' = scan /\ scanning' = scanning
         /\ torn' = 0 => torn = 0 /\ \A k \in 1 .. Len(log) : Alike(log'[k], log[k])
<1> DEFINE L == Len(log)
<1>1. WlogType /\ LockInv /\ WlogType'
  BY DEF WriteInv
<1>2. L \in Nat /\ log \in Seq(Byte)
  BY <1>1 DEF WlogType
<1>3. scan' = scan /\ scanning' = scanning
  BY DEF Client, wlog_open, Lock, AppendWrite, AppendTell, Unlock, OverlaySeek, OverlayWrite, wlog_close,
         asked, scanning
<1>4. CASE log' = log /\ torn' = torn
  <2>1. Len(log) <= Len(log')
    BY <1>2, <1>4
  <2>2. torn' = 0 => torn = 0 /\ \A k \in 1 .. Len(log) : Alike(log'[k], log[k])
    BY <1>4 DEF Alike
  <2> QED
    BY <1>3, <2>1, <2>2
<1>5. CASE AppendWrite(p)
  <2> DEFINE r == WithLength(p, path[p])
  <2>1. r \in Seq(Byte) /\ Len(r) \in Nat \ {0}
    <3>1. p \in Int /\ path[p] \in Nat /\ Len(r) \in Nat \ {0}
      BY <1>1, PathType
    <3> QED
      BY <3>1, RecordShape
  <2>2. \/ log' = log /\ torn' = torn
        \/ log' = log \o r /\ torn' = torn
        \/ log' = log \o Front(r) /\ torn' = 1
    BY <1>5 DEF AppendWrite, Write
  <2> HIDE DEF r
  <2>3. Front(r) \in Seq(Byte)
    BY <2>1 DEF Front
  <2>4. ASSUME NEW t \in Seq(Byte), log' = log \o t
        PROVE  /\ L <= Len(log') /\ \A k \in 1 .. L : log'[k] = log[k]
    <3>1. /\ Len(log \o t) = L + Len(t) /\ \A k \in 1 .. L : (log \o t)[k] = log[k]
      BY <1>2, Joined
    <3>2. Len(t) \in Nat
      OBVIOUS
    <3> HIDE DEF L
    <3> QED
      BY <1>2, <2>4, <3>1, <3>2
  <2>5. CASE log' = log \o r /\ torn' = torn
    BY <1>3, <2>1, <2>4, <2>5 DEF Alike
  <2>6. CASE log' = log \o Front(r) /\ torn' = 1
    BY <1>3, <2>3, <2>4, <2>6
  <2> QED
    BY <1>4, <2>2, <2>5, <2>6
<1>6. CASE OverlayWrite(p)
  <2>1. torn' = torn
    BY <1>6 DEF OverlayWrite
  <2>2. torn = 0 => Len(log') = Len(log) /\ \A k \in 1 .. Len(log) : Alike(log'[k], log[k])
    BY <1>1, <1>6, OverlayStep DEF WriteInv
  <2>3. Len(log) = Len(log')
    <3> DEFINE rec == wlog_rec_pack(p, path[p], 1, FALSE)
               at == rpos[Desc(p)]
    <3>1. log' = log \/ log' = [k \in 1 .. L |-> IF k \in at + 1 .. at + Len(rec) THEN rec[k - at] ELSE log[k]]
      BY <1>6 DEF OverlayWrite
    <3>2. log' \in Seq(Byte) /\ DOMAIN log' = 1 .. Len(log') /\ DOMAIN log = 1 .. L
      BY <1>1, <1>2 DEF WlogType
    <3> HIDE DEF rec, at, L
    <3>3. 1 .. Len(log') = 1 .. L /\ Len(log') \in Nat
      BY <3>1, <3>2
    <3>4. Len(log') = L
      BY <1>2, <3>3
    <3> QED
      BY <3>4 DEF L
  <2>4. Len(log) <= Len(log')
    BY <1>2, <2>3
  <2> QED
    BY <1>3, <2>1, <2>2, <2>4
<1> QED
  BY <1>4, <1>5, <1>6
  DEF Client, wlog_open, Lock, AppendTell, Unlock, OverlaySeek, wlog_close

(* The scan's invariant does not mind what the clients do.                 *)
LEMMA ScanKept ==
  ASSUME WlogType, WlogType', ScanInv, Len(log) <= Len(log'), scan' = scan, scanning' = scanning,
         torn' = 0 => torn = 0 /\ \A k \in 1 .. Len(log) : Alike(log'[k], log[k])
  PROVE  ScanInv'
<1>1. /\ spc' = spc /\ size' = size /\ offset' = offset /\ rest' = rest /\ calls' = calls
  BY DEF scanning
<1>2. /\ size \in Nat /\ Len(log) \in Nat /\ Len(log') \in Nat /\ size <= Len(log) /\ size <= Len(log')
      /\ offset \in Nat /\ offset <= size /\ offset + Len(rest) <= size /\ rest \in Seq(Byte)
  <2>1. size \in 0 .. Len(log) /\ offset \in 0 .. size /\ offset + Len(rest) <= size /\ rest \in Seq(Byte)
    BY DEF ScanInv, ScanType
  <2>2. Len(log) \in Nat /\ Len(log') \in Nat
    BY DEF WlogType
  <2> QED
    BY <2>1, <2>2
<1>3. ScanType'
  BY <1>1, <1>2 DEF ScanInv, ScanType
<1>4. StopInv'
  BY <1>1 DEF ScanInv, StopInv
<1>5. Bound' = Bound /\ Over' = Over
  BY <1>1 DEF Bound, Over
<1>6. ASSUME torn' = 0 PROVE PlaceInv' /\ CallsInv'
  <2>1. /\ PlaceInv /\ CallsInv
        /\ \A k \in 1 .. Len(log) : /\ log'[k].id = log[k].id /\ log'[k].part = log[k].part
                                    /\ log'[k].path = log[k].path /\ log'[k].val = log[k].val
    BY <1>6 DEF ScanInv, Alike
  <2>2. Found' = Found
    BY <1>1, <1>2, <2>1 DEF Found, Fixes
  <2>3. \A k \in Found : Place(k)' = Place(k)
    BY <2>2 DEF Place
  <2>4. \A k \in Fixes(log) : k \in Fixes(log') /\ EndOf(log', k) = EndOf(log, k)
    BY <1>2, <2>1 DEF Fixes, EndOf
  <2>5. \A j \in 1 .. Len(rest) : offset + j \in 1 .. Len(log)
    BY <1>2
  <2>6. PlaceInv'
    <3>1. ASSUME ~Over, NEW j \in 1 .. Len(rest) PROVE Alike(rest'[j], log'[offset' + j])
      <4>1. Alike(rest[j], log[offset + j])
        BY <2>1, <3>1 DEF PlaceInv
      <4>2. offset + j \in 1 .. Len(log)
        BY <2>5
      <4> QED
        BY <1>1, <2>1, <4>1, <4>2 DEF Alike
    <3>2. {m \in Found' : m > Bound'} = {m \in Found : m > Bound}
      BY <1>5, <2>2
    <3>3. ASSUME ~Over PROVE Bound' = 0 \/ \E k \in Fixes(log') : EndOf(log', k) = Bound'
      BY <1>5, <2>1, <2>4, <3>3 DEF PlaceInv
    <3>4. ASSUME ~Over PROVE Len(calls') = Cardinality({m \in Found' : m > Bound'})
      BY <1>1, <2>1, <3>2, <3>4 DEF PlaceInv
    <3>5. ASSUME ~Over
          PROVE  (spc' \in {"outer", "done"} /\ offset' = 0 => rest' = <<>>) /\ (spc' = "done" => offset' = 0)
      BY <1>1, <2>1, <3>5 DEF PlaceInv
    <3> QED
      BY <1>1, <1>5, <3>1, <3>3, <3>4, <3>5 DEF PlaceInv
  <2>7. CallsInv'
    <3>1. \A k \in Found : log'[k].id = log[k].id /\ log'[k].path = log[k].path
      BY <1>2, <2>1 DEF Found
    <3> QED
      BY <1>1, <2>1, <2>2, <2>3, <3>1 DEF CallsInv
  <2> QED
    BY <2>6, <2>7
<1> QED
  BY <1>3, <1>4, <1>6 DEF ScanInv

(* The scan of the log as it is when the scan begins.                      *)
LEMMA StartStep ==
  ASSUME WriteInv, ScanInv, ScanStart
  PROVE  ScanInv'
<1>1. /\ WlogType /\ ScanType /\ (torn = 0 => Records(log))
  BY DEF WriteInv, ScanInv, LogInv
<1>2. /\ log' = log /\ torn' = torn /\ scan' = scan /\ spc = "open" /\ spc' = "outer"
      /\ size' = Len(log) /\ offset' = Len(log) /\ rest' = <<>> /\ calls' = <<>>
  BY <1>1 DEF ScanStart, asked, writing, ScanType
<1>3. Len(log) \in Nat /\ log \in Seq(Byte)
  BY <1>1 DEF WlogType
<1>4. BUF \in Nat
  BY Sizes
<1>5. ScanType'
  <2>1. /\ spc' \in {"open", "outer", "inner", "failed", "done"} /\ spc' # "open"
        /\ size' \in 0 .. Len(log') /\ offset' \in 0 .. size'
    BY <1>2, <1>3
  <2>2. rest' \in Seq(Byte) /\ Len(rest') = 0
    BY <1>2
  <2>3. Len(rest') <= BUF /\ offset' + Len(rest') <= size'
    BY <1>2, <1>3, <1>4, <2>2
  <2>4. calls' \in Seq({calls'[j] : j \in DOMAIN calls'})
    BY <1>2
  <2> QED
    BY <2>1, <2>2, <2>3, <2>4 DEF ScanType
<1>6. Len(calls') = 0 /\ Len(rest') = 0
  BY <1>2
<1>7. StopInv'
  <2>1. scan.nrecs \in Nat
    BY <1>1, ScanNumbers
  <2> QED
    BY <1>2, <1>6, <2>1 DEF StopInv
<1>9. ASSUME torn = 0 PROVE PlaceInv' /\ CallsInv'
  <2>1. Bound' = Len(log)
    BY <1>2, <1>3, <1>6 DEF Bound
  <2>2. /\ Found' \subseteq 1 .. Len(log) /\ Cardinality(Found') \in Nat
        /\ \A k \in Found' : Place(k)' \in Nat \ {0}
    <3>1. Found' \subseteq 1 .. Len(log)
      BY <1>2 DEF Found
    <3>2. IsFiniteSet(Found') /\ Cardinality(Found') \in Nat
      <4>1. IsFiniteSet(1 .. Len(log))
        BY <1>3, FS_Interval
      <4> QED
        BY <3>1, <4>1, PartOf
    <3>3. ASSUME NEW k \in Found' PROVE Place(k)' \in Nat \ {0}
      <4> DEFINE S == {m \in Found' : m >= k}
      <4>1. IsFiniteSet(S)
        BY <3>2, PartOf
      <4>2. k \in S
        BY <1>3, <3>1
      <4>3. Place(k)' = Cardinality(S)
        BY DEF Place
      <4> HIDE DEF S
      <4> QED
        BY <4>1, <4>2, <4>3, SomeOf
    <3> QED
      BY <3>1, <3>2, <3>3
  <2>3. {m \in Found' : m > Len(log)} = {}
    <3>1. \A m \in Found' : m <= Len(log)
      BY <1>3, <2>2
    <3>2. \A m \in Found' : ~(m > Len(log))
      BY <1>3, <2>2, <3>1
    <3> QED
      BY <3>2
  <2>4. Cardinality({m \in Found' : m > Bound'}) = 0
    BY <2>1, <2>3, FS_EmptySet
  <2>5. Len(log) = 0 \/ \E k \in Fixes(log) : EndOf(log, k) = Len(log)
    BY <1>1, <1>9 DEF Records
  <2>6. offset' = 0 => rest' = <<>>
    BY <1>2
  <2>7. PlaceInv'
    <3>1. Bound' = 0 \/ \E k \in Fixes(log') : EndOf(log', k) = Bound'
      BY <1>2, <2>1, <2>5
    <3>2. \A j \in 1 .. Len(rest') : Alike(rest'[j], log'[offset' + j])
      BY <1>6
    <3>3. Len(calls') = Cardinality({m \in Found' : m > Bound'})
      BY <1>6, <2>4
    <3>4. spc' # "done"
      BY <1>2
    <3> QED
      BY <2>6, <3>1, <3>2, <3>3, <3>4 DEF PlaceInv
  <2>8. CallsInv'
    <3>1. ASSUME NEW k \in Found' PROVE ~(Place(k)' <= Len(calls'))
      BY <1>6, <2>2
    <3>2. Len(calls') <= Cardinality(Found')
      BY <1>6, <2>2
    <3> QED
      BY <3>1, <3>2 DEF CallsInv
  <2> QED
    BY <2>7, <2>8
<1> QED
  BY <1>2, <1>5, <1>7, <1>9 DEF ScanInv

(* A block before the bytes that are left over.                            *)
LEMMA ReadStep ==
  ASSUME WriteInv, ScanInv, ScanRead
  PROVE  ScanInv'
<1> DEFINE n == Len(rest)
<1>1. /\ WlogType /\ ScanType /\ StopInv /\ (torn = 0 => PlaceInv /\ CallsInv)
  BY DEF WriteInv, ScanInv
<1>2. /\ log' = log /\ torn' = torn /\ scan' = scan /\ spc = "outer" /\ More
      /\ size' = size /\ calls' = calls
  BY DEF ScanRead, asked, writing
<1>9. log \in Seq(Byte) /\ rest \in Seq(Byte)
  BY <1>1 DEF ScanType, WlogType
<1>3. /\ size \in Nat /\ Len(log) \in Nat /\ size <= Len(log)
      /\ offset \in Nat /\ offset <= size /\ offset + n <= size
      /\ n \in Nat /\ n <= BUF /\ BUF \in Nat
  <2>1. size \in 0 .. Len(log) /\ offset \in 0 .. size /\ offset + n <= size /\ n <= BUF
    BY <1>1 DEF ScanType
  <2>2. Len(log) \in Nat /\ n \in Nat /\ BUF \in Nat
    BY <1>9, Sizes
  <2> QED
    BY <2>1, <2>2
<1>4. Found' = Found /\ Over' = Over /\ \A k \in Found : Place(k)' = Place(k)
  BY <1>2 DEF Found, Over, Place
<1>5. CallsInv => CallsInv'
  BY <1>2, <1>4 DEF CallsInv
<1>6. StopInv'
  <2>1. scan.nrecs # 0 => Len(calls) < scan.nrecs
    BY <1>2 DEF More
  <2>2. scan.nrecs \in Nat /\ Len(calls) \in Nat
    BY <1>1, ScanNumbers DEF ScanType
  <2> QED
    BY <1>2, <2>1, <2>2 DEF StopInv
<1>7. CASE spc' = "failed" /\ UNCHANGED <<offset, rest>>
  <2>1. ScanType'
    BY <1>1, <1>2, <1>7 DEF ScanType
  <2>2. PlaceInv => PlaceInv'
    BY <1>2, <1>4, <1>7 DEF PlaceInv, Bound
  <2> QED
    BY <1>1, <1>2, <1>5, <1>6, <2>1, <2>2 DEF ScanInv
<1>8. CASE /\ offset' = offset - Block
           /\ rest' = SubSeq(log, offset' + 1, offset) \o rest
           /\ spc' = "inner"
  <2>1. PICK d \in Nat : d = Block /\ d <= offset /\ d + n <= BUF
    <3> DEFINE x == Block
    <3>1. x = IF offset + n < BUF THEN offset ELSE BUF - n
      BY DEF Block
    <3> HIDE DEF x, n
    <3>2. x \in Nat /\ x <= offset /\ x + n <= BUF
      BY <1>3, <3>1
    <3> QED
      BY <3>2 DEF x
  <2>2. PICK o \in Nat : offset' = o /\ o + d = offset
    BY <1>3, <1>8, <2>1
  <2> DEFINE s == SubSeq(log, o + 1, offset)
  <2>3. rest' = s \o rest
    BY <1>8, <2>2
  <2>4. o <= offset /\ offset <= Len(log) /\ offset - o = d
    BY <1>3, <2>1, <2>2
  <2>5. s \in Seq(Byte) /\ Len(s) = d /\ \A j \in 1 .. d : s[j] = log[o + j]
    BY <1>3, <1>9, <2>4, Cut
  <2> HIDE DEF s
  <2>6. /\ rest' \in Seq(Byte) /\ Len(rest') = d + n
        /\ \A j \in 1 .. d : rest'[j] = s[j]
        /\ \A j \in d + 1 .. d + n : rest'[j] = rest[j - d]
    <3>1. /\ s \o rest \in Seq(Byte) /\ Len(s \o rest) = Len(s) + Len(rest)
          /\ \A k \in 1 .. Len(s) : (s \o rest)[k] = s[k]
          /\ \A k \in Len(s) + 1 .. Len(s) + Len(rest) : (s \o rest)[k] = rest[k - Len(s)]
      BY <1>9, <2>5, Joined, Zenon
    <3> QED
      BY <2>3, <2>5, <3>1
  <2> HIDE DEF n
  <2>7. ScanType'
    <3>1. /\ spc' \in {"open", "outer", "inner", "failed", "done"} /\ spc' # "open"
          /\ size' \in 0 .. Len(log') /\ offset' \in 0 .. size'
      BY <1>2, <1>3, <1>8, <2>2, <2>4
    <3>2. Len(rest') <= BUF
      BY <2>1, <2>6
    <3>3. offset' + Len(rest') <= size'
      BY <1>2, <1>3, <2>2, <2>6
    <3> QED
      BY <1>1, <1>2, <2>6, <3>1, <3>2, <3>3 DEF ScanType
  <2>8. Bound' = Bound
    <3>1. o + (d + n) = offset + n
      BY <1>3, <2>2
    <3> QED
      BY <2>2, <2>6, <3>1 DEF Bound, n
  <2>9. PlaceInv => PlaceInv'
    <3>1. ASSUME PlaceInv, ~Over, NEW j \in 1 .. Len(rest') PROVE Alike(rest'[j], log'[offset' + j])
      <4>1. CASE j \in 1 .. d
        BY <1>2, <2>2, <2>5, <2>6, <4>1 DEF Alike
      <4>2. CASE j \in d + 1 .. d + n
        <5>1. j - d \in 1 .. n /\ offset + (j - d) = o + j
          BY <1>3, <2>2, <4>2
        <5>2. Alike(rest[j - d], log[offset + (j - d)])
          BY <3>1, <5>1 DEF PlaceInv, n
        <5> QED
          BY <1>2, <2>2, <2>6, <4>2, <5>1, <5>2
      <4> QED
        BY <1>3, <2>6, <4>1, <4>2
    <3>2. spc' \notin {"outer", "done"}
      BY <1>8
    <3> QED
      BY <1>2, <1>4, <2>8, <3>1, <3>2 DEF PlaceInv
  <2> QED
    BY <1>1, <1>2, <1>5, <1>6, <2>7, <2>9 DEF ScanInv
<1> QED
  BY <1>7, <1>8 DEF ScanRead

(* What is left over is the end of a record that begins before: at the     *)
(* beginning of the log nothing is.                                        *)
LEMMA LeftoverStep ==
  ASSUME WriteInv, ScanInv, ScanLeftover
  PROVE  ScanInv'
<1>1. /\ WlogType /\ ScanType /\ StopInv /\ (torn = 0 => PlaceInv /\ CallsInv /\ Records(log))
  BY DEF WriteInv, ScanInv, LogInv
<1>2. /\ log' = log /\ torn' = torn /\ scan' = scan /\ spc = "inner" /\ ~RecordComplete /\ spc' = "outer"
      /\ size' = size /\ calls' = calls /\ offset' = offset /\ rest' = rest
  BY DEF ScanLeftover, asked, writing
<1>3. Found' = Found /\ Over' = Over /\ Bound' = Bound /\ \A k \in Found : Place(k)' = Place(k)
  BY <1>2 DEF Found, Over, Place, Bound
<1>4. ScanType' /\ StopInv'
  BY <1>1, <1>2 DEF ScanType, StopInv
<1>5. CallsInv => CallsInv'
  BY <1>2, <1>3 DEF CallsInv
<1>6. ASSUME torn = 0, ~Over, offset = 0 PROVE rest = <<>>
  <2> DEFINE n == Len(rest)
  <2>1. n \in Nat /\ Bound = n /\ rest \in Seq(Byte)
    <3>1. rest \in Seq(Byte)
      BY <1>1 DEF ScanType
    <3>2. n \in Nat
      BY <3>1
    <3> QED
      BY <1>6, <3>1, <3>2 DEF Bound
  <2>2. CASE n = 0
    BY <2>1, <2>2
  <2>3. CASE n # 0
    <3>1. PICK k \in Fixes(log) : EndOf(log, k) = Bound
      BY <1>1, <1>6, <2>1, <2>3 DEF PlaceInv
    <3>2. k \in Nat \ {0} /\ n >= k + 2
      BY <1>1, <2>1, <3>1, InLog DEF WlogType
    <3>3. n >= 2
      BY <2>1, <3>2
    <3>4. reclen = 1 + log[k].path /\ log[k].path \in Nat /\ offset + (n - (reclen + 2)) = k - 1
      BY <1>1, <1>6, <3>1, <3>3, LengthRead
    <3> DEFINE y == reclen
    <3>5. y \in Nat /\ n - (y + 2) = k - 1
      BY <1>6, <2>1, <3>4
    <3> HIDE DEF y, n
    <3>6. n >= y + 2
      BY <2>1, <3>2, <3>5
    <3>7. RecordComplete
      BY <3>3, <3>6 DEF RecordComplete, n, y
    <3> QED
      BY <1>2, <3>7
  <2> QED
    BY <2>2, <2>3
<1>7. torn = 0 => PlaceInv'
  BY <1>1, <1>2, <1>3, <1>6 DEF PlaceInv
<1> QED
  BY <1>1, <1>2, <1>4, <1>5, <1>7 DEF ScanInv

(* The scan ends at the beginning of the log, or when it had what it was   *)
(* asked for.                                                              *)
LEMMA EndStep ==
  ASSUME WriteInv, ScanInv, ScanEnd
  PROVE  ScanInv'
<1>1. /\ WlogType /\ ScanType /\ StopInv /\ (torn = 0 => PlaceInv /\ CallsInv)
  BY DEF WriteInv, ScanInv
<1>2. /\ log' = log /\ torn' = torn /\ scan' = scan /\ spc = "outer" /\ ~More /\ spc' = "done"
      /\ size' = size /\ calls' = calls /\ offset' = offset /\ rest' = rest
  BY DEF ScanEnd, asked, writing
<1>3. Found' = Found /\ Over' = Over /\ Bound' = Bound /\ \A k \in Found : Place(k)' = Place(k)
  BY <1>2 DEF Found, Over, Place, Bound
<1>4. ScanType' /\ StopInv'
  BY <1>1, <1>2 DEF ScanType, StopInv
<1>5. CallsInv => CallsInv'
  BY <1>2, <1>3 DEF CallsInv
<1>6. ~Over => offset = 0
  <2>1. scan.nrecs \in Nat /\ Len(calls) \in Nat /\ offset \in Nat
    BY <1>1, ScanNumbers DEF ScanType, WlogType
  <2> QED
    BY <1>2, <2>1 DEF More, Over
<1>7. PlaceInv => PlaceInv'
  BY <1>2, <1>3, <1>6 DEF PlaceInv
<1> QED
  BY <1>1, <1>2, <1>4, <1>5, <1>7 DEF ScanInv

(* func is called for the record that ends where what remains ends, and    *)
(* then what remains ends where this record begins.                        *)
LEMMA RecordStep ==
  ASSUME WriteInv, ScanInv, ScanRecord
  PROVE  ScanInv'
<1> DEFINE n == Len(rest)
           c == Len(calls)
           start == n - (reclen + 2)
           arg == wlog_rec_unpack(SubSeq(rest, start + 1, n - 2))
           stops == c + 1 = scan.stop \/ c + 1 = scan.nrecs
<1>1. /\ WlogType /\ ScanType /\ StopInv /\ (torn = 0 => PlaceInv /\ CallsInv /\ Records(log))
  BY DEF WriteInv, ScanInv, LogInv
<1>2. /\ log' = log /\ torn' = torn /\ scan' = scan /\ spc = "inner" /\ RecordComplete
      /\ size' = size /\ offset' = offset
  BY DEF ScanRecord, asked, writing
<1>3. /\ calls' = Append(calls, arg)
      /\ IF stops THEN rest' = <<>> /\ spc' = "outer" ELSE rest' = SubSeq(rest, 1, start) /\ spc' = "inner"
  BY <1>2 DEF ScanRecord
<1>4. rest \in Seq(Byte) /\ calls \in Seq({calls[j] : j \in DOMAIN calls}) /\ log \in Seq(Byte)
  BY <1>1 DEF ScanType, WlogType
<1>5. /\ size \in Nat /\ Len(log) \in Nat /\ size <= Len(log)
      /\ offset \in Nat /\ offset <= size /\ offset + n <= size
      /\ n \in Nat /\ n <= BUF /\ BUF \in Nat /\ c \in Nat
  <2>1. size \in 0 .. Len(log) /\ offset \in 0 .. size /\ offset + n <= size /\ n <= BUF
    BY <1>1 DEF ScanType
  <2>2. Len(log) \in Nat /\ n \in Nat /\ BUF \in Nat /\ c \in Nat
    BY <1>4, Sizes
  <2> QED
    BY <2>1, <2>2
<1>6. reclen \in Nat /\ start \in 0 .. n /\ n >= 2
  <2>1. n >= 2 /\ n >= reclen + 2
    BY <1>2 DEF RecordComplete
  <2>2. \A j \in 1 .. n : rest[j].val \in Nat
    <3>1. \A j \in 1 .. n : rest[j] \in Byte
      BY <1>4
    <3> QED
      BY <3>1 DEF Byte
  <2>3. n - 1 \in 1 .. n /\ n \in 1 .. n
    BY <1>5, <2>1
  <2>4. rest[n - 1].val \in Nat /\ rest[n].val \in Nat /\ B \in Nat
    BY <2>2, <2>3, Sizes
  <2>5. reclen \in Nat
    BY <2>4 DEF reclen
  <2>6. start \in 0 .. n
    <3> DEFINE y == reclen
    <3>1. y \in Nat /\ n >= y + 2
      BY <2>1, <2>5
    <3> HIDE DEF y, n
    <3>2. n - (y + 2) \in 0 .. n
      BY <1>5, <3>1
    <3> QED
      BY <3>2 DEF y
  <2> QED
    BY <2>1, <2>5, <2>6
<1> HIDE DEF arg, start, stops
<1>7. /\ Len(calls') = c + 1 /\ calls'[c + 1] = arg
      /\ \A j \in 1 .. c : calls'[j] = calls[j]
      /\ calls' \in Seq({calls'[j] : j \in DOMAIN calls'})
  <2> DEFINE R == {calls[j] : j \in DOMAIN calls}
             S == R \cup {arg}
  <2>1. calls \in Seq(S) /\ arg \in S
    <3>1. R \subseteq S
      OBVIOUS
    <3>2. calls \in Seq(R)
      BY <1>4
    <3> HIDE DEF R, S
    <3>3. \A j \in 1 .. Len(calls) : calls[j] \in S
      BY <3>1, <3>2
    <3>4. calls \in Seq(S)
      BY <3>2, <3>3
    <3>5. arg \in S
      BY DEF S
    <3> QED
      BY <3>4, <3>5
  <2> HIDE DEF S
  <2>2. calls' \in Seq(S)
    BY <1>3, <2>1
  <2>3. calls' \in Seq({calls'[j] : j \in DOMAIN calls'})
    BY <2>2, OwnElements
  <2>4. Len(calls') = c + 1 /\ calls'[c + 1] = arg /\ \A j \in 1 .. c : calls'[j] = calls[j]
    BY <1>3, <2>1
  <2> QED
    BY <2>3, <2>4
<1>8. ~stops => /\ rest' \in Seq(Byte) /\ Len(rest') = start
                /\ \A j \in 1 .. start : rest'[j] = rest[j]
  <2>1. 0 <= start /\ start <= n /\ start \in Nat
    BY <1>5, <1>6
  <2>2. /\ SubSeq(rest, 0 + 1, start) \in Seq(Byte) /\ Len(SubSeq(rest, 0 + 1, start)) = start - 0
        /\ \A j \in 1 .. start - 0 : SubSeq(rest, 0 + 1, start)[j] = rest[0 + j]
    BY <1>4, <2>1, Cut
  <2>3. 0 + 1 = 1 /\ start - 0 = start /\ \A j \in 1 .. start : 0 + j = j
    BY <2>1
  <2> QED
    BY <1>3, <2>2, <2>3
<1> HIDE DEF n, c
<1>9. spc' \in {"outer", "inner"} /\ (spc' = "inner" <=> ~stops)
  BY <1>3
<1>10. ScanType'
  <2>1. rest' \in Seq(Byte) /\ Len(rest') \in Nat /\ Len(rest') <= n
    <3>1. CASE stops
      <4>1. rest' = <<>>
        BY <1>3, <3>1
      <4>2. rest' \in Seq(Byte) /\ Len(rest') = 0
        BY <4>1
      <4> QED
        BY <1>5, <4>2
    <3>2. CASE ~stops
      <4>1. start \in Nat /\ start <= n
        BY <1>5, <1>6
      <4> QED
        BY <1>8, <3>2, <4>1
    <3> QED
      BY <3>1, <3>2
  <2>2. Len(rest') <= BUF /\ offset' + Len(rest') <= size'
    BY <1>2, <1>5, <2>1
  <2> QED
    BY <1>1, <1>2, <1>7, <1>9, <2>1, <2>2 DEF ScanType
<1>11. scan.nrecs \in Nat /\ scan.stop \in Nat
  BY <1>1, ScanNumbers
<1>12. scan.nrecs # 0 => c < scan.nrecs
  <2>1. scan.nrecs # 0 => c <= scan.nrecs /\ c # scan.nrecs
    BY <1>1, <1>2 DEF StopInv, c
  <2> QED
    BY <1>5, <1>11, <2>1
<1>13. StopInv'
  <2>1. scan.nrecs # 0 => c + 1 <= scan.nrecs /\ (c + 1 = scan.nrecs => spc' # "inner")
    BY <1>5, <1>9, <1>11, <1>12 DEF stops
  <2> QED
    BY <1>2, <1>7, <2>1 DEF StopInv
<1>14. ~Over' => ~Over /\ ~stops
  <2>1. ASSUME Over PROVE Over'
    <3>1. PICK m \in {scan.stop, scan.nrecs} \ {0} : c >= m
      BY <2>1 DEF Over, c
    <3>2. m \in Nat /\ c + 1 >= m
      BY <1>5, <1>11, <3>1
    <3> QED
      BY <1>2, <1>7, <3>1, <3>2 DEF Over
  <2>2. ASSUME stops PROVE Over'
    <3>1. c + 1 \in {scan.stop, scan.nrecs} \ {0} /\ c + 1 >= c + 1
      BY <1>5, <1>11, <2>2 DEF stops
    <3> QED
      BY <1>2, <1>7, <3>1 DEF Over
  <2> QED
    BY <2>1, <2>2
<1>15. scan'.stop = 0 \/ Len(calls') <= scan'.stop => ~Over
  <2>1. ASSUME scan.stop = 0 \/ c + 1 <= scan.stop, NEW m \in {scan.stop, scan.nrecs} \ {0}, c >= m PROVE FALSE
    BY <1>5, <1>11, <1>12, <2>1
  <2> QED
    BY <1>2, <1>7, <2>1 DEF Over, c
<1>16. ASSUME torn = 0, ~Over
       PROVE  /\ CallsInv'
              /\ ~Over' => PlaceInv'
  <2>1. Bound \in Nat /\ Bound # 0 /\ Bound <= size
    BY <1>5, <1>6 DEF Bound, n
  <2>2. PICK k \in Fixes(log) : EndOf(log, k) = Bound
    BY <1>1, <1>16, <2>1 DEF PlaceInv
  <2>3. reclen = 1 + log[k].path /\ log[k].path \in Nat /\ offset + start = k - 1
    BY <1>1, <1>6, <1>16, <2>2, LengthRead DEF n, start
  <2>4. c = Cardinality({m \in Found : m > Bound})
    BY <1>1, <1>16 DEF PlaceInv, c
  <2>5. /\ k \in Found /\ k \in 1 .. Bound /\ Place(k) = c + 1
        /\ Cardinality({m \in Found : m > k - 1}) = c + 1 /\ c + 1 <= Cardinality(Found)
        /\ \A j \in Found : /\ j > Bound => Place(j) <= c
                            /\ j <= Bound /\ j # k => Place(j) > c + 1
    BY <1>1, <1>16, <2>1, <2>2, <2>4, NextPlace
  <2>6. arg = <<log[k].id, log[k].path>>
    <3>1. start \in Nat /\ start + 1 <= n - 2 /\ n - 2 \in Nat /\ n - 2 <= n /\ start <= n - 2 /\ start + 1 \in 1 .. n
      <4> DEFINE y == reclen
                 x == log[k].path
      <4>1. y = 1 + x /\ x \in Nat /\ start = n - (y + 2) /\ start \in 0 .. n /\ n >= 2
        BY <1>6, <2>3 DEF start
      <4> HIDE DEF x, y
      <4> QED
        BY <1>5, <4>1
    <3> DEFINE s == SubSeq(rest, start + 1, n - 2)
    <3>2. s[1] = rest[start + 1]
      <4>1. \A j \in 1 .. n - 2 - start : s[j] = rest[start + j]
        BY <1>4, <3>1, Cut DEF n
      <4>2. 1 \in 1 .. n - 2 - start
        BY <3>1
      <4> HIDE DEF s
      <4> QED
        BY <4>1, <4>2
    <3>3. Alike(rest[start + 1], log[offset + (start + 1)])
      BY <1>1, <1>16, <3>1 DEF PlaceInv, n
    <3>4. offset + (start + 1) = k
      <4>1. k \in Nat
        BY <2>5
      <4> QED
        BY <1>5, <2>3, <3>1, <4>1
    <3>5. s[1].id = log[k].id /\ s[1].path = log[k].path
      BY <3>2, <3>3, <3>4 DEF Alike
    <3> QED
      BY <3>5 DEF arg, wlog_rec_unpack
  <2>7. Found' = Found /\ \A j \in Found : Place(j)' = Place(j)
    BY <1>2 DEF Found, Place
  <2>8. CallsInv'
    <3>1. ASSUME scan.stop = 0 \/ c + 1 <= scan.stop
          PROVE  \A j \in Found : Place(j) <= c => calls[Place(j)] = <<log[j].id, log[j].path>>
      <4>1. scan.stop = 0 \/ c <= scan.stop
        BY <1>5, <1>11, <3>1
      <4> QED
        BY <1>1, <1>16, <4>1 DEF CallsInv, c
    <3>2. ASSUME scan.stop = 0 \/ c + 1 <= scan.stop, NEW j \in Found, Place(j) <= c + 1
          PROVE  calls'[Place(j)] = <<log[j].id, log[j].path>>
      <4>1. Place(j) \in Nat \ {0}
        BY <1>1, PlaceType
      <4>2. CASE j = k
        BY <1>7, <2>5, <2>6, <4>2
      <4>3. CASE j # k
        <5>1. j \in Nat
          BY <1>1, FoundFinite
        <5>2. Place(j) <= c
          BY <1>5, <2>1, <2>5, <3>2, <4>1, <4>3, <5>1
        <5>3. Place(j) \in 1 .. c
          BY <1>5, <4>1, <5>2
        <5> QED
          BY <1>7, <3>1, <3>2, <5>2, <5>3
      <4> QED
        BY <4>2, <4>3
    <3> QED
      BY <1>2, <1>7, <2>5, <2>7, <3>2 DEF CallsInv
  <2>9. ASSUME ~Over' PROVE PlaceInv'
    <3>1. ~stops
      BY <1>14, <2>9
    <3>2. Bound' = k - 1
      BY <1>2, <1>8, <2>3, <3>1 DEF Bound
    <3>3. Bound' = 0 \/ \E j \in Fixes(log) : EndOf(log, j) = Bound'
      <4>1. k = 1 \/ \E j \in Fixes(log) : EndOf(log, j) = k - 1
        BY <1>1, <1>16, <2>2 DEF Records
      <4> QED
        BY <3>2, <4>1
    <3>4. Len(calls') = Cardinality({m \in Found' : m > Bound'})
      BY <1>7, <2>5, <2>7, <3>2
    <3>5. ASSUME NEW j \in 1 .. start PROVE Alike(rest'[j], log'[offset' + j])
      <4>1. j \in 1 .. n
        BY <1>5, <1>6
      <4>2. Alike(rest[j], log[offset + j])
        BY <1>1, <1>16, <4>1 DEF PlaceInv, n
      <4> QED
        BY <1>2, <1>8, <3>1, <4>2
    <3>6. spc' = "inner"
      BY <1>9, <3>1
    <3> QED
      BY <1>2, <1>8, <3>1, <3>3, <3>4, <3>5, <3>6 DEF PlaceInv
  <2> QED
    BY <2>8, <2>9
<1>17. torn = 0 => PlaceInv' /\ CallsInv'
  <2>1. torn = 0 /\ ~Over' => PlaceInv'
    BY <1>14, <1>16
  <2>2. Over' => PlaceInv'
    BY DEF PlaceInv
  <2>3. torn = 0 /\ ~Over => CallsInv'
    BY <1>16
  <2>4. Over => CallsInv'
    BY <1>15 DEF CallsInv
  <2> QED
    BY <2>1, <2>2, <2>3, <2>4
<1> QED
  BY <1>2, <1>10, <1>13, <1>17 DEF ScanInv

(* The invariants of the writers and of the scan together, from one state  *)
(* to the next.                                                            *)
LEMMA ScanStep ==
  WriteInv /\ ScanInv /\ [WlogNext]_wlogVars => ScanInv'
<1> SUFFICES ASSUME WriteInv, ScanInv, [WlogNext]_wlogVars PROVE ScanInv'
  OBVIOUS
<1>1. WriteInv'
  BY WriteStep
<1>2. WlogType /\ WlogType'
  BY <1>1 DEF WriteInv
<1>3. CASE \E p \in Clients : Client(p)
  <2>1. PICK p \in Clients : Client(p)
    BY <1>3
  <2>2. /\ Len(log) <= Len(log') /\ scan' = scan /\ scanning' = scanning
        /\ torn' = 0 => torn = 0 /\ \A k \in 1 .. Len(log) : Alike(log'[k], log[k])
    BY <1>1, <2>1, LogGrows
  <2> QED
    BY <1>2, <2>2, ScanKept
<1>4. CASE Scan
  BY <1>4, StartStep, ReadStep, LeftoverStep, RecordStep, EndStep DEF Scan
<1>5. CASE Ended \/ UNCHANGED wlogVars
  <2>1. log' = log /\ torn' = torn /\ scan' = scan /\ scanning' = scanning
    BY <1>5 DEF Ended, wlogVars, asked, writing
  <2>2. Len(log) \in Nat
    BY <1>2 DEF WlogType
  <2> QED
    BY <1>2, <2>1, <2>2, ScanKept DEF Alike
<1> QED
  BY <1>3, <1>4, <1>5 DEF WlogNext

(* Before the scan nothing is found.                                       *)
LEMMA ScanInit ==
  WlogInit => ScanInv
<1> SUFFICES ASSUME WlogInit PROVE ScanInv
  OBVIOUS
<1>1. WlogType
  BY WriteInit DEF WriteInv
<1>2. /\ spc = "open" /\ size = 0 /\ offset = 0 /\ rest = <<>> /\ calls = <<>> /\ scan \in Scans
  BY DEF WlogInit
<1>3. Len(rest) = 0 /\ Len(calls) = 0 /\ rest \in Seq(Byte) /\ calls \in Seq({calls[j] : j \in DOMAIN calls})
  BY <1>2
<1>4. Len(log) \in Nat /\ BUF \in Nat /\ scan.nrecs \in Nat
  BY <1>1, Sizes, ScanNumbers DEF WlogType
<1>5. ScanType
  BY <1>2, <1>3, <1>4 DEF ScanType
<1>6. StopInv
  BY <1>2, <1>3, <1>4 DEF StopInv
<1>7. Found = {} /\ Bound = 0
  BY <1>2, <1>3 DEF Found, Bound
<1>8. Cardinality(Found) = 0 /\ Cardinality({m \in Found : m > Bound}) = 0
  BY <1>7, FS_EmptySet
<1>9. PlaceInv /\ CallsInv
  BY <1>2, <1>3, <1>7, <1>8 DEF PlaceInv, CallsInv
<1> QED
  BY <1>5, <1>6, <1>9 DEF ScanInv

(* func is called with the records that were in the log when the scan      *)
(* began, the last one first, each of them once, for as many as there are  *)
(* or as many as were asked for.                                           *)
THEOREM ScanCorrect == WlogSpec => []ScanRight
<1>1. WriteInv /\ ScanInv => ScanRight
  <2> SUFFICES ASSUME WriteInv, ScanInv, torn = 0, scan.stop = 0 \/ Len(calls) <= scan.stop
               PROVE  /\ Len(calls) <= Cardinality(Found)
                      /\ \A k \in Found : Place(k) <= Len(calls) => calls[Place(k)] = wlog_rec_unpack(<<log[k]>>)
                      /\ spc = "done" =>
                           \/ Len(calls) = Cardinality(Found)
                           \/ Len(calls) \in {scan.nrecs, scan.stop} \ {0}
    BY DEF ScanRight
  <2>1. WlogType /\ ScanType /\ StopInv /\ PlaceInv /\ CallsInv
    BY DEF WriteInv, ScanInv
  <2>2. \A k \in Found : wlog_rec_unpack(<<log[k]>>) = <<log[k].id, log[k].path>>
    BY DEF wlog_rec_unpack
  <2>3. /\ Len(calls) <= Cardinality(Found)
        /\ \A k \in Found : Place(k) <= Len(calls) => calls[Place(k)] = wlog_rec_unpack(<<log[k]>>)
    BY <2>1, <2>2 DEF CallsInv
  <2>4. ASSUME spc = "done", ~Over PROVE Len(calls) = Cardinality(Found)
    <3>1. offset = 0 /\ rest = <<>> /\ Len(calls) = Cardinality({m \in Found : m > Bound})
      BY <2>1, <2>4 DEF PlaceInv
    <3>2. Bound = 0
      BY <3>1 DEF Bound
    <3>3. {m \in Found : m > 0} = Found
      BY <2>1, FoundFinite
    <3> QED
      BY <3>1, <3>2, <3>3
  <2>5. ASSUME spc = "done", Over PROVE Len(calls) \in {scan.nrecs, scan.stop} \ {0}
    <3>1. scan.nrecs \in Nat /\ scan.stop \in Nat /\ Len(calls) \in Nat
      BY <2>1, ScanNumbers DEF ScanType
    <3>2. PICK m \in {scan.stop, scan.nrecs} \ {0} : Len(calls) >= m
      BY <2>5 DEF Over
    <3>3. scan.nrecs # 0 => Len(calls) <= scan.nrecs
      BY <2>1 DEF StopInv
    <3>4. Len(calls) = m
      BY <3>1, <3>2, <3>3
    <3> QED
      BY <3>2, <3>4
  <2> QED
    BY <2>3, <2>4, <2>5
<1> QED
  BY <1>1, WriteInit, WriteStep, ScanInit, ScanStep, PTL DEF WlogSpec

-----------------------------------------------------------------------------

(***************************************************************************)
(* Data patterns.                                                          *)
(***************************************************************************)

(* The byte that a fill puts at an offset of the file.                     *)
ByteAt(f, at) ==
  CASE f.kind \in {"pattern", "ascii"} -> f.chars[(at % Len(f.chars)) + 1]
    [] f.kind = "r"   -> 64
    [] f.kind = "pid" -> 0
    [] OTHER -> Expected(f.kind, at)

(* A number of bytes that ends with the pattern, or all there are.         *)
Whole(n, total) ==
  n = total \/ (n < total /\ fill.kind = "pattern" /\ \E m \in Nat \ {0} : n = m * Len(fill.chars))

PatternType ==
  /\ step \in {"idle", "filling", "filled", "handed", "comparing", "checked"}
  /\ step # "idle" => fill \in Fills
  /\ buffer \in Seq(Int) /\ written \in Seq(Int) /\ from \in Nat /\ ncmp \in Nat

(* What was generated is what belongs at each offset.                      *)
FillInv ==
  /\ step \in {"idle", "filling", "filled"} => from = 0
  /\ step = "filling" =>
       /\ Whole(Len(buffer), fill.size)
       /\ \A i \in 1 .. Len(buffer) : buffer[i] = ByteAt(fill, fill.offset + i - 1)
  /\ step \notin {"idle", "filling"} =>
       /\ Len(written) = fill.size /\ Len(buffer) = fill.size /\ from <= fill.size
       /\ \A i \in 1 .. fill.size : written[i] = ByteAt(fill, fill.offset + i - 1)

(* What was compared has not changed.                                      *)
CompareInv ==
  step = "comparing" =>
    /\ fill.kind \notin {"r", "pid"} /\ ncmp <= fill.size - from
    /\ fill.kind = "pattern" => Whole(ncmp, fill.size - from)
    /\ \A i \in from + 1 .. from + ncmp : buffer[i] = written[i]

PatternInv == PatternType /\ FillInv /\ CompareInv /\ CheckTells

(* Going on by whole patterns does not change the remainder.               *)
LEMMA Periodic ==
  ASSUME NEW p \in Nat \ {0}, NEW m \in Nat, NEW a \in Nat
  PROVE  m * p \in Nat /\ (a + m * p) % p = a % p
<1> DEFINE b  == a + m * p
           q1 == a \div p
           q2 == b \div p
           r1 == a % p
           r2 == b % p
           d  == q2 - q1 - m
<1>1. m * p \in Nat /\ b \in Nat
  BY Z3
<1>2. q1 \in Nat /\ r1 \in 0 .. p - 1 /\ a = p * q1 + r1
  BY DigitsOf
<1>3. q2 \in Nat /\ r2 \in 0 .. p - 1 /\ b = p * q2 + r2
  BY <1>1, DigitsOf
<1>4. a + m * p = p * q2 + r2
  BY <1>3
<1> HIDE DEF b, q1, q2, r1, r2
<1>5. d \in Int
  BY <1>2, <1>3
<1>6. p * d = r1 - r2
  BY <1>2, <1>3, <1>4, Z3
<1> HIDE DEF d
<1>7. ~(d >= 1)
  <2>1. d >= 1 => p * d >= p
    BY <1>5, Z3
  <2> QED
    BY <2>1, <1>2, <1>3, <1>5, <1>6
<1>8. ~(d <= -1)
  <2>1. d <= -1 => p * d <= -p
    BY <1>5, Z3
  <2> QED
    BY <2>1, <1>2, <1>3, <1>5, <1>6
<1>9. d = 0
  BY <1>5, <1>7, <1>8
<1>10. r1 = r2
  BY <1>2, <1>3, <1>6, <1>9, Z3
<1> QED
  BY <1>1, <1>10 DEF r1, r2, b

(* The smaller of two numbers.                                             *)
LEMMA SmallerOf ==
  ASSUME NEW a \in Nat, NEW b \in Nat
  PROVE  Smaller(a, b) \in Nat /\ Smaller(a, b) <= a /\ Smaller(a, b) <= b /\ Smaller(a, b) \in {a, b}
BY DEF Smaller

(* The shifted pattern has at each place the byte of that place.           *)
LEMMA ShiftedBytes ==
  ASSUME NEW pat \in Seq(Int), pat # <<>>, NEW at \in Nat
  PROVE  /\ Len(pat) \in Nat \ {0} /\ Shifted(pat, at) \in Seq(Int) /\ Len(Shifted(pat, at)) = Len(pat)
         /\ \A i \in 1 .. Len(pat) : Shifted(pat, at)[i] = pat[((at + i - 1) % Len(pat)) + 1]
<1> DEFINE p == Len(pat)
           q == at \div p
           h == at % p
           s == SubSeq(pat, h + 1, p)
           t == SubSeq(pat, 1, h)
<1>1. p \in Nat \ {0}
  OBVIOUS
<1>2. q \in Nat /\ h \in 0 .. p - 1 /\ at = p * q + h
  BY <1>1, DigitsOf
<1>3. /\ s \in Seq(Int) /\ Len(s) = p - h
      /\ \A j \in 1 .. p - h : s[j] = pat[h + j]
  BY <1>1, <1>2, Cut
<1>4. /\ t \in Seq(Int) /\ Len(t) = h
      /\ \A j \in 1 .. h : t[j] = pat[j]
  <2>1. /\ SubSeq(pat, 0 + 1, h) \in Seq(Int) /\ Len(SubSeq(pat, 0 + 1, h)) = h - 0
        /\ \A j \in 1 .. h - 0 : SubSeq(pat, 0 + 1, h)[j] = pat[0 + j]
    BY <1>1, <1>2, Cut
  <2>2. 0 + 1 = 1 /\ h - 0 = h /\ \A j \in 1 .. h : 0 + j = j
    BY <1>2
  <2> QED
    BY <2>1, <2>2
<1>5. Shifted(pat, at) = s \o t
  BY DEF Shifted
<1> HIDE DEF p, q, h, s, t
<1>6. /\ s \o t \in Seq(Int) /\ Len(s \o t) = Len(s) + Len(t)
      /\ \A k \in 1 .. Len(s) : (s \o t)[k] = s[k]
      /\ \A k \in Len(s) + 1 .. Len(s) + Len(t) : (s \o t)[k] = t[k - Len(s)]
  <2>1. s \in Seq(Int) /\ t \in Seq(Int)
    BY <1>3, <1>4
  <2> QED
    BY <2>1, Joined
<1>7. Len(s \o t) = p
  BY <1>1, <1>2, <1>3, <1>4, <1>6
<1>9. \A m \in Nat, a \in Nat : (a + m * p) % p = a % p
  BY <1>1, Periodic
<1>10. \A a \in 0 .. p - 1 : a % p = a
  BY <1>1
<1>8. ASSUME NEW i \in 1 .. p PROVE (s \o t)[i] = pat[((at + i - 1) % p) + 1]
  <2>1. q * p \in Nat /\ q * p = p * q
    BY <1>1, <1>2, Z3
  <2>2. h + i - 1 \in Nat /\ at + i - 1 = (h + i - 1) + q * p
    BY <1>1, <1>2, <2>1
  <2>3. (at + i - 1) % p = (h + i - 1) % p
    <3>1. ((h + i - 1) + q * p) % p = (h + i - 1) % p
      BY <1>2, <1>9, <2>2
    <3> QED
      BY <2>2, <3>1
  <2>4. CASE i <= p - h
    <3>1. h + i - 1 \in 0 .. p - 1
      BY <1>1, <1>2, <2>4
    <3>2. (h + i - 1) % p = h + i - 1
      BY <1>10, <3>1
    <3>3. i \in 1 .. Len(s) /\ i \in 1 .. p - h
      BY <1>1, <1>2, <1>3, <2>4
    <3>4. (s \o t)[i] = pat[h + i]
      BY <1>3, <1>6, <3>3
    <3>5. h + i = h + i - 1 + 1
      BY <1>2
    <3> QED
      BY <2>3, <3>2, <3>4, <3>5
  <2>5. CASE i > p - h
    <3>1. h + i - 1 - p \in 0 .. p - 1 /\ h + i - 1 = (h + i - 1 - p) + 1 * p
      BY <1>1, <1>2, <2>5
    <3>2. (h + i - 1) % p = (h + i - 1 - p) % p
      <4>1. ((h + i - 1 - p) + 1 * p) % p = (h + i - 1 - p) % p /\ 1 \in Nat
        BY <1>9, <3>1
      <4> QED
        BY <3>1, <4>1
    <3>3. (h + i - 1 - p) % p = h + i - 1 - p
      BY <1>1, <3>1
    <3>4. i \in Len(s) + 1 .. Len(s) + Len(t) /\ i - Len(s) \in 1 .. h /\ i - Len(s) = h + i - 1 - p + 1
      BY <1>1, <1>2, <1>3, <1>4, <2>5
    <3>5. (s \o t)[i] = t[i - Len(s)] /\ t[i - Len(s)] = pat[i - Len(s)]
      BY <1>4, <1>6, <3>4
    <3> QED
      BY <2>3, <3>2, <3>3, <3>4, <3>5
  <2>6. i <= p - h \/ i > p - h
    BY <1>1, <1>2
  <2> QED
    BY <2>4, <2>5, <2>6
<1> QED
  BY <1>1, <1>5, <1>6, <1>7, <1>8 DEF p

(* What a byte is.                                                         *)
LEMMA ByteType ==
  ASSUME NEW f \in Fills, NEW at \in Nat
  PROVE  ByteAt(f, at) \in Int
<1>1. CASE f.kind \in {"pattern", "ascii"}
  <2>1. f.chars \in Seq(Int) /\ Len(f.chars) \in Nat \ {0}
    BY <1>1, FillsAssumption
  <2>2. at % Len(f.chars) \in 0 .. Len(f.chars) - 1
    BY <2>1, DigitsOf
  <2>3. (at % Len(f.chars)) + 1 \in 1 .. Len(f.chars)
    <3> DEFINE n == Len(f.chars)
               r == at % n
    <3>1. r \in 0 .. n - 1 /\ n \in Nat
      BY <2>1, <2>2
    <3> HIDE DEF r, n
    <3>2. r + 1 \in 1 .. n
      BY <3>1
    <3> QED
      BY <3>2 DEF r, n
  <2> QED
    BY <1>1, <2>1, <2>3 DEF ByteAt
<1>2. CASE f.kind \notin {"pattern", "ascii"}
  <2>1. f.kind \in {"a", "c", "C", "o", "z", "r", "pid"}
    BY <1>2, FillsAssumption
  <2>2. at % 8 \in Int
    OBVIOUS
  <2> QED
    BY <1>2, <2>1, <2>2 DEF ByteAt, Expected
<1> QED
  BY <1>1, <1>2

(* The generators put at each offset what belongs there.                   *)
LEMMA GeneratedBytes ==
  ASSUME NEW f \in Fills
  PROVE  /\ Generated(f) \in Seq(Int) /\ Len(Generated(f)) <= f.size
         /\ Len(Generated(f)) = IF f.kind = "pattern" /\ Len(f.chars) < f.size THEN Len(f.chars) ELSE f.size
         /\ \A i \in 1 .. Len(Generated(f)) : Generated(f)[i] = ByteAt(f, f.offset + i - 1)
<1>1. /\ f.size \in Nat /\ f.offset \in Nat /\ f.chars \in Seq(Int) /\ Len(f.chars) \in Nat
      /\ f.kind \in {"pattern", "ascii"} => f.chars # <<>>
      /\ f.kind \in {"pattern", "ascii", "a", "c", "C", "o", "z", "r", "pid"}
  BY FillsAssumption
<1>2. CASE f.kind = "pattern"
  <2> DEFINE p == Len(f.chars)
             n == Smaller(p, f.size)
             s == Shifted(f.chars, f.offset)
  <2>1. /\ p \in Nat \ {0} /\ s \in Seq(Int) /\ Len(s) = p
        /\ \A i \in 1 .. p : s[i] = f.chars[((f.offset + i - 1) % p) + 1]
    BY <1>1, <1>2, ShiftedBytes
  <2>2. n \in Nat /\ n <= p /\ n <= f.size /\ n = IF p < f.size THEN p ELSE f.size
    BY <1>1, <2>1 DEF Smaller
  <2>3. Generated(f) = SubSeq(s, 1, n)
    BY <1>2 DEF Generated
  <2> HIDE DEF p, n, s
  <2>4. /\ SubSeq(s, 0 + 1, n) \in Seq(Int) /\ Len(SubSeq(s, 0 + 1, n)) = n - 0
        /\ \A j \in 1 .. n - 0 : SubSeq(s, 0 + 1, n)[j] = s[0 + j]
    BY <2>1, <2>2, Cut
  <2>5. 0 + 1 = 1 /\ n - 0 = n /\ \A j \in 1 .. n : 0 + j = j /\ j \in 1 .. p
    BY <2>1, <2>2
  <2>6. ASSUME NEW i \in 1 .. n PROVE SubSeq(s, 1, n)[i] = ByteAt(f, f.offset + i - 1)
    <3>1. SubSeq(s, 1, n)[i] = s[i] /\ i \in 1 .. p
      BY <2>4, <2>5
    <3> QED
      BY <1>2, <2>1, <3>1 DEF ByteAt, p
  <2> QED
    BY <1>2, <2>2, <2>3, <2>4, <2>5, <2>6 DEF p
<1>3. CASE f.kind # "pattern"
  <2>1. Generated(f) = [i \in 1 .. f.size |-> ByteAt(f, f.offset + i - 1)]
    <3>1. CASE f.kind = "ascii"
      BY <3>1 DEF Generated, dataasciigen, ByteAt
    <3>2. CASE f.kind = "pid"
      BY <3>2 DEF Generated, ByteAt
    <3>3. CASE f.kind = "r"
      BY <3>3 DEF Generated, databingen, ByteAt
    <3>4. CASE f.kind \in {"a", "c", "C", "o", "z"}
      BY <3>4 DEF Generated, databingen, ByteAt
    <3> QED
      BY <1>1, <1>3, <3>1, <3>2, <3>3, <3>4
  <2>2. \A i \in 1 .. f.size : ByteAt(f, f.offset + i - 1) \in Int
    <3>1. ASSUME NEW i \in 1 .. f.size PROVE ByteAt(f, f.offset + i - 1) \in Int
      <4>1. f.offset + i - 1 \in Nat
        BY <1>1
      <4> QED
        BY <4>1, ByteType
    <3> QED
      BY <3>1
  <2>3. Generated(f) \in [1 .. f.size -> Int]
    BY <2>1, <2>2
  <2>4. Generated(f) \in Seq(Int) /\ Len(Generated(f)) = f.size
    BY <1>1, <2>3, SequenceOf
  <2> QED
    BY <1>1, <1>3, <2>1, <2>4
<1> QED
  BY <1>2, <1>3


(* Two parts of sequences are the same if their bytes are.                 *)
LEMMA SameParts ==
  ASSUME NEW s \in Seq(Int), NEW t \in Seq(Int), NEW o \in Nat, NEW e \in Nat, NEW n \in Nat,
         o + n <= Len(s), e + n <= Len(t)
  PROVE  SubSeq(s, o + 1, o + n) = SubSeq(t, e + 1, e + n) <=> \A i \in 1 .. n : s[o + i] = t[e + i]
<1> DEFINE a == SubSeq(s, o + 1, o + n)
           b == SubSeq(t, e + 1, e + n)
<1>1. /\ a \in Seq(Int) /\ Len(a) = o + n - o
      /\ \A j \in 1 .. o + n - o : a[j] = s[o + j]
  BY Cut
<1>2. /\ b \in Seq(Int) /\ Len(b) = e + n - e
      /\ \A j \in 1 .. e + n - e : b[j] = t[e + j]
  BY Cut
<1>3. o + n - o = n /\ e + n - e = n
  OBVIOUS
<1> HIDE DEF a, b
<1>4. /\ a \in Seq(Int) /\ Len(a) = n /\ \A j \in 1 .. n : a[j] = s[o + j]
      /\ b \in Seq(Int) /\ Len(b) = n /\ \A j \in 1 .. n : b[j] = t[e + j]
  BY <1>1, <1>2, <1>3
<1>5. a = b <=> \A j \in 1 .. n : a[j] = b[j]
  BY <1>4
<1> QED
  BY <1>4, <1>5 DEF a, b

(* Whole patterns further on the bytes are the same.                       *)
LEMMA ByteRepeats ==
  ASSUME NEW f \in Fills, f.kind = "pattern", NEW at \in Nat, NEW m \in Nat
  PROVE  m * Len(f.chars) \in Nat /\ ByteAt(f, at + m * Len(f.chars)) = ByteAt(f, at)
<1>1. Len(f.chars) \in Nat \ {0}
  BY FillsAssumption
<1>2. m * Len(f.chars) \in Nat /\ (at + m * Len(f.chars)) % Len(f.chars) = at % Len(f.chars)
  BY <1>1, Periodic
<1> QED
  BY <1>2 DEF ByteAt

(* Nothing is filled at first.                                             *)
LEMMA InitPattern == PatternInit => PatternInv
<1> SUFFICES ASSUME PatternInit PROVE PatternInv
  OBVIOUS
<1>1. PatternType /\ FillInv
  BY DEF PatternInit, PatternType, FillInv
<1> QED
  BY <1>1 DEF PatternInit, PatternInv, CompareInv, CheckTells

(* The facts about a fill.                                                 *)
LEMMA FillFacts ==
  ASSUME PatternType, step # "idle"
  PROVE  /\ fill \in Fills /\ fill.size \in Nat /\ fill.offset \in Nat /\ fill.chars \in Seq(Int)
         /\ fill.kind = "pattern" => Len(fill.chars) \in Nat \ {0}
         /\ buffer \in Seq(Int) /\ Len(buffer) \in Nat /\ from \in Nat /\ ncmp \in Nat
BY FillsAssumption DEF PatternType

(* One round of filling.                                                   *)
LEMMA FillStep ==
  ASSUME PatternInv, Generate \/ pattern_fill \/ Filled \/ HandBack
  PROVE  PatternInv'
<1> USE DEF PatternInv
<1>1. CASE Generate
  <2>1. fill' \in Fills /\ buffer' = Generated(fill') /\ step' = "filling" /\ from' = 0
    BY <1>1 DEF Generate, FillInv
  <2>2. /\ Generated(fill') \in Seq(Int)
        /\ Len(Generated(fill')) = IF fill'.kind = "pattern" /\ Len(fill'.chars) < fill'.size
                                   THEN Len(fill'.chars) ELSE fill'.size
        /\ \A i \in 1 .. Len(Generated(fill')) : Generated(fill')[i] = ByteAt(fill', fill'.offset + i - 1)
    BY <2>1, GeneratedBytes
  <2>3. PatternType'
    BY <1>1, <2>1, <2>2 DEF PatternType, Generate
  <2>4. Len(buffer') = fill'.size \/ /\ fill'.kind = "pattern" /\ Len(buffer') < fill'.size
                                     /\ Len(buffer') = 1 * Len(fill'.chars)
    <3>1. Len(fill'.chars) \in Nat /\ 1 * Len(fill'.chars) = Len(fill'.chars)
      BY <2>1, FillsAssumption
    <3> QED
      BY <2>1, <2>2, <3>1
  <2>5. Whole(Len(buffer), fill.size)'
    BY <2>4 DEF Whole
  <2>6. FillInv'
    BY <2>1, <2>2, <2>5 DEF FillInv
  <2> QED
    BY <2>1, <2>3, <2>6 DEF CompareInv, CheckTells
<1>2. CASE pattern_fill
  <2> DEFINE L == Len(buffer)
             t == Smaller(L, fill.size - L)
             c == SubSeq(buffer, 1, t)
  <2>1. step = "filling" /\ L < fill.size /\ buffer' = buffer \o c /\ fill' = fill
        /\ step' = step /\ from' = from /\ written' = written /\ ncmp' = ncmp
    BY <1>2 DEF pattern_fill
  <2>2. fill \in Fills /\ fill.size \in Nat /\ fill.offset \in Nat /\ buffer \in Seq(Int) /\ L \in Nat
    BY <2>1, FillFacts
  <2>0. fill.kind = "pattern"
    BY <2>1, <2>2 DEF FillInv, Whole
  <2>3. PICK m \in Nat \ {0} : L = m * Len(fill.chars)
    BY <2>1, <2>2 DEF FillInv, Whole
  <2>4. t \in Nat /\ t <= L /\ t <= fill.size - L /\ (t = L \/ t = fill.size - L)
    <3>1. fill.size - L \in Nat /\ L \in Nat
      BY <2>1, <2>2
    <3> QED
      BY <3>1, SmallerOf
  <2>5. /\ SubSeq(buffer, 0 + 1, t) \in Seq(Int) /\ Len(SubSeq(buffer, 0 + 1, t)) = t - 0
        /\ \A j \in 1 .. t - 0 : SubSeq(buffer, 0 + 1, t)[j] = buffer[0 + j]
    BY <2>2, <2>4, Cut
  <2>6. c \in Seq(Int) /\ Len(c) = t /\ \A j \in 1 .. t : c[j] = buffer[j]
    <3>1. 0 + 1 = 1 /\ t - 0 = t /\ \A j \in 1 .. t : 0 + j = j
      BY <2>4
    <3> QED
      BY <2>5, <3>1
  <2> HIDE DEF c, t
  <2>7. /\ buffer' \in Seq(Int) /\ Len(buffer') = L + t
        /\ \A k \in 1 .. L : buffer'[k] = buffer[k]
        /\ \A k \in L + 1 .. L + t : buffer'[k] = c[k - L]
    BY <2>1, <2>2, <2>6, Joined
  <2>8. ASSUME NEW i \in 1 .. L + t PROVE buffer'[i] = ByteAt(fill, fill.offset + i - 1)
    <3>1. CASE i \in 1 .. L
      BY <2>1, <2>7, <3>1 DEF FillInv
    <3>2. CASE i \in L + 1 .. L + t
      <4>1. i - L \in 1 .. t /\ i - L \in 1 .. L
        BY <2>2, <2>4, <3>2
      <4>2. buffer'[i] = buffer[i - L]
        BY <2>6, <2>7, <3>2, <4>1
      <4>3. buffer[i - L] = ByteAt(fill, fill.offset + (i - L) - 1)
        BY <2>1, <4>1 DEF FillInv
      <4>4. fill.offset + (i - L) - 1 \in Nat /\ fill.offset + i - 1 = (fill.offset + (i - L) - 1) + L
        BY <2>2, <4>1
      <4>5. ByteAt(fill, fill.offset + i - 1) = ByteAt(fill, fill.offset + (i - L) - 1)
        BY <2>0, <2>2, <2>3, <4>4, ByteRepeats
      <4> QED
        BY <4>2, <4>3, <4>5
    <3> QED
      BY <2>2, <2>4, <3>1, <3>2
  <2>9. L + t = fill.size \/ (L + t < fill.size /\ 2 * m \in Nat \ {0} /\ L + t = (2 * m) * Len(fill.chars))
    <3> DEFINE p == Len(fill.chars)
    <3>1. L = m * p /\ p \in Nat
      BY <2>2, <2>3, FillsAssumption
    <3> HIDE DEF p
    <3>2. (2 * m) * p = m * p + m * p
      BY <3>1, Z3
    <3>3. (2 * m) * p = L + L
      BY <3>1, <3>2
    <3>4. L + t = fill.size \/ (L + t < fill.size /\ t = L)
      BY <2>2, <2>4
    <3>5. 2 * m \in Nat \ {0}
      OBVIOUS
    <3> QED
      BY <3>3, <3>4, <3>5 DEF p
  <2>10. Whole(Len(buffer), fill.size)'
    BY <2>0, <2>1, <2>7, <2>9 DEF Whole
  <2>11. PatternType'
    BY <1>2, <2>7 DEF PatternType, pattern_fill
  <2>12. FillInv'
    BY <2>1, <2>7, <2>8, <2>10 DEF FillInv
  <2> QED
    BY <2>1, <2>11, <2>12 DEF CompareInv, CheckTells
<1>3. CASE Filled
  <2>1. /\ step = "filling" /\ Len(buffer) >= fill.size /\ written' = buffer /\ step' = "filled"
        /\ fill' = fill /\ buffer' = buffer /\ from' = from /\ ncmp' = ncmp
    BY <1>3 DEF Filled
  <2>2. fill.size \in Nat /\ Len(buffer) = fill.size /\ from = 0
    BY <2>1, FillFacts DEF FillInv, Whole
  <2>3. PatternType' /\ FillInv'
    BY <2>1, <2>2 DEF PatternType, FillInv
  <2> QED
    BY <2>1, <2>3 DEF CompareInv, CheckTells
<1>4. CASE HandBack
  <2>1. /\ step = "filled" /\ step' = "handed" /\ fill' = fill /\ written' = written /\ ncmp' = ncmp
        /\ from' \in 0 .. Smaller(SKIP, Len(buffer))
    BY <1>4 DEF HandBack
  <2>2. fill \in Fills /\ fill.size \in Nat /\ Len(buffer) = fill.size /\ buffer \in Seq(Int)
    BY <2>1, FillFacts DEF FillInv
  <2>3. from' \in Nat /\ from' <= fill.size
    <3>1. SKIP \in Nat /\ Len(buffer) \in Nat
      BY <2>2, FillsAssumption
    <3>2. Smaller(SKIP, Len(buffer)) \in Nat /\ Smaller(SKIP, Len(buffer)) <= Len(buffer)
      BY <3>1, SmallerOf
    <3> QED
      BY <2>1, <2>2, <3>2
  <2>4. buffer' \in Seq(Int) /\ Len(buffer') = fill.size
    <3>1. CASE buffer' = buffer
      BY <2>2, <3>1
    <3>2. ASSUME NEW i \in 1 .. Len(buffer), NEW j \in 1 .. Len(buffer), NEW v \in Lost,
                 buffer' = [k \in 1 .. Len(buffer) |-> IF k \in i .. j THEN v ELSE buffer[k]]
          PROVE  buffer' \in Seq(Int) /\ Len(buffer') = fill.size
      <4>1. [k \in 1 .. Len(buffer) |-> IF k \in i .. j THEN v ELSE buffer[k]] \in [1 .. Len(buffer) -> Int]
        BY <2>2, FillsAssumption
      <4>2. buffer' \in [1 .. fill.size -> Int]
        BY <2>2, <3>2, <4>1
      <4> QED
        BY <2>2, <4>2, SequenceOf
    <3> QED
      BY <1>4, <3>1, <3>2 DEF HandBack
  <2>5. PatternType' /\ FillInv'
    BY <2>1, <2>2, <2>3, <2>4 DEF PatternType, FillInv
  <2> QED
    BY <2>1, <2>5 DEF CompareInv, CheckTells
<1> QED
  BY <1>1, <1>2, <1>3, <1>4

(* What the check is given.                                                *)
LEMMA BufFacts ==
  ASSUME PatternType, FillInv, step \in {"handed", "comparing"}
  PROVE  /\ buf \in Seq(Int) /\ Len(buf) \in Nat /\ Len(buf) = fill.size - from
         /\ Len(buffer) = fill.size /\ from <= fill.size
         /\ \A i \in 1 .. Len(buf) : buf[i] = buffer[from + i]
         /\ \A i \in 1 .. Len(buf) : written[from + i] = ByteAt(fill, buf_offset + i - 1)
         /\ buf_offset \in Nat
<1>1. /\ fill.size \in Nat /\ fill.offset \in Nat /\ buffer \in Seq(Int) /\ from \in Nat
  BY FillFacts
<1>2. Len(buffer) = fill.size /\ from <= fill.size
  BY DEF FillInv
<1>3. /\ buf \in Seq(Int) /\ Len(buf) = fill.size - from
      /\ \A i \in 1 .. fill.size - from : buf[i] = buffer[from + i]
  BY <1>1, <1>2, Cut DEF buf
<1>4. ASSUME NEW i \in 1 .. fill.size - from PROVE written[from + i] = ByteAt(fill, buf_offset + i - 1)
  <2>1. from + i \in 1 .. fill.size /\ fill.offset + (from + i) - 1 = buf_offset + i - 1
    <3>1. i \in Nat /\ from + i \in 1 .. fill.size
      BY <1>1, <1>2
    <3>2. fill.offset + (from + i) - 1 = fill.offset + from + i - 1
      BY <1>1, <3>1
    <3> QED
      BY <3>1, <3>2 DEF buf_offset
  <2>2. written[from + i] = ByteAt(fill, fill.offset + (from + i) - 1)
    BY <2>1 DEF FillInv
  <2> QED
    BY <2>1, <2>2
<1> QED
  BY <1>1, <1>2, <1>3, <1>4 DEF buf_offset

(* A step of the check that leaves the verdict right.                      *)
LEMMA CheckLeaves ==
  ASSUME PatternType, FillInv, step \in {"handed", "comparing"}, UNCHANGED <<fill, buffer, written, from>>,
         ncmp' \in Nat, step' \in {"comparing", "checked"}, CompareInv', CheckTells'
  PROVE  PatternInv'
BY DEF PatternType, FillInv, PatternInv

(* A verdict.                                                              *)
LEMMA VerdictRight ==
  ASSUME PatternType, FillInv, step \in {"handed", "comparing"}, UNCHANGED <<fill, buffer, written, from>>,
         step' = "checked", ncmp' = ncmp,
         fill.kind \notin {"r", "pid"} =>
           verdict' = IF fill.kind = "pattern" THEN IF Changed = {} THEN 0 ELSE -1
                      ELSE IF Changed = {} THEN -1 ELSE fill.offset + Min(Changed) - 1
  PROVE  PatternInv'
<1>1. Changed' = Changed /\ ncmp' \in Nat
  BY DEF Changed, PatternType
<1>2. CompareInv' /\ CheckTells'
  BY <1>1 DEF CompareInv, CheckTells
<1> QED
  BY <1>1, <1>2, CheckLeaves

(* Has a stretch of the buffer changed?                                    *)
LEMMA ChangeSeen ==
  ASSUME PatternType, FillInv, step \in {"handed", "comparing"}
  PROVE  /\ \A i \in 1 .. Len(buf) : buf[i] # written[from + i] <=> from + i \in Changed
         /\ Changed = {} <=> \A i \in 1 .. Len(buf) : buf[i] = written[from + i]
<1>1. /\ Len(buf) \in Nat /\ Len(buf) = Len(buffer) - from /\ Len(buffer) \in Nat /\ from \in Nat
      /\ \A i \in 1 .. Len(buf) : buf[i] = buffer[from + i]
  BY BufFacts, FillFacts
<1>2. ASSUME NEW i \in 1 .. Len(buf) PROVE buf[i] # written[from + i] <=> from + i \in Changed
  <2>1. from + i \in from + 1 .. Len(buffer)
    BY <1>1
  <2> QED
    BY <1>1, <2>1 DEF Changed
<1>3. ASSUME NEW k \in Changed PROVE \E i \in 1 .. Len(buf) : buf[i] # written[from + i]
  <2>1. k \in from + 1 .. Len(buffer) /\ buffer[k] # written[k]
    BY DEF Changed
  <2>2. k - from \in 1 .. Len(buf) /\ from + (k - from) = k
    BY <1>1, <2>1
  <2>3. buf[k - from] = buffer[k]
    BY <1>1, <2>2
  <2> QED
    BY <2>1, <2>2, <2>3
<1> QED
  BY <1>2, <1>3

(* The comparison of the first bytes.                                      *)
LEMMA FirstStep ==
  ASSUME PatternInv, NoCheck \/ CheckFirst \/ CheckBytes
  PROVE  PatternInv'
<1>0. PatternType /\ FillInv /\ step = "handed" /\ UNCHANGED <<fill, buffer, written, from>>
  BY DEF PatternInv, NoCheck, CheckFirst, CheckBytes
<1>1. CASE NoCheck
  <2>1. fill.kind \in {"r", "pid"} /\ step' = "checked" /\ ncmp' = ncmp
    BY <1>1 DEF NoCheck, Verdict
  <2> QED
    BY <1>0, <2>1, VerdictRight
<1>2. CASE CheckBytes
  <2>1. step' = "comparing" /\ ncmp' = 0 /\ fill.kind \in Bytewise
    BY <1>2 DEF CheckBytes, Compared
  <2>2. CompareInv' /\ CheckTells'
    <3>1. fill.size \in Nat /\ from \in Nat /\ from <= fill.size
      BY <1>0, BufFacts, FillFacts
    <3> QED
      BY <1>0, <2>1, <3>1 DEF CompareInv, CheckTells, Bytewise
  <2> QED
    BY <1>0, <2>1, <2>2, CheckLeaves
<1>3. CASE CheckFirst
  <2> DEFINE p == Len(fill.chars)
             n == Smaller(Len(buf), p)
             s == Shifted(fill.chars, buf_offset)
             same == SubSeq(buf, 1, n) = SubSeq(s, 1, n)
  <2>1. fill.kind = "pattern" /\ ncmp \in Nat
    BY <1>3 DEF CheckFirst, PatternInv, PatternType
  <2>2. \/ ~same /\ verdict' = -1 /\ step' = "checked" /\ ncmp' = ncmp
        \/ same /\ Len(buf) < p /\ verdict' = 0 /\ step' = "checked" /\ ncmp' = ncmp
        \/ same /\ Len(buf) >= p /\ ncmp' = p /\ step' = "comparing"
    BY <1>3 DEF CheckFirst, Verdict, Compared
  <2>3. /\ p \in Nat \ {0} /\ s \in Seq(Int) /\ Len(s) = p
        /\ \A i \in 1 .. p : s[i] = fill.chars[((buf_offset + i - 1) % p) + 1]
    <3>1. fill.chars \in Seq(Int) /\ fill.chars # <<>>
      BY <1>0, <2>1, FillsAssumption DEF PatternType
    <3> QED
      BY <1>0, <3>1, BufFacts, ShiftedBytes
  <2>4. /\ Len(buf) \in Nat /\ Len(buf) = fill.size - from /\ buf \in Seq(Int)
        /\ fill.size \in Nat /\ from \in Nat
        /\ \A i \in 1 .. Len(buf) : written[from + i] = ByteAt(fill, buf_offset + i - 1)
    BY <1>0, BufFacts, FillFacts
  <2>5. n \in Nat /\ n <= Len(buf) /\ n <= p /\ (Len(buf) < p => n = Len(buf)) /\ (Len(buf) >= p => n = p)
    BY <2>3, <2>4 DEF Smaller
  <2>6. \A i \in 1 .. n : i \in 1 .. p /\ i \in 1 .. Len(buf) /\ s[i] = written[from + i]
    <3> SUFFICES ASSUME NEW i \in 1 .. n
                 PROVE  i \in 1 .. p /\ i \in 1 .. Len(buf) /\ s[i] = written[from + i]
      OBVIOUS
    <3> HIDE DEF n, s, p
    <3>0. Len(buf) \in Nat
      BY <2>4
    <3>1. i \in 1 .. p /\ i \in 1 .. Len(buf)
      BY <2>3, <2>5, <3>0
    <3>2. ByteAt(fill, buf_offset + i - 1) = fill.chars[((buf_offset + i - 1) % p) + 1]
      BY <2>1 DEF ByteAt, p
    <3> QED
      BY <2>3, <2>4, <3>1, <3>2
  <2>7. same <=> \A i \in 1 .. n : buf[i] = written[from + i]
    <3> HIDE DEF n, s, p
    <3>1. SubSeq(buf, 0 + 1, 0 + n) = SubSeq(s, 0 + 1, 0 + n) <=> \A i \in 1 .. n : buf[0 + i] = s[0 + i]
      <4>1. 0 + n <= Len(buf) /\ 0 + n <= Len(s)
        BY <2>3, <2>4, <2>5
      <4> QED
        BY <2>3, <2>4, <2>5, <4>1, SameParts
    <3>2. 0 + 1 = 1 /\ 0 + n = n /\ \A i \in 1 .. n : 0 + i = i
      BY <2>5
    <3> QED
      BY <2>6, <3>1, <3>2
  <2> HIDE DEF same, n, s
  <2>8. CASE ~same
    <3>1. PICK i \in 1 .. Len(buf) : buf[i] # written[from + i]
      BY <2>6, <2>7, <2>8
    <3>2. Changed # {}
      BY <1>0, <3>1, ChangeSeen
    <3> QED
      BY <1>0, <2>1, <2>2, <2>8, <3>2, VerdictRight
  <2>9. CASE same /\ Len(buf) < p
    <3>1. Changed = {}
      BY <1>0, <2>5, <2>7, <2>9, ChangeSeen
    <3>2. ~(Len(buf) >= p)
      BY <2>3, <2>4, <2>9
    <3>3. verdict' = 0 /\ step' = "checked" /\ ncmp' = ncmp
      BY <2>2, <2>9, <3>2
    <3> QED
      BY <1>0, <2>1, <3>1, <3>3, VerdictRight
  <2>10. CASE same /\ Len(buf) >= p
    <3>1. ncmp' = p /\ step' = "comparing"
      BY <2>2, <2>3, <2>4, <2>10
    <3>2. p = Len(buf) \/ (p < Len(buf) /\ p = 1 * p)
      BY <2>3, <2>4, <2>10
    <3>3. Whole(ncmp, fill.size - from)'
      <4>1. \/ p = fill.size - from
            \/ p < fill.size - from /\ \E m \in Nat \ {0} : p = m * Len(fill.chars)
        <5>1. 1 \in Nat \ {0}
          OBVIOUS
        <5> QED
          BY <2>4, <3>2, <5>1, Zenon
      <4> QED
        BY <1>0, <2>1, <3>1, <4>1 DEF Whole
    <3>4. ASSUME NEW i \in from + 1 .. from + p PROVE buffer[i] = written[i]
      <4>1. i - from \in 1 .. p /\ i - from \in 1 .. Len(buf) /\ from + (i - from) = i
        <5>1. p \in Nat /\ Len(buf) \in Nat /\ from \in Nat /\ p <= Len(buf)
          BY <2>3, <2>4, <2>10
        <5> HIDE DEF p
        <5> QED
          BY <5>1
      <4>2. buf[i - from] = written[i] /\ buf[i - from] = buffer[i]
        BY <1>0, <2>5, <2>7, <2>10, <4>1, BufFacts
      <4> QED
        BY <4>2
    <3>5. CompareInv' /\ CheckTells'
      BY <1>0, <2>1, <2>4, <2>10, <3>1, <3>3, <3>4 DEF CompareInv, CheckTells
    <3> QED
      BY <1>0, <2>3, <3>1, <3>5, CheckLeaves
  <2> QED
    BY <2>3, <2>4, <2>8, <2>9, <2>10
<1> QED
  BY <1>1, <1>2, <1>3

(* A round of the comparison of a pattern with itself.                     *)
LEMMA PatternStep ==
  ASSUME PatternInv, pattern_check
  PROVE  PatternInv'
<1> DEFINE nb == Smaller(ncmp, Len(buf) - ncmp)
<1>0. PatternType /\ FillInv /\ step = "comparing" /\ UNCHANGED <<fill, buffer, written, from>>
  BY DEF PatternInv, pattern_check
<1>1. /\ fill.kind = "pattern" /\ fill \in Fills /\ ncmp \in Nat
      /\ fill.size \in Nat /\ from \in Nat
  BY FillFacts, <1>0 DEF pattern_check
<1>2. /\ Len(buf) \in Nat /\ Len(buf) = fill.size - from /\ buf \in Seq(Int)
      /\ \A i \in 1 .. Len(buf) : buf[i] = buffer[from + i]
      /\ \A i \in 1 .. Len(buf) : written[from + i] = ByteAt(fill, buf_offset + i - 1)
      /\ buf_offset \in Nat
  BY <1>0, BufFacts
<1>3. ncmp <= Len(buf) /\ Whole(ncmp, Len(buf))
  BY <1>0, <1>1, <1>2 DEF PatternInv, CompareInv
<1>4. ASSUME NEW i \in 1 .. ncmp PROVE buf[i] = written[from + i]
  <2>1. from + i \in from + 1 .. from + ncmp /\ i \in 1 .. Len(buf)
    BY <1>1, <1>2, <1>3
  <2> QED
    BY <1>0, <1>2, <2>1 DEF PatternInv, CompareInv
<1>5. CASE ncmp >= Len(buf)
  <2>1. verdict' = 0 /\ step' = "checked" /\ ncmp' = ncmp
    BY <1>1, <1>2, <1>5 DEF pattern_check, Verdict
  <2>2. Changed = {}
    <3>1. ncmp = Len(buf)
      BY <1>1, <1>2, <1>3, <1>5
    <3>2. \A i \in 1 .. Len(buf) : buf[i] = written[from + i]
      BY <1>4, <3>1
    <3> QED
      BY <1>0, <3>2, ChangeSeen
  <2> QED
    BY <1>0, <1>1, <2>1, <2>2, VerdictRight
<1>6. CASE ncmp < Len(buf)
  <2>1. \/ ~Same(ncmp, nb) /\ verdict' = -1 /\ step' = "checked" /\ ncmp' = ncmp
        \/ Same(ncmp, nb) /\ ncmp' = ncmp + nb /\ step' = "comparing"
    BY <1>1, <1>2, <1>6 DEF pattern_check, Verdict, Compared
  <2>2. PICK m \in Nat \ {0} : ncmp = m * Len(fill.chars)
    BY <1>1, <1>2, <1>3, <1>6 DEF Whole
  <2>3. nb \in Nat /\ nb <= ncmp /\ nb <= Len(buf) - ncmp /\ (nb = ncmp \/ nb = Len(buf) - ncmp)
    <3>1. Len(buf) - ncmp \in Nat
      BY <1>1, <1>2, <1>6
    <3> QED
      BY <1>1, <3>1, SmallerOf
  <2> HIDE DEF nb
  <2> DEFINE N == Len(buf)
  <2>8. N \in Nat /\ ncmp < N
    BY <1>2, <1>6
  <2> HIDE DEF N
  <2>9. /\ ncmp + nb <= N /\ (ncmp + nb = N \/ (ncmp + nb < N /\ nb = ncmp))
        /\ \A i \in 1 .. nb : i \in 1 .. ncmp /\ i \in 1 .. N /\ ncmp + i \in 1 .. N
    <3>1. nb \in Nat /\ nb <= ncmp /\ nb <= N - ncmp /\ (nb = ncmp \/ nb = N - ncmp)
      BY <2>3 DEF N
    <3> QED
      BY <1>1, <2>8, <3>1
  <2> USE DEF N
  <2>4. ASSUME NEW i \in 1 .. nb
        PROVE  /\ i \in 1 .. ncmp /\ ncmp + i \in 1 .. Len(buf)
               /\ buf[i] = buf[ncmp + i] <=> buf[ncmp + i] = written[from + (ncmp + i)]
    <3>1. i \in 1 .. ncmp /\ i \in 1 .. Len(buf) /\ ncmp + i \in 1 .. Len(buf)
      BY <2>9
    <3>2. buf[i] = ByteAt(fill, buf_offset + i - 1)
      BY <1>2, <1>4, <3>1
    <3>3. written[from + (ncmp + i)] = ByteAt(fill, buf_offset + (ncmp + i) - 1)
      BY <1>2, <3>1
    <3>4. buf_offset + i - 1 \in Nat /\ buf_offset + (ncmp + i) - 1 = (buf_offset + i - 1) + ncmp
      BY <1>1, <1>2, <3>1
    <3>5. ByteAt(fill, (buf_offset + i - 1) + ncmp) = ByteAt(fill, buf_offset + i - 1)
      BY <1>1, <2>2, <3>4, ByteRepeats
    <3> QED
      BY <3>1, <3>2, <3>3, <3>4, <3>5
  <2>5. Same(ncmp, nb) <=> \A i \in 1 .. nb : buf[ncmp + i] = written[from + (ncmp + i)]
    <3>1. SubSeq(buf, 0 + 1, 0 + nb) = SubSeq(buf, ncmp + 1, ncmp + nb)
            <=> \A i \in 1 .. nb : buf[0 + i] = buf[ncmp + i]
      <4>1. 0 + nb <= Len(buf) /\ ncmp + nb <= Len(buf)
        BY <2>3, <2>9
      <4>2. buf \in Seq(Int)
        BY <1>2
      <4>3. 0 \in Nat /\ ncmp \in Nat /\ nb \in Nat
        BY <1>1, <2>3
      <4> HIDE DEF N
      <4> QED
        BY <4>1, <4>2, <4>3, SameParts
    <3>2. 0 + 1 = 1 /\ 0 + nb = nb /\ \A i \in 1 .. nb : 0 + i = i
      BY <2>3
    <3>3. Same(ncmp, nb) <=> \A i \in 1 .. nb : buf[i] = buf[ncmp + i]
      BY <3>1, <3>2 DEF Same
    <3> QED
      BY <2>4, <3>3
  <2>6. CASE ~Same(ncmp, nb)
    <3>1. PICK i \in 1 .. nb : buf[ncmp + i] # written[from + (ncmp + i)]
      BY <2>5, <2>6
    <3>2. Changed # {}
      BY <1>0, <2>4, <3>1, ChangeSeen
    <3> QED
      BY <1>0, <1>1, <2>1, <2>6, <3>2, VerdictRight
  <2>7. CASE Same(ncmp, nb)
    <3>1. ncmp' = ncmp + nb /\ step' = "comparing"
      BY <2>1, <2>7
    <3>2. \/ ncmp + nb = Len(buf)
          \/ ncmp + nb < Len(buf) /\ \E k \in Nat \ {0} : ncmp + nb = k * Len(fill.chars)
      <4> DEFINE p == Len(fill.chars)
      <4>1. p \in Nat /\ ncmp = m * p
        BY <1>1, <2>2, FillsAssumption
      <4> HIDE DEF p
      <4>2. (2 * m) * p = m * p + m * p
        BY <4>1, Z3
      <4>3. (2 * m) * p = ncmp + ncmp
        BY <4>1, <4>2
      <4>4. ncmp + nb = Len(buf) \/ (ncmp + nb < Len(buf) /\ nb = ncmp)
        BY <2>9
      <4>5. 2 * m \in Nat \ {0}
        OBVIOUS
      <4> QED
        BY <4>3, <4>4, <4>5 DEF p
    <3>3. Whole(ncmp, fill.size - from)'
      BY <1>0, <1>1, <1>2, <3>1, <3>2 DEF Whole
    <3>4. ASSUME NEW k \in from + 1 .. from + (ncmp + nb) PROVE buffer[k] = written[k]
      <4>1. CASE k \in from + 1 .. from + ncmp
        BY <1>0, <4>1 DEF PatternInv, CompareInv
      <4>2. CASE k \in from + ncmp + 1 .. from + (ncmp + nb)
        <5>1. k - from - ncmp \in 1 .. nb /\ from + (ncmp + (k - from - ncmp)) = k
          BY <1>1, <2>3, <4>2
        <5>2. buf[ncmp + (k - from - ncmp)] = written[k]
          BY <2>5, <2>7, <5>1
        <5>3. buf[ncmp + (k - from - ncmp)] = buffer[k]
          BY <1>2, <2>4, <5>1
        <5> QED
          BY <5>2, <5>3
      <4> QED
        BY <1>1, <2>3, <4>1, <4>2
    <3>5. ncmp' \in Nat /\ ncmp' <= fill.size - from
      BY <1>1, <1>2, <2>3, <3>1
    <3>6. CompareInv' /\ CheckTells'
      BY <1>0, <1>1, <3>1, <3>3, <3>4, <3>5 DEF CompareInv, CheckTells
    <3> QED
      BY <1>0, <3>1, <3>5, <3>6, CheckLeaves
  <2> QED
    BY <2>6, <2>7
<1> QED
  BY <1>1, <1>2, <1>5, <1>6

(* The comparison of a byte.                                               *)
LEMMA ByteStep ==
  ASSUME PatternInv, dataasciichk \/ databinchk
  PROVE  PatternInv'
<1> DEFINE wanted == ByteAt(fill, buf_offset + ncmp)
<1>0. PatternType /\ FillInv /\ step = "comparing" /\ UNCHANGED <<fill, buffer, written, from>>
  BY DEF PatternInv, dataasciichk, databinchk, CompareByte
<1>1. /\ fill.kind \in Bytewise /\ fill \in Fills /\ ncmp \in Nat
      /\ fill.size \in Nat /\ from \in Nat /\ fill.offset \in Nat
  BY FillFacts, <1>0 DEF dataasciichk, databinchk, Bytewise
<1>2. /\ Len(buf) \in Nat /\ Len(buf) = fill.size - from
      /\ \A i \in 1 .. Len(buf) : buf[i] = buffer[from + i]
      /\ \A i \in 1 .. Len(buf) : written[from + i] = ByteAt(fill, buf_offset + i - 1)
      /\ buf_offset \in Nat
  BY <1>0, BufFacts
<1>3. ncmp <= Len(buf)
  BY <1>0, <1>2 DEF PatternInv, CompareInv
<1>4. ASSUME NEW k \in from + 1 .. from + ncmp PROVE buffer[k] = written[k]
  BY <1>0 DEF PatternInv, CompareInv
<1>5. CompareByte(wanted)
  BY DEF dataasciichk, databinchk, ByteAt, Bytewise
<1> HIDE DEF wanted
<1>6. CASE ncmp >= Len(buf)
  <2>1. verdict' = -1 /\ step' = "checked" /\ ncmp' = ncmp
    BY <1>1, <1>2, <1>5, <1>6 DEF CompareByte, Verdict
  <2>2. \A i \in 1 .. Len(buf) : buf[i] = written[from + i]
    <3>1. ASSUME NEW i \in 1 .. Len(buf) PROVE buf[i] = written[from + i]
      <4>1. from + i \in from + 1 .. from + ncmp
        BY <1>1, <1>2, <1>6
      <4> QED
        BY <1>2, <1>4, <4>1
    <3> QED
      BY <3>1
  <2>3. Changed = {}
    BY <1>0, <2>2, ChangeSeen
  <2> QED
    BY <1>0, <1>1, <2>1, <2>3, VerdictRight DEF Bytewise
<1>7. CASE ncmp < Len(buf)
  <2>1. ncmp + 1 \in 1 .. Len(buf) /\ buf_offset + (ncmp + 1) - 1 = buf_offset + ncmp
    BY <1>1, <1>2, <1>7
  <2>2. wanted = written[from + (ncmp + 1)]
    BY <1>2, <2>1 DEF wanted
  <2>3. CASE buf[ncmp + 1] # wanted
    <3>1. verdict' = buf_offset + ncmp /\ step' = "checked" /\ ncmp' = ncmp
      BY <1>1, <1>2, <1>5, <1>7, <2>3 DEF CompareByte, Verdict
    <3>2. from + (ncmp + 1) \in Changed
      BY <1>0, <2>1, <2>2, <2>3, ChangeSeen
    <3>3. ASSUME NEW k \in Changed PROVE k \in Int /\ from + (ncmp + 1) <= k
      <4>1. k \in from + 1 .. Len(buffer) /\ buffer[k] # written[k] /\ Len(buffer) \in Nat
        BY <1>0, FillFacts DEF Changed
      <4>2. k \notin from + 1 .. from + ncmp
        BY <1>4, <4>1
      <4> QED
        BY <1>1, <4>1, <4>2
    <3>4. Min(Changed) = from + (ncmp + 1)
      <4>1. ASSUME NEW x \in Changed, \A y \in Changed : x =< y PROVE x = from + (ncmp + 1)
        BY <1>1, <3>2, <3>3, <4>1
      <4> QED
        BY <3>2, <3>3, <4>1 DEF Min
    <3>5. buf_offset + ncmp = fill.offset + Min(Changed) - 1
      BY <1>1, <3>4 DEF buf_offset
    <3> QED
      BY <1>0, <1>1, <3>1, <3>2, <3>5, VerdictRight DEF Bytewise
  <2>4. CASE buf[ncmp + 1] = wanted
    <3>1. step' = "comparing" /\ ncmp' = ncmp + 1
      BY <1>1, <1>2, <1>5, <1>7, <2>4 DEF CompareByte, Compared
    <3>2. ASSUME NEW k \in from + 1 .. from + (ncmp + 1) PROVE buffer[k] = written[k]
      <4>1. k \in from + 1 .. from + ncmp \/ k = from + (ncmp + 1)
        BY <1>1
      <4> QED
        BY <1>2, <1>4, <2>1, <2>2, <2>4, <4>1
    <3>3. ncmp' \in Nat /\ ncmp' <= fill.size - from
      BY <1>1, <1>2, <1>7, <3>1
    <3>4. CompareInv' /\ CheckTells'
      BY <1>0, <1>1, <3>1, <3>2, <3>3 DEF CompareInv, CheckTells, Bytewise
    <3> QED
      BY <1>0, <3>1, <3>3, <3>4, CheckLeaves
  <2> QED
    BY <2>3, <2>4
<1> QED
  BY <1>1, <1>2, <1>6, <1>7

(* A fill and its check, round by round.                                   *)
LEMMA StepPattern == PatternInv /\ [PatternNext]_patternVars => PatternInv'
<1> SUFFICES ASSUME PatternInv, [PatternNext]_patternVars PROVE PatternInv'
  OBVIOUS
<1>1. CASE UNCHANGED patternVars
  <2>1. Changed' = Changed
    BY <1>1 DEF patternVars, Changed
  <2> QED
    BY <1>1, <2>1 DEF patternVars, PatternInv, PatternType, FillInv, CompareInv, CheckTells, Whole
<1> QED
  BY <1>1, FillStep, FirstStep, PatternStep, ByteStep DEF PatternNext

(* A check tells exactly what happened to the data since they were         *)
(* generated (pattern.c, dataascii.c, databin.c), whatever the size, the   *)
(* pattern and the part that is checked.                                   *)
THEOREM ChecksTell == PatternSpec => []CheckTells
<1>1. PatternInv => CheckTells
  BY DEF PatternInv
<1> QED
  BY InitPattern, StepPattern, <1>1, PTL DEF PatternSpec
=============================================================================
