------------------------------- MODULE Tlibio -------------------------------
(***************************************************************************)
(* tlibio.c, one call of lio_write_buffer or lio_read_buffer as Linux      *)
(* builds it: the caller's method bits pick an I/O type and a way to wait, *)
(* and the call runs beside the asynchronous I/O it starts, the completion *)
(* signal of that I/O and signals of others.                               *)
(*                                                                         *)
(* A method is the set of its LIO_ bits, a buffer the number of its bytes. *)
(***************************************************************************)
EXTENDS Integers, Sequences

CONSTANTS
  Calls,   \* the calls: records [op, fd, letter, tokens, number, size, sig]
  RETRIES, \* bound: how often the descriptor is not ready (EAGAIN, EINTR)
  SIGNALS  \* bound: signals that are not the completion signal

ASSUME BoundsAssumption == RETRIES \in Nat /\ SIGNALS \in Nat

(***************************************************************************)
(* The method bits and their names.                                        *)
(***************************************************************************)

LIO_IO_TYPES  == {"SYNC", "SYNCV", "SYNCP"}                  \* 00061
LIO_IO_ATYPES == LIO_IO_TYPES \cup {"ASYNC", "SLISTIO", "ALISTIO"}
LIO_WAIT_TYPES  == {"ACTIVE"}                                \* 00020000 only
LIO_WAIT_ATYPES == {"ACTIVE", "RECALL", "SIGPAUSE", "SIGACTIVE", "CBSUSPEND", "SIGSUSPEND"}
LIO_WAIT_CBTYPES  == {"CBSUSPEND"}
LIO_WAIT_SIGTYPES == {"SIGPAUSE", "SIGACTIVE", "SIGSUSPEND"}

Lio_info1 ==
  [s |-> {"SYNC"}, p |-> {"ASYNC", "SIGACTIVE"}, b |-> {"ASYNC", "SIGPAUSE"},
   a |-> {"ASYNC", "RECALL"}, r |-> {"RANDOM"} \cup LIO_IO_TYPES \cup LIO_WAIT_TYPES,
   R |-> {"RANDOM"} \cup LIO_IO_ATYPES \cup LIO_WAIT_ATYPES, l |-> {"SLISTIO", "RECALL"},
   L |-> {"ALISTIO", "RECALL"}, X |-> {"ALISTIO", "SIGPAUSE"}, v |-> {"SYNCV"}, P |-> {"SYNCP"}]

Lio_info2 ==
  [sync |-> {"SYNC"}, async |-> {"ASYNC"}, slistio |-> {"SLISTIO"}, alistio |-> {"ALISTIO"},
   syncv |-> {"SYNCV"}, syncp |-> {"SYNCP"}, active |-> {"ACTIVE"}, recall |-> {"RECALL"},
   sigactive |-> {"SIGACTIVE"}, sigpause |-> {"SIGPAUSE"}, random |-> {"RANDOM"},
   randomall |-> {"RANDOM"} \cup LIO_IO_TYPES \cup LIO_WAIT_TYPES]

ASSUME CallsAssumption ==
  \A c \in Calls : /\ c.op \in {"write", "read"} /\ c.fd \in {"file", "fifo", "bad"}
                   /\ c.size \in Nat /\ c.sig \in {0, 1}
                   /\ c.number \subseteq LIO_WAIT_ATYPES \cup LIO_IO_ATYPES \cup {"USE_SIGNAL"}

(* One letter, or -1.                                                      *)
lio_parse_io_arg1(token) == IF token \in DOMAIN Lio_info1 THEN Lio_info1[token] ELSE {"-1"}

(* Comma-separated tokens, or -1.  A token that is a number adds its bits. *)
lio_parse_io_arg2(tokens, number) ==
  IF \A i \in DOMAIN tokens : tokens[i] \in DOMAIN Lio_info2
  THEN number \cup UNION {Lio_info2[tokens[i]] : i \in DOMAIN tokens}
  ELSE {"-1"}

(* random_bit: one of the bits, or none of none.                           *)
random_bit(bits) == IF bits = {} THEN {{}} ELSE {{b} : b \in bits}

(* The methods that may come of LIO_RANDOM.  The bits of the asynchronous  *)
(* types and waits are in neither mask: they stay.                         *)
lio_random_methods(m) ==
  {(m \ (LIO_IO_TYPES \cup LIO_WAIT_TYPES \cup {"RANDOM"})) \cup io \cup wait :
     io \in random_bit(m \cap LIO_IO_TYPES), wait \in random_bit(m \cap LIO_WAIT_TYPES)}

-----------------------------------------------------------------------------

VARIABLES
  call,     \* the call in progress
  method,   \* its method bits once they are chosen
  sig,      \* is the completion signal in use?  0 or 1
  notify,   \* aio_sigevent.sigev_notify: "none", "signal" or "thread"
  pc,       \* where the call is, or "returned"
  left,     \* size, which the loops of read and write count down
  moved,    \* bytes that have really been transferred
  aio,      \* the control block on the stack: "idle", "inflight", "done", "failed"
  held,     \* is the completion signal blocked?  0 or 1
  pending,  \* has it been sent and not been delivered?  0 or 1
  Received_signal,   \* how often the handler ran
  tries,    \* how often the descriptor was not ready
  signals,  \* signals of others that came while the call slept
  result    \* what the call returns; "-errno" is -1

vars == <<call, method, sig, notify, pc, left, moved, aio, held, pending, Received_signal,
          tries, signals, result>>

setup == <<call, method, sig, notify>>
signalling == <<held, pending, Received_signal>>

(* The caller parses one letter or a list.                                 *)
Parsed(c) == IF c.letter THEN lio_parse_io_arg1(c.tokens[1])
                         ELSE lio_parse_io_arg2(c.tokens, c.number)

Init ==
  /\ call \in {c \in Calls : Parsed(c) # {"-1"}}
  /\ method = {} /\ sig = 0 /\ notify = "none" /\ pc = "start"
  /\ left = call.size /\ moved = 0 /\ aio = "idle"
  /\ held = 0 /\ pending = 0 /\ Received_signal = 0
  /\ tries = 0 /\ signals = 0 /\ result = 0

Return(r) == pc' = "returned" /\ result' = r

(***************************************************************************)
(* Choosing the method, the signal and its handler.                        *)
(***************************************************************************)

(* lseek fails on a fifo; a randomly chosen pread or pwrite becomes read   *)
(* or write.                                                               *)
ForFifo(m, asked) ==
  IF call.fd = "fifo" /\ "SYNCP" \in m /\ "RANDOM" \in asked
  THEN (m \ {"SYNCP"}) \cup {"SYNC"} ELSE m

(* The signal is given up unless it is waited for or LIO_USE_SIGNAL is set.*)
UsesSignal(m) ==
  IF /\ call.sig = 1 /\ ("USE_SIGNAL" \in m \/ m \cap LIO_WAIT_SIGTYPES # {})
     /\ m \cap LIO_WAIT_CBTYPES = {}
  THEN 1 ELSE 0

(* sigev_notify, and sigset.  What the helper thread of the C library does *)
(* to notify, with a size for its attributes, is left out.                 *)
Notify(m) ==
  IF UsesSignal(m) = 1 /\ m \cap LIO_WAIT_SIGTYPES # {} THEN "signal"
  ELSE IF m \cap LIO_WAIT_CBTYPES # {} THEN "thread" ELSE "none"

(* The if-else chain over the I/O types.                                   *)
Type(m) ==
  IF "SYNC" \in m \/ m \cap LIO_IO_ATYPES = {} THEN "SYNC"
  ELSE IF "ASYNC" \in m THEN "ASYNC"
  ELSE IF "SLISTIO" \in m THEN "SLISTIO"
  ELSE IF "ALISTIO" \in m THEN "ALISTIO"
  ELSE IF "SYNCV" \in m THEN "SYNCV" ELSE "SYNCP"

Chosen(asked) ==
  {ForFifo(m, asked) : m \in IF "RANDOM" \in asked THEN lio_random_methods(asked) ELSE {asked}}

Prepare ==
  /\ pc = "start"
  /\ \E m \in Chosen(Parsed(call)) :
       /\ method' = m /\ sig' = UsesSignal(m) /\ notify' = Notify(m)
       /\ IF call.fd = "bad" THEN Return(-1) ELSE pc' = Type(m) /\ UNCHANGED result
  /\ UNCHANGED <<call, left, moved, aio, signalling, tries, signals>>

StartWrite == call.op = "write" /\ Prepare
StartRead  == call.op = "read" /\ Prepare

(***************************************************************************)
(* Synchronous I/O.                                                        *)
(***************************************************************************)

(* The system call fails for good.                                         *)
SyncFails ==
  /\ pc = "SYNC"
  /\ Return(-1)
  /\ UNCHANGED <<setup, left, moved, aio, signalling, tries, signals>>

(* EAGAIN or EINTR.                                                        *)
SyncNotReady ==
  /\ pc = "SYNC" /\ tries < RETRIES
  /\ tries' = tries + 1 /\ pc' = "select"
  /\ UNCHANGED <<setup, left, moved, aio, signalling, signals, result>>

(* Wrong variant: the first short transfer ends the call with what was     *)
(* asked for.                                                              *)
TransferTrusting(n) ==
  /\ moved' = moved + n
  /\ Return(call.size)
  /\ UNCHANGED <<setup, left, aio, signalling, tries, signals>>

(* n bytes; the loop ends when the rest is done in one call.               *)
Transfer(n) ==
  /\ moved' = moved + n
  /\ IF n = left THEN Return(n) /\ UNCHANGED left
                 ELSE left' = left - n /\ pc' = "select" /\ UNCHANGED result
  /\ UNCHANGED <<setup, aio, signalling, tries, signals>>

SyncWrite ==
  /\ pc = "SYNC" /\ call.op = "write"
  /\ \E n \in 0 .. left : (n > 0 \/ left = 0) /\ Transfer(n)

(* read answers 0 at the end of the file, and so does the call.            *)
SyncRead ==
  /\ pc = "SYNC" /\ call.op = "read"
  /\ \/ \E n \in 1 .. left : Transfer(n)
     \/ Return(0) /\ UNCHANGED <<setup, left, moved, aio, signalling, tries, signals>>

(* wait4sync_io sleeps in select until the descriptor is ready.            *)
wait4sync_io ==
  /\ pc = "select"
  /\ pc' = "SYNC"
  /\ UNCHANGED <<setup, left, moved, aio, signalling, tries, signals, result>>

(* readv, writev, pread or pwrite, once; the latter two fail on a fifo.    *)
Once(type, op) ==
  /\ pc = type /\ call.op = op
  /\ \/ \E n \in 0 .. left :
          /\ ~(type = "SYNCP" /\ call.fd = "fifo")
          /\ moved' = n /\ Return(n)
     \/ Return(-1) /\ UNCHANGED moved
  /\ UNCHANGED <<setup, left, aio, signalling, tries, signals>>

writev == Once("SYNCV", "write")
readv  == Once("SYNCV", "read")
pwrite == Once("SYNCP", "write")
pread  == Once("SYNCP", "read")

(***************************************************************************)
(* Asynchronous I/O: the completion signal is blocked over the submission. *)
(***************************************************************************)

(* The system call queues the control block, or fails and releases.        *)
Submit(type, op, next) ==
  /\ pc = type /\ call.op = op
  /\ \/ aio' = "inflight" /\ held' = sig /\ pc' = next /\ UNCHANGED result
     \/ Return(-1) /\ UNCHANGED <<aio, held>>
  /\ UNCHANGED <<setup, left, moved, pending, Received_signal, tries, signals>>

aio_write == Submit("ASYNC", "write", "wait")
aio_read  == Submit("ASYNC", "read", "wait")
alistio_write == Submit("ALISTIO", "write", "wait")
alistio_read  == Submit("ALISTIO", "read", "wait")
slistio_write == Submit("SLISTIO", "write", "listwait")
slistio_read  == Submit("SLISTIO", "read", "listwait")

(* sigrelse: a blocked signal is delivered to lio_async_signal_handler.    *)
sigrelse ==
  /\ held' = 0 /\ pending' = 0
  /\ Received_signal' = Received_signal + pending

(* lio_listio(LIO_WAIT) returns: 0, or -1 for an I/O that failed.          *)
ListioDone ==
  /\ pc = "listwait" /\ aio \in {"done", "failed"}
  /\ \/ aio = "done" /\ pc' = "check" /\ UNCHANGED <<result, signalling>>
     \/ /\ aio = "failed" /\ Return(-1)
        /\ IF sig = 1 THEN sigrelse ELSE UNCHANGED signalling
  /\ UNCHANGED <<setup, left, moved, aio, tries, signals>>

(* Another signal ends it with EINTR; the I/O goes on.                     *)
ListioInterrupted ==
  /\ pc = "listwait" /\ aio = "inflight" /\ signals < SIGNALS
  /\ signals' = signals + 1 /\ Return(-1)
  /\ IF sig = 1 THEN sigrelse ELSE UNCHANGED signalling
  /\ UNCHANGED <<setup, left, moved, aio, tries>>

(* The hardware or the helper thread of the C library: any part of the     *)
(* bytes, or an error, and the completion signal.                          *)
Complete ==
  /\ aio = "inflight"
  /\ \/ \E n \in 0 .. left : moved' = n /\ aio' = "done"
     \/ aio' = "failed" /\ UNCHANGED moved
  /\ IF notify # "signal" THEN UNCHANGED signalling
     ELSE IF held = 1 THEN pending' = 1 /\ UNCHANGED <<held, Received_signal>>
     ELSE Received_signal' = Received_signal + 1 /\ UNCHANGED <<held, pending>>
  /\ UNCHANGED <<setup, pc, left, tries, signals, result>>

(***************************************************************************)
(* lio_wait4asyncio.  LIO_WAIT_TYPES is the bit LIO_WAIT_ACTIVE alone, so  *)
(* the first branch of the function is taken by every method without that  *)
(* bit, and the branches for pause, for spinning on the handler and for no *)
(* waiting are never reached.                                              *)
(***************************************************************************)

WaitsInSuspend(m) ==
  \/ m \cap {"RECALL", "CBSUSPEND", "SIGSUSPEND"} # {}
  \/ m \cap LIO_WAIT_TYPES = {}

(* Wrong variant: the pause branch is reached, with the signal blocked.    *)
WaitedInPause ==
  /\ pc = "wait" /\ aio # "inflight" /\ "SIGPAUSE" \notin method
  /\ pc' = "check"
  /\ UNCHANGED <<setup, left, moved, aio, signalling, tries, signals, result>>

(* aio_suspend, or the spinning on aio_error, sees the I/O over.           *)
Waited ==
  /\ pc = "wait" /\ aio # "inflight"
  /\ pc' = "check"
  /\ UNCHANGED <<setup, left, moved, aio, signalling, tries, signals, result>>

(* EINTR is passed over when the completion is signalled.                  *)
ContinuesAfterEINTR == notify = "signal"

(* aio_suspend ends with EINTR.                                            *)
SuspendInterrupted ==
  /\ pc = "wait" /\ WaitsInSuspend(method) /\ aio = "inflight" /\ signals < SIGNALS
  /\ signals' = signals + 1
  /\ IF ContinuesAfterEINTR THEN pc' = "check" /\ UNCHANGED result ELSE Return(-1)
  /\ UNCHANGED <<setup, left, moved, aio, signalling, tries>>

(***************************************************************************)
(* lio_check_asyncio.                                                      *)
(***************************************************************************)

(* Wrong variant: the signal is left to the next system call.              *)
KeepsSignal == UNCHANGED signalling

(* "Release the completion signal here".                                   *)
ReleaseSignal == IF notify = "signal" THEN sigrelse ELSE UNCHANGED signalling

(* The first look at aio_error.                                            *)
lio_check_asyncio ==
  /\ pc = "check"
  /\ ReleaseSignal
  /\ CASE aio = "done"     -> Return(moved)
       [] aio = "failed"   -> Return(-1)
       [] aio = "inflight" -> pc' = "looping" /\ UNCHANGED result
  /\ UNCHANGED <<setup, left, moved, aio, tries, signals>>

(* Having looped on EINPROGRESS, the call returns -ret, the last value of  *)
(* aio_error: 0 for an I/O that went well.                                 *)
LoopEnds ==
  /\ pc = "looping" /\ aio # "inflight"
  /\ Return(IF aio = "done" THEN 0 ELSE -1)
  /\ UNCHANGED <<setup, left, moved, aio, signalling, tries, signals>>

Returned == pc = "returned" /\ aio # "inflight" /\ UNCHANGED vars

-----------------------------------------------------------------------------

Call ==
  \/ StartWrite \/ StartRead
  \/ SyncFails \/ SyncWrite \/ SyncRead \/ wait4sync_io
  \/ writev \/ readv \/ pwrite \/ pread
  \/ aio_write \/ aio_read \/ alistio_write \/ alistio_read \/ slistio_write \/ slistio_read
  \/ ListioDone \/ Waited \/ lio_check_asyncio \/ LoopEnds

Next ==
  \/ Call \/ Complete \/ Returned
  \/ SyncNotReady \/ ListioInterrupted \/ SuspendInterrupted

Spec == Init /\ [][Next]_vars

(* The program runs, and what has been submitted completes.                *)
FairSpec == Spec /\ WF_vars(Call) /\ WF_vars(Complete)

(***************************************************************************)
(* Properties.                                                             *)
(***************************************************************************)

(* "the amount of data written is returned", as far as the code keeps it:  *)
(* no byte is reported that was not moved, whoever gets the size he asked  *)
(* for has all his bytes moved, and the exact amount is returned by every  *)
(* call that was neither resumed after a short transfer nor interrupted.   *)
AmountRight ==
  (pc = "returned" /\ result >= 0) =>
    /\ result <= moved
    /\ result = call.size => moved = call.size
    /\ (left = call.size /\ signals = 0) => result = moved

(* A call that nobody interrupted leaves no I/O behind, which would write  *)
(* to the control block of a dead stack frame; the completion signal is    *)
(* neither blocked nor pending, or it would "hang around and bite us       *)
(* later" - except, blocked, with LIO_USE_SIGNAL.                          *)
NothingLeftBehind ==
  pc = "returned" =>
    /\ signals = 0 => aio # "inflight"
    /\ "USE_SIGNAL" \notin method => held = 0
    /\ pending = 0

(* Every call returns: the loop over short transfers, the waiting and the  *)
(* spinning on EINPROGRESS all end.                                        *)
Returns == <>(pc = "returned")
=============================================================================
