------------------------------- MODULE TstRes -------------------------------
(***************************************************************************)
(* The result library every user-space test is linked with: tst_res.c and  *)
(* the signal set-up of tst_sig.c.  A test reports results with tst_res,   *)
(* gives up with tst_brk, which may run the test's cleanup function, and   *)
(* ends with tst_exit.                                                     *)
(*                                                                         *)
(* The test is the environment: between two of its calls anything can be   *)
(* the next call.  The same holds for its cleanup function, which tst_brk  *)
(* calls back: while tst_brk_entered > 0 the calls are those of cleanup.   *)
(* A call is one step; the state of the library is a record, so that a     *)
(* call is the composition of the C functions it goes through.             *)
(***************************************************************************)
EXTENDS Integers, FiniteSets

CONSTANTS
  Mesgs,       \* messages a test reports
  Files,       \* files it attaches that can be read
  Unreadable,  \* files it attaches that exist but cannot be opened
  Breaks,      \* the types it calls tst_brk with
  MAX_CALLS,   \* bound: calls of tst_res, tst_brk, tst_sig and tst_environ
  NULL

Types == {"TPASS", "TFAIL", "TBROK", "TWARN", "TRETR", "TINFO", "TCONF"}
Modes == {"VERBOSE", "NOPASS", "DISCARD"}

(* Messages of the library's own.                                          *)
OwnMesgs == {"invalid", "remaining", "root", "signal"}

ASSUME MesgsAssumption ==
  /\ Mesgs \cap OwnMesgs = {} /\ Files \cap Unreadable = {}
  /\ NULL \notin Mesgs \cup Files \cup Unreadable \cup OwnMesgs
ASSUME BreaksAssumption == Breaks \subseteq Types
ASSUME BoundAssumption == MAX_CALLS \in Nat

VARIABLES
  TOUTPUT,          \* the environment variable (never changes)
  lib,              \* the statics of tst_res.c, see Init
  tst_brk_entered,  \* cleanup functions being run by tst_brk
  T_cleanup,        \* "unset" before tst_sig, then NULL or "cleanup"
  status,           \* "running", "exited" or "crashed"
  exit_value,       \* the result types in the exit status
  calls             \* calls made, for the bound

vars == <<TOUTPUT, lib, tst_brk_entered, T_cleanup, status, exit_value, calls>>

(* T_exitval is a set of bits, one per type except TPASS, which is 0.      *)
(* "out" are the lines printed and "reported" the results reported so far, *)
(* both as [num, type, mesg, file]; fault is what kills the process.       *)
Init ==
  /\ TOUTPUT \in Modes
  /\ lib = [T_exitval |-> {}, T_out |-> NULL, T_mode |-> "VERBOSE", first_time |-> 1,
            File |-> NULL, Buffered |-> 0, Last |-> NULL, Tst_count |-> 0,
            out |-> {}, reported |-> {}, fault |-> "none"]
  /\ tst_brk_entered = 0 /\ T_cleanup = "unset"
  /\ status = "running" /\ exit_value = {} /\ calls = 0

Bit(type) == {type} \ {"TPASS"}

Result(num, type, mesg, file) == [num |-> num, type |-> type, mesg |-> mesg, file |-> file]

(***************************************************************************)
(* Printing.                                                               *)
(***************************************************************************)

(* The lines tst_print leaves out.                                         *)
Filtered(mode, type) ==
  \/ mode = "DISCARD"
  \/ mode = "NOPASS" /\ type \notin {"TFAIL", "TBROK", "TWARN"}

(* tst_print, with cat_file behind it: a line is printed to T_out, then    *)
(* the file, then File is forgotten.  If cat_file cannot open the file it  *)
(* calls tst_print for a warning, File still set: they call one another    *)
(* until the stack ends.                                                   *)
tst_print(s, num, type, mesg) ==
  LET t == [s EXCEPT !.T_exitval = @ \cup Bit(type)]
      line == Result(num, type, mesg, s.File)
  IN  CASE Filtered(s.T_mode, type) -> t
        [] ~Filtered(s.T_mode, type) /\ s.T_out = NULL -> [t EXCEPT !.fault = "null_out"]
        [] ~Filtered(s.T_mode, type) /\ s.T_out # NULL /\ s.File \in Unreadable ->
             [t EXCEPT !.out = @ \cup {line}, !.fault = "recursion"]
        [] OTHER -> [t EXCEPT !.out = @ \cup {line}, !.File = NULL]

(* The buffered result is printed without the file of the current one.     *)
PrintLast(s) ==
  IF s.Buffered = 0 THEN s
  ELSE [tst_print([s EXCEPT !.File = NULL], s.Last.num, s.Last.type, s.Last.mesg)
          EXCEPT !.File = s.File]

(* Wrong variant: a result of the same type is taken for the same result.  *)
SameType(s, type, mesg) ==
  s.Buffered = 1 /\ s.Last.type = type /\ s.File = NULL

SameAsLast(s, type, mesg) ==
  s.Buffered = 1 /\ s.Last.type = type /\ s.Last.mesg = mesg /\ s.File = NULL

(* tst_condense: in NOPASS mode a result that repeats the previous one is  *)
(* dropped; another is printed when the next different one comes.          *)
tst_condense(s, num, type, mesg) ==
  CASE SameAsLast(s, type, mesg) -> s
    [] ~SameAsLast(s, type, mesg) /\ s.File # NULL ->
         [tst_print(PrintLast(s), num, type, mesg) EXCEPT !.Buffered = 0]
    [] OTHER ->
         [PrintLast(s) EXCEPT !.Buffered = 1, !.Last = Result(num, type, mesg, NULL)]

(* Wrong variant: tst_flush prints nothing.                                *)
FlushNothing(s) == s

tst_flush(s) ==
  IF s.Buffered = 1 /\ s.T_mode = "NOPASS"
  THEN [tst_print(s, s.Last.num, s.Last.type, s.Last.mesg) EXCEPT !.Buffered = 0]
  ELSE s

check_env(s) == IF s.first_time = 1 THEN [s EXCEPT !.first_time = 0, !.T_mode = TOUTPUT] ELSE s

(***************************************************************************)
(* Reporting.                                                              *)
(***************************************************************************)

(* Wrong variant: T_exitval = ttype_result.                                *)
SaveLastType(s, type) == [s EXCEPT !.T_exitval = Bit(type)]

(* T_exitval |= ttype_result.                                              *)
SaveType(s, type) == [s EXCEPT !.T_exitval = @ \cup Bit(type)]

(* Wrong variant: Tst_count is advanced in one branch of the switch only.  *)
CountVerbose(s) == IF s.T_mode = "VERBOSE" THEN [s EXCEPT !.Tst_count = @ + 1] ELSE s

CountResult(s) == [s EXCEPT !.Tst_count = @ + 1]

(* tst_res up to the choice of how to show the result.                     *)
Reports(s, num, type, fname, mesg) ==
  LET t == check_env([SaveType(s, type) EXCEPT !.T_out = IF @ = NULL THEN "stdout" ELSE @])
  IN  [t EXCEPT !.File = IF fname # NULL THEN fname ELSE @,
                !.reported = @ \cup {Result(num, type, mesg, fname)}]

tst_res(s, type, fname, mesg) ==
  LET num == IF type \in {"TWARN", "TINFO"} THEN 0 ELSE s.Tst_count + 1
      t   == Reports(s, num, type, fname, mesg)
  IN  CASE num = 0 -> tst_print(t, 0, type, mesg)
        [] num # 0 /\ t.T_mode = "DISCARD" -> CountResult(t)
        [] num # 0 /\ t.T_mode = "NOPASS"  -> CountResult(tst_condense(t, num, type, mesg))
        [] OTHER -> CountResult(tst_print(t, num, type, mesg))

(***************************************************************************)
(* Ending.                                                                 *)
(***************************************************************************)

(* tst_exit with the library in state s.                                   *)
Exit(s) ==
  /\ lib' = tst_flush(s)
  /\ exit_value' = s.T_exitval \ {"TRETR", "TINFO", "TCONF"}
  /\ status' = IF tst_flush(s).fault = "none" THEN "exited" ELSE "crashed"

(* The library goes on in state s, or the process is dead.                 *)
Continue(s) ==
  /\ lib' = s
  /\ status' = IF s.fault = "none" THEN "running" ELSE "crashed"
  /\ UNCHANGED exit_value

Valid(type) == type \in {"TFAIL", "TBROK", "TCONF", "TRETR"}

(* An invalid type is warned about and taken for TBROK.                    *)
Warned(s, type) ==
  IF Valid(type) THEN s
  ELSE [tst_print(s, 0, "TWARN", "invalid")
          EXCEPT !.reported = @ \cup {Result(0, "TWARN", "invalid", NULL)}]

(* Wrong variant: the remaining cases are announced in nested calls too.   *)
AlwaysAnnounced(s, type) ==
  IF type \in {"TCONF", "TRETR", "TBROK"} THEN tst_res(s, type, NULL, "remaining") ELSE s

(* "Remaining cases broken" and the like, by the outermost tst_brk only.   *)
Announced(s, type) ==
  IF tst_brk_entered = 0 /\ type \in {"TCONF", "TRETR", "TBROK"}
  THEN tst_res(s, type, NULL, "remaining") ELSE s

(* What tst_brk has reported when it comes to the cleanup function.        *)
Broken(type, fname, mesg) ==
  LET warned == Warned(lib, type)
      used   == IF Valid(type) THEN type ELSE "TBROK"
  IN  IF warned.fault # "none" THEN warned
      ELSE LET t == tst_res(warned, used, fname, mesg)
           IN  IF t.fault # "none" THEN t ELSE Announced(t, type)

(* tst_brk: with a function, call it; without one, exit if this is the     *)
(* outermost tst_brk and return to the calling cleanup otherwise.          *)
BreakWith(type, fname, func, mesg) ==
  LET s == Broken(type, fname, mesg)
  IN  \/ /\ s.fault # "none" \/ func # NULL \/ tst_brk_entered > 0
         /\ Continue(s)
         /\ tst_brk_entered' = IF s.fault = "none" /\ func # NULL THEN tst_brk_entered + 1
                               ELSE tst_brk_entered
      \/ /\ s.fault = "none" /\ func = NULL /\ tst_brk_entered = 0
         /\ Exit(s) /\ UNCHANGED tst_brk_entered

(***************************************************************************)
(* The calls of the test and of its cleanup function.                      *)
(***************************************************************************)

Funcs == {NULL, "cleanup"}
Fnames == {NULL} \cup Files \cup Unreadable

Call == status = "running" /\ calls < MAX_CALLS /\ calls' = calls + 1

CallRes(type, fname, mesg) ==
  /\ Call /\ Continue(tst_res(lib, type, fname, mesg))
  /\ UNCHANGED <<TOUTPUT, tst_brk_entered, T_cleanup>>

CallBrk(type, fname, func, mesg) ==
  /\ Call /\ BreakWith(type, fname, func, mesg)
  /\ UNCHANGED <<TOUTPUT, T_cleanup>>

(* The test is not run by root.                                            *)
tst_require_root(func) ==
  /\ Call /\ BreakWith("TCONF", NULL, func, "root")
  /\ UNCHANGED <<TOUTPUT, T_cleanup>>

(* Wrong variant: the cleanup function returns and is not counted out.     *)
ReturnKeepsCount ==
  /\ status = "running" /\ tst_brk_entered > 0
  /\ Continue(lib)
  /\ UNCHANGED <<TOUTPUT, tst_brk_entered, T_cleanup, calls>>

(* The innermost cleanup function returns to its tst_brk.                  *)
CleanupReturns ==
  /\ status = "running" /\ tst_brk_entered > 0
  /\ tst_brk_entered' = tst_brk_entered - 1
  /\ \/ tst_brk_entered = 1 /\ Exit(lib)
     \/ tst_brk_entered > 1 /\ Continue(lib)
  /\ UNCHANGED <<TOUTPUT, T_cleanup, calls>>

(* tst_exit, by the test or by its cleanup function.                       *)
tst_exit ==
  /\ status = "running" /\ Exit(lib)
  /\ UNCHANGED <<TOUTPUT, tst_brk_entered, T_cleanup, calls>>

CallFlush ==
  /\ Call /\ Continue(tst_flush(lib))
  /\ UNCHANGED <<TOUTPUT, tst_brk_entered, T_cleanup>>

(* fdopen of a copy of stdout; if it fails T_out is NULL again.            *)
tst_environ ==
  /\ Call /\ \E f \in {"copy", NULL} : Continue([lib EXCEPT !.T_out = f])
  /\ UNCHANGED <<TOUTPUT, tst_brk_entered, T_cleanup>>

(* tst_sig with the default handler.                                       *)
tst_sig(cleanup) ==
  /\ Call /\ T_cleanup' = cleanup
  /\ UNCHANGED <<TOUTPUT, lib, tst_brk_entered, status, exit_value>>

(* An unexpected signal, also one that arrives while cleanup is running.   *)
def_handler ==
  /\ T_cleanup # "unset"
  /\ Call /\ BreakWith("TBROK", NULL, T_cleanup, "signal")
  /\ UNCHANGED <<TOUTPUT, T_cleanup>>

(***************************************************************************)
(* The specification.                                                      *)
(***************************************************************************)

Next ==
  \/ \E t \in Types, f \in Fnames, m \in Mesgs : CallRes(t, f, m)
  \/ \E t \in Breaks, f \in Fnames, func \in Funcs, m \in Mesgs : CallBrk(t, f, func, m)
  \/ \E func \in Funcs : tst_require_root(func) \/ tst_sig(func)
  \/ CleanupReturns \/ tst_exit \/ CallFlush \/ tst_environ \/ def_handler
  \/ status # "running" /\ UNCHANGED vars

Spec == Init /\ [][Next]_vars

(* A cleanup function returns, if it does not exit.                        *)
FairSpec == Spec /\ WF_vars(CleanupReturns)

(* Does line l stand for the reported result r, and for nothing else       *)
(* between the two?                                                        *)
StandsFor(l, r) ==
  /\ l.type = r.type /\ l.mesg = r.mesg /\ l.num <= r.num
  /\ \A q \in lib.reported : (q.num \in l.num .. r.num /\ q.num # 0) =>
                                q.type = r.type /\ q.mesg = r.mesg

(* Condensing loses no failure: every result that the mode is to show has  *)
(* been printed, itself or as the first of a run of equal results, or is   *)
(* the one in the buffer; and when the process exits nothing is left in    *)
(* the buffer, whichever way it came to exit.  When everything is shown, a *)
(* file is shown with the result it came with.                             *)
EveryFailureShown ==
  /\ lib.fault = "none" =>
       \A r \in lib.reported : ~Filtered(lib.T_mode, r.type) =>
         \/ \E l \in lib.out : StandsFor(l, r)
         \/ status = "running" /\ lib.Buffered = 1 /\ StandsFor(lib.Last, r)
  /\ (lib.first_time = 0 /\ lib.T_mode = "VERBOSE") =>
       \A l \in lib.out : \E r \in lib.reported : r = l

(* The numbered lines come out in the order of their numbers, though they  *)
(* are printed late.                                                       *)
LinesInOrder ==
  [][\A l \in lib'.out \ lib.out : l.num # 0 => \A k \in lib.out : k.num < l.num]_vars

(* The exit status has a bit for each of TFAIL, TBROK and TWARN that was   *)
(* reported, shown or not, and no other: it is 0 exactly if nothing went   *)
(* wrong.                                                                  *)
ExitTellsAll ==
  status = "exited" =>
    exit_value = {r.type : r \in lib.reported} \cap {"TFAIL", "TBROK", "TWARN"}

(* However deep tst_brk is nested, by cleanup functions that break or by   *)
(* signals, the remaining cases are announced once.                        *)
RemainingOnce == Cardinality({r \in lib.reported : r.mesg = "remaining"}) <= 1

(* A process that has broken off ends: every tst_brk that called the       *)
(* cleanup function is counted out again.                                  *)
BreakEnds == (tst_brk_entered > 0) ~> (status # "running")
=============================================================================
