---------------------------- MODULE TstResProofs ----------------------------
(***************************************************************************)
(* Proofs about the result library, for any messages and files, any number *)
(* of calls and any nesting of tst_brk, cleanup functions and signals; and *)
(* about dma, the test that reports with it, for every test number of      *)
(* option -n, any number of iterations and any answers of the kernel.      *)
(***************************************************************************)
EXTENDS TstRes, DmaUser, TLAPS, FiniteSetTheorems

AllMesgs == Mesgs \cup OwnMesgs
Results  == [num : Nat, type : Types, mesg : AllMesgs, file : Fnames]

Libs == [T_exitval : SUBSET Types, T_out : {NULL, "stdout", "copy"}, T_mode : Modes,
         first_time : {0, 1}, File : Fnames, Buffered : {0, 1}, Last : Results \cup {NULL},
         Tst_count : Nat, out : SUBSET Results, reported : SUBSET Results,
         fault : {"none", "null_out", "recursion"}]

(* Line l stands for result r among the results R.                         *)
Stands(R, l, r) ==
  /\ l.type = r.type /\ l.mesg = r.mesg /\ l.num <= r.num
  /\ \A q \in R : (q.num \in l.num .. r.num /\ q.num # 0) => q.type = r.type /\ q.mesg = r.mesg

(* Numbers are given out in order, to results and so to lines.             *)
Counted(s, R) ==
  /\ \A r \in R : r.num <= s.Tst_count
  /\ \A l \in s.out : l.num <= s.Tst_count

(* T_exitval has the types that were reported.                             *)
TypesKept(s) == s.T_exitval = {r.type : r \in s.reported} \ {"TPASS"}

(* The buffered result is the last numbered one, or one it repeats, and    *)
(* no line was printed since.                                              *)
BufferInv(s, R) ==
  s.Buffered = 1 =>
    /\ s.T_mode = "NOPASS" /\ s.first_time = 0
    /\ s.Last \in Results /\ s.Last.num \in 1 .. s.Tst_count
    /\ \A l \in s.out : l.num < s.Last.num
    /\ \A q \in R : q.num >= s.Last.num => q.type = s.Last.type /\ q.mesg = s.Last.mesg
    /\ s.Last.type \in {r.type : r \in R}

(* When everything is shown, no file is left over from an earlier result.  *)
VerboseInv(s) ==
  /\ s.first_time = 1 => s.T_mode = "VERBOSE"
  /\ s.T_mode = "VERBOSE" => (s.fault = "none" => s.File = NULL) /\ s.out \subseteq s.reported

Shown(s, R) ==
  s.fault = "none" =>
    \A r \in R : ~Filtered(s.T_mode, r.type) =>
      \/ \E l \in s.out : Stands(s.reported, l, r)
      \/ s.Buffered = 1 /\ Stands(s.reported, s.Last, r)

LibInv(s) ==
  /\ s \in Libs
  /\ Counted(s, s.reported) /\ TypesKept(s) /\ BufferInv(s, s.reported)
  /\ VerboseInv(s) /\ Shown(s, s.reported)

(* tst_res between reporting result new and showing it: the results R are  *)
(* done with.                                                              *)
Reporting(s, R, new) ==
  /\ s \in Libs /\ new \in Results /\ s.reported = R \cup {new} /\ s.first_time = 0
  /\ new.num \in {0, s.Tst_count + 1}
  /\ Counted(s, R) /\ TypesKept(s) /\ BufferInv(s, R) /\ Shown(s, R)
  /\ s.T_mode = "VERBOSE" => s.File = new.file /\ s.out \subseteq R

(* The lines printed between s and t come behind those of s.               *)
Behind(s, t) ==
  /\ s.out \subseteq t.out
  /\ \A l \in t.out \ s.out : l.num # 0 => \A k \in s.out : k.num < l.num

Remaining(R) == {r \in R : r.mesg = "remaining"}

(* The remaining cases are announced by the outermost tst_brk, which goes  *)
(* on to the cleanup function or exits.                                    *)
ResInv ==
  /\ TOUTPUT \in Modes /\ status \in {"running", "exited", "crashed"} /\ tst_brk_entered \in Nat
  /\ T_cleanup \in {"unset"} \cup Funcs
  /\ LibInv(lib)
  /\ status = "running" => lib.fault = "none"
  /\ status # "running" /\ lib.fault = "none" => lib.Buffered = 0
  /\ \A r, q \in Remaining(lib.reported) : r = q
  /\ status = "running" /\ tst_brk_entered = 0 => Remaining(lib.reported) = {}
  /\ ExitTellsAll

-----------------------------------------------------------------------------

(* What tst_print changes.                                                 *)
LEMMA PrintFields ==
  ASSUME NEW s \in Libs, NEW nr \in Nat, NEW type \in Types, NEW mesg \in AllMesgs, NEW t,
         t = tst_print(s, nr, type, mesg)
  PROVE  /\ t \in Libs
         /\ t.T_mode = s.T_mode /\ t.T_out = s.T_out /\ t.first_time = s.first_time
         /\ t.Buffered = s.Buffered /\ t.Last = s.Last
         /\ t.Tst_count = s.Tst_count /\ t.reported = s.reported
         /\ t.T_exitval = s.T_exitval \cup Bit(type)
         /\ t.File \in {s.File, NULL} /\ (t.fault = "none" => s.fault = "none")
         /\ Filtered(s.T_mode, type) => t.out = s.out /\ t.File = s.File /\ t.fault = s.fault
         /\ ~Filtered(s.T_mode, type) =>
              \/ t.out = s.out /\ t.fault # "none"
              \/ /\ t.out = s.out \cup {Result(nr, type, mesg, s.File)}
                 /\ t.fault = "none" => t.File = NULL
<1> DEFINE u == [s EXCEPT !.T_exitval = @ \cup Bit(type)]
           line == Result(nr, type, mesg, s.File)
<1>1. /\ u \in Libs
      /\ u.T_mode = s.T_mode /\ u.T_out = s.T_out /\ u.first_time = s.first_time
      /\ u.Buffered = s.Buffered /\ u.Last = s.Last /\ u.File = s.File /\ u.fault = s.fault
      /\ u.Tst_count = s.Tst_count /\ u.reported = s.reported /\ u.out = s.out
      /\ u.T_exitval = s.T_exitval \cup Bit(type)
  BY DEF Libs, Bit
<1>2. s.out \cup {line} \in SUBSET Results
  BY DEF Results, Result, Libs
<1>3. t = CASE Filtered(s.T_mode, type) -> u
            [] ~Filtered(s.T_mode, type) /\ s.T_out = NULL -> [u EXCEPT !.fault = "null_out"]
            [] ~Filtered(s.T_mode, type) /\ s.T_out # NULL /\ s.File \in Unreadable ->
                 [u EXCEPT !.out = @ \cup {line}, !.fault = "recursion"]
            [] OTHER -> [u EXCEPT !.out = @ \cup {line}, !.File = NULL]
  BY DEF tst_print
<1> HIDE DEF u, line
<1>4. CASE Filtered(s.T_mode, type)
  <2>1. t = u
    BY <1>3, <1>4
  <2> QED
    BY <1>1, <1>4, <2>1
<1>5. CASE ~Filtered(s.T_mode, type) /\ s.T_out = NULL
  <2>1. t = [u EXCEPT !.fault = "null_out"]
    BY <1>3, <1>5
  <2> QED
    BY <1>1, <1>5, <2>1 DEF Libs
<1>6. CASE ~Filtered(s.T_mode, type) /\ s.T_out # NULL /\ s.File \in Unreadable
  <2>1. t = [u EXCEPT !.out = @ \cup {line}, !.fault = "recursion"]
    BY <1>3, <1>6
  <2>2. t.out = s.out \cup {line} /\ t.fault = "recursion" /\ t \in Libs
    BY <1>1, <1>2, <2>1 DEF Libs
  <2> QED
    BY <1>1, <1>6, <2>1, <2>2 DEF Libs, line
<1>7. CASE ~Filtered(s.T_mode, type) /\ s.T_out # NULL /\ s.File \notin Unreadable
  <2>1. t = [u EXCEPT !.out = @ \cup {line}, !.File = NULL]
    BY <1>3, <1>7
  <2>2. t.out = s.out \cup {line} /\ t.File = NULL /\ t.fault = s.fault /\ t \in Libs
    BY <1>1, <1>2, <2>1 DEF Libs, Fnames
  <2> QED
    BY <1>1, <1>7, <2>1, <2>2 DEF Libs, line
<1> QED
  BY <1>4, <1>5, <1>6, <1>7

(* A line stands for its result still when later results have come.        *)
LEMMA StandsStill ==
  ASSUME NEW R \in SUBSET Results, NEW l \in Results, NEW r \in Results, NEW q \in Results,
         Stands(R, l, r), q.num = 0 \/ q.num > r.num
  PROVE  Stands(R \cup {q}, l, r)
BY DEF Stands, Results

(* The buffered result has been printed, or filtered.                      *)
LEMMA LastPrinted ==
  ASSUME NEW s \in Libs, NEW t \in Libs, NEW R \in SUBSET s.reported,
         Counted(s, R), TypesKept(s), BufferInv(s, R), Shown(s, R), s.Buffered = 1,
         t.T_mode = s.T_mode, t.Tst_count = s.Tst_count, t.reported = s.reported,
         t.T_exitval = s.T_exitval \cup Bit(s.Last.type), t.fault = "none" => s.fault = "none",
         Filtered(s.T_mode, s.Last.type) => t.out = s.out,
         ~Filtered(s.T_mode, s.Last.type) =>
           \/ t.out = s.out /\ t.fault # "none"
           \/ \E f \in Fnames : t.out = s.out \cup {Result(s.Last.num, s.Last.type, s.Last.mesg, f)}
  PROVE  /\ Counted(t, R) /\ TypesKept(t) /\ Behind(s, t)
         /\ \A l \in t.out : l.num <= s.Last.num
         /\ t.fault = "none" =>
              \A r \in R : ~Filtered(t.T_mode, r.type) => \E l \in t.out : Stands(t.reported, l, r)
<1>1. /\ s.Last \in Results /\ s.Last.num \in 1 .. s.Tst_count /\ s.Tst_count \in Nat
      /\ \A l \in s.out : l.num < s.Last.num /\ l \in Results
      /\ s.Last.type \in {r.type : r \in s.reported}
  BY DEF BufferInv, Libs
<1>2. TypesKept(t)
  BY <1>1 DEF TypesKept, Bit
<1>3. CASE t.out = s.out
  <2>1. Counted(t, R) /\ Behind(s, t) /\ \A l \in t.out : l.num <= s.Last.num
    BY <1>1, <1>3 DEF Counted, Behind, Results
  <2>2. ASSUME t.fault = "none", NEW r \in R, ~Filtered(t.T_mode, r.type)
        PROVE  \E l \in t.out : Stands(t.reported, l, r)
    <3>1. Filtered(s.T_mode, s.Last.type)
      <4>1. \A f \in Fnames : Result(s.Last.num, s.Last.type, s.Last.mesg, f) \notin s.out
        <5>1. \A f : Result(s.Last.num, s.Last.type, s.Last.mesg, f).num = s.Last.num
          BY DEF Result
        <5>2. s.Last.num \in Nat /\ \A l \in s.out : l.num # s.Last.num
          BY <1>1 DEF Results
        <5> QED
          BY <5>1, <5>2
      <4> QED
        BY <1>3, <2>2, <4>1
    <3>2. s.Last.type # r.type
      BY <3>1, <2>2
    <3> QED
      BY <1>3, <2>2, <3>2 DEF Shown, Stands
  <2> QED
    BY <1>2, <2>1, <2>2
<1>4. ASSUME NEW f \in Fnames, t.out = s.out \cup {Result(s.Last.num, s.Last.type, s.Last.mesg, f)}
      PROVE  /\ Counted(t, R) /\ Behind(s, t) /\ \A l \in t.out : l.num <= s.Last.num
             /\ t.fault = "none" =>
                  \A r \in R : ~Filtered(t.T_mode, r.type) => \E l \in t.out : Stands(t.reported, l, r)
  <2> DEFINE line == Result(s.Last.num, s.Last.type, s.Last.mesg, f)
  <2>1. line.num = s.Last.num /\ line.type = s.Last.type /\ line.mesg = s.Last.mesg
    BY DEF Result
  <2> HIDE DEF line
  <2>2. t.out = s.out \cup {line}
    BY <1>4 DEF line
  <2>3. Counted(t, R) /\ Behind(s, t) /\ \A l \in t.out : l.num <= s.Last.num
    BY <1>1, <2>1, <2>2 DEF Counted, Behind, Results
  <2>4. ASSUME t.fault = "none", NEW r \in R, ~Filtered(t.T_mode, r.type)
        PROVE  \E l \in t.out : Stands(t.reported, l, r)
    <3>1. CASE \E l \in s.out : Stands(s.reported, l, r)
      BY <3>1, <2>2
    <3>2. CASE Stands(s.reported, s.Last, r)
      BY <3>2, <2>1, <2>2 DEF Stands
    <3> QED
      BY <3>1, <3>2, <2>4 DEF Shown
  <2> QED
    BY <2>3, <2>4
<1> QED
  BY <1>2, <1>3, <1>4

(* tst_flush shows the buffered result.                                    *)
LEMMA FlushKeeps ==
  ASSUME NEW s, LibInv(s), NEW t, t = tst_flush(s)
  PROVE  /\ LibInv(t) /\ Behind(s, t) /\ t.reported = s.reported
         /\ t.fault = "none" => s.fault = "none" /\ t.Buffered = 0
<1>1. s \in Libs /\ s.Buffered \in {0, 1}
  BY DEF LibInv, Libs
<1>2. CASE s.Buffered = 1
  <2> DEFINE u == tst_print(s, s.Last.num, s.Last.type, s.Last.mesg)
  <2>1. s.T_mode = "NOPASS" /\ s.first_time = 0 /\ s.Last \in Results
    BY <1>2 DEF LibInv, BufferInv
  <2>2. t = [u EXCEPT !.Buffered = 0]
    BY <1>2, <2>1 DEF tst_flush
  <2>3. s.Last.num \in Nat /\ s.Last.type \in Types /\ s.Last.mesg \in AllMesgs
    BY <2>1 DEF Results
  <2>4. /\ u \in Libs
        /\ u.T_mode = s.T_mode /\ u.first_time = s.first_time
        /\ u.Tst_count = s.Tst_count /\ u.reported = s.reported
        /\ u.T_exitval = s.T_exitval \cup Bit(s.Last.type) /\ (u.fault = "none" => s.fault = "none")
        /\ Filtered(s.T_mode, s.Last.type) => u.out = s.out
        /\ ~Filtered(s.T_mode, s.Last.type) =>
             \/ u.out = s.out /\ u.fault # "none"
             \/ u.out = s.out \cup {Result(s.Last.num, s.Last.type, s.Last.mesg, s.File)}
    BY <1>1, <2>3, PrintFields
  <2> HIDE DEF u
  <2>5. /\ t \in Libs /\ t.Buffered = 0
        /\ t.T_mode = s.T_mode /\ t.first_time = s.first_time
        /\ t.Tst_count = s.Tst_count /\ t.reported = s.reported
        /\ t.T_exitval = s.T_exitval \cup Bit(s.Last.type) /\ (t.fault = "none" => s.fault = "none")
        /\ t.out = u.out /\ t.fault = u.fault
    BY <2>2, <2>4 DEF Libs
  <2>6. s.File \in Fnames
    BY <1>1 DEF Libs
  <2>7. /\ Counted(t, s.reported) /\ TypesKept(t) /\ Behind(s, t)
        /\ t.fault = "none" =>
             \A r \in s.reported : ~Filtered(t.T_mode, r.type) => \E l \in t.out : Stands(t.reported, l, r)
    <3>1. Counted(s, s.reported) /\ TypesKept(s) /\ BufferInv(s, s.reported) /\ Shown(s, s.reported)
      BY DEF LibInv
    <3> QED
      BY <1>1, <1>2, <2>4, <2>5, <2>6, <3>1, LastPrinted
  <2> QED
    BY <2>1, <2>5, <2>7 DEF LibInv, BufferInv, VerboseInv, Shown
<1>3. CASE s.Buffered = 0
  <2>1. t = s
    BY <1>3 DEF tst_flush
  <2> QED
    BY <1>3, <2>1 DEF Behind
<1> QED
  BY <1>1, <1>2, <1>3

(* What is shown stays shown when the next result is reported.             *)
LEMMA ReportingBegins ==
  ASSUME NEW s, LibInv(s), s.fault = "none", TOUTPUT \in Modes,
         NEW nr \in {0, s.Tst_count + 1}, NEW type \in Types, NEW fname \in Fnames,
         NEW mesg \in AllMesgs, NEW t, t = Reports(s, nr, type, fname, mesg)
  PROVE  /\ Reporting(t, s.reported, Result(nr, type, mesg, fname))
         /\ t.out = s.out /\ t.fault = "none" /\ t.Tst_count = s.Tst_count
<1> DEFINE new == Result(nr, type, mesg, fname)
<1>1. s \in Libs /\ s.Tst_count \in Nat /\ s.reported \in SUBSET Results
  BY DEF LibInv, Libs
<1>2. new \in Results /\ new.num = nr /\ new.type = type /\ new.mesg = mesg /\ new.file = fname
  BY <1>1 DEF Result, Results
<1>3. /\ t \in Libs /\ t.out = s.out /\ t.fault = "none" /\ t.Tst_count = s.Tst_count
      /\ t.first_time = 0 /\ t.Buffered = s.Buffered /\ t.Last = s.Last
      /\ t.T_exitval = s.T_exitval \cup Bit(type) /\ t.reported = s.reported \cup {new}
      /\ t.T_mode = (IF s.first_time = 1 THEN TOUTPUT ELSE s.T_mode)
      /\ t.File = (IF fname # NULL THEN fname ELSE s.File)
  <2> DEFINE u == [SaveType(s, type) EXCEPT !.T_out = IF @ = NULL THEN "stdout" ELSE @]
             v == check_env(u)
  <2>1. /\ u \in Libs /\ u.out = s.out /\ u.fault = "none" /\ u.Tst_count = s.Tst_count
        /\ u.first_time = s.first_time /\ u.Buffered = s.Buffered /\ u.Last = s.Last
        /\ u.T_exitval = s.T_exitval \cup Bit(type) /\ u.reported = s.reported
        /\ u.T_mode = s.T_mode /\ u.File = s.File
    BY <1>1 DEF SaveType, Libs, Bit
  <2> HIDE DEF u
  <2>2. /\ v \in Libs /\ v.out = s.out /\ v.fault = "none" /\ v.Tst_count = s.Tst_count
        /\ v.first_time = 0 /\ v.Buffered = s.Buffered /\ v.Last = s.Last
        /\ v.T_exitval = s.T_exitval \cup Bit(type) /\ v.reported = s.reported
        /\ v.T_mode = (IF s.first_time = 1 THEN TOUTPUT ELSE s.T_mode) /\ v.File = s.File
    BY <1>1, <2>1 DEF check_env, Libs
  <2>3. t = [v EXCEPT !.File = IF fname # NULL THEN fname ELSE @, !.reported = @ \cup {new}]
    BY DEF Reports, u
  <2>4. s.reported \cup {new} \in SUBSET Results
    BY <1>1, <1>2
  <2>5. \A g : g \in {fname, v.File} /\ v \in Libs => g \in Fnames
    BY <1>1 DEF Libs
  <2> HIDE DEF v, new
  <2> DEFINE g == IF fname # NULL THEN fname ELSE v.File
  <2>6. t = [v EXCEPT !.File = g, !.reported = v.reported \cup {new}] /\ g \in Fnames
    BY <2>2, <2>3, <2>5
  <2> HIDE DEF g
  <2>7. t \in Libs
    BY <2>2, <2>4, <2>6 DEF Libs
  <2> QED
    BY <2>2, <2>3, <2>7 DEF Libs
<1> HIDE DEF new
<1>4. TypesKept(t)
  BY <1>2, <1>3 DEF LibInv, TypesKept, Bit
<1>5. Counted(t, s.reported) /\ BufferInv(t, s.reported)
  BY <1>3 DEF LibInv, Counted, BufferInv
<1>6. t.T_mode = "VERBOSE" => t.File = new.file /\ t.out \subseteq s.reported
  BY <1>2, <1>3 DEF LibInv, VerboseInv
<1>7. \A r \in s.reported : r \in Results /\ (new.num = 0 \/ new.num > r.num)
  BY <1>1, <1>2 DEF LibInv, Counted, Results
<1>8. Shown(t, s.reported)
  <2> SUFFICES ASSUME NEW r \in s.reported, ~Filtered(t.T_mode, r.type)
               PROVE  \/ \E l \in t.out : Stands(t.reported, l, r)
                      \/ t.Buffered = 1 /\ Stands(t.reported, t.Last, r)
    BY DEF Shown
  <2>1. s.first_time = 1 => s.T_mode = "VERBOSE" /\ s.Buffered # 1
    BY DEF LibInv, VerboseInv, BufferInv
  <2>2. ~Filtered(s.T_mode, r.type)
    BY <1>3, <2>1 DEF Filtered
  <2>3. CASE \E l \in s.out : Stands(s.reported, l, r)
    <3>1. PICK l \in s.out : Stands(s.reported, l, r)
      BY <2>3
    <3>2. l \in Results
      BY <1>1 DEF Libs
    <3> QED
      BY <1>1, <1>2, <1>3, <1>7, <3>1, <3>2, StandsStill
  <2>4. CASE s.Buffered = 1 /\ Stands(s.reported, s.Last, r)
    <3>1. s.Last \in Results
      BY <2>4 DEF LibInv, BufferInv
    <3> QED
      BY <1>1, <1>2, <1>3, <1>7, <2>4, <3>1, StandsStill
  <2> QED
    BY <2>2, <2>3, <2>4 DEF LibInv, Shown
<1> QED
  BY <1>2, <1>3, <1>4, <1>5, <1>6, <1>8 DEF Reporting, new

(* The result being reported is printed.                                   *)
LEMMA NewPrinted ==
  ASSUME NEW s \in Libs, NEW R, NEW new \in Results, s.reported = R \cup {new},
         new.num \in {0, s.Tst_count + 1}, Counted(s, R), TypesKept(s),
         NEW t, t = tst_print(s, new.num, new.type, new.mesg)
  PROVE  /\ t \in Libs
         /\ t.T_mode = s.T_mode /\ t.first_time = s.first_time
         /\ t.Buffered = s.Buffered /\ t.Last = s.Last
         /\ t.Tst_count = s.Tst_count /\ t.reported = s.reported
         /\ TypesKept(t) /\ Behind(s, t)
         /\ \/ t.out = s.out
            \/ t.out = s.out \cup {Result(new.num, new.type, new.mesg, s.File)}
         /\ t.fault = "none" =>
              /\ s.fault = "none"
              /\ ~Filtered(t.T_mode, new.type) =>
                   t.File = NULL /\ \E l \in t.out : Stands(t.reported, l, new)
<1> DEFINE line == Result(new.num, new.type, new.mesg, s.File)
<1>1. new.num \in Nat /\ new.type \in Types /\ new.mesg \in AllMesgs
  BY DEF Results
<1>2. /\ t \in Libs
      /\ t.T_mode = s.T_mode /\ t.first_time = s.first_time
      /\ t.Buffered = s.Buffered /\ t.Last = s.Last
      /\ t.Tst_count = s.Tst_count /\ t.reported = s.reported
      /\ t.T_exitval = s.T_exitval \cup Bit(new.type)
      /\ t.fault = "none" => s.fault = "none"
      /\ Filtered(s.T_mode, new.type) => t.out = s.out
      /\ ~Filtered(s.T_mode, new.type) =>
           \/ t.out = s.out /\ t.fault # "none"
           \/ t.out = s.out \cup {line} /\ (t.fault = "none" => t.File = NULL)
  BY <1>1, PrintFields
<1>3. line.num = new.num /\ line.type = new.type /\ line.mesg = new.mesg
  BY DEF Result
<1>4. s.Tst_count \in Nat /\ s.reported \in SUBSET Results /\ s.out \in SUBSET Results
  BY DEF Libs
<1> HIDE DEF line
<1>5. TypesKept(t)
  BY <1>2 DEF TypesKept, Bit
<1>6. t.out = s.out \/ t.out = s.out \cup {line}
  BY <1>2
<1>7. Behind(s, t)
  BY <1>1, <1>3, <1>4, <1>6 DEF Behind, Counted, Results
<1>8. ASSUME t.fault = "none", ~Filtered(t.T_mode, new.type)
      PROVE  t.File = NULL /\ \E l \in t.out : Stands(t.reported, l, new)
  <2>1. t.out = s.out \cup {line} /\ t.File = NULL
    BY <1>2, <1>8
  <2>2. Stands(t.reported, line, new)
    <3>1. \A q \in R \cup {new} : q.num \in new.num .. new.num /\ q.num # 0 => q = new
      BY <1>1, <1>4 DEF Counted, Results
    <3> QED
      BY <1>1, <1>2, <1>3, <3>1 DEF Stands
  <2> QED
    BY <2>1, <2>2
<1> QED
  BY <1>2, <1>5, <1>6, <1>7, <1>8 DEF line

(* PrintLast shows what is done with, and leaves File as it is.            *)
LEMMA PrintLastKeeps ==
  ASSUME NEW s, NEW R, NEW new, Reporting(s, R, new), NEW t, t = PrintLast(s)
  PROVE  /\ t \in Libs
         /\ t.T_mode = s.T_mode /\ t.first_time = s.first_time /\ t.File = s.File
         /\ t.Tst_count = s.Tst_count /\ t.reported = s.reported
         /\ Counted(t, R) /\ TypesKept(t) /\ Behind(s, t)
         /\ t.fault = "none" =>
              /\ s.fault = "none"
              /\ \A r \in R : ~Filtered(t.T_mode, r.type) => \E l \in t.out : Stands(t.reported, l, r)
<1>1. s \in Libs /\ s.Buffered \in {0, 1} /\ R \in SUBSET s.reported
  BY DEF Reporting, Libs
<1>2. CASE s.Buffered = 0
  <2>1. t = s
    BY <1>2 DEF PrintLast
  <2>2. Counted(s, R) /\ TypesKept(s) /\ Behind(s, s)
    BY DEF Reporting, Behind
  <2>3. s.fault = "none" =>
          \A r \in R : ~Filtered(s.T_mode, r.type) => \E l \in s.out : Stands(s.reported, l, r)
    BY <1>2 DEF Reporting, Shown
  <2> QED
    BY <1>1, <2>1, <2>2, <2>3
<1>3. CASE s.Buffered = 1
  <2> DEFINE u == [s EXCEPT !.File = NULL]
             v == tst_print(u, s.Last.num, s.Last.type, s.Last.mesg)
  <2>1. s.Last \in Results
    BY <1>3 DEF Reporting, BufferInv
  <2>2. s.Last.num \in Nat /\ s.Last.type \in Types /\ s.Last.mesg \in AllMesgs
    BY <2>1 DEF Results
  <2>3. t = [v EXCEPT !.File = s.File]
    BY <1>3 DEF PrintLast
  <2>4. /\ u \in Libs /\ u.T_mode = s.T_mode /\ u.first_time = s.first_time /\ u.File = NULL
        /\ u.Tst_count = s.Tst_count /\ u.reported = s.reported /\ u.out = s.out
        /\ u.T_exitval = s.T_exitval /\ u.fault = s.fault
    BY <1>1 DEF Libs, Fnames
  <2> HIDE DEF u
  <2>5. /\ v \in Libs /\ v.T_mode = u.T_mode /\ v.first_time = u.first_time
        /\ v.Tst_count = u.Tst_count /\ v.reported = u.reported
        /\ v.T_exitval = u.T_exitval \cup Bit(s.Last.type) /\ (v.fault = "none" => u.fault = "none")
        /\ Filtered(u.T_mode, s.Last.type) => v.out = u.out
        /\ ~Filtered(u.T_mode, s.Last.type) =>
             \/ v.out = u.out /\ v.fault # "none"
             \/ v.out = u.out \cup {Result(s.Last.num, s.Last.type, s.Last.mesg, u.File)}
    BY <2>2, <2>4, PrintFields
  <2> HIDE DEF v
  <2>6. s.File \in Fnames /\ u.File \in Fnames
    BY <1>1, <2>4 DEF Libs
  <2>7. /\ t \in Libs /\ t.File = s.File
        /\ t.T_mode = s.T_mode /\ t.first_time = s.first_time
        /\ t.Tst_count = s.Tst_count /\ t.reported = s.reported
        /\ t.T_exitval = s.T_exitval \cup Bit(s.Last.type) /\ (t.fault = "none" => s.fault = "none")
        /\ t.out = v.out /\ t.fault = v.fault
    BY <2>3, <2>4, <2>5, <2>6 DEF Libs
  <2>8. Counted(s, R) /\ TypesKept(s) /\ BufferInv(s, R) /\ Shown(s, R)
    BY DEF Reporting
  <2> QED
    BY <1>1, <1>3, <2>4, <2>5, <2>6, <2>7, <2>8, LastPrinted
<1> QED
  BY <1>1, <1>2, <1>3

(* tst_condense and the count behind it, in mode NOPASS.                   *)
LEMMA CondenseKeeps ==
  ASSUME NEW s, NEW R, NEW new, Reporting(s, R, new), new.num = s.Tst_count + 1,
         s.T_mode = "NOPASS", NEW t, t = CountResult(tst_condense(s, new.num, new.type, new.mesg))
  PROVE  /\ LibInv(t) /\ Behind(s, t) /\ t.reported = s.reported
<1>1. /\ s \in Libs /\ s.Tst_count \in Nat /\ new \in Results /\ s.reported = R \cup {new}
      /\ R \in SUBSET Results /\ s.out \in SUBSET Results /\ s.first_time = 0
      /\ s.Buffered \in {0, 1} /\ s.File \in Fnames
  BY DEF Reporting, Libs
<1>2. new.num \in Nat /\ new.type \in Types /\ new.mesg \in AllMesgs
  BY <1>1 DEF Results
<1> DEFINE u == PrintLast(s)
<1>3. /\ u \in Libs /\ u.T_mode = s.T_mode /\ u.first_time = s.first_time /\ u.File = s.File
      /\ u.Tst_count = s.Tst_count /\ u.reported = s.reported
      /\ Counted(u, R) /\ TypesKept(u) /\ Behind(s, u)
      /\ u.fault = "none" =>
           /\ s.fault = "none"
           /\ \A r \in R : ~Filtered(u.T_mode, r.type) => \E l \in u.out : Stands(u.reported, l, r)
  BY PrintLastKeeps
<1> HIDE DEF u
<1>4. CASE SameAsLast(s, new.type, new.mesg)
  <2>1. t = [s EXCEPT !.Tst_count = @ + 1]
    BY <1>4 DEF tst_condense, CountResult
  <2>2. /\ t \in Libs /\ t.T_mode = s.T_mode /\ t.first_time = s.first_time /\ t.out = s.out
        /\ t.Buffered = 1 /\ s.Buffered = 1 /\ t.Last = s.Last /\ t.reported = s.reported
        /\ t.T_exitval = s.T_exitval /\ t.fault = s.fault /\ t.Tst_count = s.Tst_count + 1
        /\ s.Last.type = new.type /\ s.Last.mesg = new.mesg
    BY <1>1, <1>4, <2>1 DEF SameAsLast, Libs
  <2>3. s.Last \in Results /\ s.Last.num \in 1 .. s.Tst_count
    BY <2>2 DEF Reporting, BufferInv
  <2>4. Counted(t, t.reported) /\ TypesKept(t) /\ VerboseInv(t) /\ Behind(s, t)
    BY <1>1, <2>2 DEF Reporting, Counted, TypesKept, VerboseInv, Behind, Results
  <2>5. BufferInv(t, t.reported)
    BY <1>1, <2>2, <2>3 DEF Reporting, BufferInv
  <2>6. Stands(t.reported, t.Last, new)
    BY <1>1, <2>2, <2>3, <2>5 DEF BufferInv, Stands, Results
  <2>7. Shown(t, t.reported)
    BY <1>1, <2>2, <2>6 DEF Reporting, Shown
  <2> QED
    BY <2>2, <2>4, <2>5, <2>7 DEF LibInv
<1>5. CASE ~SameAsLast(s, new.type, new.mesg) /\ s.File # NULL
  <2> DEFINE v == tst_print(u, new.num, new.type, new.mesg)
  <2>1. t = CountResult([v EXCEPT !.Buffered = 0])
    BY <1>5 DEF tst_condense, u
  <2>2. /\ v \in Libs
        /\ v.T_mode = u.T_mode /\ v.first_time = u.first_time
        /\ v.Tst_count = u.Tst_count /\ v.reported = u.reported
        /\ TypesKept(v) /\ Behind(u, v)
        /\ \/ v.out = u.out
           \/ v.out = u.out \cup {Result(new.num, new.type, new.mesg, u.File)}
        /\ v.fault = "none" =>
             /\ u.fault = "none"
             /\ ~Filtered(v.T_mode, new.type) => \E l \in v.out : Stands(v.reported, l, new)
    BY <1>1, <1>3, NewPrinted
  <2> HIDE DEF v
  <2>3. /\ t \in Libs /\ t.Buffered = 0 /\ t.T_mode = s.T_mode /\ t.first_time = 0
        /\ t.Tst_count = s.Tst_count + 1 /\ t.reported = s.reported /\ t.out = v.out
        /\ t.T_exitval = v.T_exitval /\ t.fault = v.fault
    <3> DEFINE w == [v EXCEPT !.Buffered = 0]
    <3>1. /\ w \in Libs /\ w.Buffered = 0 /\ w.T_mode = s.T_mode /\ w.first_time = 0
          /\ w.Tst_count = s.Tst_count /\ w.reported = s.reported /\ w.out = v.out
          /\ w.T_exitval = v.T_exitval /\ w.fault = v.fault
      BY <1>1, <1>3, <2>2 DEF Libs
    <3>2. t = [w EXCEPT !.Tst_count = @ + 1]
      BY <2>1 DEF CountResult
    <3> HIDE DEF w
    <3>3. s.Tst_count + 1 \in Nat
      BY <1>1
    <3> QED
      BY <3>1, <3>2, <3>3 DEF Libs
  <2>4. TypesKept(t) /\ VerboseInv(t) /\ BufferInv(t, t.reported)
    BY <1>3, <2>2, <2>3 DEF TypesKept, VerboseInv, BufferInv
  <2>5. Behind(s, t)
    BY <1>3, <2>2, <2>3 DEF Behind
  <2>6. Counted(t, t.reported)
    <3>1. Result(new.num, new.type, new.mesg, u.File).num = new.num
      BY DEF Result
    <3>2. \A l \in t.out : l.num <= t.Tst_count
      <4>1. u.out \in SUBSET Results /\ \A l \in u.out : l.num <= s.Tst_count
        BY <1>3 DEF Counted, Libs
      <4> QED
        BY <1>1, <2>2, <2>3, <3>1, <4>1 DEF Results
    <3>3. \A r \in t.reported : r.num <= t.Tst_count
      BY <1>1, <2>3 DEF Reporting, Counted, Results
    <3> QED
      BY <3>2, <3>3 DEF Counted
  <2>7. Shown(t, t.reported)
    BY <1>1, <1>3, <2>2, <2>3 DEF Shown
  <2> QED
    BY <2>3, <2>4, <2>5, <2>6, <2>7 DEF LibInv
<1>6. CASE ~SameAsLast(s, new.type, new.mesg) /\ s.File = NULL
  <2> DEFINE last == Result(new.num, new.type, new.mesg, NULL)
  <2>1. t = CountResult([u EXCEPT !.Buffered = 1, !.Last = last])
    BY <1>6 DEF tst_condense, u
  <2>2. /\ last \in Results /\ last.num = new.num /\ last.type = new.type /\ last.mesg = new.mesg
    BY <1>2 DEF Result, Results, Fnames
  <2> HIDE DEF last
  <2>3. /\ t \in Libs /\ t.Buffered = 1 /\ t.T_mode = s.T_mode /\ t.first_time = 0 /\ t.Last = last
        /\ t.Tst_count = s.Tst_count + 1 /\ t.reported = s.reported /\ t.out = u.out
        /\ t.T_exitval = u.T_exitval /\ t.fault = u.fault
    <3> DEFINE w == [u EXCEPT !.Buffered = 1, !.Last = last]
    <3>1. /\ w \in Libs /\ w.Buffered = 1 /\ w.T_mode = s.T_mode /\ w.first_time = 0 /\ w.Last = last
          /\ w.Tst_count = s.Tst_count /\ w.reported = s.reported /\ w.out = u.out
          /\ w.T_exitval = u.T_exitval /\ w.fault = u.fault
      BY <1>1, <1>3, <2>2 DEF Libs
    <3>2. t = [w EXCEPT !.Tst_count = @ + 1]
      BY <2>1 DEF CountResult
    <3> HIDE DEF w
    <3>3. s.Tst_count + 1 \in Nat
      BY <1>1
    <3> QED
      BY <3>1, <3>2, <3>3 DEF Libs
  <2>4. TypesKept(t) /\ VerboseInv(t) /\ Behind(s, t)
    BY <1>3, <2>3 DEF TypesKept, VerboseInv, Behind
  <2>5. u.out \in SUBSET Results /\ \A l \in u.out : l.num <= s.Tst_count
    BY <1>3 DEF Counted, Libs
  <2>6. Counted(t, t.reported)
    BY <1>1, <2>3, <2>5 DEF Reporting, Counted, Results
  <2>7. \A r \in R : r.num <= s.Tst_count
    BY DEF Reporting, Counted
  <2>8. BufferInv(t, t.reported)
    BY <1>1, <1>2, <2>2, <2>3, <2>5, <2>7 DEF BufferInv, Results
  <2>9. Stands(t.reported, t.Last, new)
    BY <1>1, <1>2, <2>2, <2>3, <2>7 DEF Stands, Results
  <2>10. Shown(t, t.reported)
    BY <1>1, <1>3, <2>3, <2>9 DEF Shown
  <2> QED
    BY <2>3, <2>4, <2>6, <2>8, <2>10 DEF LibInv
<1> QED
  BY <1>4, <1>5, <1>6

(* A result that is printed at once: one without a number, or any one when *)
(* everything is shown.  The buffer is left alone.                         *)
LEMMA PrintNowKeeps ==
  ASSUME NEW s, NEW R, NEW new, Reporting(s, R, new), new.num # 0 => s.T_mode = "VERBOSE",
         NEW t, t = tst_print(s, new.num, new.type, new.mesg),
         NEW v, v = IF new.num = 0 THEN t ELSE CountResult(t)
  PROVE  LibInv(v) /\ Behind(s, v) /\ v.reported = s.reported
<1>1. /\ s \in Libs /\ s.Tst_count \in Nat /\ new \in Results /\ s.reported = R \cup {new}
      /\ R \in SUBSET Results /\ s.out \in SUBSET Results /\ s.first_time = 0
      /\ s.Buffered \in {0, 1} /\ new.num \in {0, s.Tst_count + 1}
      /\ Counted(s, R) /\ TypesKept(s) /\ BufferInv(s, R) /\ Shown(s, R)
  BY DEF Reporting, Libs
<1> DEFINE line == Result(new.num, new.type, new.mesg, s.File)
<1>2. /\ t \in Libs
      /\ t.T_mode = s.T_mode /\ t.first_time = s.first_time
      /\ t.Buffered = s.Buffered /\ t.Last = s.Last
      /\ t.Tst_count = s.Tst_count /\ t.reported = s.reported
      /\ TypesKept(t) /\ Behind(s, t)
      /\ t.out = s.out \/ t.out = s.out \cup {line}
      /\ t.fault = "none" =>
           /\ s.fault = "none"
           /\ ~Filtered(t.T_mode, new.type) =>
                t.File = NULL /\ \E l \in t.out : Stands(t.reported, l, new)
  BY <1>1, NewPrinted
<1>3. line.num = new.num /\ (s.File = new.file => line = new)
  BY <1>1 DEF Result, Results
<1> HIDE DEF line
<1>4. /\ v \in Libs /\ v.T_mode = s.T_mode /\ v.first_time = 0
      /\ v.Buffered = s.Buffered /\ v.Last = s.Last /\ v.File = t.File /\ v.fault = t.fault
      /\ v.reported = s.reported /\ v.out = t.out /\ v.T_exitval = t.T_exitval
      /\ v.Tst_count = IF new.num = 0 THEN s.Tst_count ELSE s.Tst_count + 1
  <2>1. CASE new.num = 0
    BY <1>1, <1>2, <2>1
  <2>2. CASE new.num # 0
    <3>1. v = [t EXCEPT !.Tst_count = @ + 1]
      BY <2>2 DEF CountResult
    <3>2. s.Tst_count + 1 \in Nat
      BY <1>1
    <3> QED
      BY <1>1, <1>2, <2>2, <3>1, <3>2 DEF Libs
  <2> QED
    BY <2>1, <2>2
<1>5. TypesKept(v) /\ Behind(s, v)
  BY <1>2, <1>4 DEF TypesKept, Behind
<1>6. Counted(v, v.reported)
  BY <1>1, <1>2, <1>3, <1>4 DEF Counted, Results
<1>7. BufferInv(v, v.reported)
  <2> SUFFICES ASSUME v.Buffered = 1 PROVE BufferInv(v, v.reported)
    BY DEF BufferInv
  <2>1. new.num = 0 /\ s.Last.num \in 1 .. s.Tst_count
    BY <1>1, <1>4 DEF BufferInv
  <2> QED
    BY <1>1, <1>2, <1>3, <1>4, <2>1 DEF BufferInv, Results
<1>8. VerboseInv(v)
  <2> SUFFICES ASSUME v.T_mode = "VERBOSE"
               PROVE  (v.fault = "none" => v.File = NULL) /\ v.out \subseteq v.reported
    BY <1>4 DEF VerboseInv
  <2>1. s.File = new.file /\ s.out \subseteq R
    BY <1>4 DEF Reporting
  <2>2. ~Filtered(t.T_mode, new.type)
    BY <1>2, <1>4 DEF Filtered
  <2> QED
    BY <1>1, <1>2, <1>3, <1>4, <2>1, <2>2
<1>9. Shown(v, v.reported)
  <2> SUFFICES ASSUME v.fault = "none", NEW r \in v.reported, ~Filtered(v.T_mode, r.type)
               PROVE  \/ \E l \in v.out : Stands(v.reported, l, r)
                      \/ v.Buffered = 1 /\ Stands(v.reported, v.Last, r)
    BY DEF Shown
  <2>1. s.fault = "none" /\ s.out \subseteq v.out
    BY <1>2, <1>4
  <2>2. CASE r = new
    BY <1>2, <1>4, <2>2
  <2>3. CASE r # new
    <3>1. r \in R /\ ~Filtered(s.T_mode, r.type)
      BY <1>1, <1>4, <2>3
    <3>2. \/ \E l \in s.out : Stands(s.reported, l, r)
          \/ s.Buffered = 1 /\ Stands(s.reported, s.Last, r)
      BY <1>1, <2>1, <3>1 DEF Shown
    <3> QED
      BY <1>4, <2>1, <3>2
  <2> QED
    BY <2>2, <2>3
<1> QED
  BY <1>4, <1>5, <1>6, <1>7, <1>8, <1>9 DEF LibInv

(* Printing order composes.                                                *)
LEMMA BehindComposes ==
  ASSUME NEW s \in Libs, NEW t \in Libs, NEW u \in Libs, Behind(s, t), Behind(t, u)
  PROVE  Behind(s, u)
BY DEF Behind, Libs, Results

(* tst_res reports one result and keeps the library's invariant.           *)
LEMMA ResKeeps ==
  ASSUME NEW s, LibInv(s), s.fault = "none", TOUTPUT \in Modes,
         NEW type \in Types, NEW fname \in Fnames, NEW mesg \in AllMesgs,
         NEW t, t = tst_res(s, type, fname, mesg)
  PROVE  /\ LibInv(t) /\ Behind(s, t)
         /\ \E nr \in Nat : t.reported = s.reported \cup {Result(nr, type, mesg, fname)}
<1> DEFINE nr == IF type \in {"TWARN", "TINFO"} THEN 0 ELSE s.Tst_count + 1
           u   == Reports(s, nr, type, fname, mesg)
           new == Result(nr, type, mesg, fname)
<1>1. s \in Libs /\ s.Tst_count \in Nat /\ nr \in {0, s.Tst_count + 1} /\ nr \in Nat
  BY DEF LibInv, Libs
<1>2. t = CASE nr = 0 -> tst_print(u, 0, type, mesg)
            [] nr # 0 /\ u.T_mode = "DISCARD" -> CountResult(u)
            [] nr # 0 /\ u.T_mode = "NOPASS"  -> CountResult(tst_condense(u, nr, type, mesg))
            [] OTHER -> CountResult(tst_print(u, nr, type, mesg))
  BY DEF tst_res
<1>3. new.num = nr /\ new.type = type /\ new.mesg = mesg
  BY DEF Result
<1> HIDE DEF nr
<1>4. Reporting(u, s.reported, new) /\ u.out = s.out /\ u.Tst_count = s.Tst_count
  BY <1>1, ReportingBegins
<1>5. /\ u \in Libs /\ u.T_mode \in Modes /\ u.Buffered \in {0, 1}
      /\ u.reported = s.reported \cup {new} /\ new \in Results
  BY <1>4 DEF Reporting, Libs
<1> HIDE DEF u, new
<1>6. LibInv(t) /\ Behind(u, t) /\ t.reported = u.reported
  <2>1. CASE nr = 0 \/ u.T_mode = "VERBOSE"
    <3> DEFINE v == tst_print(u, new.num, new.type, new.mesg)
    <3>1. t = IF new.num = 0 THEN v ELSE CountResult(v)
      BY <1>2, <1>3, <2>1
    <3>2. new.num # 0 => u.T_mode = "VERBOSE"
      BY <1>3, <2>1
    <3> HIDE DEF v
    <3>3. v = tst_print(u, new.num, new.type, new.mesg)
      BY DEF v
    <3> QED
      BY <1>4, <3>1, <3>2, <3>3, PrintNowKeeps
  <2>2. CASE nr # 0 /\ u.T_mode = "NOPASS"
    <3>1. t = CountResult(tst_condense(u, new.num, new.type, new.mesg))
      BY <1>2, <1>3, <2>2
    <3>2. new.num = u.Tst_count + 1
      BY <1>1, <1>3, <1>4, <2>2
    <3> QED
      BY <1>4, <2>2, <3>1, <3>2, CondenseKeeps
  <2>3. CASE nr # 0 /\ u.T_mode = "DISCARD"
    <3>1. t = [u EXCEPT !.Tst_count = @ + 1]
      BY <1>2, <2>3 DEF CountResult
    <3>2. /\ t \in Libs /\ t.T_mode = "DISCARD" /\ t.first_time = 0 /\ t.Buffered = u.Buffered
          /\ t.reported = u.reported /\ t.out = u.out /\ t.T_exitval = u.T_exitval
          /\ t.Tst_count = u.Tst_count + 1
      <4>1. u.Tst_count + 1 \in Nat
        BY <1>1, <1>4
      <4> QED
        BY <1>4, <1>5, <2>3, <3>1, <4>1 DEF Libs, Reporting
    <3>3. TypesKept(t) /\ Behind(u, t) /\ VerboseInv(t) /\ Shown(t, t.reported)
      BY <1>4, <2>3, <3>2 DEF Reporting, TypesKept, Behind, VerboseInv, Shown, Filtered
    <3>4. BufferInv(t, t.reported)
      BY <1>4, <2>3, <3>2 DEF Reporting, BufferInv
    <3>5. Counted(t, t.reported)
      <4>1. new.num = u.Tst_count + 1 /\ u.Tst_count \in Nat
        BY <1>1, <1>3, <1>4, <2>3
      <4>2. \A l \in u.out : l.num \in Nat
        BY <1>5 DEF Libs, Results
      <4>3. \A l \in s.reported : l.num \in Nat
        BY <1>1 DEF Libs, Results
      <4> QED
        BY <1>4, <1>5, <3>2, <4>1, <4>2, <4>3 DEF Reporting, Counted
    <3> QED
      BY <3>2, <3>3, <3>4, <3>5 DEF LibInv
  <2> QED
    BY <1>5, <2>1, <2>2, <2>3 DEF Modes
<1>7. Behind(s, t)
  BY <1>4, <1>6 DEF Behind
<1>8. t.reported = s.reported \cup {Result(nr, type, mesg, fname)}
  BY <1>5, <1>6 DEF new
<1> QED
  BY <1>1, <1>6, <1>7, <1>8

(* The warning about an invalid type, printed without tst_res.             *)
LEMMA WarnedKeeps ==
  ASSUME NEW s, LibInv(s), s.fault = "none", NEW type, NEW t, t = Warned(s, type)
  PROVE  /\ LibInv(t) /\ Behind(s, t) /\ Remaining(t.reported) = Remaining(s.reported)
<1> DEFINE new == Result(0, "TWARN", "invalid", NULL)
           u   == tst_print(s, new.num, new.type, new.mesg)
           line == Result(new.num, new.type, new.mesg, s.File)
<1>1. /\ s \in Libs /\ s.Tst_count \in Nat /\ s.reported \in SUBSET Results
      /\ s.out \in SUBSET Results /\ s.File \in Fnames
  BY DEF LibInv, Libs
<1>2. CASE Valid(type)
  BY <1>1, <1>2 DEF Warned, Behind
<1>3. CASE ~Valid(type)
  <2>0. new.num = 0 /\ new.type = "TWARN" /\ new.mesg = "invalid" /\ new.file = NULL
    BY DEF Result
  <2>1. /\ new \in Results
        /\ line.num = new.num /\ line.type = new.type /\ line.mesg = new.mesg
        /\ s.File = NULL => line = new
    BY DEF Result, Results, AllMesgs, OwnMesgs, Types, Fnames
  <2>2. t = [u EXCEPT !.reported = @ \cup {new}]
    BY <1>3, <2>0 DEF Warned
  <2>3. new.num \in Nat /\ new.type \in Types /\ new.mesg \in AllMesgs
    BY <2>1 DEF Results
  <2> HIDE DEF new
  <2>4. /\ u \in Libs
        /\ u.T_mode = s.T_mode /\ u.first_time = s.first_time
        /\ u.Buffered = s.Buffered /\ u.Last = s.Last
        /\ u.Tst_count = s.Tst_count /\ u.reported = s.reported
        /\ u.T_exitval = s.T_exitval \cup Bit(new.type)
        /\ u.File \in {s.File, NULL}
        /\ Filtered(s.T_mode, new.type) => u.out = s.out
        /\ ~Filtered(s.T_mode, new.type) =>
             \/ u.out = s.out /\ u.fault # "none"
             \/ u.out = s.out \cup {line}
    BY <1>1, <2>3, PrintFields
  <2> HIDE DEF u, line
  <2>5. /\ t \in Libs
        /\ t.T_mode = s.T_mode /\ t.first_time = s.first_time
        /\ t.Buffered = s.Buffered /\ t.Last = s.Last
        /\ t.Tst_count = s.Tst_count /\ t.reported = s.reported \cup {new}
        /\ t.T_exitval = s.T_exitval \cup Bit(new.type)
        /\ t.File = u.File /\ t.out = u.out /\ t.fault = u.fault
    <3>1. s.reported \cup {new} \in SUBSET Results
      BY <1>1, <2>1
    <3> QED
      BY <2>2, <2>4, <3>1 DEF Libs
  <2>6. t.out = s.out \/ t.out = s.out \cup {line}
    BY <2>4, <2>5
  <2>7. TypesKept(t)
    <3>1. TypesKept(s)
      BY DEF LibInv
    <3> QED
      BY <2>5, <3>1 DEF TypesKept, Bit
  <2>8. Counted(t, t.reported)
    <3>1. Counted(s, s.reported) /\ new.num <= s.Tst_count /\ line.num <= s.Tst_count
      BY <1>1, <2>0, <2>1 DEF LibInv
    <3> QED
      BY <2>5, <2>6, <3>1 DEF Counted
  <2>9. BufferInv(t, t.reported)
    <3> SUFFICES ASSUME t.Buffered = 1 PROVE BufferInv(t, t.reported)
      BY DEF BufferInv
    <3>1. s.Last.num \in 1 .. s.Tst_count /\ BufferInv(s, s.reported) /\ s.Buffered = 1
      BY <2>5 DEF LibInv, BufferInv
    <3> QED
      <4>1. line.num < s.Last.num /\ ~(new.num >= s.Last.num)
        BY <1>1, <2>0, <2>1, <3>1
      <4> QED
        BY <2>5, <2>6, <3>1, <4>1 DEF BufferInv
  <2>10. VerboseInv(t)
    BY <2>1, <2>4, <2>5, <2>6 DEF LibInv, VerboseInv
  <2>11. Shown(t, t.reported)
    <3> SUFFICES ASSUME t.fault = "none", NEW r \in t.reported, ~Filtered(t.T_mode, r.type)
                 PROVE  \/ \E l \in t.out : Stands(t.reported, l, r)
                        \/ t.Buffered = 1 /\ Stands(t.reported, t.Last, r)
      BY DEF Shown
    <3>1. CASE r \in s.reported
      <4>1. \A l \in Results : Stands(s.reported, l, r) => Stands(t.reported, l, r)
        BY <1>1, <2>0, <2>1, <2>5, <3>1, StandsStill
      <4>2. s.Buffered = 1 => s.Last \in Results
        BY DEF LibInv, BufferInv
      <4> QED
        BY <1>1, <2>5, <2>6, <3>1, <4>1, <4>2 DEF LibInv, Shown
    <3>2. CASE r = new
      <4>1. line \in t.out
        BY <2>1, <2>4, <2>5, <3>2
      <4>2. \A q \in t.reported : ~(q.num \in new.num .. new.num /\ q.num # 0)
        <5>1. \A q \in t.reported : q.num \in Nat
          BY <1>1, <2>1, <2>3, <2>5 DEF Results
        <5> QED
          BY <2>0, <5>1
      <4>3. Stands(t.reported, line, new)
        BY <2>1, <2>3, <4>2 DEF Stands
      <4> QED
        BY <3>2, <4>1, <4>3
    <3> QED
      BY <2>5, <3>1, <3>2
  <2>12. Remaining(t.reported) = Remaining(s.reported)
    BY <2>0, <2>5 DEF Remaining
  <2>13. Behind(s, t)
    <3>1. line.num = 0 /\ \A l \in t.out \ s.out : l = line
      BY <2>0, <2>1, <2>6
    <3> QED
      BY <2>6, <3>1 DEF Behind
  <2> QED
    BY <2>5, <2>7, <2>8, <2>9, <2>10, <2>11, <2>12, <2>13 DEF LibInv
<1> QED
  BY <1>2, <1>3

(* What tst_brk reports: the remaining cases only if it is the outermost.  *)
LEMMA BrokenKeeps ==
  ASSUME LibInv(lib), lib.fault = "none", TOUTPUT \in Modes, NEW type \in Types,
         NEW fname \in Fnames, NEW mesg \in AllMesgs \ {"remaining"},
         NEW t, t = Broken(type, fname, mesg)
  PROVE  /\ LibInv(t) /\ Behind(lib, t)
         /\ tst_brk_entered # 0 => Remaining(t.reported) = Remaining(lib.reported)
         /\ Remaining(lib.reported) = {} => \A r, q \in Remaining(t.reported) : r = q
<1> DEFINE u == Warned(lib, type)
           used == IF Valid(type) THEN type ELSE "TBROK"
           v == tst_res(u, used, fname, mesg)
<1>1. LibInv(u) /\ Behind(lib, u) /\ Remaining(u.reported) = Remaining(lib.reported)
  BY WarnedKeeps
<1>2. t = IF u.fault # "none" THEN u ELSE IF v.fault # "none" THEN v ELSE Announced(v, type)
  BY DEF Broken
<1>3. used \in Types
  BY DEF Types
<1> HIDE DEF u, used
<1>4. lib \in Libs /\ u \in Libs
  BY <1>1 DEF LibInv
<1>5. CASE u.fault # "none"
  BY <1>1, <1>2, <1>5 DEF Remaining
<1>6. CASE u.fault = "none"
  <2>1. /\ LibInv(v) /\ Behind(u, v)
        /\ \E nr \in Nat : v.reported = u.reported \cup {Result(nr, used, mesg, fname)}
    BY <1>1, <1>3, <1>6, ResKeeps
  <2>2. Remaining(v.reported) = Remaining(u.reported)
    BY <2>1 DEF Remaining, Result
  <2> HIDE DEF v
  <2>3. v \in Libs
    BY <2>1 DEF LibInv
  <2>4. Behind(lib, v)
    BY <1>1, <1>4, <2>1, <2>3, BehindComposes
  <2>5. CASE t = v
    BY <1>1, <2>1, <2>2, <2>4, <2>5 DEF Remaining
  <2>6. CASE v.fault = "none" /\ t = tst_res(v, type, NULL, "remaining") /\ tst_brk_entered = 0
    <3>1. "remaining" \in AllMesgs /\ NULL \in Fnames
      BY DEF AllMesgs, OwnMesgs, Fnames
    <3>2. /\ LibInv(t) /\ Behind(v, t)
          /\ \E nr \in Nat : t.reported = v.reported \cup {Result(nr, type, "remaining", NULL)}
      BY <2>1, <2>6, <3>1, ResKeeps
    <3>3. t \in Libs
      BY <3>2 DEF LibInv
    <3>4. Behind(lib, t)
      BY <1>4, <2>3, <2>4, <3>2, <3>3, BehindComposes
    <3>5. Remaining(lib.reported) = {} => \A r, q \in Remaining(t.reported) : r = q
      BY <1>1, <2>2, <3>2 DEF Remaining
    <3> QED
      BY <2>6, <3>2, <3>4, <3>5
  <2> QED
    BY <1>2, <1>6, <2>5, <2>6 DEF Announced
<1> QED
  BY <1>5, <1>6

-----------------------------------------------------------------------------

(* Nothing is reported at the start of main.                               *)
LEMMA InitInv == Init => ResInv
<1> SUFFICES ASSUME Init PROVE ResInv
  OBVIOUS
<1>1. /\ lib \in Libs /\ lib.reported = {} /\ lib.out = {} /\ lib.T_exitval = {}
      /\ lib.Buffered = 0 /\ lib.fault = "none" /\ lib.T_mode = "VERBOSE" /\ lib.File = NULL
      /\ lib.Tst_count = 0
  BY DEF Init, Libs, Modes, Fnames
<1>2. LibInv(lib)
  BY <1>1 DEF LibInv, Counted, TypesKept, BufferInv, VerboseInv, Shown
<1> QED
  BY <1>1, <1>2 DEF Init, ResInv, Remaining, ExitTellsAll, Funcs

(* The library goes on in state t.                                         *)
LEMMA GoesOn ==
  ASSUME ResInv, status = "running", NEW t, LibInv(t), Continue(t),
         \A r, q \in Remaining(t.reported) : r = q,
         tst_brk_entered' \in Nat, t.fault = "none" /\ tst_brk_entered' = 0 => Remaining(t.reported) = {},
         T_cleanup' \in {"unset"} \cup Funcs, TOUTPUT' = TOUTPUT
  PROVE  ResInv' /\ lib' = t
<1>1. lib' = t /\ status' = IF t.fault = "none" THEN "running" ELSE "crashed"
  BY DEF Continue
<1> QED
  BY <1>1 DEF ResInv, ExitTellsAll

(* tst_exit with the library in state t: the buffer is empty and the       *)
(* status tells of every failure.                                          *)
LEMMA Ends ==
  ASSUME ResInv, NEW t, LibInv(t), Exit(t),
         \A r, q \in Remaining(t.reported) : r = q,
         tst_brk_entered' \in Nat, T_cleanup' \in {"unset"} \cup Funcs, TOUTPUT' = TOUTPUT
  PROVE  ResInv' /\ Behind(t, lib') /\ lib' \in Libs
<1>1. /\ lib' = tst_flush(t)
      /\ exit_value' = t.T_exitval \ {"TRETR", "TINFO", "TCONF"}
      /\ status' = IF lib'.fault = "none" THEN "exited" ELSE "crashed"
  BY DEF Exit
<1>2. /\ LibInv(lib') /\ Behind(t, lib') /\ lib'.reported = t.reported
      /\ lib'.fault = "none" => lib'.Buffered = 0
  BY <1>1, FlushKeeps
<1>3. exit_value' = {r.type : r \in lib'.reported} \cap {"TFAIL", "TBROK", "TWARN"}
  <2>1. t.T_exitval = {r.type : r \in t.reported} \ {"TPASS"}
    BY DEF LibInv, TypesKept
  <2>2. \A r \in t.reported : r.type \in Types
    BY DEF LibInv, Libs, Results
  <2> QED
    BY <1>1, <1>2, <2>1, <2>2 DEF Types
<1>4. ResInv'
  BY <1>1, <1>2, <1>3 DEF ResInv, ExitTellsAll
<1> QED
  BY <1>2, <1>4 DEF LibInv

(* tst_brk, by the test, by a cleanup function or by the signal handler.   *)
LEMMA BreakKeeps ==
  ASSUME ResInv, status = "running", NEW type \in Types, NEW fname \in Fnames,
         NEW mesg \in AllMesgs \ {"remaining"}, NEW func, BreakWith(type, fname, func, mesg),
         UNCHANGED <<TOUTPUT, T_cleanup>>
  PROVE  ResInv' /\ Behind(lib, lib')
<1> DEFINE t == Broken(type, fname, mesg)
<1>1. /\ LibInv(lib) /\ lib.fault = "none" /\ TOUTPUT \in Modes /\ tst_brk_entered \in Nat
      /\ T_cleanup' \in {"unset"} \cup Funcs /\ TOUTPUT' = TOUTPUT
      /\ \A r, q \in Remaining(lib.reported) : r = q
      /\ tst_brk_entered = 0 => Remaining(lib.reported) = {}
  BY DEF ResInv
<1>2. /\ LibInv(t) /\ Behind(lib, t)
      /\ tst_brk_entered # 0 => Remaining(t.reported) = Remaining(lib.reported)
      /\ Remaining(lib.reported) = {} => \A r, q \in Remaining(t.reported) : r = q
  BY <1>1, BrokenKeeps
<1>3. \/ /\ t.fault # "none" \/ func # NULL \/ tst_brk_entered > 0
         /\ Continue(t)
         /\ tst_brk_entered' = IF t.fault = "none" /\ func # NULL THEN tst_brk_entered + 1
                               ELSE tst_brk_entered
      \/ t.fault = "none" /\ Exit(t) /\ UNCHANGED tst_brk_entered
  BY DEF BreakWith
<1> HIDE DEF t
<1>4. \A r, q \in Remaining(t.reported) : r = q
  BY <1>1, <1>2
<1>5. CASE /\ t.fault # "none" \/ func # NULL \/ tst_brk_entered > 0
           /\ Continue(t)
           /\ tst_brk_entered' = IF t.fault = "none" /\ func # NULL THEN tst_brk_entered + 1
                                 ELSE tst_brk_entered
  <2>1. tst_brk_entered' \in Nat /\ (t.fault = "none" => tst_brk_entered' # 0)
    BY <1>1, <1>5
  <2>2. ResInv' /\ lib' = t
    BY <1>1, <1>2, <1>4, <1>5, <2>1, GoesOn
  <2> QED
    BY <1>2, <2>2
<1>6. CASE t.fault = "none" /\ Exit(t) /\ UNCHANGED tst_brk_entered
  <2>1. ResInv' /\ Behind(t, lib') /\ lib' \in Libs
    BY <1>1, <1>2, <1>4, <1>6, Ends
  <2> QED
    BY <1>1, <1>2, <2>1, BehindComposes DEF LibInv
<1> QED
  BY <1>3, <1>5, <1>6

(* One step per call.  No call takes back a line or prints out of order.   *)
LEMMA StepInv == ResInv /\ [Next]_vars => ResInv' /\ Behind(lib, lib')
<1> SUFFICES ASSUME ResInv, [Next]_vars PROVE ResInv' /\ Behind(lib, lib')
  OBVIOUS
<1>1. /\ LibInv(lib) /\ lib \in Libs /\ TOUTPUT \in Modes /\ tst_brk_entered \in Nat
      /\ T_cleanup \in {"unset"} \cup Funcs
      /\ \A r, q \in Remaining(lib.reported) : r = q
      /\ status = "running" => lib.fault = "none"
      /\ status = "running" /\ tst_brk_entered = 0 => Remaining(lib.reported) = {}
  BY DEF ResInv, LibInv
<1>2. /\ Mesgs \subseteq AllMesgs \ {"remaining"} /\ NULL \in Fnames
      /\ {"root", "signal"} \subseteq AllMesgs \ {"remaining"}
      /\ Breaks \subseteq Types /\ {"TCONF", "TBROK"} \subseteq Types
  BY MesgsAssumption, BreaksAssumption DEF AllMesgs, OwnMesgs, Fnames, Types
<1>3. Behind(lib, lib)
  BY DEF Behind
<1>4. ASSUME NEW type \in Types, NEW f \in Fnames, NEW m \in Mesgs, CallRes(type, f, m)
      PROVE  ResInv' /\ Behind(lib, lib')
  <2> DEFINE t == tst_res(lib, type, f, m)
  <2>1. /\ status = "running" /\ Continue(t)
        /\ UNCHANGED <<TOUTPUT, tst_brk_entered, T_cleanup>>
    BY <1>4 DEF CallRes, Call
  <2>2. /\ LibInv(t) /\ Behind(lib, t)
        /\ \E nr \in Nat : t.reported = lib.reported \cup {Result(nr, type, m, f)}
    BY <1>1, <1>2, <2>1, ResKeeps
  <2> HIDE DEF t
  <2>3. Remaining(t.reported) = Remaining(lib.reported)
    BY <1>2, <2>2 DEF Remaining, Result
  <2>4. /\ \A r, q \in Remaining(t.reported) : r = q
        /\ tst_brk_entered = 0 => Remaining(t.reported) = {}
    BY <1>1, <2>1, <2>3
  <2>5. ResInv' /\ lib' = t
    <3>1. TOUTPUT' = TOUTPUT /\ tst_brk_entered' = tst_brk_entered /\ T_cleanup' = T_cleanup
      BY <2>1
    <3> QED
      BY <1>1, <2>1, <2>2, <2>4, <3>1, GoesOn
  <2> QED
    BY <2>2, <2>5
<1>5. ASSUME NEW type \in Breaks, NEW f \in Fnames, NEW func \in Funcs, NEW m \in Mesgs,
             CallBrk(type, f, func, m)
      PROVE  ResInv' /\ Behind(lib, lib')
  BY <1>2, <1>5, BreakKeeps DEF CallBrk, Call
<1>6. ASSUME NEW func \in Funcs, tst_require_root(func)
      PROVE  ResInv' /\ Behind(lib, lib')
  BY <1>2, <1>6, BreakKeeps DEF tst_require_root, Call
<1>7. ASSUME NEW func \in Funcs, tst_sig(func)
      PROVE  ResInv' /\ Behind(lib, lib')
  BY <1>3, <1>7 DEF tst_sig, Call, ResInv, ExitTellsAll
<1>8. CASE CleanupReturns
  <2>1. status = "running" /\ UNCHANGED <<TOUTPUT, T_cleanup>> /\ tst_brk_entered' \in Nat
    BY <1>1, <1>8 DEF CleanupReturns
  <2>2. CASE Exit(lib)
    BY <1>1, <2>1, <2>2, Ends
  <2>3. CASE tst_brk_entered > 1 /\ Continue(lib)
    <3>1. tst_brk_entered' # 0
      BY <1>1, <1>8, <2>3 DEF CleanupReturns
    <3> QED
      BY <1>1, <1>3, <2>1, <2>3, <3>1, GoesOn
  <2> QED
    BY <1>8, <2>2, <2>3 DEF CleanupReturns
<1>9. CASE tst_exit
  BY <1>1, <1>9, Ends DEF tst_exit
<1>10. CASE CallFlush
  <2> DEFINE t == tst_flush(lib)
  <2>1. LibInv(t) /\ Behind(lib, t) /\ t.reported = lib.reported
    BY <1>1, FlushKeeps
  <2>2. status = "running" /\ Continue(t) /\ UNCHANGED <<TOUTPUT, tst_brk_entered, T_cleanup>>
    BY <1>10 DEF CallFlush, Call
  <2> HIDE DEF t
  <2>3. ResInv' /\ lib' = t
    BY <1>1, <2>1, <2>2, GoesOn
  <2> QED
    BY <2>1, <2>3
<1>11. CASE tst_environ
  <2>1. PICK f \in {"copy", NULL} : Continue([lib EXCEPT !.T_out = f])
    BY <1>11 DEF tst_environ
  <2> DEFINE t == [lib EXCEPT !.T_out = f]
  <2>2. /\ t \in Libs /\ t.T_mode = lib.T_mode /\ t.first_time = lib.first_time
        /\ t.File = lib.File /\ t.Buffered = lib.Buffered /\ t.Last = lib.Last
        /\ t.Tst_count = lib.Tst_count /\ t.out = lib.out /\ t.reported = lib.reported
        /\ t.T_exitval = lib.T_exitval /\ t.fault = lib.fault
    BY <1>1 DEF Libs
  <2> HIDE DEF t
  <2>3. LibInv(t)
    BY <1>1, <2>2 DEF LibInv, Counted, TypesKept, BufferInv, VerboseInv, Shown
  <2>4. /\ status = "running" /\ Continue(t) /\ UNCHANGED <<TOUTPUT, tst_brk_entered, T_cleanup>>
    BY <1>11, <2>1 DEF tst_environ, Call, t
  <2>5. ResInv' /\ lib' = t
    BY <1>1, <2>2, <2>3, <2>4, GoesOn
  <2> QED
    BY <2>2, <2>5 DEF Behind
<1>12. CASE def_handler
  BY <1>2, <1>12, BreakKeeps DEF def_handler, Call
<1>13. CASE UNCHANGED vars
  BY <1>3, <1>13 DEF vars, ResInv, ExitTellsAll
<1> QED
  BY <1>4, <1>5, <1>6, <1>7, <1>8, <1>9, <1>10, <1>11, <1>12, <1>13 DEF Next

-----------------------------------------------------------------------------

(* The invariant of the result library.                                    *)
THEOREM LibraryInvariant == Spec => []ResInv
<1>1. ResInv /\ [Next]_vars => ResInv'
  BY StepInv
<1> QED
  BY InitInv, <1>1, PTL DEF Spec

(* No failure is lost by condensing, whichever way the test ends.          *)
THEOREM FailuresShown == Spec => []EveryFailureShown
<1>1. ResInv => EveryFailureShown
  <2> SUFFICES ASSUME ResInv PROVE EveryFailureShown
    OBVIOUS
  <2>1. LibInv(lib) /\ (status # "running" /\ lib.fault = "none" => lib.Buffered = 0)
    BY DEF ResInv
  <2>2. \A l, r : Stands(lib.reported, l, r) = StandsFor(l, r)
    BY DEF Stands, StandsFor
  <2>3. lib.fault = "none" =>
          \A r \in lib.reported : ~Filtered(lib.T_mode, r.type) =>
            \/ \E l \in lib.out : StandsFor(l, r)
            \/ status = "running" /\ lib.Buffered = 1 /\ StandsFor(lib.Last, r)
    BY <2>1, <2>2 DEF LibInv, Shown
  <2>4. lib.T_mode = "VERBOSE" => lib.out \subseteq lib.reported
    BY <2>1 DEF LibInv, VerboseInv
  <2> QED
    BY <2>3, <2>4 DEF EveryFailureShown
<1> QED
  BY LibraryInvariant, <1>1, PTL

(* The exit status tells of every failure reported, and of nothing else.   *)
THEOREM ExitTold == Spec => []ExitTellsAll
<1>1. ResInv => ExitTellsAll
  BY DEF ResInv
<1> QED
  BY LibraryInvariant, <1>1, PTL

(* However deep tst_brk nests, the remaining cases are announced once.     *)
THEOREM AnnouncedOnce == Spec => []RemainingOnce
<1>1. ResInv => RemainingOnce
  <2> SUFFICES ASSUME ResInv PROVE Cardinality(Remaining(lib.reported)) <= 1
    BY DEF RemainingOnce, Remaining
  <2>1. \A r, q \in Remaining(lib.reported) : r = q
    BY DEF ResInv
  <2>2. CASE Remaining(lib.reported) = {}
    BY <2>2, FS_EmptySet
  <2>3. CASE Remaining(lib.reported) # {}
    <3>1. PICK r : Remaining(lib.reported) = {r}
      BY <2>1, <2>3
    <3>2. Cardinality({r}) = 1
      BY FS_Singleton
    <3> QED
      BY <3>1, <3>2
  <2> QED
    BY <2>2, <2>3
<1> QED
  BY LibraryInvariant, <1>1, PTL

(* Numbered lines are printed in the order of their numbers.               *)
THEOREM PrintedInOrder == Spec => LinesInOrder
<1>1. ResInv /\ [Next]_vars =>
        [\A l \in lib'.out \ lib.out : l.num # 0 => \A k \in lib.out : k.num < l.num]_vars
  BY StepInv DEF Behind
<1> QED
  BY LibraryInvariant, <1>1, PTL DEF Spec, LinesInOrder

-----------------------------------------------------------------------------
(* dma, the user of the library.                                           *)

Lines == {<<t, v>> : t \in Nat, v \in Verdicts}

DmaResults == [num : Nat, test : Nat, answer : Lines \cup {<<>>}, type : {"TPASS", "TFAIL"}]

UserTypeOK ==
  /\ testnum \in Nat /\ STD_FUNCTIONAL_TEST \in {0, 1} /\ TST_TOTAL \in Nat
  /\ module \in {0, 1} /\ pc \in {"start", "loop", "open", "read", "report", "end", "fault"}
  /\ lc \in Nat /\ count \in Nat /\ num \in Nat /\ Tst_count \in Nat
  /\ answer \in Lines \cup {<<>>} /\ err \in -4 .. 0
  /\ results \in Seq(DmaResults)

(* A test is run: its number is the next that tst_resm will give.  The     *)
(* table has more than one test, so that one test is that of option -n.    *)
Testing == pc \in {"open", "read", "report"}
TestInv ==
  /\ TST_TOTAL = 1 => testnum # 0
  /\ Testing => num # 0 /\ Tst_count = num - 1 /\ STD_FUNCTIONAL_TEST = 1
  /\ pc = "report" => (err = 0 <=> answer = <<num, "OK">>)

(* With -n each iteration has one result; the loops are not left early.    *)
OneEach ==
  testnum # 0 =>
    /\ pc # "fault" /\ (pc # "start" => TST_TOTAL = 1)
    /\ Testing => num = testnum /\ count = 0 /\ lc < LOOPS
    /\ pc = "start" => lc = 0 /\ count = 0
    /\ count \in 0 .. STD_FUNCTIONAL_TEST /\ lc <= LOOPS
    /\ lc = LOOPS => count = 0
    /\ pc = "end" => lc = LOOPS /\ module = 0
    /\ Len(results) = STD_FUNCTIONAL_TEST * lc + count

UserInv == UserTypeOK /\ TestInv /\ OneEach /\ ResultsRight

-----------------------------------------------------------------------------

(* The table has numbers only.                                             *)
LEMMA TableFacts ==
  Len(test_cases) = 42 /\ \A k \in 1 .. 42 : test_cases[k] \in Nat \ {0}
BY DEF test_cases

(* One result more.                                                        *)
LEMMA Appended ==
  ASSUME NEW s \in Seq(DmaResults), NEW r \in DmaResults, NEW t, t = Append(s, r)
  PROVE  /\ t \in Seq(DmaResults) /\ Len(t) = Len(s) + 1 /\ t[Len(s) + 1] = r
         /\ \A k \in 1 .. Len(s) : t[k] = s[k]
OBVIOUS

(* At the start of main the list of results is empty.                      *)
LEMMA InitUser == DmaInit => UserInv
<1> SUFFICES ASSUME DmaInit PROVE UserInv
  OBVIOUS
<1>1. Len(test_cases) = 42
  BY TableFacts
<1>2. results = <<>> /\ Len(results) = 0 /\ results \in Seq(DmaResults)
  BY DEF DmaInit
<1>3. UserTypeOK
  BY <1>1, <1>2, TestnumsAssumption DEF DmaInit, UserTypeOK
<1>4. TestInv /\ OneEach
  BY <1>1, <1>2, TestnumsAssumption DEF DmaInit, TestInv, OneEach, Testing
<1>5. ResultsRight
  BY <1>2 DEF DmaInit, ResultsRight
<1> QED
  BY <1>3, <1>4, <1>5 DEF UserInv

(* One step per action, and under it the parts of the invariant.           *)
LEMMA StepUser == UserInv /\ [DmaNext]_dmaVars => UserInv'
<1> SUFFICES ASSUME UserInv, [DmaNext]_dmaVars PROVE UserInv'
  OBVIOUS
<1>0. /\ UserTypeOK /\ TestInv /\ OneEach /\ ResultsRight /\ LOOPS \in Nat
      /\ Len(results) \in Nat
  BY TestnumsAssumption DEF UserInv, UserTypeOK
<1> USE DEF opts, Testing
<1>1. CASE Start
  <2>1. UserTypeOK'
    BY <1>0, <1>1 DEF Start, UserTypeOK
  <2>2. TestInv'
    BY <1>0, <1>1 DEF Start, UserTypeOK, TestInv
  <2>3. OneEach'
    BY <1>0, <1>1 DEF Start, UserTypeOK, TestInv, OneEach
  <2>4. ResultsRight'
    BY <1>0, <1>1 DEF Start, UserTypeOK, OneEach, ResultsRight
  <2> QED
    BY <2>1, <2>2, <2>3, <2>4 DEF UserInv
<1>2. CASE Select
  <2>0. \/ pc' = "open" /\ num' \in Nat \ {0} /\ Tst_count' = num' - 1
        \/ pc' = "fault" /\ UNCHANGED <<num, Tst_count>>
    <3>1. CASE TST_TOTAL = 1
      BY <1>0, <1>2, <3>1 DEF Select, UserTypeOK, TestInv
    <3>2. CASE TST_TOTAL # 1 /\ Tst_count < Len(test_cases)
      <4>1. Tst_count + 1 \in 1 .. 42
        <5>1. Tst_count \in Nat /\ Tst_count < 42
          BY <1>0, <3>2, TableFacts DEF UserTypeOK
        <5> QED
          BY <5>1
      <4> QED
        BY <1>2, <3>2, <4>1, TableFacts DEF Select
    <3>3. CASE TST_TOTAL # 1 /\ ~(Tst_count < Len(test_cases))
      BY <1>2, <3>3 DEF Select
    <3> QED
      BY <3>1, <3>2, <3>3
  <2>1. UserTypeOK'
    BY <1>0, <1>2, <2>0 DEF Select, UserTypeOK
  <2>2. TestInv'
    BY <1>0, <1>2, <2>0 DEF Select, TestInv
  <2>3. OneEach'
    BY <1>0, <1>2 DEF Select, UserTypeOK, TestInv, OneEach
  <2>4. ResultsRight'
    BY <1>0, <1>2 DEF Select, UserTypeOK, OneEach, ResultsRight
  <2> QED
    BY <2>1, <2>2, <2>3, <2>4 DEF UserInv
<1>3. CASE EndOfTable
  <2>1. UserTypeOK'
    BY <1>0, <1>3 DEF EndOfTable, UserTypeOK
  <2>2. TestInv'
    BY <1>0, <1>3 DEF EndOfTable, UserTypeOK, TestInv
  <2>3. OneEach'
    BY <1>0, <1>3 DEF EndOfTable, UserTypeOK, TestInv, OneEach
  <2>4. ResultsRight'
    BY <1>0, <1>3 DEF EndOfTable, UserTypeOK, OneEach, ResultsRight
  <2> QED
    BY <2>1, <2>2, <2>3, <2>4 DEF UserInv
<1>4. CASE EndOfLoops
  <2>1. UserTypeOK'
    BY <1>0, <1>4 DEF EndOfLoops, UserTypeOK
  <2>2. TestInv'
    BY <1>0, <1>4 DEF EndOfLoops, UserTypeOK, TestInv
  <2>3. OneEach'
    BY <1>0, <1>4 DEF EndOfLoops, UserTypeOK, TestInv, OneEach
  <2>4. ResultsRight'
    BY <1>0, <1>4 DEF EndOfLoops, UserTypeOK, OneEach, ResultsRight
  <2> QED
    BY <2>1, <2>2, <2>3, <2>4 DEF UserInv
<1>5. CASE Open
  <2>1. UserTypeOK'
    BY <1>0, <1>5 DEF Open, UserTypeOK
  <2>2. TestInv'
    BY <1>0, <1>5 DEF Open, UserTypeOK, TestInv
  <2>3. OneEach'
    BY <1>0, <1>5 DEF Open, UserTypeOK, TestInv, OneEach
  <2>4. ResultsRight'
    BY <1>0, <1>5 DEF Open, UserTypeOK, OneEach, ResultsRight
  <2> QED
    BY <2>1, <2>2, <2>3, <2>4 DEF UserInv
<1>6. CASE Read
  <2>1. UserTypeOK'
    <3>1. answer' \in Lines \cup {<<>>}
      BY <1>0, <1>6 DEF Read, UserTypeOK, Lines
    <3>2. err' \in -4 .. 0
      BY <1>6 DEF Read
    <3> QED
      BY <1>0, <1>6, <3>1, <3>2 DEF Read, UserTypeOK
  <2>2. TestInv'
    <3>1. err' = 0 <=> answer' = <<num, "OK">>
      <4>1. CASE answer' = <<>> /\ err' = -2
        BY <4>1
      <4>2. CASE \E v \in Verdicts : answer' = <<num, v>> /\
                   err' = IF Accepts(answer') THEN 0 ELSE IF OtherLength(answer') THEN -3 ELSE -4
        BY <4>2 DEF Accepts, OtherLength
      <4> QED
        BY <1>6, <4>1, <4>2 DEF Read
    <3> QED
      BY <1>0, <1>6, <3>1 DEF Read, TestInv
  <2>3. OneEach'
    BY <1>0, <1>6 DEF Read, UserTypeOK, TestInv, OneEach
  <2>4. ResultsRight'
    BY <1>0, <1>6 DEF Read, UserTypeOK, OneEach, ResultsRight
  <2> QED
    BY <2>1, <2>2, <2>3, <2>4 DEF UserInv
<1>7. CASE Report
  <2> DEFINE r == [num |-> Tst_count + 1, test |-> num, answer |-> answer,
                   type |-> IF err = 0 THEN "TPASS" ELSE "TFAIL"]
  <2>1. r \in DmaResults /\ r.num = r.test /\ (r.type = "TPASS" <=> r.answer = <<r.test, "OK">>)
    BY <1>0, <1>7 DEF Report, UserTypeOK, DmaResults, TestInv
  <2>2. results' = Append(results, r)
    BY <1>7 DEF Report
  <2>3. r.test = num
    OBVIOUS
  <2> HIDE DEF r
  <2>4. /\ results' \in Seq(DmaResults) /\ Len(results') = Len(results) + 1
        /\ results'[Len(results) + 1] = r
        /\ \A k \in 1 .. Len(results) : results'[k] = results[k]
    BY <1>0, <2>1, <2>2, Appended DEF UserTypeOK
  <2>5. UserTypeOK'
    BY <1>0, <1>7, <2>4 DEF Report, UserTypeOK
  <2>6. TestInv'
    BY <1>0, <1>7 DEF Report, TestInv
  <2>7. OneEach'
    BY <1>0, <1>7, <2>4 DEF Report, UserTypeOK, TestInv, OneEach
  <2>8. ResultsRight'
    BY <1>0, <1>7, <2>1, <2>3, <2>4 DEF Report, UserTypeOK, TestInv, OneEach, ResultsRight
  <2> QED
    BY <2>5, <2>6, <2>7, <2>8 DEF UserInv
<1>8. CASE UNCHANGED dmaVars
  BY <1>0, <1>8 DEF dmaVars, UserInv, UserTypeOK, TestInv, OneEach, ResultsRight
<1> QED
  BY <1>1, <1>2, <1>3, <1>4, <1>5, <1>6, <1>7, <1>8 DEF DmaNext, Ended

(* Whatever the kernel answers and however often the program loops, each   *)
(* result is about the test whose number it carries, and with -n each      *)
(* iteration has one (dma_test and the loop around it, DMA 138-147).       *)
THEOREM ResultsCorrect == DmaSpec => []ResultsRight
<1>1. DmaInit => UserInv
  BY InitUser
<1>2. UserInv /\ [DmaNext]_dmaVars => UserInv'
  BY StepUser
<1>3. UserInv => ResultsRight
  BY DEF UserInv
<1> QED
  BY <1>1, <1>2, <1>3, PTL DEF DmaSpec

=============================================================================
