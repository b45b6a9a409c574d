-------------------------- MODULE ParseOptsProofs --------------------------
(***************************************************************************)
(* Proofs about the copies that usc_global_setup_hook forks, for every     *)
(* number of copies, any forks that fail and any signals; and about the    *)
(* loop of usc_test_looping, for every command line, every environment and *)
(* every width of the clock.                                               *)
(***************************************************************************)
EXTENDS ParseOpts, TLAPS, FiniteSetTheorems

Places == {"none", "parse", "fork", "signal", "installed", "pause", "first", "decide", "next",
           "delay", "done", "exited", "killed", "crashed"}

Options ==
  [STD_LOOP_COUNT : Int, STD_INFINITE : {0, 1}, STD_LOOP_DURATION : Int, STD_LOOP_DELAY : Int,
   STD_COPIES : Int, STD_FUNCTIONAL_TEST : {0, 1}, STD_PAUSE : {0, 1}, recfun : Int,
   options : SUBSET {"iteration", "duration", "delay", "copies"}, status : {"ok", "help", "error"}]

TypeOK ==
  /\ run \in Runs /\ opt \in Options /\ optind \in 1 .. Len(run.argv) + 1
  /\ pc \in [Procs -> Places] /\ cnt \in [Procs -> Int] /\ forkfails \in Nat

Running == {p \in Procs : pc[p] # "none"}
Wanted == IF opt.STD_COPIES > 1 /\ opt.status = "ok" THEN opt.STD_COPIES ELSE 1

(* Only the first process forks, and its counter counts.                   *)
CopyInv ==
  /\ TypeOK
  /\ pc[1] # "none"
  /\ \A p \in Running \ {1} : cnt[p] >= opt.STD_COPIES
  /\ cnt[1] \in 1 .. Wanted
  /\ Cardinality(Running) + forkfails = cnt[1]
  /\ pc[1] \notin {"parse", "fork", "killed"} => cnt[1] = Wanted
  /\ pc[1] = "fork" => opt.status = "ok"
  /\ pc[1] = "parse" => cnt[1] = 1 /\ \A p \in Procs \ {1} : pc[p] = "none"

-----------------------------------------------------------------------------
(* An argument is a letter and a number.                                   *)
LEMMA Argument ==
  ASSUME TypeOK, NEW k \in 1 .. Len(run.argv)
  PROVE  run.argv[k] \in STRING \X Int /\ run.argv[k][1] \in STRING /\ run.argv[k][2] \in Int
<1>1. run.argv \in Seq(STRING \X Int)
  BY RunsAssumption DEF TypeOK
<1>2. run.argv[k] \in STRING \X Int
  BY <1>1
<1> QED
  BY <1>2

(* No option has been seen.                                                *)
LEMMA LastOfNone == ASSUME NEW l PROVE Last(l, 0) = JUNK
BY DEF Last

(* The last of one option more.                                            *)
LEMMA LastOfMore ==
  ASSUME NEW l, NEW n \in Nat
  PROVE  Last(l, n + 1) = IF run.argv[n + 1][1] = l THEN run.argv[n + 1][2] ELSE Last(l, n)
<1> DEFINE At(m) == {k \in 1 .. m : run.argv[k][1] = l}
<1>1. CASE run.argv[n + 1][1] # l
  <2>1. At(n + 1) = At(n)
    BY <1>1
  <2> DEFINE Choice(S) == IF S = {} THEN JUNK
                          ELSE run.argv[CHOOSE k \in S : \A j \in S : j <= k][2]
  <2>2. Last(l, n + 1) = Choice(At(n + 1)) /\ Last(l, n) = Choice(At(n))
    BY DEF Last
  <2> HIDE DEF At, Choice
  <2> QED
    BY <1>1, <2>1, <2>2
<1>2. CASE run.argv[n + 1][1] = l
  <2> DEFINE Top(k) == \A j \in At(n + 1) : j <= k
             m == CHOOSE k \in At(n + 1) : Top(k)
  <2>1. n + 1 \in At(n + 1) /\ Top(n + 1)
    BY <1>2
  <2>2. m \in At(n + 1) /\ Top(m)
    <3> HIDE DEF Top, At
    <3> QED
      BY <2>1
  <2>3. m \in 1 .. n + 1 /\ n + 1 <= m
    BY <2>1, <2>2
  <2>4. m = n + 1
    <3> HIDE DEF m
    <3> QED
      BY <2>3
  <2>5. Last(l, n + 1) = run.argv[m][2]
    BY <2>1 DEF Last
  <2> QED
    BY <1>2, <2>4, <2>5
<1> QED
  BY <1>1, <1>2

(* What one option leaves.                                                 *)
LEMMA OptionEffect ==
  ASSUME NEW o \in Options, NEW x \in STRING \X Int
  PROVE  LET n == Option(o, x) IN
         /\ n \in Options
         /\ "iteration" \in n.options <=> (x[1] = "i" \/ "iteration" \in o.options)
         /\ n.STD_LOOP_COUNT = IF x[1] = "i" THEN x[2] ELSE o.STD_LOOP_COUNT
         /\ "duration" \in n.options <=> (x[1] = "I" \/ "duration" \in o.options)
         /\ n.STD_LOOP_DURATION = IF x[1] = "I" THEN x[2] ELSE o.STD_LOOP_DURATION
         /\ (x[1] \in {"i", "I"} /\ x[2] = 0) \/ o.STD_INFINITE = 1 => n.STD_INFINITE = 1
<1> DEFINE n == Option(o, x)
           l == x[1]
           a == x[2]
<1>0. l \in STRING /\ a \in Int
  OBVIOUS
<1>1. \/ l = "i" /\ n = [o EXCEPT !.STD_LOOP_COUNT = a, !.options = @ \cup {"iteration"},
                                  !.STD_INFINITE = IF a = 0 THEN 1 ELSE @]
      \/ l = "I" /\ n = [o EXCEPT !.STD_LOOP_DURATION = a, !.options = @ \cup {"duration"},
                                  !.STD_INFINITE = IF a = 0 THEN 1 ELSE @]
      \/ l \notin {"i", "I"} /\ n = [o EXCEPT !.STD_LOOP_DELAY = a, !.options = @ \cup {"delay"}]
      \/ l \notin {"i", "I"} /\ n = [o EXCEPT !.STD_COPIES = a, !.options = @ \cup {"copies"}]
      \/ l \notin {"i", "I"} /\ n = [o EXCEPT !.STD_FUNCTIONAL_TEST = 0]
      \/ l \notin {"i", "I"} /\ n = [o EXCEPT !.STD_PAUSE = 1]
      \/ l \notin {"i", "I"} /\ n = [o EXCEPT !.status = "help"]
      \/ l \notin {"i", "I"} /\ n = [o EXCEPT !.status = "error"]
      \/ l \notin {"i", "I"} /\ n = o
  BY DEF Option
<1> SUFFICES /\ n \in Options
             /\ "iteration" \in n.options <=> (l = "i" \/ "iteration" \in o.options)
             /\ n.STD_LOOP_COUNT = IF l = "i" THEN a ELSE o.STD_LOOP_COUNT
             /\ "duration" \in n.options <=> (l = "I" \/ "duration" \in o.options)
             /\ n.STD_LOOP_DURATION = IF l = "I" THEN a ELSE o.STD_LOOP_DURATION
             /\ (l \in {"i", "I"} /\ a = 0) \/ o.STD_INFINITE = 1 => n.STD_INFINITE = 1
  OBVIOUS
<1> HIDE DEF n, l, a
<1>2. CASE l = "i"
  <2>1. n = [o EXCEPT !.STD_LOOP_COUNT = a, !.options = o.options \cup {"iteration"},
                      !.STD_INFINITE = IF a = 0 THEN 1 ELSE o.STD_INFINITE]
    BY <1>1, <1>2
  <2>2. n \in Options
    BY <1>0, <2>1 DEF Options
  <2>3. n.options = o.options \cup {"iteration"}
    BY <2>1 DEF Options
  <2> QED
    BY <1>0, <1>2, <2>1, <2>2, <2>3 DEF Options
<1>3. CASE l = "I"
  <2>1. n = [o EXCEPT !.STD_LOOP_DURATION = a, !.options = o.options \cup {"duration"},
                      !.STD_INFINITE = IF a = 0 THEN 1 ELSE o.STD_INFINITE]
    BY <1>1, <1>3
  <2>2. n \in Options
    BY <1>0, <2>1 DEF Options
  <2>3. n.options = o.options \cup {"duration"}
    BY <2>1 DEF Options
  <2> QED
    BY <1>0, <1>3, <2>1, <2>2, <2>3 DEF Options
<1>4. CASE l \notin {"i", "I"}
  <2>1. n \in Options
    <3>1. CASE n = [o EXCEPT !.STD_LOOP_DELAY = a, !.options = o.options \cup {"delay"}]
      BY <1>0, <3>1 DEF Options
    <3>2. CASE n = [o EXCEPT !.STD_COPIES = a, !.options = o.options \cup {"copies"}]
      BY <1>0, <3>2 DEF Options
    <3>3. CASE n = [o EXCEPT !.STD_FUNCTIONAL_TEST = 0] \/ n = [o EXCEPT !.STD_PAUSE = 1] \/ n = o
      BY <1>0, <3>3 DEF Options
    <3>4. CASE n = [o EXCEPT !.status = "help"] \/ n = [o EXCEPT !.status = "error"]
      BY <1>0, <3>4 DEF Options
    <3> QED
      BY <1>1, <1>4, <3>1, <3>2, <3>3, <3>4
  <2>2. n.options \in {o.options, o.options \cup {"delay"}, o.options \cup {"copies"}}
    BY <1>1, <1>4 DEF Options
  <2>3. /\ n.STD_LOOP_COUNT = o.STD_LOOP_COUNT /\ n.STD_INFINITE = o.STD_INFINITE
        /\ n.STD_LOOP_DURATION = o.STD_LOOP_DURATION
    BY <1>1, <1>4 DEF Options
  <2> QED
    BY <1>4, <2>1, <2>2, <2>3
<1> QED
  BY <1>2, <1>3, <1>4

(* What one variable leaves.                                               *)
LEMMA VariableEffect ==
  ASSUME NEW o \in Options, NEW env, \A v \in DOMAIN env : env[v] \in Int \cup {JUNK}
  PROVE  /\ Iterations(o, env) \in Options /\ NoFuncCheck(o, env) \in Options
         /\ \A var : Duration(o, env, var) \in Options
         /\ LoopDelay(o, env) \in Options /\ Copies(o, env) \in Options /\ Recfun(o, env) \in Options
<1>0. \A v, t : Uses(o, env, v, t) => env[v] \in Int
  BY DEF Uses
<1>1. Iterations(o, env) \in Options
  BY <1>0 DEF Iterations, Options
<1>2. NoFuncCheck(o, env) \in Options
  BY DEF NoFuncCheck, Options
<1>3. ASSUME NEW var PROVE Duration(o, env, var) \in Options
  BY <1>0 DEF Duration, Options
<1>4. LoopDelay(o, env) \in Options
  BY <1>0 DEF LoopDelay, Options
<1>5. Copies(o, env) \in Options
  BY <1>0 DEF Copies, Options
<1>6. Recfun(o, env) \in Options
  BY <1>0 DEF Recfun, Options
<1> QED
  BY <1>1, <1>2, <1>3, <1>4, <1>5, <1>6

(* The environment behind the options: who loops, and for how long.        *)
LEMMA EnvironmentEffect ==
  ASSUME NEW o \in Options, NEW env, \A v \in DOMAIN env : env[v] \in Int \cup {JUNK}
  PROVE  LET n == Environment(o, env)
             count == Uses(o, env, "USC_ITERATIONS", "iteration")
             Timed(var) == Uses(o, env, var, "duration") /\ env[var] >= 0 IN
         /\ n \in Options /\ n.status = o.status
         /\ n.STD_LOOP_COUNT = IF count /\ env["USC_ITERATIONS"] # 0 THEN env["USC_ITERATIONS"]
                                                                      ELSE o.STD_LOOP_COUNT
         /\ o.STD_INFINITE = 1 \/ (count /\ env["USC_ITERATIONS"] = 0) => n.STD_INFINITE = 1
         /\ n.STD_LOOP_DURATION = IF Timed("USC_DURATION") THEN env["USC_DURATION"]
                                  ELSE IF Timed("USC_LOOP_WALLTIME") THEN env["USC_LOOP_WALLTIME"]
                                  ELSE o.STD_LOOP_DURATION
         /\ (\E v \in {"USC_DURATION", "USC_LOOP_WALLTIME"} : Timed(v) /\ env[v] = 0)
              => n.STD_INFINITE = 1
<1> DEFINE count == Uses(o, env, "USC_ITERATIONS", "iteration")
           Timed(var) == Uses(o, env, var, "duration") /\ env[var] >= 0
           o1 == Iterations(o, env)
           o2 == NoFuncCheck(o1, env)
           o3 == Duration(o2, env, "USC_LOOP_WALLTIME")
           o4 == Duration(o3, env, "USC_DURATION")
           o5 == LoopDelay(o4, env)
           o6 == Copies(o5, env)
           n == Recfun(o6, env)
<1>0. o1 \in Options /\ o2 \in Options /\ o3 \in Options /\ o4 \in Options
      /\ o5 \in Options /\ o6 \in Options /\ n \in Options
  <2>1. o1 \in Options
    BY VariableEffect
  <2>2. o2 \in Options
    BY <2>1, VariableEffect
  <2>3. o3 \in Options
    BY <2>2, VariableEffect
  <2>4. o4 \in Options
    BY <2>3, VariableEffect
  <2>5. o5 \in Options
    BY <2>4, VariableEffect
  <2>6. o6 \in Options
    BY <2>5, VariableEffect
  <2> QED
    BY <2>1, <2>2, <2>3, <2>4, <2>5, <2>6, VariableEffect
<1>1. Environment(o, env) = n
  BY DEF Environment
<1> DEFINE Same(a, b) == /\ a.STD_LOOP_COUNT = b.STD_LOOP_COUNT /\ a.STD_INFINITE = b.STD_INFINITE
                         /\ a.STD_LOOP_DURATION = b.STD_LOOP_DURATION
                         /\ a.status = b.status /\ a.options = b.options
<1>2. /\ o1.STD_LOOP_COUNT = IF count /\ env["USC_ITERATIONS"] # 0 THEN env["USC_ITERATIONS"]
                                                                    ELSE o.STD_LOOP_COUNT
      /\ o1.STD_INFINITE = IF count /\ env["USC_ITERATIONS"] = 0 THEN 1 ELSE o.STD_INFINITE
      /\ o1.STD_LOOP_DURATION = o.STD_LOOP_DURATION
      /\ o1.status = o.status /\ o1.options = o.options
  BY DEF Iterations, Options
<1>3. Same(o2, o1)
  <2> HIDE DEF o1
  <2> QED
    BY <1>0 DEF NoFuncCheck, Options
<1>4. ASSUME NEW a \in Options, NEW var
      PROVE  LET b == Duration(a, env, var)
                 t == Uses(a, env, var, "duration") /\ env[var] >= 0 IN
             /\ b.STD_LOOP_COUNT = a.STD_LOOP_COUNT /\ b.status = a.status /\ b.options = a.options
             /\ a.STD_INFINITE = 1 \/ (t /\ env[var] = 0) => b.STD_INFINITE = 1
             /\ b.STD_LOOP_DURATION = IF t THEN env[var] ELSE a.STD_LOOP_DURATION
  BY DEF Duration, Options
<1>5. Same(o5, o4)
  <2> HIDE DEF o4
  <2> QED
    BY <1>0 DEF LoopDelay, Options
<1>6. Same(o6, o5)
  <2> HIDE DEF o5
  <2> QED
    BY <1>0 DEF Copies, Options
<1>7. Same(n, o6)
  <2> HIDE DEF o6
  <2> QED
    BY <1>0 DEF Recfun, Options
<1>8. /\ o3.STD_LOOP_COUNT = o2.STD_LOOP_COUNT /\ o3.status = o2.status /\ o3.options = o2.options
      /\ o2.STD_INFINITE = 1 \/ (Timed("USC_LOOP_WALLTIME") /\ env["USC_LOOP_WALLTIME"] = 0)
           => o3.STD_INFINITE = 1
      /\ o3.STD_LOOP_DURATION = IF Timed("USC_LOOP_WALLTIME") THEN env["USC_LOOP_WALLTIME"]
                                                               ELSE o2.STD_LOOP_DURATION
  <2>1. Uses(o2, env, "USC_LOOP_WALLTIME", "duration") <=> Uses(o, env, "USC_LOOP_WALLTIME", "duration")
    <3> HIDE DEF o2, o1
    <3> QED
      BY <1>2, <1>3 DEF Uses
  <2> HIDE DEF o2
  <2> QED
    BY <1>0, <1>4, <2>1
<1>9. /\ o4.STD_LOOP_COUNT = o3.STD_LOOP_COUNT /\ o4.status = o3.status
      /\ o3.STD_INFINITE = 1 \/ (Timed("USC_DURATION") /\ env["USC_DURATION"] = 0)
           => o4.STD_INFINITE = 1
      /\ o4.STD_LOOP_DURATION = IF Timed("USC_DURATION") THEN env["USC_DURATION"]
                                                          ELSE o3.STD_LOOP_DURATION
  <2>1. Uses(o3, env, "USC_DURATION", "duration") <=> Uses(o, env, "USC_DURATION", "duration")
    <3> HIDE DEF o3, o2, o1
    <3> QED
      BY <1>2, <1>3, <1>8 DEF Uses
  <2> HIDE DEF o3
  <2> QED
    BY <1>0, <1>4, <2>1
<1> HIDE DEF o1, o2, o3, o4, o5, o6, n, count, Timed
<1> QED
  BY <1>0, <1>1, <1>2, <1>3, <1>5, <1>6, <1>7, <1>8, <1>9 DEF count, Timed

-----------------------------------------------------------------------------
(* The running processes are finitely many.                                *)
LEMMA RunningFinite ==
  ASSUME TypeOK
  PROVE  IsFiniteSet(Running) /\ Cardinality(Running) \in Nat
<1>1. IsFiniteSet(Procs)
  BY BoundsAssumption, FS_Interval DEF Procs
<1> QED
  BY <1>1, FS_Subset, FS_CardinalityType DEF Running

(* One process runs and nothing has been parsed.                           *)
LEMMA InitInv == Init => CopyInv
<1> SUFFICES ASSUME Init PROVE CopyInv
  OBVIOUS
<1>1. 1 \in Procs
  BY BoundsAssumption DEF Procs
<1>2. TypeOK
  <2>1. Defaults \in Options
    BY DEF Defaults, Options
  <2>2. Len(run.argv) \in Nat
    BY RunsAssumption DEF Init
  <2> QED
    BY <2>1, <2>2 DEF Init, TypeOK, Places
<1>3. Running = {1}
  BY <1>1, BoundsAssumption DEF Init, Running, Procs
<1>4. Cardinality(Running) = 1
  BY <1>3, FS_Singleton
<1> QED
  BY <1>1, <1>2, <1>3, <1>4 DEF Init, CopyInv, Wanted, TypeOK, Options, Defaults

(* A process goes from one place to another without forking.               *)
LEMMA Moves ==
  ASSUME CopyInv, NEW p \in Procs, pc[p] # "none", NEW x \in Places \ {"none"},
         pc' = [pc EXCEPT ![p] = x], UNCHANGED <<once, cnt, forkfails>>,
         x \notin {"parse", "fork"}, pc[p] = "parse" => x = "killed", x # "killed" /\ pc[p] = "fork" => cnt[p] >= opt.STD_COPIES,
         pc[p] = "killed" => x = "killed"
  PROVE  CopyInv'
<1>1. 1 \in Procs
  BY BoundsAssumption DEF Procs
<1>2. TypeOK'
  BY DEF CopyInv, TypeOK, once
<1>3. Running' = Running
  BY DEF CopyInv, TypeOK, Running
<1>4. pc'[1] \notin {"parse", "fork", "killed"} => cnt[1] = Wanted
  BY <1>1 DEF CopyInv, TypeOK, Wanted, Options
<1>5. pc'[1] = "parse" => pc[1] = "parse" /\ p = 1
  BY <1>1 DEF CopyInv, TypeOK
<1> QED
  BY <1>1, <1>2, <1>3, <1>4, <1>5 DEF CopyInv, TypeOK, Wanted, once

(* One step per action.                                                    *)
LEMMA StepInv == CopyInv /\ [Next]_vars => CopyInv'
<1> SUFFICES ASSUME CopyInv, [Next]_vars PROVE CopyInv'
  OBVIOUS
<1> USE DEF Places, once
<1>0. TypeOK /\ 1 \in Procs /\ opt.STD_COPIES \in Int
  BY BoundsAssumption DEF CopyInv, Procs, TypeOK, Options
<1>9. CASE ParseOption
  <2>1. opt' \in Options
    BY <1>0, <1>9, Argument, OptionEffect DEF ParseOption, TypeOK
  <2>2. TypeOK'
    BY <1>0, <1>9, <2>1 DEF ParseOption, TypeOK
  <2>3. Running' = Running
    BY <1>9 DEF ParseOption, Running
  <2>4. Wanted' \in Nat \ {0}
    BY <2>1 DEF Wanted, Options
  <2>5. Running \ {1} = {}
    BY <1>9 DEF CopyInv, ParseOption, Running
  <2> QED
    BY <1>0, <1>9, <2>2, <2>3, <2>4, <2>5 DEF ParseOption, CopyInv, TypeOK
<1>10. CASE ParseEnds
  <2>1. opt' \in Options /\ opt'.status = opt.status
    BY <1>0, <1>10, EnvironmentEffect, RunsAssumption DEF ParseEnds, TypeOK
  <2>2. TypeOK' /\ pc'[1] = IF opt.status = "ok" THEN "fork" ELSE "exited"
    BY <1>0, <1>10, <2>1 DEF ParseEnds, TypeOK, Goto
  <2>3. Running' = Running /\ \A p \in Procs \ {1} : pc'[p] = "none"
    BY <1>0, <1>10 DEF CopyInv, ParseEnds, TypeOK, Running, Goto
  <2>4. Wanted' \in Nat \ {0} /\ (opt.status # "ok" => Wanted' = 1)
    BY <2>1 DEF Wanted, Options
  <2>5. Running \ {1} = {}
    BY <1>10 DEF CopyInv, ParseEnds, Running
  <2> QED
    BY <1>0, <1>10, <2>1, <2>2, <2>3, <2>4, <2>5 DEF ParseEnds, CopyInv, TypeOK
<1>1. ASSUME NEW p \in Procs, Fork(p) PROVE CopyInv'
  <2>1. p = 1 /\ opt.status = "ok" /\ cnt[1] < opt.STD_COPIES /\ cnt[1] \in Nat \ {0}
    BY <1>0, <1>1 DEF Fork, CopyInv, TypeOK, Running
  <2>2. ASSUME NEW q \in Procs, pc[q] = "none", Goto(q, "fork"), Counts(p, q),
               UNCHANGED <<once, forkfails>>
        PROVE  CopyInv'
    <3>1. TypeOK' /\ q # 1
      BY <1>0, <2>1, <2>2 DEF CopyInv, TypeOK, Goto, Counts
    <3>2. Running' = Running \cup {q} /\ q \notin Running
      BY <1>0, <2>2 DEF TypeOK, Goto, Running
    <3>3. Cardinality(Running') = Cardinality(Running) + 1 /\ Cardinality(Running) \in Nat
      BY <1>0, <3>2, RunningFinite, FS_AddElement
    <3>4. /\ cnt'[1] = cnt[1] + 1 /\ cnt'[q] = opt.STD_COPIES + 1 /\ pc'[1] = pc[1]
          /\ \A r \in Procs \ {1, q} : cnt'[r] = cnt[r]
      BY <1>0, <2>1, <2>2, <3>1 DEF TypeOK, Goto, Counts
    <3>5. \A r \in Running' \ {1} : cnt'[r] >= opt'.STD_COPIES
      BY <1>0, <2>2, <3>2, <3>4 DEF CopyInv, TypeOK, Running
    <3>6. pc[1] = "fork"
      BY <1>1, <2>1 DEF Fork
    <3>7. Wanted' = Wanted /\ Wanted = opt.STD_COPIES /\ opt' = opt
      <4>1. opt' = opt
        BY <2>2
      <4>2. opt.STD_COPIES > 1
        BY <1>0, <2>1
      <4> QED
        BY <2>1, <4>1, <4>2 DEF Wanted
    <3>8. cnt'[1] \in 1 .. Wanted' /\ Cardinality(Running') + forkfails' = cnt'[1]
      <4>1. Cardinality(Running) + forkfails = cnt[1] /\ forkfails' = forkfails
        BY <2>2 DEF CopyInv
      <4>2. forkfails \in Int /\ Cardinality(Running) \in Int
        BY <1>0, <3>3 DEF TypeOK
      <4> QED
        BY <1>0, <2>1, <3>3, <3>4, <3>7, <4>1, <4>2
    <3> QED
      BY <2>1, <3>1, <3>4, <3>5, <3>6, <3>7, <3>8 DEF CopyInv
  <2>3. CASE cnt' = [cnt EXCEPT ![p] = @ + 1] /\ forkfails' = forkfails + 1 /\ UNCHANGED <<once, pc>>
    <3>1. TypeOK'
      BY <1>0, <2>3 DEF TypeOK
    <3>2. Running' = Running /\ Cardinality(Running) \in Nat
      BY <1>0, <2>3, RunningFinite DEF Running
    <3>3. cnt'[1] = cnt[1] + 1 /\ \A r \in Procs \ {1} : cnt'[r] = cnt[r]
      BY <1>0, <2>1, <2>3 DEF TypeOK
    <3>4. pc[1] = "fork"
      BY <1>1, <2>1 DEF Fork
    <3> QED
      BY <1>0, <2>1, <2>3, <3>1, <3>2, <3>3, <3>4 DEF CopyInv, TypeOK, Wanted, Running
  <2> QED
    BY <1>1, <2>2, <2>3 DEF Fork
<1>2. ASSUME NEW p \in Procs, ForkEnds(p) PROVE CopyInv'
  <2> DEFINE x == IF opt.STD_PAUSE = 1 THEN "signal" ELSE "first"
  <2>1. x \in Places \ {"none", "parse", "fork", "killed"}
    OBVIOUS
  <2>2. /\ pc[p] = "fork" /\ cnt[p] >= opt.STD_COPIES /\ pc' = [pc EXCEPT ![p] = x]
        /\ UNCHANGED <<once, cnt, forkfails>>
    BY <1>2 DEF ForkEnds, Goto
  <2> HIDE DEF x
  <2> QED
    BY <2>1, <2>2, Moves
<1>3. ASSUME NEW p \in Procs, InstallHandler(p) \/ Pause(p) \/ Resume(p) PROVE CopyInv'
  BY <1>3, Moves DEF InstallHandler, Pause, Resume, Goto
<1>4. ASSUME NEW p \in Procs, FirstCall(p) \/ DelayEnds(p) \/ LoopEnds(p) PROVE CopyInv'
  BY <1>4, Moves DEF FirstCall, DelayEnds, LoopEnds, Goto
<1>5. ASSUME NEW p \in Procs, NextCall(p) PROVE CopyInv'
  BY <1>5, Moves DEF NextCall, Goto
<1>6. ASSUME NEW p \in Procs, Iterate(p) PROVE CopyInv'
  BY <1>6, Moves DEF Iterate, Goto
<1>7. ASSUME NEW p \in Procs, EarlySignal(p) PROVE CopyInv'
  <2>1. CASE UNCHANGED pc
    BY <1>7, <2>1 DEF EarlySignal, CopyInv, TypeOK, Running, Wanted
  <2>2. CASE Goto(p, "killed")
    BY <1>7, <2>2, Moves DEF EarlySignal, Goto
  <2> QED
    BY <1>7, <2>1, <2>2 DEF EarlySignal
<1>8. CASE UNCHANGED <<once, pc, cnt, forkfails>>
  BY <1>8 DEF CopyInv, TypeOK, Running, Wanted
<1> QED
  BY <1>1, <1>2, <1>3, <1>4, <1>5, <1>6, <1>7, <1>8, <1>9, <1>10 DEF Next, Step, Tick, Ended, vars

(* STD_COPIES processes run once the first has left its loop, one less for *)
(* each fork that failed (usc_global_setup_hook, PO 618-632): no copy ever *)
(* forks, whenever it is scheduled.                                        *)
THEOREM CopiesCounted == Spec => []CopiesMade
<1>1. Init => CopyInv
  BY InitInv
<1>2. CopyInv /\ [Next]_vars => CopyInv'
  BY StepInv
<1>3. CopyInv => CopiesMade
  <2> SUFFICES ASSUME CopyInv PROVE CopiesMade
    OBVIOUS
  <2>1. Cardinality(Running) \in Nat
    BY RunningFinite DEF CopyInv
  <2> QED
    BY <2>1 DEF CopyInv, CopiesMade, TypeOK, Running, Wanted
<1> QED
  BY <1>1, <1>2, <1>3, PTL DEF Spec

-----------------------------------------------------------------------------
(* What a quotient is.                                                     *)
LEMMA Quotient ==
  ASSUME NEW n \in Nat, NEW d \in Nat \ {0}
  PROVE  n \div d \in Nat /\ n % d \in 0 .. d - 1 /\ n = d * (n \div d) + (n % d)
BY Z3

(* Adding to the clock: it wraps at most once.                             *)
LEMMA Wrap ==
  ASSUME NEW v \in -W .. 3 * W - 1
  PROVE  Int32(v) = IF v < W THEN v ELSE v - 2 * W
<1> DEFINE m == 2 * W
           u == v + W
<1>1. m \in Nat \ {0} /\ u \in Nat /\ u \in 0 .. 2 * m - 1 /\ (u < m <=> v < W)
  BY BoundsAssumption
<1> HIDE DEF m, u
<1>2. u % m \in 0 .. m - 1 /\ u = m * (u \div m) + (u % m) /\ u \div m \in Nat
  BY <1>1, Quotient
<1>3. u \div m > 1 => m * (u \div m) >= 2 * m
  BY <1>1, <1>2, Z3
<1>4. u % m = IF u < m THEN u ELSE u - m
  <2>1. CASE u \div m = 0
    BY <1>1, <1>2, <2>1
  <2>2. CASE u \div m = 1
    BY <1>1, <1>2, <2>2
  <2>3. CASE u \div m > 1
    <3>1. u >= 2 * m
      <4> DEFINE x == m * (u \div m)
      <4>1. x \in Int /\ x >= 2 * m /\ u >= x
        BY <1>1, <1>2, <1>3, <2>3
      <4> QED
        BY <1>1, <4>1
    <3> QED
      BY <1>1, <3>1
  <2> QED
    BY <1>1, <1>2, <2>1, <2>2, <2>3
<1>5. Int32(v) = (u % m) - W
  BY DEF Int32, m, u
<1> QED
  BY <1>1, <1>4, <1>5, BoundsAssumption DEF m, u

(***************************************************************************)
(* The loop.                                                               *)
(***************************************************************************)

(* What the options behind the first n arguments say.                      *)
ParsedInv ==
  pc[1] = "parse" =>
    LET i == Last("i", optind - 1)
        d == Last("I", optind - 1) IN
    /\ "iteration" \in opt.options <=> i # JUNK
    /\ opt.STD_LOOP_COUNT = IF i = JUNK THEN 1 ELSE i
    /\ i = 0 => opt.STD_INFINITE = 1
    /\ "duration" \in opt.options <=> d # JUNK
    /\ opt.STD_LOOP_DURATION = IF d = JUNK THEN 0 ELSE d
    /\ d = 0 => opt.STD_INFINITE = 1

(* The places of a process whose options were in order.                    *)
Beyond == Places \ {"none", "parse", "exited", "killed"}

AskedInv ==
  (\E p \in Procs : pc[p] \in Beyond) =>
    /\ opt.status = "ok"
    /\ AskedCount = 0 => opt.STD_INFINITE = 1
    /\ AskedCount # 0 => opt.STD_LOOP_COUNT = AskedCount
    /\ AskedTime = 0 => opt.STD_INFINITE = 1
    /\ opt.STD_LOOP_DURATION = IF AskedTime = JUNK THEN 0 ELSE AskedTime

LoopType ==
  /\ now \in -W .. W - 1
  /\ lc \in [Procs -> 0 .. MAXLC] /\ elapsed \in [Procs -> 0 .. W] /\ stop_time \in [Procs -> Int]

(* Does the stop time fit an int?                                          *)
Fits(p) ==
  /\ opt.STD_LOOP_DURATION \in 1 .. W - 1
  /\ stop_time[p] - opt.STD_LOOP_DURATION >= -W

(* The clock has not moved on by more than the ticks since the loop began. *)
Count(p) ==
  /\ pc[p] \notin {"decide", "next", "delay", "done", "killed", "crashed"} => lc[p] = 0 /\ elapsed[p] = 0
  /\ (opt.STD_INFINITE = 0 /\ opt.STD_LOOP_DURATION = 0 /\ pc[p] \in Beyond) =>
       lc[p] <= IF opt.STD_LOOP_COUNT > 0 THEN opt.STD_LOOP_COUNT ELSE 0
  /\ (pc[p] \in {"decide", "next", "delay"} /\ Fits(p)) =>
       elapsed[p] = W \/ now <= stop_time[p] - opt.STD_LOOP_DURATION + elapsed[p]
  /\ pc[p] = "done" =>
       /\ opt.STD_INFINITE = 0
       /\ opt.STD_LOOP_COUNT = 0 \/ lc[p] >= opt.STD_LOOP_COUNT
       /\ Fits(p) => elapsed[p] >= opt.STD_LOOP_DURATION

CountInv == \A p \in Procs : Count(p)

LoopInv == CopyInv /\ ParsedInv /\ AskedInv /\ LoopType /\ CountInv

-----------------------------------------------------------------------------

(* The steps that parse, and what all others leave alone.                  *)
LEMMA Kinds ==
  ASSUME CopyInv, [Next]_vars
  PROVE  \/ ParseOption
         \/ ParseEnds
         \/ /\ UNCHANGED once
            /\ pc'[1] = "parse" => pc[1] = "parse"
            /\ (\E p \in Procs : pc'[p] \in Beyond) => \E p \in Procs : pc[p] \in Beyond
<1> USE DEF Places, Beyond
<1> DEFINE Others == /\ UNCHANGED once
                     /\ pc'[1] = "parse" => pc[1] = "parse"
                     /\ (\E p \in Procs : pc'[p] \in Beyond) => \E p \in Procs : pc[p] \in Beyond
<1>0. TypeOK /\ 1 \in Procs
  BY BoundsAssumption DEF CopyInv, Procs
<1>1. ASSUME NEW p \in Procs, Fork(p) PROVE Others
  <2>1. pc[p] \in Beyond /\ UNCHANGED once
    BY <1>1 DEF Fork
  <2>2. pc'[1] = "parse" => pc[1] = "parse"
    BY <1>0, <1>1 DEF Fork, Goto, TypeOK
  <2> QED
    BY <2>1, <2>2
<1>2. ASSUME NEW p \in Procs,
             ForkEnds(p) \/ InstallHandler(p) \/ Pause(p) \/ Resume(p) \/ FirstCall(p)
               \/ NextCall(p) \/ DelayEnds(p) \/ Iterate(p) \/ LoopEnds(p)
      PROVE  Others
  <2>1. pc[p] \in Beyond /\ UNCHANGED once
    BY <1>2 DEF ForkEnds, InstallHandler, Pause, Resume, FirstCall, NextCall, DelayEnds, Iterate, LoopEnds
  <2>2. \E x \in Beyond : pc' = [pc EXCEPT ![p] = x]
    BY <1>2 DEF ForkEnds, InstallHandler, Pause, Resume, FirstCall, NextCall, DelayEnds, Iterate, LoopEnds, Goto
  <2>3. pc'[1] = "parse" => pc[1] = "parse"
    BY <1>0, <2>2 DEF TypeOK
  <2> QED
    BY <2>1, <2>3
<1>3. ASSUME NEW p \in Procs, EarlySignal(p) PROVE Others
  BY <1>0, <1>3 DEF EarlySignal, Goto, TypeOK
<1>4. CASE UNCHANGED <<once, pc>>
  BY <1>4
<1> QED
  BY <1>1, <1>2, <1>3, <1>4 DEF Next, Step, Tick, Ended, vars

(* While options are parsed nobody is in the program.                      *)
LEMMA NobodyBeyond ==
  ASSUME CopyInv, pc[1] = "parse"
  PROVE  \A p \in Procs : pc[p] \notin Beyond /\ (p # 1 => pc[p] = "none")
BY DEF CopyInv, Beyond, Places

(* Each option counts, the last of its letter.                             *)
LEMMA ParsedStep ==
  ASSUME CopyInv, ParsedInv, [Next]_vars
  PROVE  ParsedInv'
<1> SUFFICES ASSUME pc'[1] = "parse" PROVE ParsedInv'
  BY DEF ParsedInv
<1>0. TypeOK /\ 1 \in Procs
  BY BoundsAssumption DEF CopyInv, Procs
<1>1. CASE ParseOption
  <2> DEFINE k == optind
             x == run.argv[k]
             n == Option(opt, x)
  <2>1. pc[1] = "parse" /\ k \in 1 .. Len(run.argv) /\ opt' = n /\ optind' = k + 1 /\ run' = run
    BY <1>0, <1>1 DEF ParseOption, TypeOK
  <2>2. opt \in Options /\ x \in STRING \X Int /\ x[2] \in Int /\ k - 1 \in Nat
    BY <1>0, <2>1, Argument DEF TypeOK
  <2>3. \A l : Last(l, k) = IF x[1] = l THEN x[2] ELSE Last(l, k - 1)
    <3> DEFINE m == k - 1
    <3>1. m \in Nat /\ m + 1 = k
      BY <2>2, <2>1
    <3> HIDE DEF m
    <3>2. \A l : Last(l, m + 1) = IF run.argv[m + 1][1] = l THEN run.argv[m + 1][2] ELSE Last(l, m)
      BY <3>1, LastOfMore
    <3> QED
      BY <3>1, <3>2 DEF m
  <2>4. \A l : Last(l, optind - 1)' = Last(l, k)
    BY <2>1, <2>2 DEF Last
  <2>5. /\ "iteration" \in n.options <=> (x[1] = "i" \/ "iteration" \in opt.options)
        /\ n.STD_LOOP_COUNT = IF x[1] = "i" THEN x[2] ELSE opt.STD_LOOP_COUNT
        /\ "duration" \in n.options <=> (x[1] = "I" \/ "duration" \in opt.options)
        /\ n.STD_LOOP_DURATION = IF x[1] = "I" THEN x[2] ELSE opt.STD_LOOP_DURATION
        /\ (x[1] \in {"i", "I"} /\ x[2] = 0) \/ opt.STD_INFINITE = 1 => n.STD_INFINITE = 1
    BY <2>2, OptionEffect
  <2>6. JUNK # x[2]
    BY <2>2, RunsAssumption
  <2> HIDE DEF n, x, k
  <2> DEFINE i == Last("i", k - 1)
             d == Last("I", k - 1)
  <2>7. /\ "iteration" \in opt.options <=> i # JUNK
        /\ opt.STD_LOOP_COUNT = IF i = JUNK THEN 1 ELSE i
        /\ i = 0 => opt.STD_INFINITE = 1
        /\ "duration" \in opt.options <=> d # JUNK
        /\ opt.STD_LOOP_DURATION = IF d = JUNK THEN 0 ELSE d
        /\ d = 0 => opt.STD_INFINITE = 1
    BY <2>1 DEF ParsedInv, k
  <2> DEFINE i1 == Last("i", optind - 1)'
             d1 == Last("I", optind - 1)'
  <2>8. i1 = (IF x[1] = "i" THEN x[2] ELSE i) /\ d1 = (IF x[1] = "I" THEN x[2] ELSE d)
    BY <2>3, <2>4
  <2> HIDE DEF i, d, i1, d1
  <2>9. /\ "iteration" \in n.options <=> i1 # JUNK
        /\ n.STD_LOOP_COUNT = IF i1 = JUNK THEN 1 ELSE i1
        /\ i1 = 0 => n.STD_INFINITE = 1
        /\ "duration" \in n.options <=> d1 # JUNK
        /\ n.STD_LOOP_DURATION = IF d1 = JUNK THEN 0 ELSE d1
        /\ d1 = 0 => n.STD_INFINITE = 1
    BY <2>5, <2>6, <2>7, <2>8
  <2> QED
    BY <2>1, <2>9 DEF ParsedInv, i1, d1
<1>2. CASE ParseEnds
  BY <1>0, <1>2 DEF ParseEnds, Goto, TypeOK, CopyInv
<1>3. CASE UNCHANGED once /\ pc[1] = "parse"
  <2>1. \A l, n : Last(l, n)' = Last(l, n')
    BY <1>3 DEF once, Last
  <2> QED
    BY <1>3, <2>1 DEF ParsedInv, once
<1> QED
  BY <1>1, <1>2, <1>3, Kinds

(* Behind the environment the options are what was asked for.              *)
LEMMA AskedStep ==
  ASSUME CopyInv, ParsedInv, AskedInv, [Next]_vars
  PROVE  AskedInv'
<1>0. TypeOK /\ 1 \in Procs
  BY BoundsAssumption DEF CopyInv, Procs
<1>1. CASE ParseOption
  BY <1>1, NobodyBeyond DEF ParseOption, AskedInv
<1>2. CASE ParseEnds /\ opt.status # "ok"
  <2>1. \A p \in Procs : pc'[p] \notin Beyond
    BY <1>0, <1>2, NobodyBeyond DEF ParseEnds, Goto, TypeOK, Beyond
  <2> QED
    BY <2>1 DEF AskedInv
<1>3. CASE ParseEnds /\ opt.status = "ok"
  <2> DEFINE env == run.env
             n == Environment(opt, env)
             i == Last("i", Len(run.argv))
             d == Last("I", Len(run.argv))
             count == Uses(opt, env, "USC_ITERATIONS", "iteration")
             Timed(var) == Uses(opt, env, var, "duration") /\ env[var] >= 0
  <2>1. /\ pc[1] = "parse" /\ optind - 1 = Len(run.argv) /\ opt' = n /\ run' = run
        /\ opt \in Options /\ \A v \in DOMAIN env : env[v] \in Int \cup {JUNK}
    BY <1>0, <1>3, RunsAssumption DEF ParseEnds, TypeOK
  <2>2. /\ n.status = opt.status
        /\ n.STD_LOOP_COUNT = IF count /\ env["USC_ITERATIONS"] # 0 THEN env["USC_ITERATIONS"]
                                                                    ELSE opt.STD_LOOP_COUNT
        /\ opt.STD_INFINITE = 1 \/ (count /\ env["USC_ITERATIONS"] = 0) => n.STD_INFINITE = 1
        /\ n.STD_LOOP_DURATION = IF Timed("USC_DURATION") THEN env["USC_DURATION"]
                                 ELSE IF Timed("USC_LOOP_WALLTIME") THEN env["USC_LOOP_WALLTIME"]
                                 ELSE opt.STD_LOOP_DURATION
        /\ (Timed("USC_DURATION") /\ env["USC_DURATION"] = 0) => n.STD_INFINITE = 1
        /\ (Timed("USC_LOOP_WALLTIME") /\ env["USC_LOOP_WALLTIME"] = 0) => n.STD_INFINITE = 1
    BY <2>1, EnvironmentEffect
  <2>3. /\ "iteration" \in opt.options <=> i # JUNK
        /\ opt.STD_LOOP_COUNT = IF i = JUNK THEN 1 ELSE i
        /\ i = 0 => opt.STD_INFINITE = 1
        /\ "duration" \in opt.options <=> d # JUNK
        /\ opt.STD_LOOP_DURATION = IF d = JUNK THEN 0 ELSE d
        /\ d = 0 => opt.STD_INFINITE = 1
    BY <2>1 DEF ParsedInv
  <2>4. /\ count <=> Env("USC_ITERATIONS") # JUNK /\ i = JUNK
        /\ env["USC_ITERATIONS"] = Env("USC_ITERATIONS") \/ ~count
    BY <2>3, RunsAssumption DEF Uses, Env
  <2>5. \A var \in {"USC_DURATION", "USC_LOOP_WALLTIME"} :
          /\ Timed(var) <=> Env(var) # JUNK /\ Env(var) >= 0 /\ d = JUNK
          /\ env[var] = Env(var) \/ ~Timed(var)
    BY <2>3, RunsAssumption DEF Uses, Env
  <2>6. AskedCount = (IF i # JUNK THEN i ELSE IF Env("USC_ITERATIONS") # JUNK THEN Env("USC_ITERATIONS") ELSE 1)
    BY DEF AskedCount
  <2>7. AskedTime = (IF d # JUNK THEN d
                     ELSE IF Env("USC_DURATION") # JUNK /\ Env("USC_DURATION") >= 0 THEN Env("USC_DURATION")
                     ELSE IF Env("USC_LOOP_WALLTIME") # JUNK /\ Env("USC_LOOP_WALLTIME") >= 0
                          THEN Env("USC_LOOP_WALLTIME")
                     ELSE JUNK)
    BY DEF AskedTime
  <2>8. AskedCount' = AskedCount /\ AskedTime' = AskedTime
    BY <2>1 DEF AskedCount, AskedTime, Env, Last
  <2> HIDE DEF n, i, d, count, Timed, env
  <2>9. AskedCount = 0 => n.STD_INFINITE = 1
    BY <2>2, <2>3, <2>4, <2>6
  <2>10. AskedCount # 0 => n.STD_LOOP_COUNT = AskedCount
    BY <2>2, <2>3, <2>4, <2>6
  <2>11. /\ n.STD_LOOP_DURATION = IF AskedTime = JUNK THEN 0 ELSE AskedTime
         /\ AskedTime = 0 => n.STD_INFINITE = 1
    <3>1. /\ Timed("USC_DURATION") <=> Env("USC_DURATION") # JUNK /\ Env("USC_DURATION") >= 0 /\ d = JUNK
          /\ env["USC_DURATION"] = Env("USC_DURATION") \/ ~Timed("USC_DURATION")
          /\ Timed("USC_LOOP_WALLTIME") <=> Env("USC_LOOP_WALLTIME") # JUNK
                                            /\ Env("USC_LOOP_WALLTIME") >= 0 /\ d = JUNK
          /\ env["USC_LOOP_WALLTIME"] = Env("USC_LOOP_WALLTIME") \/ ~Timed("USC_LOOP_WALLTIME")
      BY <2>5
    <3> QED
      BY <2>2, <2>3, <2>7, <3>1, RunsAssumption
  <2> QED
    BY <1>3, <2>1, <2>2, <2>8, <2>9, <2>10, <2>11 DEF AskedInv
<1>4. CASE /\ UNCHANGED once
           /\ (\E p \in Procs : pc'[p] \in Beyond) => \E p \in Procs : pc[p] \in Beyond
  <2>1. AskedCount' = AskedCount /\ AskedTime' = AskedTime
    BY <1>4 DEF once, AskedCount, AskedTime, Env, Last
  <2> QED
    BY <1>4, <2>1 DEF AskedInv, once
<1> QED
  BY <1>1, <1>2, <1>3, <1>4, Kinds

(* The variables of the loop keep their types.                             *)
LEMMA LoopTypeStep ==
  ASSUME TypeOK, LoopType, [Next]_vars
  PROVE  LoopType'
<1>1. CASE Tick
  <2>1. Int32(now + 1) \in -W .. W - 1
    BY BoundsAssumption, Wrap DEF LoopType
  <2>2. elapsed' \in [Procs -> 0 .. W]
    BY <1>1, BoundsAssumption DEF LoopType, Tick
  <2> QED
    BY <1>1, <2>1, <2>2 DEF LoopType, Tick
<1>2. ASSUME NEW p \in Procs, FirstCall(p) PROVE LoopType'
  <2>1. \A v \in Int : Int32(v) \in Int
    BY BoundsAssumption, Quotient DEF Int32
  <2>2. \A d \in ToInt(opt.STD_LOOP_DURATION) : Int32(d + now) \in Int
    BY <2>1, BoundsAssumption DEF ToInt, TypeOK, Options, LoopType
  <2>3. stop_time' \in [Procs -> Int]
    BY <1>2, <2>2 DEF FirstCall, LoopType
  <2> QED
    BY <1>2, <2>3 DEF FirstCall, LoopType
<1>3. ASSUME NEW p \in Procs, Iterate(p) PROVE LoopType'
  BY <1>3, BoundsAssumption DEF Iterate, LoopType
<1>4. CASE UNCHANGED <<now, lc, elapsed, stop_time>>
  BY <1>4 DEF LoopType
<1> QED
  BY <1>1, <1>2, <1>3, <1>4
     DEF Next, Step, ParseOption, ParseEnds, Fork, ForkEnds, InstallHandler, Pause, Resume, EarlySignal,
         NextCall, DelayEnds, LoopEnds, Ended, vars

(* Who does not move keeps his count.                                      *)
LEMMA Stays ==
  ASSUME NEW q \in Procs, Count(q), UNCHANGED <<opt, now>>,
         pc'[q] = pc[q], lc'[q] = lc[q], elapsed'[q] = elapsed[q], stop_time'[q] = stop_time[q]
  PROVE  Count(q)'
BY DEF Count, Fits

(* One step per action: the process that moves, and the clock.             *)
LEMMA CountStep ==
  ASSUME CopyInv, LoopType, CountInv, [Next]_vars
  PROVE  CountInv'
<1> USE DEF Places, Beyond
<1>0. /\ TypeOK /\ 1 \in Procs
      /\ opt.STD_LOOP_COUNT \in Int /\ opt.STD_LOOP_DURATION \in Int /\ opt.STD_INFINITE \in {0, 1}
  BY BoundsAssumption DEF CopyInv, Procs, TypeOK, Options
<1>a. ASSUME NEW p \in Procs, UNCHANGED <<opt, now>>, Count(p)',
             \A q \in Procs \ {p} : pc'[q] = pc[q] /\ lc'[q] = lc[q] /\ elapsed'[q] = elapsed[q]
                                      /\ stop_time'[q] = stop_time[q]
      PROVE  CountInv'
  BY <1>a, Stays DEF CountInv
<1>1. CASE ParseOption \/ ParseEnds
  <2>1. \A q \in Procs : pc[q] \in {"none", "parse"} /\ pc'[q] \in {"none", "parse", "fork", "exited"}
    BY <1>0, <1>1, NobodyBeyond DEF ParseOption, ParseEnds, Goto, TypeOK, CopyInv
  <2>2. \A q \in Procs : lc'[q] = 0 /\ elapsed'[q] = 0
    BY <1>1, <2>1 DEF CountInv, Count, ParseOption, ParseEnds
  <2>3. opt' \in Options
    BY <1>0, <1>1, StepInv DEF CopyInv, TypeOK
  <2> QED
    BY <2>1, <2>2, <2>3 DEF CountInv, Count, Options
<1>2. ASSUME NEW p \in Procs, Fork(p) PROVE CountInv'
  <2>1. CASE UNCHANGED pc
    BY <1>2, <2>1, Stays DEF Fork, once, CountInv
  <2>2. ASSUME NEW q \in Procs, pc[q] = "none", Goto(q, "fork") PROVE CountInv'
    <3>1. pc'[q] = "fork" /\ lc'[q] = 0 /\ elapsed'[q] = 0
      BY <1>0, <1>2, <2>2 DEF Fork, Goto, TypeOK, CountInv, Count
    <3>2. Count(q)'
      BY <1>0, <1>2, <3>1 DEF Count, Fork, once
    <3> QED
      BY <1>0, <1>2, <2>2, <3>2, <1>a DEF Fork, Goto, TypeOK, once
  <2> QED
    BY <1>2, <2>1, <2>2 DEF Fork
<1>3. ASSUME NEW p \in Procs, ForkEnds(p) \/ InstallHandler(p) \/ Pause(p) \/ Resume(p) PROVE CountInv'
  <2>1. /\ pc[p] \in {"fork", "signal", "installed", "pause"}
        /\ \E x \in {"signal", "installed", "pause", "first"} : pc' = [pc EXCEPT ![p] = x]
        /\ UNCHANGED <<opt, now, lc, elapsed, stop_time>>
    BY <1>3 DEF ForkEnds, InstallHandler, Pause, Resume, Goto, once
  <2>2. pc'[p] \in {"signal", "installed", "pause", "first"} /\ lc'[p] = 0 /\ elapsed'[p] = 0
    BY <1>0, <2>1 DEF TypeOK, CountInv, Count
  <2>3. Count(p)'
    BY <1>0, <2>1, <2>2 DEF Count
  <2> QED
    BY <1>0, <2>1, <2>3, <1>a DEF TypeOK
<1>4. ASSUME NEW p \in Procs, EarlySignal(p) PROVE CountInv'
  <2>1. CASE UNCHANGED pc
    BY <1>4, <2>1, Stays DEF EarlySignal, once, CountInv
  <2>2. CASE Goto(p, "killed")
    <3>1. Count(p)'
      BY <1>0, <2>2 DEF Goto, TypeOK, Count
    <3> QED
      BY <1>0, <1>4, <2>2, <3>1, <1>a DEF EarlySignal, Goto, TypeOK, once
  <2> QED
    BY <1>4, <2>1, <2>2 DEF EarlySignal
<1>5. ASSUME NEW p \in Procs, FirstCall(p) PROVE CountInv'
  <2> DEFINE D == opt.STD_LOOP_DURATION
  <2>1. /\ pc[p] = "first" /\ pc' = [pc EXCEPT ![p] = "decide"]
        /\ UNCHANGED <<opt, now, lc, elapsed>>
        /\ \E d \in ToInt(D) : stop_time' = IF D # 0 THEN [stop_time EXCEPT ![p] = Int32(d + now)]
                                                     ELSE stop_time
    BY <1>5 DEF FirstCall, Goto, once
  <2>2. pc'[p] = "decide" /\ lc'[p] = 0 /\ elapsed'[p] = 0
    BY <1>0, <2>1 DEF TypeOK, CountInv, Count
  <2>3. Fits(p)' => now <= stop_time'[p] - D
    <3> SUFFICES ASSUME D \in 1 .. W - 1, stop_time'[p] - D >= -W
                 PROVE  now <= stop_time'[p] - D
      BY <2>1 DEF Fits
    <3>1. stop_time'[p] = Int32(D + now)
      BY <2>1, BoundsAssumption DEF ToInt, LoopType
    <3>2. D + now \in -W .. 3 * W - 1 /\ now < W /\ now \in Int /\ D \in Int
      BY BoundsAssumption DEF LoopType
    <3>3. Int32(D + now) = IF D + now < W THEN D + now ELSE D + now - 2 * W
      <4> DEFINE v == D + now
      <4>1. v \in -W .. 3 * W - 1
        BY <3>2
      <4> HIDE DEF v
      <4>2. Int32(v) = IF v < W THEN v ELSE v - 2 * W
        BY <4>1, Wrap
      <4> QED
        BY <3>2, <4>2, BoundsAssumption DEF v
    <3> HIDE DEF D
    <3> QED
      BY <3>1, <3>2, <3>3, BoundsAssumption
  <2>4. stop_time'[p] \in Int
    BY LoopTypeStep, <1>0 DEF LoopType
  <2>5. Count(p)'
    BY <1>0, <2>1, <2>2, <2>3, <2>4 DEF Count, LoopType
  <2>6. \A q \in Procs \ {p} : pc'[q] = pc[q] /\ stop_time'[q] = stop_time[q]
    BY <1>0, <2>1 DEF TypeOK, LoopType
  <2> QED
    BY <2>1, <2>5, <2>6, <1>a
<1>6. ASSUME NEW p \in Procs, NextCall(p) \/ DelayEnds(p) PROVE CountInv'
  <2>1. /\ pc[p] \in {"next", "delay"} /\ UNCHANGED <<opt, now, lc, elapsed, stop_time>>
        /\ \E x \in {"delay", "decide"} : pc' = [pc EXCEPT ![p] = x]
    BY <1>6 DEF NextCall, DelayEnds, Goto, once
  <2>2. pc'[p] \in {"delay", "decide"}
    BY <1>0, <2>1 DEF TypeOK
  <2>3. Count(p)'
    BY <2>1, <2>2 DEF CountInv, Count, Fits
  <2> QED
    BY <1>0, <2>1, <2>3, <1>a DEF TypeOK
<1>7. ASSUME NEW p \in Procs, Iterate(p) PROVE CountInv'
  <2>1. /\ pc[p] = "decide" /\ Keepgoing(p) /\ UNCHANGED <<opt, now, elapsed, stop_time>>
        /\ \/ pc' = [pc EXCEPT ![p] = "crashed"] /\ lc' = lc
           \/ /\ pc' = [pc EXCEPT ![p] = "next"]
              /\ lc' = [lc EXCEPT ![p] = IF @ < MAXLC THEN @ + 1 ELSE @]
    BY <1>7 DEF Iterate, Goto, once
  <2>2. pc'[p] \in {"crashed", "next"} /\ lc'[p] \in {lc[p], lc[p] + 1} /\ lc[p] \in Nat
    BY <1>0, <2>1, BoundsAssumption DEF TypeOK, LoopType
  <2>3. (opt.STD_INFINITE = 0 /\ opt.STD_LOOP_DURATION = 0) => opt.STD_LOOP_COUNT # 0 /\ lc[p] < opt.STD_LOOP_COUNT
    BY <2>1 DEF Keepgoing
  <2>4. Count(p)
    BY DEF CountInv
  <2>5. Count(p)'
    BY <1>0, <2>1, <2>2, <2>3, <2>4 DEF Count, Fits
  <2>6. \A q \in Procs \ {p} : pc'[q] = pc[q] /\ lc'[q] = lc[q]
    BY <1>0, <2>1 DEF TypeOK, LoopType
  <2> QED
    BY <2>1, <2>5, <2>6, <1>a
<1>8. ASSUME NEW p \in Procs, LoopEnds(p) PROVE CountInv'
  <2>1. /\ pc[p] = "decide" /\ ~Keepgoing(p) /\ UNCHANGED <<opt, now, elapsed, stop_time, lc>>
        /\ pc' = [pc EXCEPT ![p] = "done"]
    BY <1>8 DEF LoopEnds, Goto, once
  <2>2. pc'[p] = "done" /\ elapsed[p] \in 0 .. W /\ lc[p] \in Nat /\ now \in Int /\ stop_time[p] \in Int
    BY <1>0, <2>1, BoundsAssumption DEF TypeOK, LoopType
  <2>3. /\ opt.STD_INFINITE = 0
        /\ opt.STD_LOOP_COUNT = 0 \/ lc[p] >= opt.STD_LOOP_COUNT
        /\ opt.STD_LOOP_DURATION = 0 \/ now >= stop_time[p]
    BY <1>0, <2>1, <2>2 DEF Keepgoing
  <2>4. Count(p)
    BY DEF CountInv
  <2>5. Fits(p) => elapsed[p] >= opt.STD_LOOP_DURATION
    BY <1>0, <2>1, <2>2, <2>3, <2>4, BoundsAssumption DEF Count, Fits
  <2>6. Count(p)'
    BY <1>0, <2>1, <2>2, <2>3, <2>4, <2>5 DEF Count, Fits
  <2> QED
    BY <1>0, <2>1, <2>6, <1>a DEF TypeOK
<1>9. CASE Tick
  <2> SUFFICES ASSUME NEW q \in Procs PROVE Count(q)'
    BY DEF CountInv
  <2>1. /\ UNCHANGED <<opt, pc, lc, stop_time>> /\ now' = Int32(now + 1)
        /\ elapsed'[q] = IF pc[q] \in {"decide", "next", "delay"} /\ elapsed[q] < W
                         THEN elapsed[q] + 1 ELSE elapsed[q]
    BY <1>9 DEF Tick, once
  <2>2. Int32(now + 1) <= now + 1 /\ Int32(now + 1) \in Int
    BY BoundsAssumption, Wrap DEF LoopType
  <2>3. Count(q) /\ elapsed[q] \in 0 .. W /\ stop_time[q] \in Int /\ now \in Int
    BY DEF CountInv, LoopType
  <2> QED
    BY <1>0, <2>1, <2>2, <2>3, BoundsAssumption DEF Count, Fits
<1>10. CASE UNCHANGED vars
  BY <1>10, Stays DEF vars, once, CountInv
<1> QED
  BY <1>1, <1>2, <1>3, <1>4, <1>5, <1>6, <1>7, <1>8, <1>9, <1>10 DEF Next, Step, Ended

(* The invariant of the loop.                                              *)
THEOREM LoopInvariant == Spec => []LoopInv
<1>1. Init => LoopInv
  <2> SUFFICES ASSUME Init PROVE LoopInv
    OBVIOUS
  <2>1. CopyInv /\ 1 \in Procs
    BY InitInv, BoundsAssumption DEF Procs
  <2>2. ParsedInv
    <3>1. optind - 1 = 0
      BY DEF Init
    <3> QED
      BY <3>1, LastOfNone, RunsAssumption DEF Init, ParsedInv, Defaults
  <2>3. \A p \in Procs : pc[p] \in {"none", "parse"}
    BY DEF Init
  <2>4. AskedInv
    BY <2>3 DEF AskedInv, Beyond
  <2>5. LoopType
    BY RunsAssumption, BoundsAssumption DEF Init, LoopType
  <2>6. CountInv
    BY <2>3 DEF Init, CountInv, Count, Beyond
  <2> QED
    BY <2>1, <2>2, <2>4, <2>5, <2>6 DEF LoopInv
<1>2. LoopInv /\ [Next]_vars => LoopInv'
  BY StepInv, ParsedStep, AskedStep, LoopTypeStep, CountStep DEF LoopInv, CopyInv
<1> QED
  BY <1>1, <1>2, PTL DEF Spec

(* A loop that ends has run as often and as long as the options, and       *)
(* behind them the environment, ask for (usc_test_looping, PO 763-773), as *)
(* long as the stop time fits an int.  Asked for 0 iterations or for a     *)
(* duration of 0 (-i 0, -I 0 and the variables: PO 283-295, 372-431), it   *)
(* does not end.                                                           *)
THEOREM LoopsRight == Spec => []LoopsAsAsked
<1>1. LoopInv => LoopsAsAsked
  <2> SUFFICES ASSUME LoopInv, NEW p \in Procs, pc[p] = "done"
               PROVE  /\ AskedCount # 0 /\ AskedTime # 0
                      /\ lc[p] >= AskedCount
                      /\ AskedTime = JUNK => lc[p] <= IF AskedCount > 0 THEN AskedCount ELSE 0
                      /\ (AskedTime # JUNK /\ AskedTime < W /\ stop_time[p] - AskedTime >= -W) =>
                           elapsed[p] >= AskedTime
    BY DEF LoopsAsAsked
  <2>1. /\ AskedCount = 0 => opt.STD_INFINITE = 1
        /\ AskedCount # 0 => opt.STD_LOOP_COUNT = AskedCount
        /\ AskedTime = 0 => opt.STD_INFINITE = 1
        /\ opt.STD_LOOP_DURATION = IF AskedTime = JUNK THEN 0 ELSE AskedTime
    BY DEF LoopInv, AskedInv, Beyond, Places
  <2>2. Count(p) /\ pc[p] \in Beyond
    BY DEF LoopInv, CountInv, Beyond, Places
  <2>3. /\ opt.STD_LOOP_COUNT \in Int /\ opt.STD_LOOP_DURATION \in Int
        /\ elapsed[p] \in Nat /\ lc[p] \in Nat /\ stop_time[p] \in Int
    BY BoundsAssumption DEF LoopInv, CopyInv, TypeOK, Options, LoopType
  <2>4. opt.STD_INFINITE = 0
    BY <2>2 DEF Count
  <2>5. CASE AskedTime = JUNK
    <3>1. AskedTime # 0 /\ opt.STD_LOOP_DURATION = 0
      BY <2>1, <2>5, RunsAssumption
    <3> QED
      BY <2>1, <2>2, <2>3, <2>4, <2>5, <3>1 DEF Count
  <2>6. CASE AskedTime # JUNK
    <3>1. AskedTime # 0 /\ opt.STD_LOOP_DURATION = AskedTime
      BY <2>1, <2>4, <2>6
    <3> HIDE DEF AskedTime
    <3> QED
      BY <2>1, <2>2, <2>3, <2>4, <2>6, <3>1, BoundsAssumption DEF Count, Fits
  <2> QED
    BY <2>5, <2>6
<1> QED
  BY <1>1, LoopInvariant, PTL

=============================================================================
