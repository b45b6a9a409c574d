------------------------------ MODULE ParseOpts ------------------------------
(***************************************************************************)
(* parse_opts.c: the standard options of a test program and the            *)
(* environment behind them, the copies it forks, the pause for SIGUSR1 and *)
(* the loop                                                                *)
(*     for (lc = 0; TEST_LOOPING(lc); lc++)                                *)
(* against a clock of 32-bit microseconds that wraps.  Time is counted in  *)
(* ticks; the clock has the values -W .. W - 1.                            *)
(***************************************************************************)
EXTENDS Integers, Sequences, FiniteSets

CONSTANTS
  Runs,     \* the runs of the program: records [argv, env, now]
  JUNK,     \* the value of a variable whose text is no number
  W,        \* half the number of values of an int
  MAXPROC,  \* bound: processes, more than any run asks for
  MAXLC,    \* bound: the iterations that are told apart
  EARLY     \* bound: SIGUSR1 sent to processes that are not in pause

ASSUME BoundsAssumption == W \in Nat \ {0} /\ MAXPROC \in Nat \ {0} /\ MAXLC \in Nat /\ EARLY \in Nat

(* An argument is what atoi or atof makes of it, which is always a number; *)
(* the clock starts at any value of an int.                                *)
ASSUME RunsAssumption ==
  /\ JUNK \notin Int
  /\ \A r \in Runs :
       /\ r.argv \in Seq(STRING \X Int)
       /\ \A var \in DOMAIN r.env : r.env[var] \in Int \cup {JUNK}
       /\ r.now \in -W .. W - 1

Procs == 1 .. MAXPROC

(* An int: values wrap.                                                    *)
Int32(v) == ((v + W) % (2 * W)) - W

(* The static variables before parse_opts.                                 *)
Defaults ==
  [STD_LOOP_COUNT |-> 1, STD_INFINITE |-> 0, STD_LOOP_DURATION |-> 0, STD_LOOP_DELAY |-> 0,
   STD_COPIES |-> 1, STD_FUNCTIONAL_TEST |-> 1, STD_PAUSE |-> 0, recfun |-> 0,
   options |-> {}, status |-> "ok"]

(***************************************************************************)
(* parse_opts.                                                             *)
(***************************************************************************)

(* One option that getopt returns, <<letter, argument>>.  A zero for -i or *)
(* -I sets STD_INFINITE, and nothing clears it.  Of the others, -t, -e and *)
(* the options of the program have no part in what is modelled.            *)
Option(o, x) ==
  CASE x[1] = "i" -> [o EXCEPT !.STD_LOOP_COUNT = x[2], !.options = @ \cup {"iteration"},
                               !.STD_INFINITE = IF x[2] = 0 THEN 1 ELSE @]
    [] x[1] = "I" -> [o EXCEPT !.STD_LOOP_DURATION = x[2], !.options = @ \cup {"duration"},
                               !.STD_INFINITE = IF x[2] = 0 THEN 1 ELSE @]
    [] x[1] = "P" -> [o EXCEPT !.STD_LOOP_DELAY = x[2], !.options = @ \cup {"delay"}]
    [] x[1] = "c" -> [o EXCEPT !.STD_COPIES = x[2], !.options = @ \cup {"copies"}]
    [] x[1] = "f" -> [o EXCEPT !.STD_FUNCTIONAL_TEST = 0]
    [] x[1] = "p" -> [o EXCEPT !.STD_PAUSE = 1]
    [] x[1] = "h" -> [o EXCEPT !.status = "help"]
    [] x[1] = "?" -> [o EXCEPT !.status = "error"]
    [] OTHER -> o

(* Is the variable set to a number, and not overridden by an option?       *)
Uses(o, env, var, opt) == var \in DOMAIN env /\ env[var] # JUNK /\ opt \notin o.options

Iterations(o, env) ==
  IF ~Uses(o, env, "USC_ITERATIONS", "iteration") THEN o
  ELSE IF env.USC_ITERATIONS = 0 THEN [o EXCEPT !.STD_INFINITE = 1]
  ELSE [o EXCEPT !.STD_LOOP_COUNT = env.USC_ITERATIONS]

(* OPT_nofunccheck is never set: the variable overrides.                   *)
NoFuncCheck(o, env) ==
  IF "USC_NO_FUNC_CHECK" \in DOMAIN env THEN [o EXCEPT !.STD_FUNCTIONAL_TEST = 0] ELSE o

(* Wrong variant: a duration of 0 is only stored.                          *)
ZeroOnlyStored(o, env, var) ==
  IF Uses(o, env, var, "duration") /\ env[var] >= 0
  THEN [o EXCEPT !.STD_LOOP_DURATION = env[var]] ELSE o

(* USC_LOOP_WALLTIME, and then USC_DURATION in the same way.               *)
Duration(o, env, var) ==
  IF Uses(o, env, var, "duration") /\ env[var] >= 0
  THEN [o EXCEPT !.STD_LOOP_DURATION = env[var], !.STD_INFINITE = IF env[var] = 0 THEN 1 ELSE @]
  ELSE o

LoopDelay(o, env) ==
  IF Uses(o, env, "USC_LOOP_DELAY", "delay") /\ env.USC_LOOP_DELAY >= 0
  THEN [o EXCEPT !.STD_LOOP_DELAY = env.USC_LOOP_DELAY] ELSE o

(* sscanf stores the number before it is looked at.                        *)
Copies(o, env) ==
  IF Uses(o, env, "USC_COPIES", "copies") THEN [o EXCEPT !.STD_COPIES = env.USC_COPIES] ELSE o

(* USC_LP_RECFUN.  STD_bigstack is allocated only if it already is.        *)
Recfun(o, env) ==
  IF Uses(o, env, "USC_LP_RECFUN", "") /\ env.USC_LP_RECFUN >= 0
  THEN [o EXCEPT !.recfun = env.USC_LP_RECFUN] ELSE o

(* What follows the loop over the options.                                 *)
Environment(o, env) ==
  Recfun(Copies(LoopDelay(Duration(Duration(NoFuncCheck(Iterations(o, env), env),
         env, "USC_LOOP_WALLTIME"), env, "USC_DURATION"), env), env), env)

-----------------------------------------------------------------------------

VARIABLES
  run,        \* the command line and environment of this run
  opt,        \* the STD_ variables and options
  optind,     \* the option that getopt returns next
  now,        \* the clock
  pc,         \* where each process is; "none" before it is forked
  cnt,        \* its counter in the fork loop
  lc,         \* its iterations, MAXLC standing for all above it
  stop_time,  \* its static of that name
  end,        \* the end of its delay
  elapsed,    \* the time since its loop began, W standing for all above it
  forkfails,  \* forks that failed
  early       \* SIGUSR1 sent outside pause

once == <<run, opt, optind>>
vars == <<once, now, pc, cnt, lc, stop_time, end, elapsed, forkfails, early>>

Init ==
  /\ run \in Runs /\ opt = Defaults /\ optind = 1 /\ now = run.now
  /\ pc = [p \in Procs |-> IF p = 1 THEN "parse" ELSE "none"]
  /\ cnt = [p \in Procs |-> 1] /\ lc = [p \in Procs |-> 0]
  /\ stop_time = [p \in Procs |-> 0] /\ end = [p \in Procs |-> 0] /\ elapsed = [p \in Procs |-> 0]
  /\ forkfails = 0 /\ early = 0

Goto(p, place) == pc' = [pc EXCEPT ![p] = place]

(* One round of the loop over the options.                                 *)
ParseOption ==
  /\ pc[1] = "parse" /\ opt.status = "ok" /\ optind <= Len(run.argv)
  /\ opt' = Option(opt, run.argv[optind]) /\ optind' = optind + 1
  /\ UNCHANGED <<run, now, pc, cnt, lc, stop_time, end, elapsed, forkfails, early>>

(* Behind the last option the environment is looked at; the caller of      *)
(* parse_opts exits if there is a message, and so does -h.                 *)
ParseEnds ==
  /\ pc[1] = "parse"
  /\ \/ opt.status # "ok" /\ Goto(1, "exited") /\ UNCHANGED opt
     \/ /\ opt.status = "ok" /\ optind > Len(run.argv)
        /\ opt' = Environment(opt, run.env) /\ Goto(1, "fork")
  /\ UNCHANGED <<run, optind, now, cnt, lc, stop_time, end, elapsed, forkfails, early>>

(***************************************************************************)
(* TEST_PAUSE: usc_global_setup_hook.                                      *)
(***************************************************************************)

(* Wrong variant: the child goes on forking with the parent's counter.     *)
ChildForks(p, q) == cnt' = [cnt EXCEPT ![p] = @ + 1, ![q] = cnt[p] + 1]

(* The counters behind a fork: the child's ends its loop.                  *)
Counts(p, q) == cnt' = [cnt EXCEPT ![p] = @ + 1, ![q] = opt.STD_COPIES + 1]

Fork(p) ==
  /\ pc[p] = "fork" /\ cnt[p] < opt.STD_COPIES
  /\ \/ \E q \in Procs :
          /\ pc[q] = "none" /\ \A r \in 1 .. q - 1 : pc[r] # "none"
          /\ Goto(q, "fork") /\ Counts(p, q)
        /\ UNCHANGED forkfails
     \/ cnt' = [cnt EXCEPT ![p] = @ + 1] /\ forkfails' = forkfails + 1 /\ UNCHANGED pc
  /\ UNCHANGED <<once, now, lc, stop_time, end, elapsed, early>>

ForkEnds(p) ==
  /\ pc[p] = "fork" /\ cnt[p] >= opt.STD_COPIES
  /\ Goto(p, IF opt.STD_PAUSE = 1 THEN "signal" ELSE "first")
  /\ UNCHANGED <<once, now, cnt, lc, stop_time, end, elapsed, forkfails, early>>

(* signal(SIGUSR1, STD_go), and then pause().                              *)
InstallHandler(p) ==
  /\ pc[p] = "signal" /\ Goto(p, "installed")
  /\ UNCHANGED <<once, now, cnt, lc, stop_time, end, elapsed, forkfails, early>>

Pause(p) ==
  /\ pc[p] = "installed" /\ Goto(p, "pause")
  /\ UNCHANGED <<once, now, cnt, lc, stop_time, end, elapsed, forkfails, early>>

(* Whoever started the program sends SIGUSR1 to a process in pause.        *)
Resume(p) ==
  /\ pc[p] = "pause" /\ Goto(p, "first")
  /\ UNCHANGED <<once, now, cnt, lc, stop_time, end, elapsed, forkfails, early>>

(* SIGUSR1 at another time: lost between signal() and pause(), and the end *)
(* of the process before the one and after the other.                      *)
EarlySignal(p) ==
  /\ opt.STD_PAUSE = 1 /\ early < EARLY /\ early' = early + 1
  /\ pc[p] \notin {"none", "pause", "done", "exited", "killed", "crashed"}
  /\ IF pc[p] = "installed" THEN UNCHANGED pc ELSE Goto(p, "killed")
  /\ UNCHANGED <<once, now, cnt, lc, stop_time, end, elapsed, forkfails>>

(***************************************************************************)
(* TEST_LOOPING: usc_test_looping.                                         *)
(***************************************************************************)

(* (int)(float): what does not fit an int becomes either end of it.        *)
ToInt(v) == IF v < W THEN {v} ELSE {W - 1, -W}

FirstCall(p) ==
  /\ pc[p] = "first"
  /\ \E d \in ToInt(opt.STD_LOOP_DURATION) :
       stop_time' = IF opt.STD_LOOP_DURATION # 0 THEN [stop_time EXCEPT ![p] = Int32(d + now)]
                                                 ELSE stop_time
  /\ Goto(p, "decide")
  /\ UNCHANGED <<once, now, cnt, lc, end, elapsed, forkfails, early>>

(* The calls behind it, which may have to delay.                           *)
NextCall(p) ==
  /\ pc[p] = "next"
  /\ IF opt.STD_LOOP_DELAY # 0
     THEN \E d \in ToInt(opt.STD_LOOP_DELAY) : end' = [end EXCEPT ![p] = Int32(d + now)] /\ Goto(p, "delay")
     ELSE Goto(p, "decide") /\ UNCHANGED end
  /\ UNCHANGED <<once, now, cnt, lc, stop_time, elapsed, forkfails, early>>

(* Wrong variant: the clock is not read again in the loop.                 *)
DelayStuck(p) == FALSE /\ UNCHANGED vars

(* while (ct < end) ct = get_current_time().                               *)
DelayEnds(p) ==
  /\ pc[p] = "delay" /\ now >= end[p]
  /\ Goto(p, "decide")
  /\ UNCHANGED <<once, now, cnt, lc, stop_time, end, elapsed, forkfails, early>>

(* The three ways of looping.                                              *)
Keepgoing(p) ==
  \/ opt.STD_INFINITE = 1
  \/ opt.STD_LOOP_COUNT # 0 /\ lc[p] < opt.STD_LOOP_COUNT
  \/ opt.STD_LOOP_DURATION # 0 /\ now < stop_time[p]

(* One more iteration of the program; STD_LP_recfun passes *STD_bigstack   *)
(* by value, which is NULL.                                                *)
Iterate(p) ==
  /\ pc[p] = "decide" /\ Keepgoing(p)
  /\ IF opt.recfun # 0 THEN Goto(p, "crashed") /\ UNCHANGED lc
     ELSE Goto(p, "next") /\ lc' = [lc EXCEPT ![p] = IF @ < MAXLC THEN @ + 1 ELSE @]
  /\ UNCHANGED <<once, now, cnt, stop_time, end, elapsed, forkfails, early>>

LoopEnds(p) ==
  /\ pc[p] = "decide" /\ ~Keepgoing(p)
  /\ Goto(p, "done")
  /\ UNCHANGED <<once, now, cnt, lc, stop_time, end, elapsed, forkfails, early>>

(* A tick, which matters only to those who look at the clock.              *)
Tick ==
  /\ opt.STD_LOOP_DURATION # 0 \/ opt.STD_LOOP_DELAY # 0
  /\ \E p \in Procs : pc[p] \in {"first", "decide", "next", "delay"}
  /\ now' = Int32(now + 1)
  /\ elapsed' = [p \in Procs |-> IF pc[p] \in {"decide", "next", "delay"} /\ elapsed[p] < W
                                 THEN elapsed[p] + 1 ELSE elapsed[p]]
  /\ UNCHANGED <<once, pc, cnt, lc, stop_time, end, forkfails, early>>

-----------------------------------------------------------------------------

Over(p) == pc[p] \in {"none", "done", "exited", "killed", "crashed"}

Ended == (\A p \in Procs : Over(p)) /\ UNCHANGED vars

Step(p) ==
  \/ p = 1 /\ (ParseOption \/ ParseEnds)
  \/ Fork(p) \/ ForkEnds(p) \/ InstallHandler(p) \/ Pause(p)
  \/ FirstCall(p) \/ NextCall(p) \/ Iterate(p) \/ LoopEnds(p)

Next ==
  \/ \E p \in Procs : Step(p) \/ Resume(p) \/ DelayEnds(p) \/ EarlySignal(p)
  \/ Tick \/ Ended

Spec == Init /\ [][Next]_vars

(* The processes run and time passes.  Whoever asked for the pause ends it *)
(* for each process that has come to it.  The delay loop reads the clock   *)
(* far more often than it wraps: it does not miss the end each time the    *)
(* clock comes round.                                                      *)
FairSpec ==
  /\ Spec /\ WF_vars(Tick)
  /\ \A p \in Procs : WF_vars(Step(p)) /\ WF_vars(Resume(p)) /\ SF_vars(DelayEnds(p))

(***************************************************************************)
(* Properties.                                                             *)
(***************************************************************************)

(* What the command line and the environment ask for, by the comments of   *)
(* parse_opts: "the -i option with arg will be used even if this env var   *)
(* is set", and so for the others.  JUNK if nobody asks for a duration.    *)
Last(letter, n) ==
  LET at == {k \in 1 .. n : run.argv[k][1] = letter}
  IN IF at = {} THEN JUNK ELSE run.argv[CHOOSE k \in at : \A j \in at : j <= k][2]
Env(var) == IF var \in DOMAIN run.env THEN run.env[var] ELSE JUNK
AskedCount ==
  LET option == Last("i", Len(run.argv)) IN
  IF option # JUNK THEN option
  ELSE IF Env("USC_ITERATIONS") # JUNK THEN Env("USC_ITERATIONS")
  ELSE 1
AskedTime ==
  LET option == Last("I", Len(run.argv)) IN
  IF option # JUNK THEN option
  ELSE IF Env("USC_DURATION") # JUNK /\ Env("USC_DURATION") >= 0 THEN Env("USC_DURATION")
  ELSE IF Env("USC_LOOP_WALLTIME") # JUNK /\ Env("USC_LOOP_WALLTIME") >= 0 THEN Env("USC_LOOP_WALLTIME")
  ELSE JUNK

(* "This function will return 1 until all desired looping methods have     *)
(* been met": a loop that ends has done all its iterations - and not one   *)
(* more, when no duration is asked for - and has lasted for its duration,  *)
(* if the stop time fits an int.  Whoever asks for 0 iterations or for a   *)
(* duration of 0, by -i, -I or a variable, loops for ever.  What is asked  *)
(* for by an option beats the environment.                                 *)
LoopsAsAsked ==
  \A p \in Procs : pc[p] = "done" =>
    /\ AskedCount # 0 /\ AskedTime # 0
    /\ lc[p] >= AskedCount
    /\ AskedTime = JUNK => lc[p] <= IF AskedCount > 0 THEN AskedCount ELSE 0
    /\ (AskedTime # JUNK /\ AskedTime < W /\ stop_time[p] - AskedTime >= -W) =>
         elapsed[p] >= AskedTime

(* -c n makes n processes, however the copies and their parent interleave: *)
(* one less for each fork that fails, and no copy forks copies.            *)
CopiesMade ==
  LET running == {p \in Procs : pc[p] # "none"}
      wanted  == IF opt.STD_COPIES > 1 /\ opt.status = "ok" THEN opt.STD_COPIES ELSE 1 IN
  /\ Cardinality(running) + forkfails <= wanted
  /\ pc[1] \notin {"parse", "fork", "killed"} => Cardinality(running) + forkfails = wanted

(* Every copy of a program that counts its iterations ends, though its     *)
(* clock wraps in the middle of a delay and though a SIGUSR1 may be lost   *)
(* before pause(), if another is sent to whoever has come to pause.        *)
Terminates ==
  (pc[1] # "parse" /\ opt.STD_INFINITE = 0 /\ opt.STD_LOOP_DURATION = 0)
    ~> (\A p \in Procs : Over(p))
=============================================================================
