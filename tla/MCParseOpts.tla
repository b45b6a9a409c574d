----------------------------- MODULE MCParseOpts -----------------------------
(* Small runs of ParseOpts: every option and variable, what overrides what,  *)
(* copies that pause, and loops by time with the clock far from its wrap,    *)
(* just before it, and a duration that does not fit.                         *)
EXTENDS ParseOpts

Env1(var, v) == [x \in {var} |-> v]
Given(argvs, envs, times) == [argv : argvs, env : envs, now : times]

OneVar == {Env1(v, n) : v \in {"USC_ITERATIONS", "USC_COPIES", "USC_LP_RECFUN"}, n \in {JUNK, -1, 0, 2}}
            \cup {Env1("USC_NO_FUNC_CHECK", 1), [USC_LOOP_WALLTIME |-> 0, USC_DURATION |-> 2], <<>>,
                  Env1("USC_DURATION", 0), Env1("USC_LOOP_WALLTIME", 0), Env1("USC_DURATION", -1)}

Counted == Given({<<>>, <<<<"i", 2>>>>, <<<<"i", 0>>>>, <<<<"i", -1>>>>, <<<<"i", 1>>, <<"i", 2>>>>,
                  <<<<"f", 1>>>>, <<<<"h", 1>>>>, <<<<"i", 2>>, <<"?", 1>>>>, <<<<"I", 0>>>>, <<<<"t", 1>>>>},
                 OneVar, {0})

Copied == Given({<<<<"c", n>>, <<"p", 1>>>> : n \in {0, 1, 3}}, {<<>>, Env1("USC_COPIES", 2)}, {0})
            \cup Given({<<<<"c", 2>>, <<"P", 1>>, <<"i", 2>>>>}, {<<>>}, {0})

Timed == Given({<<<<"I", 2>>>>, <<<<"I", 2>>, <<"i", 3>>>>, <<<<"I", 6>>>>, <<<<"P", 1>>, <<"i", 2>>>>,
                <<<<"P", 2>>, <<"I", 3>>>>, <<>>},
               {<<>>, [USC_DURATION |-> 1], [USC_LOOP_WALLTIME |-> 2, USC_DURATION |-> JUNK],
                Env1("USC_LOOP_DELAY", 1), Env1("USC_LOOP_DELAY", -1)},
               {-3, 0, 2, 3})

AllRuns == Counted \cup Copied \cup Timed
==============================================================================
