---------------------------- MODULE MCTcParallel ----------------------------
(* Groups of at most three channels.  The two-channel start index stands for *)
(* chan_start_index = 3 of tc_50 and tc_53, which request five.              *)
EXTENDS TcParallel

SmallGroup(driver, max, start, laps) ==
  [driver |-> driver, max_channels |-> max, start |-> start, laps |-> laps]

SmallGroups ==
  {SmallGroup("parallel", n, s, l) : n \in 1 .. 3, s \in {0, 2}, l \in 1 .. 2}
  \cup {SmallGroup("read_reg", 1, 0, l) : l \in 1 .. 3}
  \cup {SmallGroup("pause", n, 0, 1) : n \in 1 .. 3}

Table == INSTANCE TcTable

AtMost(n, bound) == IF n < bound THEN n ELSE bound

(* The small groups are those of the test module, cut down.                  *)
ASSUME TableIsCovered ==
  {SmallGroup(g.driver, AtMost(g.max_channels, 3), AtMost(g.start, 2),
              AtMost(g.list.engine.laps, 2)) : g \in Table!GroupTests} \subseteq SmallGroups
=============================================================================
