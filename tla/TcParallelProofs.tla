-------------------------- MODULE TcParallelProofs --------------------------
(***************************************************************************)
(* Proofs about groups of channels, for any number of channels wanted and  *)
(* to be had, any residue and any number of polls and laps.                *)
(***************************************************************************)
EXTENDS TcParallel, TLAPS, FiniteSetTheorems

Places == {"init", "initialised", "start", "poll_pause", "poll_status", "resume", "loop_pause",
           "loop_status", "loop_resume", "wait", "free", "done"}
Held == {"ready", "queued", "running", "complete"}

TypeOK ==
  /\ cfg \in Groups /\ pc \in Places /\ i \in Nat /\ max_channels \in Nat
  /\ st \in [All -> Held \cup {"zeroed", "failed", "freed"}]
  /\ left \in [All -> Nat] /\ err \in [All -> {0, -1, -EINVAL}] /\ bytes \in [All -> Nat]
  /\ paused \in {0, 1} /\ bytes_left \in Nat /\ bytes_left_prev \in Nat /\ avail \in Nat
  /\ result \in {0, -1, -EINVAL} /\ interrupted \in BOOLEAN
  /\ fault \in {"none", "no_list", "busy"}

Account == avail + Cardinality(Owned) = CHANNELS

(* The function goes on although no channel was to be had, ...             *)
NoneHad == pc \in {"free", "done"} /\ result = -EINVAL

(* ... or because some were.                                               *)
SomeHad == pc \notin {"init", "initialised"} /\ ~NoneHad

(* Where the function is decides what the array holds.                     *)
Array ==
  fault = "none" =>
    /\ pc \in {"init", "initialised"} =>
         /\ i <= cfg.max_channels /\ max_channels = cfg.max_channels
         /\ \A k \in All : IF k < i THEN st[k] = "ready" ELSE st[k] \in {"zeroed", "failed"}
    /\ pc = "init" => \A k \in All : k >= i => st[k] = "zeroed"
    /\ NoneHad => /\ pc = "free" => i = 0 /\ max_channels = cfg.max_channels
                  /\ \A k \in All : st[k] \in {"zeroed", "failed"}
    /\ SomeHad => max_channels \in 1 .. cfg.max_channels
    /\ SomeHad => \A k \in All :
         /\ k >= max_channels => st[k] \in {"zeroed", "failed"}
         /\ k < max_channels =>
              /\ IF pc = "done" \/ (pc = "free" /\ k < i) THEN st[k] = "freed" ELSE st[k] \in Held
              /\ k < cfg.start => st[k] \in {"ready", "freed"}
              /\ pc = "start" /\ k >= i => st[k] = "ready"
    /\ pc = "start" => i >= cfg.start
    /\ pc \notin {"free", "done"} => result = 0

(* A lap is left for whoever has not completed.                            *)
Laps ==
  \A k \in All :
    /\ st[k] \in {"zeroed", "ready", "queued", "running"} => left[k] >= 1 /\ bytes[k] >= 1
    /\ st[k] = "complete" => left[k] = 0

(* Who has been waited for has completed.                                  *)
WaitedFor ==
  (~interrupted /\ SomeHad /\ fault = "none") =>
    \A k \in All : (cfg.start <= k /\ k < max_channels) =>
      /\ pc = "wait" /\ k < i => st[k] = "complete"
      /\ pc \in {"free", "done"} => left[k] = 0 /\ st[k] \in {"complete", "freed"}

(* A paused channel has a job, whose residue does not fall to zero.        *)
PausedInv ==
  paused = 1 => /\ pc \in {"poll_status", "resume", "loop_status", "loop_resume"}
                /\ st[0] = "running"

Verdict == (pc = "done" /\ result = 0) => \A k \in All : k < max_channels => err[k] = 0

Faults ==
  /\ fault # "none" => pc = "free"
  /\ fault = "busy" => interrupted
  /\ fault = "no_list" => avail = CHANNELS /\ result # 0

GroupInv ==
  TypeOK /\ Account /\ Array /\ Laps /\ WaitedFor /\ PausedInv /\ Verdict /\ Faults

-----------------------------------------------------------------------------

(* What the assumption says of a group: its channels are 0 .. n-1, n > 0.  *)
LEMMA ConfigFacts ==
  ASSUME cfg \in Groups
  PROVE  /\ cfg.driver \in Drivers /\ cfg.max_channels \in Nat \ {0} /\ cfg.start \in Nat
         /\ cfg.laps \in Nat \ {0} /\ 0 \in All
BY GroupsAssumption DEF All

(* Only finitely many channels can be held.                                *)
LEMMA OwnedFinite ==
  ASSUME cfg \in Groups
  PROVE  IsFiniteSet(Owned) /\ Cardinality(Owned) \in Nat
<1>1. IsFiniteSet(All)
  BY ConfigFacts, FS_Interval DEF All
<1> QED
  BY <1>1, FS_Subset, FS_CardinalityType DEF Owned

(* A step that requests and releases no channel.                           *)
LEMMA SameOwned ==
  ASSUME Account, UNCHANGED <<cfg, avail>>, \A k \in All : st'[k] \in Held <=> st[k] \in Held
  PROVE  Account'
<1>1. Owned' = Owned
  BY DEF Owned, Held, All
<1> QED
  BY <1>1 DEF Account

(* At the start no channel is held and the array is not initialised.       *)
LEMMA InitInv == Init => GroupInv
<1> SUFFICES ASSUME Init PROVE GroupInv
  OBVIOUS
<1>1. /\ cfg.driver \in Drivers /\ cfg.max_channels \in Nat \ {0} /\ cfg.start \in Nat
      /\ cfg.laps \in Nat \ {0}
  BY ConfigFacts DEF Init
<1>2. interrupted \in BOOLEAN /\ ~interrupted
  BY DEF Init
<1>3. /\ st \in [All -> Held \cup {"zeroed", "failed", "freed"}] /\ left \in [All -> Nat]
      /\ err \in [All -> {0, -1, -EINVAL}] /\ bytes \in [All -> Nat]
  BY <1>1, BoundsAssumption DEF Init
<1>4. TypeOK
  BY <1>1, <1>2, <1>3, BoundsAssumption DEF Init, TypeOK, Places
<1>5. Owned = {}
  BY DEF Init, Owned
<1>6. Account
  BY <1>5, FS_EmptySet, BoundsAssumption DEF Account, Init
<1>7. Array /\ PausedInv /\ Verdict /\ Faults /\ WaitedFor
  BY <1>1, BoundsAssumption DEF Init, Array, PausedInv, Verdict, Faults, WaitedFor, NoneHad, SomeHad, All
<1>8. Laps
  BY <1>1, BoundsAssumption DEF Init, Laps
<1> QED
  BY <1>4, <1>6, <1>7, <1>8 DEF GroupInv

(* One step per action, and under it the parts of the invariant.           *)
LEMMA StepInv == GroupInv /\ [Next]_vars => GroupInv'
<1> SUFFICES ASSUME GroupInv, [Next]_vars PROVE GroupInv'
  OBVIOUS
<1> USE DEF groupVars, tcVars, loopVars, All, EINVAL
<1>0. /\ TypeOK /\ Account /\ Array /\ Laps /\ WaitedFor /\ PausedInv /\ Verdict /\ Faults
      /\ cfg.driver \in Drivers /\ cfg.max_channels \in Nat \ {0} /\ cfg.start \in Nat
      /\ 0 \in All /\ MAX_POLLS \in Nat \ {0} /\ BYTES \in Nat \ {0} /\ CHANNELS \in Nat
  BY ConfigFacts, BoundsAssumption DEF GroupInv, TypeOK
<1>1. CASE fault = "none" /\ InitOne
  <2>1. TypeOK'
    BY <1>0, <1>1 DEF InitOne, TypeOK, Held, Places, Array, NoneHad, SomeHad
  <2>2. Account'
    <3>1. i \in All /\ Owned' = Owned \cup {i} /\ i \notin Owned
      BY <1>0, <1>1 DEF InitOne, TypeOK, Array, Owned
    <3>2. Cardinality(Owned') = Cardinality(Owned) + 1 /\ Cardinality(Owned) \in Nat
      BY <1>0, <3>1, OwnedFinite, FS_AddElement DEF TypeOK
    <3> QED
      BY <1>0, <1>1, <3>2 DEF InitOne, TypeOK, Account
  <2>3. Array'
    BY <1>0, <1>1 DEF InitOne, TypeOK, Held, Array, NoneHad, SomeHad
  <2>4. Laps'
    BY <1>0, <1>1 DEF InitOne, TypeOK, Held, Laps, Array, NoneHad, SomeHad
  <2>5. WaitedFor'
    BY <1>0, <1>1 DEF InitOne, TypeOK, Held, Array, Laps, WaitedFor, NoneHad, SomeHad
  <2>6. PausedInv'
    BY <1>0, <1>1 DEF InitOne, TypeOK, Held, Array, PausedInv
  <2>7. Verdict'
    BY <1>0, <1>1 DEF InitOne, TypeOK, Held, Array, Verdict, NoneHad, SomeHad
  <2>8. Faults'
    BY <1>0, <1>1 DEF InitOne, TypeOK, Held, Array, WaitedFor, Faults, NoneHad, SomeHad
  <2> QED
    BY <2>1, <2>2, <2>3, <2>4, <2>5, <2>6, <2>7, <2>8 DEF GroupInv
<1>2. CASE fault = "none" /\ InitFails
  <2>1. TypeOK'
    BY <1>0, <1>2 DEF InitFails, TypeOK, Held, Places
  <2>2. Account'
    BY <1>0, <1>2, SameOwned DEF InitFails, TypeOK, Held, Array, NoneHad, SomeHad
  <2>3. Array'
    BY <1>0, <1>2 DEF InitFails, TypeOK, Held, Array, NoneHad, SomeHad
  <2>4. Laps'
    BY <1>0, <1>2 DEF InitFails, TypeOK, Held, Laps
  <2>5. WaitedFor'
    BY <1>0, <1>2 DEF InitFails, TypeOK, Held, Array, Laps, WaitedFor, NoneHad, SomeHad
  <2>6. PausedInv'
    BY <1>0, <1>2 DEF InitFails, TypeOK, Held, Array, PausedInv
  <2>7. Verdict'
    BY <1>0, <1>2 DEF InitFails, TypeOK, Held, Array, Verdict, NoneHad, SomeHad
  <2>8. Faults'
    BY <1>0, <1>2 DEF InitFails, TypeOK, Held, Array, WaitedFor, Faults, NoneHad, SomeHad
  <2> QED
    BY <2>1, <2>2, <2>3, <2>4, <2>5, <2>6, <2>7, <2>8 DEF GroupInv
<1>3. CASE fault = "none" /\ InitAll
  <2>1. TypeOK'
    BY <1>0, <1>3 DEF InitAll, TypeOK, Held, Places
  <2>2. Account'
    BY <1>0, <1>3, SameOwned DEF InitAll, TypeOK, Held, Array, NoneHad, SomeHad
  <2>3. Array'
    BY <1>0, <1>3 DEF InitAll, TypeOK, Held, Array, NoneHad, SomeHad
  <2>4. Laps'
    BY <1>0, <1>3 DEF InitAll, TypeOK, Held, Laps
  <2>5. WaitedFor'
    BY <1>0, <1>3 DEF InitAll, TypeOK, Held, Array, Laps, WaitedFor, NoneHad, SomeHad
  <2>6. PausedInv'
    BY <1>0, <1>3 DEF InitAll, TypeOK, Held, Array, PausedInv
  <2>7. Verdict'
    BY <1>0, <1>3 DEF InitAll, TypeOK, Held, Array, Verdict, NoneHad, SomeHad
  <2>8. Faults'
    BY <1>0, <1>3 DEF InitAll, TypeOK, Held, Array, WaitedFor, Faults, NoneHad, SomeHad
  <2> QED
    BY <2>1, <2>2, <2>3, <2>4, <2>5, <2>6, <2>7, <2>8 DEF GroupInv
<1>4. CASE fault = "none" /\ NoChannel
  <2>1. TypeOK'
    BY <1>0, <1>4 DEF NoChannel, TypeOK, Held, Places
  <2>2. Account'
    BY <1>0, <1>4, SameOwned DEF NoChannel, TypeOK, Held, Array, NoneHad, SomeHad
  <2>3. Array'
    BY <1>0, <1>4 DEF NoChannel, TypeOK, Held, Array, NoneHad, SomeHad
  <2>4. Laps'
    BY <1>0, <1>4 DEF NoChannel, TypeOK, Held, Laps
  <2>5. WaitedFor'
    BY <1>0, <1>4 DEF NoChannel, TypeOK, Held, Array, Laps, WaitedFor, NoneHad, SomeHad
  <2>6. PausedInv'
    BY <1>0, <1>4 DEF NoChannel, TypeOK, Held, Array, PausedInv
  <2>7. Verdict'
    BY <1>0, <1>4 DEF NoChannel, TypeOK, Held, Array, Verdict, NoneHad, SomeHad
  <2>8. Faults'
    BY <1>0, <1>4 DEF NoChannel, TypeOK, Held, Array, WaitedFor, Faults, NoneHad, SomeHad
  <2> QED
    BY <2>1, <2>2, <2>3, <2>4, <2>5, <2>6, <2>7, <2>8 DEF GroupInv
<1>5. CASE fault = "none" /\ SomeChannels
  <2>1. TypeOK'
    BY <1>0, <1>5 DEF SomeChannels, TypeOK, Held, Places
  <2>2. Account'
    BY <1>0, <1>5, SameOwned DEF SomeChannels, TypeOK, Held, Array, NoneHad, SomeHad
  <2>3. Array'
    BY <1>0, <1>5 DEF SomeChannels, TypeOK, Held, Array, NoneHad, SomeHad
  <2>4. Laps'
    BY <1>0, <1>5 DEF SomeChannels, TypeOK, Held, Laps
  <2>5. WaitedFor'
    BY <1>0, <1>5 DEF SomeChannels, TypeOK, Held, Array, Laps, WaitedFor, NoneHad, SomeHad
  <2>6. PausedInv'
    BY <1>0, <1>5 DEF SomeChannels, TypeOK, Held, Array, PausedInv
  <2>7. Verdict'
    BY <1>0, <1>5 DEF SomeChannels, TypeOK, Held, Array, Verdict, NoneHad, SomeHad
  <2>8. Faults'
    BY <1>0, <1>5 DEF SomeChannels, TypeOK, Held, Array, WaitedFor, Faults, NoneHad, SomeHad
  <2> QED
    BY <2>1, <2>2, <2>3, <2>4, <2>5, <2>6, <2>7, <2>8 DEF GroupInv
<1>6. CASE fault = "none" /\ tc_test_run
  <2>1. TypeOK'
    BY <1>0, <1>6 DEF tc_test_run, TypeOK, Held, Places, Array, NoneHad, SomeHad
  <2>2. Account'
    BY <1>0, <1>6, SameOwned DEF tc_test_run, TypeOK, Held, Array, NoneHad, SomeHad
  <2>3. Array'
    BY <1>0, <1>6 DEF tc_test_run, TypeOK, Held, Array, NoneHad, SomeHad
  <2>4. Laps'
    BY <1>0, <1>6 DEF tc_test_run, TypeOK, Held, Laps, Array, NoneHad, SomeHad
  <2>5. WaitedFor'
    BY <1>0, <1>6 DEF tc_test_run, TypeOK, Held, Array, Laps, WaitedFor, NoneHad, SomeHad
  <2>6. PausedInv'
    BY <1>0, <1>6 DEF tc_test_run, TypeOK, Held, Array, PausedInv
  <2>7. Verdict'
    BY <1>0, <1>6 DEF tc_test_run, TypeOK, Held, Array, Verdict, NoneHad, SomeHad
  <2>8. Faults'
    BY <1>0, <1>6 DEF tc_test_run, TypeOK, Held, Array, WaitedFor, Faults, NoneHad, SomeHad
  <2> QED
    BY <2>1, <2>2, <2>3, <2>4, <2>5, <2>6, <2>7, <2>8 DEF GroupInv
<1>7. CASE fault = "none" /\ AllStarted
  <2>1. TypeOK'
    BY <1>0, <1>7 DEF AllStarted, TypeOK, Held, Places
  <2>2. Account'
    BY <1>0, <1>7, SameOwned DEF AllStarted, TypeOK, Held, Array, NoneHad, SomeHad
  <2>3. Array'
    BY <1>0, <1>7 DEF AllStarted, TypeOK, Held, Array, NoneHad, SomeHad
  <2>4. Laps'
    BY <1>0, <1>7 DEF AllStarted, TypeOK, Held, Laps
  <2>5. WaitedFor'
    BY <1>0, <1>7 DEF AllStarted, TypeOK, Held, Array, Laps, WaitedFor, NoneHad, SomeHad
  <2>6. PausedInv'
    BY <1>0, <1>7 DEF AllStarted, TypeOK, Held, Array, PausedInv
  <2>7. Verdict'
    BY <1>0, <1>7 DEF AllStarted, TypeOK, Held, Array, Verdict, NoneHad, SomeHad
  <2>8. Faults'
    BY <1>0, <1>7 DEF AllStarted, TypeOK, Held, Array, WaitedFor, Faults, NoneHad, SomeHad
  <2> QED
    BY <2>1, <2>2, <2>3, <2>4, <2>5, <2>6, <2>7, <2>8 DEF GroupInv
<1>8. CASE fault = "none" /\ PollPause
  <2>1. TypeOK'
    BY <1>0, <1>8 DEF PollPause, Pause, TypeOK, Held, Places
  <2>2. Account'
    BY <1>0, <1>8, SameOwned DEF PollPause, Pause, TypeOK, Held, Array, NoneHad, SomeHad
  <2>3. Array'
    BY <1>0, <1>8 DEF PollPause, Pause, TypeOK, Held, Array, NoneHad, SomeHad
  <2>4. Laps'
    BY <1>0, <1>8 DEF PollPause, Pause, TypeOK, Held, Laps
  <2>5. WaitedFor'
    BY <1>0, <1>8 DEF PollPause, Pause, TypeOK, Held, Array, Laps, WaitedFor, NoneHad, SomeHad
  <2>6. PausedInv'
    BY <1>0, <1>8 DEF PollPause, Pause, TypeOK, Held, Array, PausedInv
  <2>7. Verdict'
    BY <1>0, <1>8 DEF PollPause, Pause, TypeOK, Held, Array, Verdict, NoneHad, SomeHad
  <2>8. Faults'
    BY <1>0, <1>8 DEF PollPause, Pause, TypeOK, Held, Array, WaitedFor, Faults, NoneHad, SomeHad
  <2> QED
    BY <2>1, <2>2, <2>3, <2>4, <2>5, <2>6, <2>7, <2>8 DEF GroupInv
<1>9. CASE fault = "none" /\ PollStatus
  <2>1. TypeOK'
    BY <1>0, <1>9 DEF PollStatus, Residue, TypeOK, Held, Places
  <2>2. Account'
    BY <1>0, <1>9, SameOwned DEF PollStatus, Residue, TypeOK, Held, Array, NoneHad, SomeHad
  <2>3. Array'
    BY <1>0, <1>9 DEF PollStatus, Residue, TypeOK, Held, Array, NoneHad, SomeHad
  <2>4. Laps'
    BY <1>0, <1>9 DEF PollStatus, Residue, TypeOK, Held, Laps
  <2>5. WaitedFor'
    BY <1>0, <1>9 DEF PollStatus, Residue, TypeOK, Held, Array, Laps, WaitedFor, NoneHad, SomeHad
  <2>6. PausedInv'
    BY <1>0, <1>9 DEF PollStatus, Residue, TypeOK, Held, Array, PausedInv, Laps
  <2>7. Verdict'
    BY <1>0, <1>9 DEF PollStatus, Residue, TypeOK, Held, Array, Verdict, NoneHad, SomeHad
  <2>8. Faults'
    BY <1>0, <1>9 DEF PollStatus, Residue, TypeOK, Held, Array, WaitedFor, Faults, NoneHad, SomeHad
  <2> QED
    BY <2>1, <2>2, <2>3, <2>4, <2>5, <2>6, <2>7, <2>8 DEF GroupInv
<1>10. CASE fault = "none" /\ PollResume
  <2>1. TypeOK'
    BY <1>0, <1>10 DEF PollResume, TypeOK, Held, Places
  <2>2. Account'
    BY <1>0, <1>10, SameOwned DEF PollResume, TypeOK, Held, Array, NoneHad, SomeHad
  <2>3. Array'
    BY <1>0, <1>10 DEF PollResume, TypeOK, Held, Array, NoneHad, SomeHad
  <2>4. Laps'
    BY <1>0, <1>10 DEF PollResume, TypeOK, Held, Laps
  <2>5. WaitedFor'
    BY <1>0, <1>10 DEF PollResume, TypeOK, Held, Array, Laps, WaitedFor, NoneHad, SomeHad
  <2>6. PausedInv'
    BY <1>0, <1>10 DEF PollResume, TypeOK, Held, Array, PausedInv
  <2>7. Verdict'
    BY <1>0, <1>10 DEF PollResume, TypeOK, Held, Array, Verdict, NoneHad, SomeHad
  <2>8. Faults'
    BY <1>0, <1>10 DEF PollResume, TypeOK, Held, Array, WaitedFor, Faults, NoneHad, SomeHad
  <2> QED
    BY <2>1, <2>2, <2>3, <2>4, <2>5, <2>6, <2>7, <2>8 DEF GroupInv
<1>11. CASE fault = "none" /\ LoopPause
  <2>1. TypeOK'
    BY <1>0, <1>11 DEF LoopPause, Pause, TypeOK, Held, Places
  <2>2. Account'
    BY <1>0, <1>11, SameOwned DEF LoopPause, Pause, TypeOK, Held, Array, NoneHad, SomeHad
  <2>3. Array'
    BY <1>0, <1>11 DEF LoopPause, Pause, TypeOK, Held, Array, NoneHad, SomeHad
  <2>4. Laps'
    BY <1>0, <1>11 DEF LoopPause, Pause, TypeOK, Held, Laps
  <2>5. WaitedFor'
    BY <1>0, <1>11 DEF LoopPause, Pause, TypeOK, Held, Array, Laps, WaitedFor, NoneHad, SomeHad
  <2>6. PausedInv'
    BY <1>0, <1>11 DEF LoopPause, Pause, TypeOK, Held, Array, PausedInv
  <2>7. Verdict'
    BY <1>0, <1>11 DEF LoopPause, Pause, TypeOK, Held, Array, Verdict, NoneHad, SomeHad
  <2>8. Faults'
    BY <1>0, <1>11 DEF LoopPause, Pause, TypeOK, Held, Array, WaitedFor, Faults, NoneHad, SomeHad
  <2> QED
    BY <2>1, <2>2, <2>3, <2>4, <2>5, <2>6, <2>7, <2>8 DEF GroupInv
<1>12. CASE fault = "none" /\ LoopStatus
  <2>1. TypeOK'
    BY <1>0, <1>12 DEF LoopStatus, Residue, TypeOK, Held, Places
  <2>2. Account'
    BY <1>0, <1>12, SameOwned DEF LoopStatus, Residue, TypeOK, Held, Array, NoneHad, SomeHad
  <2>3. Array'
    BY <1>0, <1>12 DEF LoopStatus, Residue, TypeOK, Held, Array, NoneHad, SomeHad
  <2>4. Laps'
    BY <1>0, <1>12 DEF LoopStatus, Residue, TypeOK, Held, Laps
  <2>5. WaitedFor'
    BY <1>0, <1>12 DEF LoopStatus, Residue, TypeOK, Held, Array, Laps, WaitedFor, NoneHad, SomeHad
  <2>6. PausedInv'
    BY <1>0, <1>12 DEF LoopStatus, Residue, TypeOK, Held, Array, PausedInv
  <2>7. Verdict'
    BY <1>0, <1>12 DEF LoopStatus, Residue, TypeOK, Held, Array, Verdict, NoneHad, SomeHad
  <2>8. Faults'
    BY <1>0, <1>12 DEF LoopStatus, Residue, TypeOK, Held, Array, WaitedFor, Faults, NoneHad, SomeHad
  <2> QED
    BY <2>1, <2>2, <2>3, <2>4, <2>5, <2>6, <2>7, <2>8 DEF GroupInv
<1>13. CASE fault = "none" /\ LoopResume
  <2>1. TypeOK'
    BY <1>0, <1>13 DEF LoopResume, LoopAgain, Stuck, TypeOK, Held, Places
  <2>2. Account'
    BY <1>0, <1>13, SameOwned DEF LoopResume, LoopAgain, Stuck, TypeOK, Held, Array, NoneHad, SomeHad
  <2>3. Array'
    BY <1>0, <1>13 DEF LoopResume, LoopAgain, Stuck, TypeOK, Held, Array, NoneHad, SomeHad
  <2>4. Laps'
    BY <1>0, <1>13 DEF LoopResume, LoopAgain, Stuck, TypeOK, Held, Laps
  <2>5. WaitedFor'
    BY <1>0, <1>13 DEF LoopResume, LoopAgain, Stuck, TypeOK, Held, Array, Laps, WaitedFor, NoneHad, SomeHad
  <2>6. PausedInv'
    BY <1>0, <1>13 DEF LoopResume, LoopAgain, Stuck, TypeOK, Held, Array, PausedInv
  <2>7. Verdict'
    BY <1>0, <1>13 DEF LoopResume, LoopAgain, Stuck, TypeOK, Held, Array, Verdict, NoneHad, SomeHad
  <2>8. Faults'
    BY <1>0, <1>13 DEF LoopResume, LoopAgain, Stuck, TypeOK, Held, Array, WaitedFor, Faults, NoneHad, SomeHad
  <2> QED
    BY <2>1, <2>2, <2>3, <2>4, <2>5, <2>6, <2>7, <2>8 DEF GroupInv
<1>14. CASE fault = "none" /\ Completed
  <2>1. TypeOK'
    BY <1>0, <1>14 DEF Completed, TypeOK, Held, Places
  <2>2. Account'
    BY <1>0, <1>14, SameOwned DEF Completed, TypeOK, Held, Array, NoneHad, SomeHad
  <2>3. Array'
    BY <1>0, <1>14 DEF Completed, TypeOK, Held, Array, NoneHad, SomeHad
  <2>4. Laps'
    BY <1>0, <1>14 DEF Completed, TypeOK, Held, Laps
  <2>5. WaitedFor'
    BY <1>0, <1>14 DEF Completed, TypeOK, Held, Array, Laps, WaitedFor, NoneHad, SomeHad
  <2>6. PausedInv'
    BY <1>0, <1>14 DEF Completed, TypeOK, Held, Array, PausedInv
  <2>7. Verdict'
    BY <1>0, <1>14 DEF Completed, TypeOK, Held, Array, Verdict, NoneHad, SomeHad
  <2>8. Faults'
    BY <1>0, <1>14 DEF Completed, TypeOK, Held, Array, WaitedFor, Faults, NoneHad, SomeHad
  <2> QED
    BY <2>1, <2>2, <2>3, <2>4, <2>5, <2>6, <2>7, <2>8 DEF GroupInv
<1>15. CASE fault = "none" /\ AllWaited
  <2>1. TypeOK'
    BY <1>0, <1>15 DEF AllWaited, TypeOK, Held, Places
  <2>2. Account'
    BY <1>0, <1>15, SameOwned DEF AllWaited, TypeOK, Held, Array, NoneHad, SomeHad
  <2>3. Array'
    BY <1>0, <1>15 DEF AllWaited, TypeOK, Held, Array, NoneHad, SomeHad
  <2>4. Laps'
    BY <1>0, <1>15 DEF AllWaited, TypeOK, Held, Laps
  <2>5. WaitedFor'
    BY <1>0, <1>15 DEF AllWaited, TypeOK, Held, Array, Laps, WaitedFor, NoneHad, SomeHad
  <2>6. PausedInv'
    BY <1>0, <1>15 DEF AllWaited, TypeOK, Held, Array, PausedInv
  <2>7. Verdict'
    BY <1>0, <1>15 DEF AllWaited, TypeOK, Held, Array, Verdict, NoneHad, SomeHad
  <2>8. Faults'
    BY <1>0, <1>15 DEF AllWaited, TypeOK, Held, Array, WaitedFor, Faults, NoneHad, SomeHad
  <2> QED
    BY <2>1, <2>2, <2>3, <2>4, <2>5, <2>6, <2>7, <2>8 DEF GroupInv
<1>16. CASE fault = "none" /\ tc_test_free
  <2>1. TypeOK'
    BY <1>0, <1>16 DEF tc_test_free, TypeOK, Held, Places, Array, NoneHad, SomeHad
  <2>2. Account'
    <3>1. i \in All
      BY <1>0, <1>16 DEF tc_test_free, TypeOK, Array, NoneHad, SomeHad
    <3>2. CASE st[i] \in Held
      <4>1. Owned' = Owned \ {i} /\ i \in Owned
        BY <1>0, <1>16, <3>1, <3>2 DEF tc_test_free, TypeOK, Owned, Held
      <4>2. Cardinality(Owned') = Cardinality(Owned) - 1 /\ Cardinality(Owned) \in Nat
        BY <1>0, <4>1, OwnedFinite, FS_RemoveElement DEF TypeOK
      <4> QED
        BY <1>0, <1>16, <3>2, <4>2 DEF tc_test_free, TypeOK, Account, Held
    <3>3. CASE st[i] \notin Held
      BY <1>0, <1>16, <3>1, <3>3, SameOwned DEF tc_test_free, TypeOK, Held
    <3> QED
      BY <3>2, <3>3
  <2>3. Array'
    <3>1. CASE NoneHad
      BY <1>0, <1>16, <3>1 DEF tc_test_free, TypeOK, Array, NoneHad, SomeHad
    <3>2. CASE SomeHad
      <4>1. i \in All /\ max_channels \in 1 .. cfg.max_channels /\ st[i] \in Held /\ ~NoneHad
        BY <1>0, <1>16, <3>2 DEF tc_test_free, TypeOK, Array, SomeHad
      <4>2. st' = [st EXCEPT ![i] = "freed"] /\ i' = i + 1 /\ pc' = "free" /\ pc = "free"
            /\ UNCHANGED <<cfg, max_channels, result>>
        BY <1>16 DEF tc_test_free
      <4>3. \A k \in All : st'[k] = IF k = i THEN "freed" ELSE st[k]
        BY <1>0, <4>1, <4>2 DEF TypeOK
      <4>4. SomeHad' /\ ~NoneHad' /\ i \in Nat
        BY <1>0, <3>2, <4>1, <4>2 DEF SomeHad, NoneHad, TypeOK
      <4>5. ASSUME NEW k \in All
            PROVE  /\ k >= max_channels => st'[k] \in {"zeroed", "failed"}
                   /\ k < max_channels =>
                        /\ IF k < i + 1 THEN st'[k] = "freed" ELSE st'[k] \in Held
                        /\ k < cfg.start => st'[k] \in {"ready", "freed"}
        <5>1. CASE k = i
          BY <1>0, <1>16, <4>1, <4>3, <5>1 DEF tc_test_free, TypeOK
        <5>2. CASE k # i
          BY <1>0, <1>16, <3>2, <4>2, <4>3, <4>4, <5>2 DEF Array, Held
        <5> QED
          BY <5>1, <5>2
      <4> QED
        BY <1>0, <4>1, <4>2, <4>4, <4>5 DEF Array
    <3> QED
      BY <1>16, <3>1, <3>2 DEF tc_test_free, SomeHad
  <2>4. Laps'
    BY <1>0, <1>16 DEF tc_test_free, TypeOK, Held, Laps, Array, NoneHad, SomeHad
  <2>5. WaitedFor'
    BY <1>0, <1>16 DEF tc_test_free, TypeOK, Held, Array, Laps, WaitedFor, NoneHad, SomeHad
  <2>6. PausedInv'
    BY <1>0, <1>16 DEF tc_test_free, TypeOK, Held, Array, PausedInv
  <2>7. Verdict'
    BY <1>0, <1>16 DEF tc_test_free, TypeOK, Held, Array, Verdict, NoneHad, SomeHad
  <2>8. Faults'
    <3>1. CASE NoneHad
      <4>1. Owned = {}
        BY <1>0, <1>16, <3>1 DEF Array, Owned
      <4>2. avail = CHANNELS
        BY <1>0, <4>1, FS_EmptySet DEF TypeOK, Account
      <4>3. fault' = "no_list" /\ UNCHANGED <<avail, result>> /\ pc' = "free"
        BY <1>0, <1>16, <3>1 DEF tc_test_free, TypeOK, Array, NoneHad
      <4> QED
        BY <3>1, <4>2, <4>3 DEF Faults, NoneHad
    <3>2. CASE SomeHad
      BY <1>0, <1>16, <3>2 DEF tc_test_free, TypeOK, Held, Array, WaitedFor, Faults, NoneHad, SomeHad
    <3> QED
      BY <1>16, <3>1, <3>2 DEF tc_test_free, SomeHad
  <2> QED
    BY <2>1, <2>2, <2>3, <2>4, <2>5, <2>6, <2>7, <2>8 DEF GroupInv
<1>17. CASE fault = "none" /\ Return
  <2>1. TypeOK'
    BY <1>0, <1>17 DEF Return, TypeOK, Held, Places
  <2>2. Account'
    BY <1>0, <1>17, SameOwned DEF Return, TypeOK, Held, Array, NoneHad, SomeHad
  <2>3. Array'
    BY <1>0, <1>17 DEF Return, TypeOK, Held, Array, NoneHad, SomeHad
  <2>4. Laps'
    BY <1>0, <1>17 DEF Return, TypeOK, Held, Laps
  <2>5. WaitedFor'
    BY <1>0, <1>17 DEF Return, TypeOK, Held, Array, Laps, WaitedFor, NoneHad, SomeHad
  <2>6. PausedInv'
    BY <1>0, <1>17 DEF Return, TypeOK, Held, Array, PausedInv
  <2>7. Verdict'
    BY <1>0, <1>17 DEF Return, TypeOK, Held, Array, Verdict, NoneHad, SomeHad
  <2>8. Faults'
    BY <1>0, <1>17 DEF Return, TypeOK, Held, Array, WaitedFor, Faults, NoneHad, SomeHad
  <2> QED
    BY <2>1, <2>2, <2>3, <2>4, <2>5, <2>6, <2>7, <2>8 DEF GroupInv
<1>18. CASE fault = "none" /\ WaitInterrupted
  <2>1. TypeOK'
    BY <1>0, <1>18 DEF WaitInterrupted, TypeOK, Held, Places
  <2>2. Account'
    BY <1>0, <1>18, SameOwned DEF WaitInterrupted, TypeOK, Held, Array, NoneHad, SomeHad
  <2>3. Array'
    BY <1>0, <1>18 DEF WaitInterrupted, TypeOK, Held, Array, NoneHad, SomeHad
  <2>4. Laps'
    BY <1>0, <1>18 DEF WaitInterrupted, TypeOK, Held, Laps
  <2>5. WaitedFor'
    BY <1>0, <1>18 DEF WaitInterrupted, TypeOK, Held, Array, Laps, WaitedFor, NoneHad, SomeHad
  <2>6. PausedInv'
    BY <1>0, <1>18 DEF WaitInterrupted, TypeOK, Held, Array, PausedInv
  <2>7. Verdict'
    BY <1>0, <1>18 DEF WaitInterrupted, TypeOK, Held, Array, Verdict, NoneHad, SomeHad
  <2>8. Faults'
    BY <1>0, <1>18 DEF WaitInterrupted, TypeOK, Held, Array, WaitedFor, Faults, NoneHad, SomeHad
  <2> QED
    BY <2>1, <2>2, <2>3, <2>4, <2>5, <2>6, <2>7, <2>8 DEF GroupInv
<1>19. ASSUME fault = "none", NEW k \in All, Issue(k) PROVE GroupInv'
  <2>1. TypeOK'
    BY <1>0, <1>19 DEF Issue, TypeOK, Held, Places
  <2>2. Account'
    BY <1>0, <1>19, SameOwned DEF Issue, TypeOK, Held, Array, NoneHad, SomeHad
  <2>3. Array'
    BY <1>0, <1>19 DEF Issue, TypeOK, Held, Array, NoneHad, SomeHad
  <2>4. Laps'
    BY <1>0, <1>19 DEF Issue, TypeOK, Held, Laps
  <2>5. WaitedFor'
    BY <1>0, <1>19 DEF Issue, TypeOK, Held, Array, Laps, WaitedFor, NoneHad, SomeHad
  <2>6. PausedInv'
    BY <1>0, <1>19 DEF Issue, TypeOK, Held, Array, PausedInv
  <2>7. Verdict'
    BY <1>0, <1>19 DEF Issue, TypeOK, Held, Array, Verdict, NoneHad, SomeHad
  <2>8. Faults'
    BY <1>0, <1>19 DEF Issue, TypeOK, Held, Array, WaitedFor, Faults, NoneHad, SomeHad
  <2> QED
    BY <2>1, <2>2, <2>3, <2>4, <2>5, <2>6, <2>7, <2>8 DEF GroupInv
<1>20. ASSUME fault = "none", NEW k \in All, Progress(k) PROVE GroupInv'
  <2>1. TypeOK'
    <3>1. /\ bytes' = [bytes EXCEPT ![k] = @ - 1] /\ bytes[k] > 1 /\ bytes \in [All -> Nat]
          /\ UNCHANGED <<groupVars, st, left, err, loopVars, avail>>
      BY <1>0, <1>20 DEF Progress, TypeOK
    <3>2. bytes[k] - 1 \in Nat
      BY <3>1
    <3>3. bytes' \in [All -> Nat]
      BY <3>1, <3>2
    <3> QED
      BY <1>0, <3>1, <3>3 DEF TypeOK, Held, Places
  <2>2. Account'
    BY <1>0, <1>20, SameOwned DEF Progress, Stopped, TypeOK, Held, Array, NoneHad, SomeHad
  <2>3. Array'
    BY <1>0, <1>20 DEF Progress, Stopped, TypeOK, Held, Array, NoneHad, SomeHad
  <2>4. Laps'
    <3>1. st' = st /\ left' = left /\ bytes' = [bytes EXCEPT ![k] = @ - 1] /\ bytes[k] > 1 /\ bytes \in [All -> Nat]
      BY <1>0, <1>20 DEF Progress, TypeOK
    <3>2. ASSUME NEW j \in All PROVE bytes'[j] = IF j = k THEN bytes[k] - 1 ELSE bytes[j]
      BY <3>1
    <3>3. ASSUME NEW j \in All, bytes[j] >= 1 PROVE bytes'[j] >= 1
      <4>1. bytes[k] - 1 >= 1
        <5>1. bytes[k] \in Nat
          BY <3>1
        <5> QED
          BY <3>1, <5>1
      <4> QED
        BY <3>2, <3>3, <4>1
    <3>4. ASSUME NEW j \in All
          PROVE  /\ st'[j] \in {"zeroed", "ready", "queued", "running"} => left'[j] >= 1 /\ bytes'[j] >= 1
                 /\ st'[j] = "complete" => left'[j] = 0
      <4>1. /\ st[j] \in {"zeroed", "ready", "queued", "running"} => left[j] >= 1 /\ bytes[j] >= 1
            /\ st[j] = "complete" => left[j] = 0
        BY <1>0 DEF Laps
      <4>2. st'[j] = st[j] /\ left'[j] = left[j]
        BY <3>1
      <4> QED
        BY <3>3, <4>1, <4>2
    <3>5. All' = All
      BY <1>20 DEF Progress
    <3> QED
      BY <3>4, <3>5, Zenon DEF Laps
  <2>5. WaitedFor'
    BY <1>0, <1>20 DEF Progress, Stopped, TypeOK, Held, Array, Laps, WaitedFor, NoneHad, SomeHad
  <2>6. PausedInv'
    BY <1>0, <1>20 DEF Progress, Stopped, TypeOK, Held, Array, PausedInv
  <2>7. Verdict'
    BY <1>0, <1>20 DEF Progress, Stopped, TypeOK, Held, Array, Verdict, NoneHad, SomeHad
  <2>8. Faults'
    BY <1>0, <1>20 DEF Progress, Stopped, TypeOK, Held, Array, WaitedFor, Faults, NoneHad, SomeHad
  <2> QED
    BY <2>1, <2>2, <2>3, <2>4, <2>5, <2>6, <2>7, <2>8 DEF GroupInv
<1>21. ASSUME fault = "none", NEW k \in All, EndLap(k) PROVE GroupInv'
  <2>1. TypeOK'
    <3>1. left[k] - 1 \in Nat
      <4>1. left[k] \in Nat /\ st[k] = "running"
        BY <1>0, <1>21 DEF EndLap, TypeOK
      <4>2. left[k] >= 1
        BY <1>0, <4>1 DEF Laps
      <4> QED
        BY <4>1, <4>2
    <3>2. left' \in [All -> Nat] /\ err' \in [All -> {0, -1, -EINVAL}]
      BY <1>0, <1>21, <3>1 DEF EndLap, TypeOK
    <3>3. bytes' \in [All -> Nat]
      <4>1. BYTES \in Nat /\ 0 \in Nat /\ bytes \in [All -> Nat]
        BY <1>0 DEF TypeOK
      <4>2. bytes' = [bytes EXCEPT ![k] = 0] \/ bytes' = [bytes EXCEPT ![k] = BYTES]
        BY <1>21 DEF EndLap
      <4> QED
        BY <4>1, <4>2
    <3>4. st' \in [All -> Held \cup {"zeroed", "failed", "freed"}]
      <4>1. st' = [st EXCEPT ![k] = "complete"] \/ st' = st
        BY <1>21 DEF EndLap
      <4>2. "complete" \in Held \cup {"zeroed", "failed", "freed"}
        BY DEF Held
      <4>3. st \in [All -> Held \cup {"zeroed", "failed", "freed"}]
        BY <1>0 DEF TypeOK
      <4> QED
        BY <4>1, <4>2, <4>3
    <3> QED
      BY <1>0, <1>21, <3>2, <3>3, <3>4 DEF EndLap, TypeOK
  <2>2. Account'
    BY <1>0, <1>21, SameOwned DEF EndLap, Stopped, TypeOK, Held, Array, NoneHad, SomeHad
  <2>3. Array'
    BY <1>0, <1>21 DEF EndLap, Stopped, TypeOK, Held, Array, NoneHad, SomeHad
  <2>4. Laps'
    <3>1. /\ left' = [left EXCEPT ![k] = @ - 1] /\ left \in [All -> Nat] /\ bytes \in [All -> Nat]
          /\ \/ left[k] = 1 /\ st' = [st EXCEPT ![k] = "complete"] /\ bytes' = [bytes EXCEPT ![k] = 0]
             \/ left[k] > 1 /\ bytes' = [bytes EXCEPT ![k] = BYTES] /\ st' = st
          /\ st[k] = "running" /\ DOMAIN st = All
      BY <1>0, <1>21 DEF EndLap, TypeOK
    <3>2. BYTES >= 1
      BY BoundsAssumption
    <3>5. All' = All
      BY <1>21 DEF EndLap
    <3> SUFFICES ASSUME NEW j \in All
                 PROVE  /\ st'[j] \in {"zeroed", "ready", "queued", "running"} => left'[j] >= 1 /\ bytes'[j] >= 1
                        /\ st'[j] = "complete" => left'[j] = 0
      BY <3>5, Zenon DEF Laps
    <3>3. CASE j # k
      <4>1. st'[j] = st[j] /\ left'[j] = left[j] /\ bytes'[j] = bytes[j]
        BY <3>1, <3>3
      <4> QED
        BY <1>0, <4>1 DEF Laps
    <3>4. CASE j = k
      <4>1. left'[j] = left[k] - 1 /\ left[k] \in Nat
        BY <3>1, <3>4
      <4>2. CASE left[k] = 1 /\ st'[j] = "complete"
        BY <4>1, <4>2
      <4>3. CASE left[k] > 1 /\ st'[j] = "running" /\ bytes'[j] = BYTES
        BY <3>2, <4>1, <4>3
      <4> QED
        BY <3>1, <3>4, <4>2, <4>3
    <3> QED
      BY <3>3, <3>4
  <2>5. WaitedFor'
    BY <1>0, <1>21 DEF EndLap, Stopped, TypeOK, Held, Array, Laps, WaitedFor, NoneHad, SomeHad
  <2>6. PausedInv'
    BY <1>0, <1>21 DEF EndLap, Stopped, TypeOK, Held, Array, PausedInv
  <2>7. Verdict'
    BY <1>0, <1>21 DEF EndLap, Stopped, TypeOK, Held, Array, Verdict, NoneHad, SomeHad
  <2>8. Faults'
    BY <1>0, <1>21 DEF EndLap, Stopped, TypeOK, Held, Array, WaitedFor, Faults, NoneHad, SomeHad
  <2> QED
    BY <2>1, <2>2, <2>3, <2>4, <2>5, <2>6, <2>7, <2>8 DEF GroupInv
<1>22. CASE UNCHANGED vars
  <2>1. TypeOK' /\ Account'
    BY <1>0, <1>22 DEF vars, TypeOK, Account, Owned
  <2>2. Array' /\ Laps' /\ WaitedFor' /\ PausedInv' /\ Verdict' /\ Faults'
    BY <1>0, <1>22 DEF vars, Array, Laps, WaitedFor, PausedInv, Verdict, Faults, NoneHad, SomeHad
  <2> QED
    BY <2>1, <2>2 DEF GroupInv
<1> QED
  BY <1>1, <1>2, <1>3, <1>4, <1>5, <1>6, <1>7, <1>8, <1>9, <1>10, <1>11, <1>12, <1>13, <1>14, <1>15, <1>16, <1>17, <1>18, <1>19, <1>20, <1>21, <1>22
  DEF Next, Function, Engine, Ended

(* The invariant holds for every group, signals included: the parts of it  *)
(* the theorems below need are consequences.                               *)
THEOREM Invariant == Spec => []GroupInv
<1>1. Init => GroupInv
  BY InitInv
<1>2. GroupInv /\ [Next]_vars => GroupInv'
  BY StepInv
<1> QED
  BY <1>1, <1>2, PTL DEF Spec

(* The pause loops never leave the first channel stopped, however often    *)
(* they poll (MOD 1083-1131).                                              *)
THEOREM NeverLeftPaused == Spec => []WaitsUnpaused
<1>1. GroupInv => WaitsUnpaused
  BY DEF GroupInv, TypeOK, PausedInv, WaitsUnpaused
<1> QED
  BY <1>1, Invariant, PTL

(* No list is freed under a transfer, and all channels that were requested *)
(* are released, however many there are and whichever signals come.        *)
THEOREM AllGivenBack == Spec => []GivenBackInTime
<1>1. GroupInv => GivenBackInTime
  <2> SUFFICES ASSUME GroupInv PROVE GivenBackInTime
    OBVIOUS
  <2>1. /\ TypeOK /\ Account /\ Array /\ Faults
    BY DEF GroupInv
  <2>2. pc = "done" => Owned = {}
    <3> SUFFICES ASSUME pc = "done" PROVE \A k \in All : st[k] \notin Held
      BY DEF Owned, Held
    <3>1. fault = "none"
      BY <2>1 DEF Faults
    <3>2. CASE NoneHad
      BY <2>1, <3>1, <3>2 DEF Array, Held
    <3>3. CASE ~NoneHad
      <4>1. max_channels \in Nat /\ All \subseteq Int
        BY <2>1 DEF TypeOK, All
      <4>2. \A k \in All : st[k] \in {"zeroed", "failed", "freed"}
        BY <2>1, <3>1, <3>3, <4>1 DEF Array, SomeHad
      <4> QED
        BY <4>2 DEF Held
    <3> QED
      BY <3>2, <3>3
  <2> QED
    BY <2>1, <2>2 DEF GivenBackInTime, NotFreedWhileBusy, ChannelsConserved, Account, Faults
<1> QED
  BY <1>1, Invariant, PTL

(* A group that answers 0 has run every lap of every channel it started,   *)
(* and no error of any of them was lost in the loop over tc[i].err.        *)
THEOREM ZeroIsComplete == Spec => []ZeroMeansAllPassed
<1>1. GroupInv => ZeroMeansAllPassed
  <2> SUFFICES ASSUME GroupInv, ~interrupted, pc = "done", result = 0
               PROVE  \A k \in cfg.start .. max_channels - 1 : left[k] = 0 /\ err[k] = 0
    BY DEF ZeroMeansAllPassed
  <2>1. TypeOK /\ Array /\ WaitedFor /\ Verdict /\ Faults /\ cfg.start \in Nat /\ cfg.max_channels \in Nat
    BY ConfigFacts DEF GroupInv, TypeOK
  <2>2. fault = "none" /\ SomeHad /\ max_channels \in 1 .. cfg.max_channels
    BY <2>1 DEF Faults, SomeHad, NoneHad, Array, EINVAL
  <2> QED
    BY <2>1, <2>2 DEF WaitedFor, Verdict, All
<1> QED
  BY <1>1, Invariant, PTL

=============================================================================
