---------------------------- MODULE TcLinkProofs ----------------------------
(***************************************************************************)
(* Proofs about linked jobs, for any number of jobs on the channel, both   *)
(* orders of issue, any behaviour of the engine and any signals.           *)
(***************************************************************************)
EXTENDS TcLink, TLAPS

Stages == {"alloc", "create", "submit", "wait", "destroy", "kfree", "done"}

TypeOK ==
  /\ cfg \in Links /\ interrupted \in BOOLEAN
  /\ pc \in Stages /\ i \in 1 .. cfg.jobs + 1
  /\ tc \in {"none", "alloc", "freed"} /\ dma_chan \in {"NULL", "chan"} /\ chan \in {0, 1}
  /\ list \in [Jobs -> {"none", "alloc", "freed"}] /\ mapped \in [Jobs -> {0, 1}]
  /\ job \in [Jobs -> {"none", "prepared", "submitted", "issued", "finished", "called"}]
  /\ cb \in 0 .. cfg.jobs /\ done \in [Jobs -> Nat]
  /\ differ \subseteq Jobs /\ err \in {0, -1, -EINVAL}
  /\ fault \in {"none", "callback"}

(* Where the function is decides what it holds: the array, the channel,    *)
(* the lists and their mappings, and which of the jobs have been started.  *)
Held ==
  /\ dma_chan = "chan" <=> chan = 1
  /\ chan = 1 <=> \/ pc = "create" /\ i > 1
                  \/ pc \in {"submit", "wait"}
                  \/ pc = "destroy" /\ i = 1
  /\ tc = "none" => pc \in {"alloc", "done"}
  /\ tc = "freed" => pc = "done"
  /\ pc = "alloc" => tc = "none" /\ i = 1
  /\ pc = "done" => tc # "alloc"

Lists ==
  \A j \in Jobs :
    /\ pc \in {"alloc", "create"} =>
         IF pc = "create" /\ j < i THEN list[j] = "alloc" /\ mapped[j] = 1
                                   ELSE list[j] = "none" /\ mapped[j] = 0
    /\ pc = "submit" => list[j] = "alloc" /\ mapped[j] = 1
    /\ pc = "wait" => list[j] = "alloc" /\ mapped[j] = IF j < i THEN 0 ELSE 1
    /\ pc = "destroy" => mapped[j] = 0 /\ (j < i => list[j] = "freed")
    /\ pc \in {"kfree", "done"} => list[j] # "alloc" /\ mapped[j] = 0

Started ==
  /\ cb # 0 => job[cb] = "called"
  /\ \A j \in Jobs :
       /\ pc \in {"alloc", "create"} =>
            job[j] = IF pc = "create" /\ j < i THEN "prepared" ELSE "none"
       /\ pc = "submit" =>
            IF j < i THEN job[j] \in {"submitted", "issued", "finished", "called"}
                     ELSE job[j] = "prepared"
       /\ pc = "wait" => job[j] \in {"issued", "finished", "called"}
       /\ pc = "destroy" /\ i > 1 => job[j] \in {"none", "called"}
       /\ pc \in {"kfree", "done"} => job[j] \in {"none", "called"}

(* The function has waited for job j and checked its list.                 *)
Waited(j) == (pc = "wait" /\ j < i) \/ pc \in {"destroy", "kfree", "done"}

(* Each job is completed once: the completion is to come, or running in    *)
(* the callback, or there to be waited for, or has been waited for.        *)
Completions ==
  ~interrupted =>
    \A j \in Jobs :
      /\ IF job[j] = "called" /\ ~Waited(j)
         THEN done[j] = IF cb = j THEN 0 ELSE 1
         ELSE done[j] = 0 /\ cb # j
      /\ (pc = "wait" /\ j < i) \/ pc = "destroy" => job[j] = "called"

(* err is about the lists that have been checked.                          *)
Verdict ==
  ~interrupted =>
    /\ pc \in {"alloc", "create", "submit"} => err = 0
    /\ pc = "wait" => /\ err = 0 => \A j \in differ : j >= i
                      /\ err = -1 => \E j \in differ : j < i
    /\ pc = "destroy" \/ (pc \in {"kfree", "done"} /\ tc # "none") =>
         /\ err = 0 => differ = {}
         /\ err = -1 => differ # {}

LinkInv == TypeOK /\ Held /\ Lists /\ Started /\ Completions /\ Verdict

-----------------------------------------------------------------------------

(* What the assumption says of the configurations.                         *)
LEMMA ConfigFacts ==
  ASSUME TypeOK
  PROVE  cfg.jobs \in Nat \ {0} /\ cfg.start_in_sequence \in BOOLEAN
BY LinksAssumption DEF TypeOK

(* At the start there is neither channel nor list.                         *)
LEMMA InitInv == Init => LinkInv
<1> SUFFICES ASSUME Init PROVE LinkInv
  OBVIOUS
<1>1. cfg.jobs \in Nat \ {0}
  BY LinksAssumption DEF Init
<1>2. TypeOK
  <2>1. cfg \in Links /\ interrupted \in BOOLEAN
    BY DEF Init
  <2>2. list \in [Jobs -> {"none", "alloc", "freed"}] /\ mapped \in [Jobs -> {0, 1}]
    BY DEF Init
  <2>3. /\ job \in [Jobs -> {"none", "prepared", "submitted", "issued", "finished", "called"}]
        /\ done \in [Jobs -> Nat]
    BY DEF Init
  <2>4. /\ pc \in Stages /\ i \in 1 .. cfg.jobs + 1 /\ cb \in 0 .. cfg.jobs
        /\ chan \in {0, 1} /\ differ \subseteq Jobs /\ err \in {0, -1, -EINVAL}
    BY <1>1 DEF Init, Stages
  <2> QED
    BY <2>1, <2>2, <2>3, <2>4 DEF Init, TypeOK
<1>3. Held /\ Lists /\ Started /\ Verdict
  BY <1>1 DEF Init, Held, Lists, Started, Verdict, Jobs
<1>4. Completions
  BY <1>1 DEF Init, Completions, Waited, Jobs
<1> QED
  BY <1>2, <1>3, <1>4 DEF LinkInv

(* One step per action, and under it the parts of the invariant.           *)
LEMMA StepInv == LinkInv /\ [Next]_vars => LinkInv'
<1> SUFFICES ASSUME LinkInv, [Next]_vars PROVE LinkInv'
  OBVIOUS
<1> USE DEF funVars, Jobs
<1>0. /\ TypeOK /\ Held /\ Lists /\ Started /\ Completions /\ Verdict
      /\ cfg.jobs \in Nat \ {0} /\ cfg.start_in_sequence \in BOOLEAN
  BY ConfigFacts DEF LinkInv
<1>1. CASE fault = "none" /\ Alloc
  <2>1. TypeOK'
    BY <1>0, <1>1 DEF Alloc, TypeOK, Held, Lists, Stages, EINVAL
  <2>2. Held'
    BY <1>0, <1>1 DEF Alloc, TypeOK, Held, Lists
  <2>3. Lists'
    BY <1>0, <1>1 DEF Alloc, TypeOK, Held, Lists
  <2>4. Started'
    BY <1>0, <1>1 DEF Alloc, TypeOK, Held, Started
  <2>5. Completions'
    BY <1>0, <1>1 DEF Alloc, TypeOK, Held, Started, Completions, Waited
  <2>6. Verdict'
    BY <1>0, <1>1 DEF Alloc, TypeOK, Held, Started, Completions, Verdict, Waited
  <2> QED
    BY <2>1, <2>2, <2>3, <2>4, <2>5, <2>6 DEF LinkInv
<1>2. CASE fault = "none" /\ Create
  <2>1. TypeOK'
    BY <1>0, <1>2 DEF Create, TypeOK, Held, Lists, Stages, EINVAL
  <2>2. Held'
    BY <1>0, <1>2 DEF Create, TypeOK, Held, Lists
  <2>3. Lists'
    BY <1>0, <1>2 DEF Create, TypeOK, Held, Lists
  <2>4. Started'
    BY <1>0, <1>2 DEF Create, TypeOK, Held, Started
  <2>5. Completions'
    BY <1>0, <1>2 DEF Create, TypeOK, Held, Started, Completions, Waited
  <2>6. Verdict'
    BY <1>0, <1>2 DEF Create, TypeOK, Held, Started, Completions, Verdict, Waited
  <2> QED
    BY <2>1, <2>2, <2>3, <2>4, <2>5, <2>6 DEF LinkInv
<1>3. CASE fault = "none" /\ CreateFails
  <2>1. TypeOK'
    BY <1>0, <1>3 DEF CreateFails, TypeOK, Held, Lists, Stages, EINVAL, EINVAL
  <2>2. Held'
    BY <1>0, <1>3 DEF CreateFails, TypeOK, Held, Lists, EINVAL
  <2>3. Lists'
    BY <1>0, <1>3 DEF CreateFails, TypeOK, Held, Lists, EINVAL
  <2>4. Started'
    BY <1>0, <1>3 DEF CreateFails, TypeOK, Held, Started, EINVAL
  <2>5. Completions'
    BY <1>0, <1>3 DEF CreateFails, TypeOK, Held, Started, Completions, Waited, EINVAL
  <2>6. Verdict'
    BY <1>0, <1>3 DEF CreateFails, TypeOK, Held, Started, Completions, Verdict, Waited, EINVAL
  <2> QED
    BY <2>1, <2>2, <2>3, <2>4, <2>5, <2>6 DEF LinkInv
<1>4. CASE fault = "none" /\ AllCreated
  <2>1. TypeOK'
    BY <1>0, <1>4 DEF AllCreated, TypeOK, Held, Lists, Stages, EINVAL
  <2>2. Held'
    BY <1>0, <1>4 DEF AllCreated, TypeOK, Held, Lists
  <2>3. Lists'
    BY <1>0, <1>4 DEF AllCreated, TypeOK, Held, Lists
  <2>4. Started'
    BY <1>0, <1>4 DEF AllCreated, TypeOK, Held, Started
  <2>5. Completions'
    BY <1>0, <1>4 DEF AllCreated, TypeOK, Held, Started, Completions, Waited
  <2>6. Verdict'
    BY <1>0, <1>4 DEF AllCreated, TypeOK, Held, Started, Completions, Verdict, Waited
  <2> QED
    BY <2>1, <2>2, <2>3, <2>4, <2>5, <2>6 DEF LinkInv
<1>5. CASE fault = "none" /\ Submit
  <2>1. TypeOK'
    BY <1>0, <1>5 DEF Submit, TypeOK, Held, Lists, Stages, EINVAL
  <2>2. Held'
    BY <1>0, <1>5 DEF Submit, TypeOK, Held, Lists
  <2>3. Lists'
    BY <1>0, <1>5 DEF Submit, TypeOK, Held, Lists
  <2>4. Started'
    BY <1>0, <1>5 DEF Submit, TypeOK, Held, Started
  <2>5. Completions'
    BY <1>0, <1>5 DEF Submit, TypeOK, Held, Started, Completions, Waited
  <2>6. Verdict'
    BY <1>0, <1>5 DEF Submit, TypeOK, Held, Started, Completions, Verdict, Waited
  <2> QED
    BY <2>1, <2>2, <2>3, <2>4, <2>5, <2>6 DEF LinkInv
<1>6. CASE fault = "none" /\ AllSubmitted
  <2>1. TypeOK'
    BY <1>0, <1>6 DEF AllSubmitted, TypeOK, Held, Lists, Stages, EINVAL
  <2>2. Held'
    BY <1>0, <1>6 DEF AllSubmitted, TypeOK, Held, Lists
  <2>3. Lists'
    BY <1>0, <1>6 DEF AllSubmitted, TypeOK, Held, Lists
  <2>4. Started'
    BY <1>0, <1>6 DEF AllSubmitted, TypeOK, Held, Started
  <2>5. Completions'
    BY <1>0, <1>6 DEF AllSubmitted, TypeOK, Held, Started, Completions, Waited
  <2>6. Verdict'
    BY <1>0, <1>6 DEF AllSubmitted, TypeOK, Held, Started, Completions, Verdict, Waited
  <2> QED
    BY <2>1, <2>2, <2>3, <2>4, <2>5, <2>6 DEF LinkInv
<1>7. CASE fault = "none" /\ Wait
  <2>1. TypeOK'
    <3>1. i \in Jobs /\ mapped[i] = 1 /\ done[i] \in Nat \ {0}
      BY <1>0, <1>7 DEF Wait, TypeOK, Lists
    <3>2. mapped' \in [Jobs -> {0, 1}] /\ done' \in [Jobs -> Nat]
      BY <1>0, <1>7, <3>1 DEF Wait, TypeOK, payload_check
    <3> QED
      BY <1>0, <1>7, <3>1, <3>2 DEF Wait, TypeOK, Stages, EINVAL, payload_check
  <2>2. Held'
    BY <1>0, <1>7 DEF Wait, TypeOK, Held, Lists, payload_check
  <2>3. Lists'
    BY <1>0, <1>7 DEF Wait, TypeOK, Held, Lists, payload_check
  <2>4. Started'
    BY <1>0, <1>7 DEF Wait, TypeOK, Held, Started, payload_check
  <2>5. Completions'
    BY <1>0, <1>7 DEF Wait, TypeOK, Held, Started, Completions, Waited, payload_check
  <2>6. Verdict'
    BY <1>0, <1>7 DEF Wait, TypeOK, Held, Started, Completions, Verdict, Waited, payload_check
  <2> QED
    BY <2>1, <2>2, <2>3, <2>4, <2>5, <2>6 DEF LinkInv
<1>8. CASE fault = "none" /\ AllChecked
  <2>1. TypeOK'
    BY <1>0, <1>8 DEF AllChecked, TypeOK, Held, Lists, Stages, EINVAL
  <2>2. Held'
    BY <1>0, <1>8 DEF AllChecked, TypeOK, Held, Lists
  <2>3. Lists'
    BY <1>0, <1>8 DEF AllChecked, TypeOK, Held, Lists
  <2>4. Started'
    BY <1>0, <1>8 DEF AllChecked, TypeOK, Held, Started
  <2>5. Completions'
    BY <1>0, <1>8 DEF AllChecked, TypeOK, Held, Started, Completions, Waited
  <2>6. Verdict'
    BY <1>0, <1>8 DEF AllChecked, TypeOK, Held, Started, Completions, Verdict, Waited
  <2> QED
    BY <2>1, <2>2, <2>3, <2>4, <2>5, <2>6 DEF LinkInv
<1>9. CASE fault = "none" /\ Destroy
  <2>1. TypeOK'
    BY <1>0, <1>9 DEF Destroy, TypeOK, Held, Lists, Stages, EINVAL
  <2>2. Held'
    BY <1>0, <1>9 DEF Destroy, TypeOK, Held, Lists
  <2>3. Lists'
    BY <1>0, <1>9 DEF Destroy, TypeOK, Held, Lists
  <2>4. Started'
    BY <1>0, <1>9 DEF Destroy, TypeOK, Held, Started
  <2>5. Completions'
    BY <1>0, <1>9 DEF Destroy, TypeOK, Held, Started, Completions, Waited
  <2>6. Verdict'
    BY <1>0, <1>9 DEF Destroy, TypeOK, Held, Started, Completions, Verdict, Waited
  <2> QED
    BY <2>1, <2>2, <2>3, <2>4, <2>5, <2>6 DEF LinkInv
<1>10. CASE fault = "none" /\ AllDestroyed
  <2>1. TypeOK'
    BY <1>0, <1>10 DEF AllDestroyed, TypeOK, Held, Lists, Stages, EINVAL
  <2>2. Held'
    BY <1>0, <1>10 DEF AllDestroyed, TypeOK, Held, Lists
  <2>3. Lists'
    BY <1>0, <1>10 DEF AllDestroyed, TypeOK, Held, Lists
  <2>4. Started'
    BY <1>0, <1>10 DEF AllDestroyed, TypeOK, Held, Started
  <2>5. Completions'
    BY <1>0, <1>10 DEF AllDestroyed, TypeOK, Held, Started, Completions, Waited
  <2>6. Verdict'
    BY <1>0, <1>10 DEF AllDestroyed, TypeOK, Held, Started, Completions, Verdict, Waited
  <2> QED
    BY <2>1, <2>2, <2>3, <2>4, <2>5, <2>6 DEF LinkInv
<1>11. CASE fault = "none" /\ Free
  <2>1. TypeOK'
    BY <1>0, <1>11 DEF Free, TypeOK, Held, Lists, Stages, EINVAL
  <2>2. Held'
    BY <1>0, <1>11 DEF Free, TypeOK, Held, Lists
  <2>3. Lists'
    BY <1>0, <1>11 DEF Free, TypeOK, Held, Lists
  <2>4. Started'
    BY <1>0, <1>11 DEF Free, TypeOK, Held, Started
  <2>5. Completions'
    BY <1>0, <1>11 DEF Free, TypeOK, Held, Started, Completions, Waited
  <2>6. Verdict'
    BY <1>0, <1>11 DEF Free, TypeOK, Held, Started, Completions, Verdict, Waited
  <2> QED
    BY <2>1, <2>2, <2>3, <2>4, <2>5, <2>6 DEF LinkInv
<1>12. CASE fault = "none" /\ WaitInterrupted
  <2>1. TypeOK'
    BY <1>0, <1>12 DEF WaitInterrupted, TypeOK, Held, Lists, Stages, EINVAL, payload_check
  <2>2. Held'
    BY <1>0, <1>12 DEF WaitInterrupted, TypeOK, Held, Lists, payload_check
  <2>3. Lists'
    BY <1>0, <1>12 DEF WaitInterrupted, TypeOK, Held, Lists, payload_check
  <2>4. Started'
    BY <1>0, <1>12 DEF WaitInterrupted, TypeOK, Held, Started, payload_check
  <2>5. Completions'
    BY <1>0, <1>12 DEF WaitInterrupted, TypeOK, Held, Started, Completions, Waited, payload_check
  <2>6. Verdict'
    BY <1>0, <1>12 DEF WaitInterrupted, TypeOK, Held, Started, Completions, Verdict, Waited, payload_check
  <2> QED
    BY <2>1, <2>2, <2>3, <2>4, <2>5, <2>6 DEF LinkInv
<1>13. CASE fault = "none" /\ tc_link_callback
  <2>1. TypeOK'
    BY <1>0, <1>13 DEF tc_link_callback, TypeOK, Held, Lists, Stages, EINVAL
  <2>2. Held'
    BY <1>0, <1>13 DEF tc_link_callback, TypeOK, Held, Lists
  <2>3. Lists'
    BY <1>0, <1>13 DEF tc_link_callback, TypeOK, Held, Lists
  <2>4. Started'
    BY <1>0, <1>13 DEF tc_link_callback, TypeOK, Held, Started
  <2>5. Completions'
    BY <1>0, <1>13 DEF tc_link_callback, TypeOK, Held, Started, Completions, Waited
  <2>6. Verdict'
    BY <1>0, <1>13 DEF tc_link_callback, TypeOK, Held, Started, Completions, Verdict, Waited
  <2> QED
    BY <2>1, <2>2, <2>3, <2>4, <2>5, <2>6 DEF LinkInv
<1>14. ASSUME fault = "none", NEW k \in Jobs, HwFinish(k) PROVE LinkInv'
  <2>1. TypeOK'
    BY <1>0, <1>14 DEF HwFinish, TypeOK, Held, Lists, Stages, EINVAL
  <2>2. Held'
    BY <1>0, <1>14 DEF HwFinish, TypeOK, Held, Lists
  <2>3. Lists'
    BY <1>0, <1>14 DEF HwFinish, TypeOK, Held, Lists
  <2>4. Started'
    BY <1>0, <1>14 DEF HwFinish, TypeOK, Held, Started
  <2>5. Completions'
    BY <1>0, <1>14 DEF HwFinish, TypeOK, Held, Started, Completions, Waited
  <2>6. Verdict'
    BY <1>0, <1>14 DEF HwFinish, TypeOK, Held, Started, Completions, Verdict, Waited
  <2> QED
    BY <2>1, <2>2, <2>3, <2>4, <2>5, <2>6 DEF LinkInv
<1>15. ASSUME fault = "none", NEW k \in Jobs, TakeCallback(k) PROVE LinkInv'
  <2>1. TypeOK'
    BY <1>0, <1>15 DEF TakeCallback, TypeOK, Held, Lists, Stages, EINVAL
  <2>2. Held'
    BY <1>0, <1>15 DEF TakeCallback, TypeOK, Held, Lists
  <2>3. Lists'
    BY <1>0, <1>15 DEF TakeCallback, TypeOK, Held, Lists
  <2>4. Started'
    BY <1>0, <1>15 DEF TakeCallback, TypeOK, Held, Started
  <2>5. Completions'
    BY <1>0, <1>15 DEF TakeCallback, TypeOK, Held, Started, Completions, Waited
  <2>6. Verdict'
    BY <1>0, <1>15 DEF TakeCallback, TypeOK, Held, Started, Completions, Verdict, Waited
  <2> QED
    BY <2>1, <2>2, <2>3, <2>4, <2>5, <2>6 DEF LinkInv
<1>16. CASE UNCHANGED vars
  BY <1>0, <1>16 DEF vars, LinkInv, TypeOK, Held, Lists, Started, Completions, Verdict, Waited
<1> QED
  BY <1>1, <1>2, <1>3, <1>4, <1>5, <1>6, <1>7, <1>8, <1>9, <1>10, <1>11, <1>12, <1>13, <1>14, <1>15, <1>16 DEF Next, tc_link_core, Driver

(* The invariant holds whatever the engine and the signals do.             *)
THEOREM Invariant == Spec => []LinkInv
<1>1. Init => LinkInv
  BY InitInv
<1>2. LinkInv /\ [Next]_vars => LinkInv'
  BY StepInv
<1> QED
  BY <1>1, <1>2, PTL DEF Spec

(* Every variable of tc_link_core has its type; the channel is requested   *)
(* once at most.                                                           *)
THEOREM TypeCorrect == Spec => []TypeOK
<1>1. LinkInv => TypeOK
  BY DEF LinkInv
<1> QED
  BY <1>1, Invariant, PTL

(* The channel that the jobs borrow is released once, when no job is on it *)
(* and no callback runs; the lists are mapped while their jobs run; and    *)
(* every list is given back (dmatest_buflist_destroy of each, MOD 1930).   *)
THEOREM LentAndGivenBack == Spec => []LentAndReturned
<1>1. LinkInv => LentAndReturned
  <2> SUFFICES ASSUME LinkInv PROVE LentAndReturned
    OBVIOUS
  <2>0. /\ TypeOK /\ Held /\ Lists /\ Started /\ Completions
        /\ cfg.jobs \in Nat \ {0}
    BY ConfigFacts DEF LinkInv
  <2> USE DEF Jobs
  <2>1. NothingLeaks
    BY <2>0 DEF NothingLeaks, TypeOK, Held, Lists
  <2>2. MappedWhileRunning
    BY <2>0 DEF MappedWhileRunning, TypeOK, Held, Lists, Started, Completions, Stages
  <2>3. ReleasedWhenQuiet
    BY <2>0 DEF ReleasedWhenQuiet, TypeOK, Held, Started, Completions, Waited, Stages
  <2> QED
    BY <2>1, <2>2, <2>3 DEF LentAndReturned
<1> QED
  BY <1>1, Invariant, PTL

(* Until a signal ends a wait, what tc_link_core returns is about lists    *)
(* whose jobs were over when they were compared.                           *)
THEOREM VerdictCorrect == Spec => []VerdictIsRight
<1>1. LinkInv => VerdictIsRight
  BY DEF LinkInv, Verdict, VerdictIsRight
<1> QED
  BY <1>1, Invariant, PTL

=============================================================================
