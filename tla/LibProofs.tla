----------------------------- MODULE LibProofs -----------------------------
(***************************************************************************)
(* Proofs about two parts of the library that nothing else is modelled     *)
(* with.  The temporary directory: for every tree in it and outside it,    *)
(* every failing system call and any number of entries that another process*)
(* creates and removes between the calls of rmobj, which leave every node  *)
(* its kind (TstTmpdir!TreeAssumption).  The helpers: for every call       *)
(* that LibHelpers!HelperAssumption admits, and ints of any width.         *)
(***************************************************************************)
EXTENDS TstTmpdir, LibHelpers, TLAPS, SequenceTheorems, FiniteSetTheorems

Places == {"tmpdir", "strdup", "chown", "chmod", "chdir", "test", "return", "exited"}
            \cup Walks

Frames == [obj : Nodes \ Outside, todo : SUBSET (Nodes \ Outside),
           seen : SUBSET (Nodes \ Outside), ret_val : {0, -1}]

TypeOK ==
  /\ TDIRECTORY \in {0, 1} /\ TESTDIR \in {"NULL", "env", "tmp"}
  /\ fs \in SUBSET Nodes /\ cwd \in {"start", "testdir", "parent"} /\ pc \in Places
  /\ stack \in Seq(Frames) /\ ret \in {0, -1} /\ warned \in {0, 1}
  /\ churn \in SUBSET Nodes

(* rmobj walks down from the temporary directory, through directories; what*)
(* it has seen by lstat is still of that kind.                             *)
Walking == pc \in Walks \cup {"return"}
StackInv ==
  /\ pc \in Walks => stack # <<>>
  /\ stack # <<>> => Walking /\ stack[1].obj = TMP
  /\ \A k \in 1 .. Len(stack) :
       k < Len(stack) \/ pc \notin {"walk", "unlink"} => Kind[stack[k].obj] = "dir"
  /\ pc = "unlink" => Kind[stack[Len(stack)].obj] # "dir"
  /\ Walking => TDIRECTORY = 0

(* The tree hangs together, whoever changes it.                            *)
TreeInv ==
  /\ Outside \subseteq fs
  /\ \A n \in fs \cap Inside : Parent[n] \in fs

DirInv == TypeOK /\ StackInv /\ TreeInv /\ GoneOrWarned

-----------------------------------------------------------------------------

(* A call of rmobj ends, ...                                               *)
LEMMA Popped ==
  ASSUME NEW s \in Seq(Frames), s # <<>>, NEW t, t = SubSeq(s, 1, Len(s) - 1)
  PROVE  /\ t \in Seq(Frames) /\ Len(t) = Len(s) - 1
         /\ \A k \in 1 .. Len(t) : t[k] = s[k]
<1>1. Len(s) \in Nat \ {0} /\ s \in [1 .. Len(s) -> Frames]
  BY EmptySeq, LenProperties
<1>2. Len(t) = Len(s) - 1 /\ \A k \in 1 .. Len(t) : t[k] = s[k]
  BY <1>1, SubSeqProperties
<1> QED
  BY <1>1, <1>2, SubSeqProperties

(* ... or begins.                                                          *)
LEMMA Pushed ==
  ASSUME NEW s \in Seq(Frames), NEW f \in Frames, NEW t, t = Append(s, f)
  PROVE  /\ t \in Seq(Frames) /\ Len(t) = Len(s) + 1 /\ t[Len(s) + 1] = f
         /\ \A k \in 1 .. Len(s) : t[k] = s[k]
OBVIOUS

(* The innermost call changes its own variables.                           *)
LEMMA TopChanged ==
  ASSUME NEW s \in Seq(Frames), s # <<>>, NEW f \in Frames, NEW t,
         t = [s EXCEPT ![Len(s)] = f]
  PROVE  /\ t \in Seq(Frames) /\ Len(t) = Len(s) /\ t[Len(s)] = f
         /\ \A k \in 1 .. Len(s) - 1 : t[k] = s[k]
OBVIOUS

(* What a directory below the temporary one holds is below it, too.        *)
LEMMA EntriesInside ==
  ASSUME TypeOK, NEW n \in Nodes \ Outside, IsDir(n)
  PROVE  Entries(n) \subseteq Nodes \ Outside /\ TMP \notin Entries(n)
BY BelowAssumption, TreeAssumption DEF TypeOK, Entries, Place, IsDir

(* An empty directory, or what is none, can be removed from the tree.      *)
LEMMA Removed ==
  ASSUME TypeOK, TreeInv, NEW n \in Nodes \ Outside,
         IsDir(n) => Entries(n) = {}, fs' = fs \ {n}
  PROVE  TreeInv' /\ fs' \in SUBSET Nodes
<1>1. ASSUME NEW m \in fs' \cap Inside PROVE Parent[m] \in fs'
  BY <1>1, TreeAssumption, BelowAssumption DEF TypeOK, TreeInv, Inside, IsDir, Entries, Place
<1> QED
  BY <1>1 DEF TypeOK, TreeInv, Inside

(* Without the temporary directory there is nothing in it.                 *)
LEMMA GoneWithAll ==
  ASSUME NEW F \in SUBSET Nodes, Outside \subseteq F, TMP \notin F,
         \A n \in F \cap Inside : Parent[n] \in F
  PROVE  F = Outside
<1> DEFINE S == F \cap Inside
<1>1. S = {}
  <2> SUFFICES ASSUME S # {} PROVE FALSE
    OBVIOUS
  <2>1. S \in SUBSET (Nodes \ (Outside \cup {TMP}))
    BY DEF Inside
  <2>2. PICK n \in S : Parent[n] \notin S \cup Outside
    BY <2>1, BelowAssumption
  <2>3. Parent[n] \in F /\ Parent[n] \in Nodes
    BY <2>2, TreeAssumption DEF Inside
  <2> QED
    BY <2>2, <2>3 DEF Inside
<1>2. \A n \in F : n \in Outside
  BY <1>1 DEF Inside
<1> QED
  BY <1>2

(* An entry can only be created in a directory that is there.              *)
LEMMA Created ==
  ASSUME TypeOK, TreeInv, NEW n \in Creatable, fs' = fs \cup {n}
  PROVE  TreeInv' /\ fs' \in SUBSET Nodes
BY DEF TypeOK, TreeInv, Creatable, Inside

(* The innermost call.                                                     *)
LEMMA TopFacts ==
  ASSUME TypeOK, StackInv, stack # <<>>
  PROVE  /\ Len(stack) \in Nat \ {0} /\ Top \in Frames /\ Top.obj \in Nodes \ Outside
         /\ pc \notin {"walk", "unlink"} => IsDir(Top.obj)
         /\ pc = "unlink" => ~IsDir(Top.obj)
         /\ Len(stack) = 1 => Top.obj = TMP
<1>1. Len(stack) \in Nat \ {0} /\ stack \in [1 .. Len(stack) -> Frames]
  BY EmptySeq, LenProperties DEF TypeOK
<1> QED
  BY <1>1 DEF Top, Frames, StackInv, IsDir

(* A call of rmobj that returns 0 has removed its object.                  *)
LEMMA CallEnds ==
  ASSUME DirInv, stack # <<>>, UNCHANGED walkVars, NEW r \in {0, -1}, Return(r),
         \/ r = -1 /\ UNCHANGED fs
         \/ fs' = fs \ {Top.obj} /\ (IsDir(Top.obj) => Entries(Top.obj) = {})
  PROVE  DirInv'
<1>0. TypeOK /\ StackInv /\ TreeInv
  BY DEF DirInv
<1>1. /\ Len(stack) \in Nat \ {0} /\ Top.obj \in Nodes \ Outside
      /\ Len(stack) = 1 => Top.obj = TMP
  BY <1>0, TopFacts
<1>2. /\ stack' \in Seq(Frames) /\ Len(stack') = Len(stack) - 1
      /\ \A k \in 1 .. Len(stack') : stack'[k] = stack[k]
  BY <1>0, Popped DEF TypeOK, Return
<1>3. TreeInv' /\ fs' \in SUBSET Nodes
  BY <1>0, <1>1, Removed DEF TypeOK, TreeInv
<1>4. TypeOK'
  BY <1>0, <1>2, <1>3 DEF TypeOK, Return, walkVars, Places
<1>5. StackInv'
  BY <1>0, <1>1, <1>2, EmptySeq DEF StackInv, Walking, Walks, Return, walkVars, TypeOK
<1>6. ASSUME stack' = <<>>, r = 0 PROVE fs' = Outside
  <2>1. Len(stack) = 1
    BY <1>1, <1>2, <1>6, EmptySeq
  <2> QED
    BY <1>1, <1>3, <1>6, <2>1, GoneWithAll DEF TreeInv
<1>7. GoneOrWarned'
  BY <1>3, <1>6 DEF GoneOrWarned, Return, TreeInv
<1> QED
  BY <1>3, <1>4, <1>5, <1>7 DEF DirInv

(* At the start nothing has been removed.                                  *)
LEMMA InitInv == Init => DirInv
BY TreeAssumption, BoundAssumption, EmptySeq
   DEF Init, DirInv, TypeOK, StackInv, TreeInv, GoneOrWarned, Walking, Walks, Places, Inside

(* One step per action.                                                    *)
LEMMA StepInv == DirInv /\ [Next]_vars => DirInv'
<1> SUFFICES ASSUME DirInv, [Next]_vars PROVE DirInv'
  OBVIOUS
<1>0. TypeOK /\ StackInv /\ TreeInv /\ GoneOrWarned
  BY DEF DirInv
<1> USE DEF Places, Walks
<1>1. CASE UseTdirectory
  <2>1. TypeOK' /\ TreeInv'
    BY <1>0, <1>1, TreeAssumption DEF UseTdirectory, Breaks, TypeOK, TreeInv, Inside
  <2>2. StackInv' /\ GoneOrWarned'
    BY <1>0, <1>1, <2>1 DEF UseTdirectory, Breaks, StackInv, Walking, TreeInv, GoneOrWarned
  <2> QED
    BY <2>1, <2>2 DEF DirInv
<1>2. CASE mkdtemp
  <2>1. TypeOK' /\ TreeInv'
    BY <1>0, <1>2, TreeAssumption DEF mkdtemp, Breaks, TypeOK, TreeInv, Inside
  <2>2. StackInv' /\ GoneOrWarned'
    BY <1>0, <1>2, <2>1 DEF mkdtemp, Breaks, StackInv, Walking, TreeInv, GoneOrWarned
  <2> QED
    BY <2>1, <2>2 DEF DirInv
<1>3. CASE Prepare
  BY <1>0, <1>3 DEF Prepare, Breaks, DirInv, TypeOK, StackInv, Walking, TreeInv, GoneOrWarned
<1>4. CASE Chdir
  BY <1>0, <1>4 DEF Chdir, Breaks, DirInv, TypeOK, StackInv, Walking, TreeInv, GoneOrWarned
<1>5. CASE TestCreates
  <2>1. PICK n \in Creatable : fs' = fs \cup {n}
    BY <1>5 DEF TestCreates
  <2>2. TreeInv' /\ fs' \in SUBSET Nodes
    BY <1>0, <2>1, Created
  <2> QED
    BY <1>0, <1>5, <2>2 DEF TestCreates, DirInv, TypeOK, StackInv, Walking, TreeInv, GoneOrWarned
<1>6. CASE Interfere
  <2>1. TreeInv' /\ fs' \in SUBSET Nodes /\ churn' \in SUBSET Nodes
    <3>0. Creatable \subseteq Nodes /\ Removable \subseteq Nodes
      BY DEF Creatable, Removable, Inside
    <3>1. ASSUME NEW n \in Creatable, fs' = fs \cup {n}, churn' = churn \cup {n}
          PROVE  TreeInv' /\ fs' \in SUBSET Nodes /\ churn' \in SUBSET Nodes
      BY <1>0, <3>0, <3>1, Created DEF TypeOK
    <3>2. ASSUME NEW n \in Removable, fs' = fs \ {n}, churn' = churn \cup {n}
          PROVE  TreeInv' /\ fs' \in SUBSET Nodes /\ churn' \in SUBSET Nodes
      BY <1>0, <3>0, <3>2 DEF Removable, TypeOK, TreeInv, Inside
    <3> QED
      BY <1>6, <3>1, <3>2 DEF Interfere
  <2>2. TypeOK' /\ StackInv'
    BY <1>0, <1>6, <2>1 DEF Interfere, TypeOK, StackInv, Walking
  <2>3. ASSUME fs = Outside PROVE Creatable = {} /\ Removable = {}
    <3>1. ASSUME NEW n \in Inside PROVE Parent[n] \notin Outside
      <4>1. {n} \in SUBSET (Nodes \ (Outside \cup {TMP})) /\ {n} # {}
        BY <3>1 DEF Inside
      <4> QED
        BY <4>1, BelowAssumption
    <3> QED
      BY <2>3, <3>1 DEF Creatable, Removable, Inside
  <2>4. GoneOrWarned'
    BY <1>0, <1>6, <2>1, <2>3 DEF Interfere, GoneOrWarned, TreeInv
  <2> QED
    BY <2>1, <2>2, <2>4 DEF DirInv
<1>7. CASE tst_rmdir
  <2>1. Frame(TMP) \in Frames /\ Frame(TMP).obj = TMP
    BY TreeAssumption DEF Frame, Frames
  <2>2. <<Frame(TMP)>> \in Seq(Frames) /\ Len(<<Frame(TMP)>>) = 1
    BY <2>1
  <2>3. TypeOK'
    BY <1>0, <1>7, <2>2 DEF tst_rmdir, TypeOK
  <2>4. StackInv'
    BY <1>0, <1>7, <2>1, <2>2, TreeAssumption DEF tst_rmdir, TypeOK, StackInv, Walking
  <2>5. TreeInv' /\ GoneOrWarned'
    BY <1>0, <1>7 DEF tst_rmdir, TypeOK, TreeInv, GoneOrWarned
  <2> QED
    BY <2>3, <2>4, <2>5 DEF DirInv
<1>8. CASE RmdirEnds
  <2>1. TypeOK' /\ TreeInv' /\ GoneOrWarned'
    BY <1>0, <1>8 DEF RmdirEnds, TypeOK, TreeInv, GoneOrWarned
  <2>2. StackInv'
    BY <1>0, <1>8, EmptySeq DEF RmdirEnds, StackInv, Walking
  <2> QED
    BY <2>1, <2>2 DEF DirInv
<1>9. CASE Lstat
  <2>0. stack # <<>> /\ pc = "walk"
    BY <1>0, <1>9 DEF Lstat, StackInv
  <2>1. CASE Return(-1)
    BY <1>0, <1>9, <2>0, <2>1, CallEnds DEF Lstat
  <2>2. CASE ~Return(-1)
    <3>1. /\ pc' = IF IsDir(Top.obj) THEN "opendir" ELSE "unlink"
          /\ UNCHANGED <<walkVars, ret, fs, stack>>
      BY <1>9, <2>2 DEF Lstat
    <3>2. TypeOK' /\ TreeInv' /\ GoneOrWarned'
      BY <1>0, <3>1 DEF TypeOK, TreeInv, GoneOrWarned, walkVars
    <3>3. Len(stack) \in Nat \ {0}
      BY <1>0, <2>0, TopFacts
    <3>4. StackInv'
      BY <1>0, <2>0, <3>1, <3>3 DEF StackInv, Walking, IsDir, Top, walkVars
    <3> QED
      BY <3>2, <3>4 DEF DirInv
  <2> QED
    BY <2>1, <2>2
<1>10. CASE Unlink
  <2>1. stack # <<>> /\ ~IsDir(Top.obj)
    BY <1>0, <1>10, TopFacts DEF Unlink, StackInv
  <2> QED
    BY <1>0, <1>10, <2>1, CallEnds DEF Unlink
<1>11. CASE Opendir
  <2>0. stack # <<>> /\ pc = "opendir"
    BY <1>0, <1>11 DEF Opendir, StackInv
  <2>1. CASE pc' = "rmdir" /\ UNCHANGED stack
    BY <1>0, <1>11, <2>0, <2>1
       DEF Opendir, DirInv, TypeOK, StackInv, Walking, TreeInv, GoneOrWarned, walkVars
  <2>2. CASE ~(pc' = "rmdir" /\ UNCHANGED stack)
    <3> DEFINE f == [Top EXCEPT !.todo = Entries(Top.obj)]
    <3>1. /\ stack' = [stack EXCEPT ![Len(stack)] = f] /\ pc' = "read"
          /\ UNCHANGED <<walkVars, ret, fs>>
      BY <1>11, <2>2 DEF Opendir, Top
    <3>2. /\ Len(stack) \in Nat \ {0} /\ Top \in Frames /\ Top.obj \in Nodes \ Outside
          /\ IsDir(Top.obj) /\ Entries(Top.obj) \subseteq Nodes \ Outside
      BY <1>0, <2>0, TopFacts, EntriesInside
    <3>3. f \in Frames /\ f.obj = Top.obj
      BY <3>2 DEF Frames
    <3> HIDE DEF f
    <3>4. /\ stack' \in Seq(Frames) /\ Len(stack') = Len(stack) /\ stack'[Len(stack)] = f
          /\ \A k \in 1 .. Len(stack) - 1 : stack'[k] = stack[k]
      BY <1>0, <2>0, <3>1, <3>3, TopChanged DEF TypeOK
    <3>5. TypeOK'
      BY <1>0, <3>1, <3>4 DEF TypeOK, walkVars
    <3>6. \A k \in 1 .. Len(stack) : stack'[k].obj = stack[k].obj
      BY <3>2, <3>3, <3>4 DEF Top
    <3>7. \A k \in 1 .. Len(stack) : Kind[stack[k].obj] = "dir"
      BY <1>0, <2>0, <3>2 DEF StackInv
    <3>8. stack' # <<>> /\ stack'[1].obj = TMP
      BY <1>0, <2>0, <3>2, <3>4, <3>6, EmptySeq DEF StackInv
    <3>9. StackInv'
      BY <1>0, <2>0, <3>1, <3>4, <3>6, <3>7, <3>8 DEF StackInv, Walking, walkVars
    <3> QED
      BY <1>0, <3>1, <3>5, <3>9 DEF DirInv, TreeInv, GoneOrWarned, walkVars
  <2> QED
    BY <2>1, <2>2
<1>12. CASE Readdir
  <2>0. stack # <<>> /\ pc = "read"
    BY <1>0, <1>12 DEF Readdir, StackInv
  <2>1. /\ Len(stack) \in Nat \ {0} /\ Top \in Frames /\ Top.obj \in Nodes \ Outside /\ IsDir(Top.obj)
        /\ Entries(Top.obj) \subseteq Nodes \ Outside
    BY <1>0, <2>0, TopFacts, EntriesInside
  <2>2. PICK n \in (Top.todo \cup Entries(Top.obj)) \ Top.seen :
          /\ stack' = Append([stack EXCEPT ![Len(stack)].seen = @ \cup {n}], Frame(n))
          /\ pc' = "walk" /\ UNCHANGED <<walkVars, ret, fs>>
    BY <1>12 DEF Readdir
  <2> DEFINE f == [Top EXCEPT !.seen = @ \cup {n}]
             t == [stack EXCEPT ![Len(stack)] = f]
  <2>3. n \in Nodes \ Outside /\ f \in Frames /\ f.obj = Top.obj
    BY <2>1, <2>2 DEF Frames
  <2>4. Frame(n) \in Frames
    BY <2>3 DEF Frame, Frames
  <2>5. stack' = Append(t, Frame(n))
    BY <2>2 DEF Top
  <2> HIDE DEF f
  <2>6. /\ t \in Seq(Frames) /\ Len(t) = Len(stack) /\ t[Len(stack)] = f
        /\ \A k \in 1 .. Len(stack) - 1 : t[k] = stack[k]
    BY <1>0, <2>0, <2>3, TopChanged DEF TypeOK
  <2> HIDE DEF t
  <2>7. /\ stack' \in Seq(Frames) /\ Len(stack') = Len(stack) + 1
        /\ \A k \in 1 .. Len(stack) : stack'[k] = t[k]
    BY <2>4, <2>5, <2>6, Pushed
  <2>8. TypeOK'
    BY <1>0, <2>2, <2>7 DEF TypeOK, walkVars
  <2>9. \A k \in 1 .. Len(stack) : stack'[k].obj = stack[k].obj
    BY <2>1, <2>3, <2>6, <2>7 DEF Top
  <2>10. StackInv'
    BY <1>0, <2>0, <2>1, <2>2, <2>7, <2>9, EmptySeq DEF StackInv, Walking, walkVars
  <2> QED
    BY <1>0, <2>2, <2>8, <2>10 DEF DirInv, TreeInv, GoneOrWarned, walkVars
<1>13. CASE CallReturns
  <2>0. stack # <<>>
    BY <1>13 DEF CallReturns
  <2> DEFINE f == [Top EXCEPT !.ret_val = IF ret # 0 THEN -1 ELSE @]
  <2>1. /\ stack' = [stack EXCEPT ![Len(stack)] = f] /\ pc' = "read" /\ pc = "return" /\ stack # <<>>
        /\ UNCHANGED <<walkVars, ret, fs>>
    BY <1>13 DEF CallReturns, Top
  <2>2. Len(stack) \in Nat \ {0} /\ Top \in Frames
    BY <1>0, <2>1, TopFacts
  <2>3. f \in Frames /\ f.obj = Top.obj
    BY <2>2 DEF Frames
  <2> HIDE DEF f
  <2>4. /\ stack' \in Seq(Frames) /\ Len(stack') = Len(stack) /\ stack'[Len(stack)] = f
        /\ \A k \in 1 .. Len(stack) - 1 : stack'[k] = stack[k]
    BY <1>0, <2>1, <2>3, TopChanged DEF TypeOK
  <2>5. TypeOK'
    BY <1>0, <2>1, <2>4 DEF TypeOK, walkVars
  <2>6. \A k \in 1 .. Len(stack) : stack'[k].obj = stack[k].obj
    BY <2>2, <2>3, <2>4 DEF Top
  <2>7. \A k \in 1 .. Len(stack) : Kind[stack[k].obj] = "dir"
    BY <1>0, <2>1, <2>2 DEF StackInv
  <2>8. stack' # <<>> /\ stack'[1].obj = TMP
    BY <1>0, <2>0, <2>2, <2>4, <2>6, EmptySeq DEF StackInv
  <2>9. StackInv'
    BY <1>0, <2>1, <2>4, <2>6, <2>7, <2>8 DEF StackInv, Walking, walkVars
  <2> QED
    BY <1>0, <2>1, <2>5, <2>9 DEF DirInv, TreeInv, GoneOrWarned, walkVars
<1>14. CASE EndOfDir
  <2>0. stack # <<>> /\ pc = "read"
    BY <1>0, <1>14 DEF EndOfDir, StackInv
  <2>1. CASE Return(-1)
    BY <1>0, <1>14, <2>0, <2>1, CallEnds DEF EndOfDir
  <2>2. CASE ~Return(-1)
    <3>1. pc' = "remove" /\ UNCHANGED <<walkVars, ret, fs, stack>>
      BY <1>14, <2>2 DEF EndOfDir
    <3> QED
      BY <1>0, <2>0, <3>1 DEF DirInv, TypeOK, StackInv, Walking, TreeInv, GoneOrWarned, walkVars
  <2> QED
    BY <2>1, <2>2
<1>15. CASE Rmdir
  <2>1. stack # <<>>
    BY <1>0, <1>15 DEF Rmdir, StackInv
  <2> QED
    BY <1>0, <1>15, <2>1, CallEnds DEF Rmdir
<1>16. CASE Remove
  <2>1. stack # <<>>
    BY <1>0, <1>16 DEF Remove, StackInv
  <2> QED
    BY <1>0, <1>16, <2>1, CallEnds DEF Remove
<1>17. CASE UNCHANGED vars
  BY <1>0, <1>17 DEF vars, DirInv, TypeOK, StackInv, Walking, TreeInv, GoneOrWarned
<1> QED
  BY <1>1, <1>2, <1>3, <1>4, <1>5, <1>6, <1>7, <1>8, <1>9, <1>10, <1>11, <1>12, <1>13, <1>14,
     <1>15, <1>16, <1>17
  DEF Next, Program, rmobj

(* The invariant holds in every tree.                                      *)
THEOREM Invariant == Spec => []DirInv
<1>1. Init => DirInv
  BY InitInv
<1>2. DirInv /\ [Next]_vars => DirInv'
  BY StepInv
<1> QED
  BY <1>1, <1>2, PTL DEF Spec

(* rmobj goes through no link that is in the temporary directory and       *)
(* removes nothing outside (lstat, RM 104), and tst_rmdir nothing of a     *)
(* TDIRECTORY.  This holds whoever creates and removes entries between     *)
(* lstat, opendir and remove, but rests on TreeAssumption: a directory is  *)
(* not replaced by a link after lstat, which opendir (RM 127) would follow.*)
THEOREM OnlyTheDirectoryRemoved == Spec => []NothingElseRemoved
<1>1. DirInv => NothingElseRemoved
  BY DEF DirInv, TypeOK, StackInv, Walking, TreeInv, NothingElseRemoved
<1> QED
  BY <1>1, Invariant, PTL

(* A test that ends without a warning has removed the whole directory, and *)
(* rmobj returns 0 only then, whoever creates and removes entries in the   *)
(* directory meanwhile.                                                    *)
THEOREM RemovedOrReported == Spec => []GoneOrWarned
<1>1. DirInv => GoneOrWarned
  BY DEF DirInv
<1> QED
  BY <1>1, Invariant, PTL

-----------------------------------------------------------------------------
(***************************************************************************)
(* The helpers.  First what numbers of a range are: random_range and the   *)
(* bounds of random_rangell.                                               *)
(***************************************************************************)

(* What a quotient and a remainder are.                                    *)
LEMMA QuotientOf ==
  ASSUME NEW a \in Int, NEW m \in Nat \ {0}
  PROVE  a \div m \in Int /\ a % m \in 0 .. m - 1 /\ a = m * (a \div m) + (a % m)
BY Z3

(* Multiples of a number that differ do so by the number at least.         *)
LEMMA Apart ==
  ASSUME NEW j \in Int, NEW k \in Int, NEW m \in Nat, j < k
  PROVE  m * j + m <= m * k
BY Z3

(* There is no other.                                                      *)
LEMMA QuotientIs ==
  ASSUME NEW m \in Nat \ {0}, NEW q \in Int, NEW r \in 0 .. m - 1
  PROVE  m * q + r \in Int /\ (m * q + r) \div m = q /\ (m * q + r) % m = r
<1> DEFINE mq == m * q
           a  == mq + r
           p  == a \div m
           s  == a % m
           mp == m * p
<1>1. mq \in Int /\ a \in Int
  BY Z3
<1>2. p \in Int /\ s \in 0 .. m - 1 /\ a = mp + s
  BY <1>1, QuotientOf
<1>3. mp \in Int
  BY <1>2, Z3
<1>4. CASE p < q
  <2>1. mp + m <= mq
    BY <1>2, <1>4, Apart
  <2> HIDE DEF mq, mp, p, s
  <2> QED
    BY <1>1, <1>2, <1>3, <2>1
<1>5. CASE q < p
  <2>1. mq + m <= mp
    BY <1>2, <1>5, Apart
  <2> HIDE DEF mq, mp, p, s
  <2> QED
    BY <1>1, <1>2, <1>3, <2>1
<1>6. CASE p = q
  <2>1. mp = mq
    BY <1>6
  <2>2. s = r
    <3> HIDE DEF mq, mp, p, s
    <3> QED
      BY <1>1, <1>2, <1>3, <2>1
  <2> QED
    BY <1>1, <1>6, <2>2
<1> QED
  BY <1>2, <1>4, <1>5, <1>6

(* A multiple is a product.                                                *)
LEMMA MultipleIs ==
  ASSUME NEW m \in Nat \ {0}
  PROVE  /\ \A k \in Int : m * k \in Int /\ (m * k) % m = 0 /\ (m * k) \div m = k
         /\ \A a \in Int : a % m = 0 => a = m * (a \div m) /\ a \div m \in Int
<1>1. ASSUME NEW k \in Int PROVE m * k \in Int /\ (m * k) % m = 0 /\ (m * k) \div m = k
  <2>1. m * k \in Int /\ 0 \in 0 .. m - 1
    BY Z3
  <2>2. m * k + 0 = m * k
    BY <2>1
  <2>3. (m * k + 0) % m = 0 /\ (m * k + 0) \div m = k
    BY <2>1, QuotientIs
  <2> QED
    BY <2>1, <2>2, <2>3
<1>2. ASSUME NEW a \in Int, a % m = 0 PROVE a = m * (a \div m) /\ a \div m \in Int
  <2> DEFINE p == m * (a \div m)
  <2>1. a \div m \in Int /\ a = p + 0
    BY <1>2, QuotientOf
  <2>2. p \in Int
    BY <2>1, Z3
  <2> HIDE DEF p
  <2>3. a = p
    BY <2>1, <2>2
  <2> QED
    BY <2>1, <2>3 DEF p
<1> QED
  BY <1>1, <1>2

(* Where % of C and % agree that a number is, or is not, a multiple.       *)
Signed(e, m) == e >= 0 \/ e % m = 0

(* Where they do, Bump gives the least multiple from lo on.                *)
LEMMA BumpIs ==
  ASSUME NEW m \in Nat \ {0}, NEW lo \in Int, Signed(lo, m)
  PROVE  /\ Bump(lo, m) \in Int /\ Bump(lo, m) % m = 0
         /\ lo <= Bump(lo, m) /\ Bump(lo, m) < lo + m
<1>1. CASE lo >= 0
  <2> DEFINE q == lo \div m
             r == lo % m
             mq == m * q
  <2>1. q \in Int /\ r \in 0 .. m - 1 /\ lo = mq + r /\ Bump(lo, m) = IF r # 0 THEN lo + m - r ELSE lo
    BY <1>1, QuotientOf DEF Bump, CMod
  <2>2. mq \in Int /\ m * (q + 1) = mq + m /\ (m * (q + 1)) % m = 0 /\ q + 1 \in Int
    <3>1. q + 1 \in Int /\ mq \in Int
      BY <2>1, Z3
    <3>2. m * (q + 1) = mq + m
      BY <2>1, Z3
    <3> QED
      BY <3>1, <3>2, MultipleIs
  <2>3. CASE r = 0
    BY <2>1, <2>3
  <2>4. CASE r # 0
    <3>1. Bump(lo, m) = lo + m - r
      BY <2>1, <2>4
    <3>2. lo + m - r = m * (q + 1)
      <4> HIDE DEF q, r, mq
      <4> QED
        BY <2>1, <2>2
    <3>3. lo + m - r \in Int /\ lo <= lo + m - r /\ lo + m - r < lo + m
      <4> HIDE DEF q, r, mq
      <4> QED
        BY <2>1, <2>4
    <3> QED
      BY <2>2, <3>1, <3>2, <3>3
  <2> QED
    BY <2>3, <2>4
<1>2. CASE lo < 0
  <2> DEFINE q == lo \div m
  <2>1. lo % m = 0
    BY <1>2 DEF Signed
  <2>2. lo = m * q /\ q \in Int
    BY <2>1, MultipleIs
  <2>3. -q \in Int /\ -lo = m * (-q)
    BY <2>2, Z3
  <2>4. (-lo) % m = 0
    BY <2>3, MultipleIs
  <2>5. CMod(lo, m) = 0
    BY <1>2, <2>4 DEF CMod
  <2>6. Bump(lo, m) = lo
    BY <2>5 DEF Bump
  <2> QED
    BY <2>1, <2>6
<1> QED
  BY <1>1, <1>2

(* And Reduce the greatest up to hi.                                       *)
LEMMA ReduceIs ==
  ASSUME NEW m \in Nat \ {0}, NEW hi \in Int, Signed(hi, m)
  PROVE  /\ Reduce(hi, m) \in Int /\ Reduce(hi, m) % m = 0
         /\ Reduce(hi, m) <= hi /\ hi - m < Reduce(hi, m) /\ (Reduce(hi, m) >= 0 \/ Reduce(hi, m) = hi)
<1>1. CASE hi >= 0
  <2> DEFINE q == hi \div m
             r == hi % m
             mq == m * q
  <2>1. q \in Int /\ r \in 0 .. m - 1 /\ hi = mq + r /\ Reduce(hi, m) = hi - r
    BY <1>1, QuotientOf DEF Reduce, CMod
  <2>2. mq \in Int /\ mq % m = 0
    BY <2>1, MultipleIs
  <2>3. q >= 0
    <3>1. q < 0 => m * q + m <= m * 0
      BY <2>1, Apart
    <3>2. m * 0 = 0
      BY Z3
    <3> HIDE DEF q, r
    <3> QED
      BY <1>1, <2>1, <2>2, <3>1, <3>2
  <2>4. mq >= 0
    BY <2>1, <2>3, Z3
  <2>5. hi - r = mq
    <3> HIDE DEF q, r, mq
    <3> QED
      BY <2>1, <2>2
  <2>6. hi - r <= hi /\ hi - m < hi - r
    <3> HIDE DEF q, r, mq
    <3> QED
      BY <2>1, <2>2
  <2> QED
    BY <2>1, <2>2, <2>4, <2>5, <2>6
<1>2. CASE hi < 0
  <2> DEFINE q == hi \div m
  <2>1. hi % m = 0
    BY <1>2 DEF Signed
  <2>2. hi = m * q /\ q \in Int
    BY <2>1, MultipleIs
  <2>3. -q \in Int /\ -hi = m * (-q)
    BY <2>2, Z3
  <2>4. (-hi) % m = 0
    BY <2>3, MultipleIs
  <2>5. CMod(hi, m) = 0
    BY <1>2, <2>4 DEF CMod
  <2>6. Reduce(hi, m) = hi
    BY <2>5 DEF Reduce
  <2> QED
    BY <2>1, <2>6
<1> QED
  BY <1>1, <1>2

(* The multiples of a range whose ends are signed well: those from the     *)
(* least to the greatest, nmults of them.                                  *)
LEMMA RangeIs ==
  ASSUME NEW a, a.min \in Int, a.max \in Int, a.mult \in Nat \ {0},
         Signed(a.min, a.mult), Signed(a.max, a.mult)
  PROVE  LET lo == Bump(Lower(a), a.mult)
             hi == Reduce(Upper(a), a.mult)
             n  == (hi - lo) \div a.mult + 1 IN
         /\ lo \in Int /\ hi \in Int /\ Lower(a) \in Int /\ Upper(a) \in Int /\ Lower(a) <= Upper(a)
         /\ Lower(a) <= lo /\ lo < Lower(a) + a.mult /\ hi <= Upper(a)
         /\ hi >= 0 \/ hi = Upper(a)
         /\ lo > hi <=> Multiples(a) = {}
         /\ lo <= hi => /\ n \in Nat \ {0} /\ n <= hi - lo + 1
                        /\ \A x \in 0 .. n - 1 : x * a.mult \in Nat /\ lo + x * a.mult \in Multiples(a)
                        /\ \A v \in Multiples(a) : \E x \in 0 .. n - 1 : v = lo + x * a.mult
<1> DEFINE m  == a.mult
           L  == Lower(a)
           U  == Upper(a)
           lo == Bump(L, m)
           hi == Reduce(U, m)
           j  == lo \div m
           k  == hi \div m
           n  == (hi - lo) \div m + 1
<1>1. m \in Nat \ {0} /\ L \in Int /\ U \in Int /\ L <= U /\ Signed(L, m) /\ Signed(U, m)
  BY DEF Lower, Upper
<1>2. /\ lo \in Int /\ lo % m = 0 /\ L <= lo /\ lo < L + m
  BY <1>1, BumpIs
<1>3. hi \in Int /\ hi % m = 0 /\ hi <= U /\ U - m < hi /\ (hi >= 0 \/ hi = U)
  BY <1>1, ReduceIs
<1>4. lo = m * j /\ j \in Int /\ hi = m * k /\ k \in Int
  BY <1>1, <1>2, <1>3, MultipleIs
<1>5. ASSUME NEW v \in Multiples(a)
      PROVE  \E i \in Int : v = m * i /\ j <= i /\ i <= k
  <2> DEFINE i == v \div m
  <2>1. v \in Int /\ L <= v /\ v <= U /\ v % m = 0
    BY <1>1, <1>5 DEF Multiples
  <2>2. v = m * i /\ i \in Int
    BY <1>1, <2>1, MultipleIs
  <2>3. ~(i < j)
    <3>1. i < j => m * i + m <= m * j
      BY <1>1, <1>4, <2>2, Apart
    <3> HIDE DEF i, m, L, U, lo, hi, j, k
    <3> QED
      BY <1>1, <1>2, <1>4, <2>1, <2>2, <3>1
  <2>4. ~(k < i)
    <3>1. k < i => m * k + m <= m * i
      BY <1>1, <1>4, <2>2, Apart
    <3> HIDE DEF i, m, L, U, lo, hi, j, k
    <3> QED
      BY <1>1, <1>3, <1>4, <2>1, <2>2, <3>1
  <2>5. j <= i /\ i <= k
    BY <1>4, <2>2, <2>3, <2>4
  <2> QED
    BY <2>2, <2>5
<1>6. ASSUME NEW i \in Int, j <= i, i <= k PROVE m * i \in Multiples(a)
  <2>1. m * i \in Int /\ (m * i) % m = 0
    BY <1>1, MultipleIs
  <2>2. m * j <= m * i /\ m * i <= m * k
    BY <1>1, <1>4, <1>6, Z3
  <2>3. m * i \in L .. U
    <3> DEFINE p == m * i
    <3> HIDE DEF p, m, L, U, lo, hi, j, k
    <3> QED
      BY <1>1, <1>2, <1>3, <1>4, <2>1, <2>2 DEF p
  <2> QED
    BY <2>1, <2>3 DEF Multiples
<1>7. lo > hi <=> k < j
  <2>1. k < j => m * k + m <= m * j
    BY <1>1, <1>4, Apart
  <2>2. j <= k => m * j <= m * k
    BY <1>1, <1>4, Z3
  <2> HIDE DEF m, L, U, lo, hi, j, k
  <2> QED
    BY <1>1, <1>2, <1>3, <1>4, <2>1, <2>2
<1>8. lo > hi <=> Multiples(a) = {}
  <2>1. k < j => Multiples(a) = {}
    <3> SUFFICES ASSUME k < j, NEW v \in Multiples(a) PROVE FALSE
      OBVIOUS
    <3>1. PICK i \in Int : j <= i /\ i <= k
      BY <1>5
    <3> HIDE DEF j, k
    <3> QED
      BY <1>4, <3>1
  <2>2. j <= k => j \in Int /\ j <= j /\ m * j \in Multiples(a)
    BY <1>4, <1>6
  <2>3. j <= k \/ k < j
    <3> HIDE DEF j, k
    <3> QED
      BY <1>4
  <2>4. ~(j <= k /\ k < j)
    <3> HIDE DEF j, k
    <3> QED
      BY <1>4
  <2> QED
    BY <1>7, <2>1, <2>2, <2>3, <2>4
<1>9. ASSUME lo <= hi
      PROVE  /\ n \in Nat \ {0} /\ n <= hi - lo + 1
             /\ \A x \in 0 .. n - 1 : x * m \in Nat /\ lo + x * m \in Multiples(a)
             /\ \A v \in Multiples(a) : \E x \in 0 .. n - 1 : v = lo + x * m
  <2>1. j <= k
    <3> HIDE DEF m, L, U, lo, hi, j, k
    <3> QED
      BY <1>2, <1>3, <1>4, <1>7, <1>9
  <2>2. k - j \in Nat
    <3> HIDE DEF j, k
    <3> QED
      BY <1>4, <2>1
  <2>3. m * (k - j) = hi - lo
    <3>1. m * (k - j) = m * k - m * j
      BY <1>1, <1>4, Z3
    <3> QED
      BY <1>4, <3>1
  <2>4. n = k - j + 1
    <3>1. (m * (k - j)) \div m = k - j
      BY <1>1, <2>2, MultipleIs
    <3> QED
      BY <2>3, <3>1
  <2>5. k - j <= m * (k - j)
    <3>1. \A d \in Nat : d <= m * d
      BY <1>1, Z3
    <3> QED
      BY <2>2, <3>1
  <2>6. n \in Nat \ {0} /\ n <= hi - lo + 1
    <3> DEFINE d == k - j
    <3>1. d \in Nat /\ d <= hi - lo /\ n = d + 1
      BY <2>2, <2>3, <2>4, <2>5
    <3>2. hi - lo \in Int
      BY <1>2, <1>3
    <3> DEFINE w == hi - lo
    <3> HIDE DEF d, n, w
    <3> QED
      BY <3>1, <3>2 DEF w
  <2>7. ASSUME NEW x \in 0 .. n - 1 PROVE x * m \in Nat /\ lo + x * m \in Multiples(a)
    <3>1. x \in Nat /\ x <= k - j
      <4> HIDE DEF n, j, k
      <4> QED
        BY <1>4, <2>4, <2>7
    <3>2. j + x \in Int /\ j <= j + x /\ j + x <= k
      <4> HIDE DEF j, k
      <4> QED
        BY <1>4, <3>1
    <3>3. m * (j + x) \in Multiples(a)
      BY <1>6, <3>2
    <3>4. m * (j + x) = m * j + x * m /\ x * m \in Nat
      BY <1>1, <1>4, <3>1, Z3
    <3> QED
      BY <1>4, <3>3, <3>4
  <2>8. ASSUME NEW v \in Multiples(a) PROVE \E x \in 0 .. n - 1 : v = lo + x * m
    <3>1. PICK i \in Int : v = m * i /\ j <= i /\ i <= k
      BY <1>5
    <3>2. i - j \in 0 .. n - 1
      <4> HIDE DEF n, j, k
      <4> QED
        BY <1>4, <2>4, <3>1
    <3>3. m * j + (i - j) * m = m * i
      BY <1>1, <1>4, <3>1, Z3
    <3> QED
      BY <1>4, <3>1, <3>2, <3>3
  <2> QED
    BY <2>6, <2>7, <2>8
<1> QED
  BY <1>1, <1>2, <1>3, <1>8, <1>9

(* An int is itself.                                                       *)
LEMMA IntIs ==
  ASSUME NEW v \in -W .. W - 1
  PROVE  Int32(v) = v
<1> DEFINE m == 2 * W
           u == v + W
<1>1. W \in Nat \ {0}
  BY HelperAssumption
<1>2. m \in Nat \ {0} /\ u \in 0 .. m - 1 /\ u \in Int
  BY <1>1
<1>3. m * 0 + u = u
  <2>1. m * 0 = 0
    BY <1>2, Z3
  <2> HIDE DEF m, u
  <2> QED
    BY <1>2, <2>1
<1>4. u % m = u
  <2>1. (m * 0 + u) % m = u
    BY <1>2, QuotientIs
  <2> QED
    BY <1>3, <2>1
<1>5. u - W = v
  BY <1>1
<1> QED
  BY <1>4, <1>5 DEF Int32

(* The calls of random_range whose answer is right.                        *)
Fair(a) == a.mult > 0 /\ Upper(a) - Lower(a) < W /\ Signed(a.min, a.mult) /\ Signed(a.max, a.mult)

(* random_range answers with any of the multiples.                         *)
LEMMA RandomRangeIs ==
  ASSUME NEW a, {a.min, a.max, a.mult} \subseteq -W .. W - 1, Fair(a), Upper(a) + a.mult <= W
  PROVE  IF Multiples(a) = {} THEN random_range(a) = {Error}
         ELSE random_range(a) = {Drawn(v) : v \in Multiples(a)}
<1> DEFINE m  == a.mult
           L  == Lower(a)
           U  == Upper(a)
           lo == Bump(L, m)
           hi == Reduce(U, m)
           n  == (hi - lo) \div m + 1
<1>1. /\ W \in Nat \ {0} /\ m \in Nat \ {0} /\ a.min \in -W .. W - 1 /\ a.max \in -W .. W - 1
      /\ a.min \in Int /\ a.max \in Int
  BY HelperAssumption DEF Fair
<1>2. U - L < W /\ U + m <= W /\ L \in -W .. W - 1 /\ U \in -W .. W - 1
  BY <1>1 DEF Fair, Lower, Upper
<1>3. /\ lo \in Int /\ hi \in Int /\ L \in Int /\ U \in Int /\ L <= U
      /\ L <= lo /\ lo < L + m /\ hi <= U /\ (hi >= 0 \/ hi = U)
      /\ lo > hi <=> Multiples(a) = {}
      /\ lo <= hi => /\ n \in Nat \ {0} /\ n <= hi - lo + 1
                     /\ \A x \in 0 .. n - 1 : x * m \in Nat /\ lo + x * m \in Multiples(a)
                     /\ \A v \in Multiples(a) : \E x \in 0 .. n - 1 : v = lo + x * m
  BY <1>1, RangeIs DEF Fair
<1>4. lo \in -W .. W - 1 /\ hi \in -W .. W - 1
  <2> HIDE DEF m, L, U, lo, hi, n
  <2> QED
    BY <1>1, <1>2, <1>3
<1>5. Int32(lo) = lo /\ Int32(hi) = hi
  BY <1>4, IntIs
<1>6. CASE lo > hi
  <2>1. random_range(a) = {Error}
    <3> HIDE DEF n
    <3> QED
      BY <1>5, <1>6 DEF random_range
  <2> QED
    BY <1>3, <1>6, <2>1
<1>7. CASE lo <= hi
  <2>1. /\ n \in Nat \ {0} /\ n <= hi - lo + 1
        /\ \A x \in 0 .. n - 1 : x * m \in Nat /\ lo + x * m \in Multiples(a)
        /\ \A v \in Multiples(a) : \E x \in 0 .. n - 1 : v = lo + x * m
    BY <1>3, <1>7
  <2>2. hi - lo \in -W .. W - 1 /\ hi - lo >= 0 /\ hi - lo + 1 <= W
    <3> HIDE DEF m, L, U, lo, hi, n
    <3> QED
      BY <1>1, <1>2, <1>3, <1>7
  <2>3. Int32(hi - lo) = hi - lo
    BY <2>2, IntIs
  <2>4. n <= W
    <3> DEFINE d == hi - lo
    <3>1. d + 1 <= W /\ n <= d + 1 /\ d \in Int
      BY <2>1, <2>2
    <3> HIDE DEF d, n
    <3> QED
      BY <1>1, <2>1, <3>1
  <2>5. random_range(a) = {Drawn(Int32(lo + (r % n) * m)) : r \in 0 .. W - 1}
    <3>1. ~(m < 1 \/ lo > hi) /\ n # 0 /\ n > 0
      <4> HIDE DEF m, L, U, lo, hi, n
      <4> QED
        BY <1>1, <1>3, <1>7, <2>1
    <3>2. n = (IF hi - lo >= 0 THEN (hi - lo) \div m ELSE -((-(hi - lo)) \div m)) + 1
      BY <2>2
    <3> QED
      BY <1>5, <2>3, <3>1, <3>2 DEF random_range
  <2>6. ASSUME NEW r \in 0 .. W - 1 PROVE \E v \in Multiples(a) : Int32(lo + (r % n) * m) = v
    <3>1. r \in Int /\ r % n \in 0 .. n - 1
      <4>1. r \in Int
        BY <1>1
      <4> QED
        BY <2>1, <4>1, QuotientOf
    <3>2. lo + (r % n) * m \in Multiples(a)
      BY <2>1, <3>1
    <3>3. lo + (r % n) * m \in L .. U
      BY <3>2 DEF Multiples
    <3>4. lo + (r % n) * m \in -W .. W - 1
      <4> DEFINE v == lo + (r % n) * m
      <4>1. v \in L .. U
        BY <3>3
      <4> HIDE DEF v, L, U
      <4>2. v \in -W .. W - 1
        BY <1>1, <1>2, <4>1
      <4> QED
        BY <4>2 DEF v
    <3> QED
      BY <3>2, <3>4, IntIs
  <2>7. ASSUME NEW v \in Multiples(a) PROVE \E r \in 0 .. W - 1 : v = Int32(lo + (r % n) * m)
    <3>1. PICK x \in 0 .. n - 1 : v = lo + x * m
      BY <2>1
    <3>2. x \in 0 .. W - 1 /\ x \in Int
      <4> HIDE DEF n
      <4> QED
        BY <1>1, <2>1, <2>4, <3>1
    <3>3. x % n = x
      <4>1. n * 0 + x = x
        <5>1. n * 0 = 0
          BY <2>1, Z3
        <5> HIDE DEF n
        <5> QED
          BY <3>2, <5>1
      <4>2. (n * 0 + x) % n = x
        BY <2>1, QuotientIs
      <4> QED
        BY <4>1, <4>2
    <3>4. v \in L .. U
      BY DEF Multiples
    <3>5. v \in -W .. W - 1
      <4> HIDE DEF L, U
      <4> QED
        BY <1>1, <1>2, <3>4
    <3>6. Int32(lo + (x % n) * m) = v
      BY <3>1, <3>3, <3>5, IntIs
    <3> QED
      BY <3>2, <3>6
  <2>8. random_range(a) = {Drawn(v) : v \in Multiples(a)}
    <3> HIDE DEF m, L, U, lo, hi, n
    <3> QED
      BY <2>5, <2>6, <2>7
  <2>9. Multiples(a) # {}
    BY <1>3, <1>7
  <2> QED
    BY <2>8, <2>9
<1>8. lo > hi \/ lo <= hi
  <2> HIDE DEF lo, hi
  <2> QED
    BY <1>3
<1> QED
  BY <1>6, <1>7, <1>8

(* The place of a number in a set of numbers.                              *)
Rank(S, i) == Cardinality({j \in S : j <= i})

(* Members are in order at different places.                               *)
LEMMA PlacesApart ==
  ASSUME NEW S \in SUBSET Nat, IsFiniteSet(S)
  PROVE  /\ Cardinality(S) \in Nat
         /\ \A i \in S : Rank(S, i) \in 1 .. Cardinality(S)
         /\ \A i, k \in S : i < k => Rank(S, i) < Rank(S, k)
         /\ \A i, k \in S : Rank(S, i) = Rank(S, k) => i = k
<1> DEFINE Upto(i) == {j \in S : j <= i}
<1>1. Cardinality(S) \in Nat
  BY FS_CardinalityType
<1>2. ASSUME NEW i \in S
      PROVE  IsFiniteSet(Upto(i)) /\ Rank(S, i) = Cardinality(Upto(i)) /\ Rank(S, i) \in 1 .. Cardinality(S)
  <2>1. Upto(i) \in SUBSET S
    OBVIOUS
  <2>2. IsFiniteSet(Upto(i)) /\ Cardinality(Upto(i)) <= Cardinality(S)
    BY <2>1, FS_Subset
  <2>3. i \in Upto(i)
    OBVIOUS
  <2>4. Cardinality(Upto(i)) \in Nat /\ Cardinality(Upto(i)) # 0
    BY <2>2, <2>3, FS_CardinalityType, FS_EmptySet
  <2>5. Rank(S, i) = Cardinality(Upto(i))
    BY DEF Rank
  <2> HIDE DEF Upto
  <2> QED
    BY <1>1, <2>2, <2>4, <2>5
<1>5. \A i \in S : i \in Int /\ Rank(S, i) \in Nat
  <2> HIDE DEF Upto
  <2> QED
    BY <1>1, <1>2
<1>3. ASSUME NEW i \in S, NEW k \in S, i < k PROVE Rank(S, i) < Rank(S, k)
  <2>1. Upto(i) \in SUBSET Upto(k)
    <3> SUFFICES ASSUME NEW j \in S, j <= i PROVE j <= k
      OBVIOUS
    <3>1. i \in Int /\ j \in Int /\ k \in Int
      BY <1>5
    <3> QED
      BY <1>3, <3>1
  <2>2. k \in Upto(k) /\ k \notin Upto(i)
    BY <1>3
  <2>3. Cardinality(Upto(i)) <= Cardinality(Upto(k)) /\ Cardinality(Upto(i)) # Cardinality(Upto(k))
    BY <1>2, <2>1, <2>2, FS_Subset
  <2>4. Rank(S, i) \in Nat /\ Rank(S, k) \in Nat
    BY <1>5
  <2> HIDE DEF Upto
  <2> QED
    BY <1>2, <2>3, <2>4
<1>4. ASSUME NEW i \in S, NEW k \in S, Rank(S, i) = Rank(S, k) PROVE i = k
  <2>1. Rank(S, i) \in Nat /\ i \in Int /\ k \in Int
    BY <1>5
  <2>2. ~(i < k) /\ ~(k < i)
    BY <1>3, <1>4, <2>1
  <2> QED
    BY <2>1, <2>2
<1> QED
  BY <1>1, <1>2, <1>3, <1>4

(* Any of the bits of a mask.                                              *)
LEMMA RandomBitIs ==
  ASSUME NEW mask \in SUBSET Nat, IsFiniteSet(mask), Cardinality(mask) < W
  PROVE  mask = {} \/ random_bit(mask) = mask
<1> SUFFICES ASSUME mask # {} PROVE random_bit(mask) = mask
  OBVIOUS
<1> DEFINE n == Cardinality(mask)
           a == [min |-> 1, max |-> n, mult |-> 1]
           f == [b \in mask |-> Rank(mask, b)]
           Bits(v) == CHOOSE b \in mask : Rank(mask, b) = v
<1>1. n \in Nat /\ n # 0 /\ W \in Nat \ {0} /\ n < W
  BY FS_CardinalityType, FS_EmptySet, HelperAssumption
<1>2. Lower(a) = 1 /\ Upper(a) = n
  BY <1>1 DEF Lower, Upper
<1>3. {a.min, a.max, a.mult} \subseteq -W .. W - 1 /\ Fair(a) /\ Upper(a) + a.mult <= W
  <2>1. a.min = 1 /\ a.max = n /\ a.mult = 1
    OBVIOUS
  <2> HIDE DEF a, n
  <2>2. 1 \in -W .. W - 1 /\ n \in -W .. W - 1 /\ n - 1 < W /\ n + 1 <= W
    BY <1>1
  <2>3. Signed(1, 1) /\ Signed(n, 1)
    BY <1>1 DEF Signed
  <2> QED
    BY <1>2, <2>1, <2>2, <2>3 DEF Fair
<1>4. Multiples(a) = 1 .. n
  <2>1. \A v \in Int : v % 1 = 0
    BY QuotientOf
  <2>2. a.mult = 1
    OBVIOUS
  <2> HIDE DEF a, n
  <2> QED
    BY <1>1, <1>2, <2>1, <2>2 DEF Multiples
<1>5. random_range(a) = {Drawn(v) : v \in 1 .. n}
  <2> HIDE DEF a, n
  <2>1. Multiples(a) # {}
    <3>1. 1 \in 1 .. n
      BY <1>1
    <3> QED
      BY <1>4, <3>1
  <2> QED
    BY <1>3, <1>4, <2>1, RandomRangeIs
<1>6. /\ \A b \in mask : Rank(mask, b) \in 1 .. n
      /\ \A b, c \in mask : Rank(mask, b) = Rank(mask, c) => b = c
  BY PlacesApart
<1>7. ASSUME NEW v \in 1 .. n PROVE \E b \in mask : Rank(mask, b) = v
  <2>1. f \in Injection(mask, 1 .. n)
    BY <1>6 DEF Injection, IsInjective
  <2>2. IsFiniteSet(1 .. n) /\ Cardinality(1 .. n) = n
    BY <1>1, FS_Interval
  <2>3. f \in Surjection(mask, 1 .. n)
    BY <2>1, <2>2, FS_Injection
  <2> QED
    BY <2>3 DEF Surjection
<1>8. random_bit(mask) = {Bits(v) : v \in 1 .. n}
  <2>1. random_bit(mask) = {CHOOSE b \in mask : Cardinality({c \in mask : c <= b}) = d.val : d \in random_range(a)}
    BY DEF random_bit
  <2>2. random_bit(mask) = {Bits(d.val) : d \in random_range(a)}
    BY <2>1 DEF Rank
  <2>3. \A v : Drawn(v).val = v
    BY DEF Drawn
  <2> HIDE DEF Bits, n, a
  <2> QED
    BY <1>5, <2>2, <2>3
<1>9. ASSUME NEW v \in 1 .. n PROVE Bits(v) \in mask /\ Rank(mask, Bits(v)) = v
  BY <1>7
<1>10. ASSUME NEW b \in mask PROVE \E v \in 1 .. n : b = Bits(v)
  <2>1. Rank(mask, b) \in 1 .. n
    BY <1>6
  <2>2. Bits(Rank(mask, b)) \in mask /\ Rank(mask, Bits(Rank(mask, b))) = Rank(mask, b)
    BY <1>9, <2>1
  <2> HIDE DEF Bits
  <2> QED
    BY <1>6, <2>1, <2>2
<1> HIDE DEF Bits
<1> QED
  BY <1>8, <1>9, <1>10

(* The extremes of a set.                                                  *)
LEMMA ExtremeIs ==
  ASSUME NEW S \in SUBSET Int, NEW x \in S
  PROVE  /\ (\A y \in S : x <= y) => Min(S) = x
         /\ (\A y \in S : x >= y) => Max(S) = x
<1>1. ASSUME \A y \in S : x <= y PROVE Min(S) = x
  <2>1. Min(S) \in S /\ \A y \in S : Min(S) <= y
    BY <1>1 DEF Min
  <2>2. Min(S) <= x /\ x <= Min(S) /\ Min(S) \in Int /\ x \in Int
    BY <1>1, <2>1
  <2> QED
    BY <2>2
<1>2. ASSUME \A y \in S : x >= y PROVE Max(S) = x
  <2>1. Max(S) \in S /\ \A y \in S : Max(S) >= y
    BY <1>2 DEF Max
  <2>2. Max(S) >= x /\ x >= Max(S) /\ Max(S) \in Int /\ x \in Int
    BY <1>2, <2>1
  <2> QED
    BY <2>2
<1> QED
  BY <1>1, <1>2

(* stride_bounds: the first and the last byte that are touched.            *)
LEMMA StrideIs ==
  ASSUME NEW a, {a.offset, a.stride, a.nstrides, a.bytes} \subseteq Int, a.nstrides > 0, a.bytes > 0
  PROVE  LET step == IF a.stride = 0 THEN a.bytes ELSE a.stride
             touched == {a.offset + k * step + j : k \in 0 .. a.nstrides - 1, j \in 0 .. a.bytes - 1}
         IN /\ stride_bounds(a).min = Min(touched) /\ stride_bounds(a).max = Max(touched)
            /\ stride_bounds(a).nbytes = Max(touched) - Min(touched) + 1
<1> DEFINE o == a.offset
           n == a.nstrides
           b == a.bytes
           s == IF a.stride = 0 THEN a.bytes ELSE a.stride
           u == s * (n - 1)
           touched == {o + k * s + j : k \in 0 .. n - 1, j \in 0 .. b - 1}
           lo == IF s < 0 THEN o + u ELSE o
           hi == IF s < 0 THEN o + b - 1 ELSE o + u + b - 1
<1>1. o \in Int /\ n \in Nat \ {0} /\ b \in Nat \ {0} /\ s \in Int /\ a.stride \in Int
  OBVIOUS
<1>2. n - 1 \in 0 .. n - 1 /\ 0 \in 0 .. n - 1 /\ b - 1 \in 0 .. b - 1 /\ 0 \in 0 .. b - 1
  BY <1>1
<1>3. u \in Int /\ (n - 1) * s = u /\ 0 * s = 0
  <2>1. \A p, q \in Int : p * q \in Int /\ p * q = q * p /\ 0 * q = 0
    BY Z3
  <2>2. n - 1 \in Int /\ s \in Int
    BY <1>1
  <2> HIDE DEF n, s
  <2> QED
    BY <2>1, <2>2
<1>4. ASSUME NEW k \in 0 .. n - 1
      PROVE  /\ k * s \in Int
             /\ s >= 0 => 0 <= k * s /\ k * s <= u
             /\ s < 0 => u <= k * s /\ k * s <= 0
  <2>1. k \in Nat /\ n - 1 - k \in Nat
    BY <1>1
  <2>2. k * s \in Int /\ (n - 1 - k) * s = u - k * s
    BY <1>1, <2>1, Z3
  <2>3. \A m \in Nat : (s >= 0 => m * s >= 0) /\ (s < 0 => m * s <= 0)
    BY <1>1, Z3
  <2>4. (s >= 0 => u - k * s >= 0) /\ (s < 0 => u - k * s <= 0)
    BY <2>1, <2>2, <2>3
  <2>5. (s >= 0 => k * s >= 0) /\ (s < 0 => k * s <= 0)
    BY <2>1, <2>3
  <2> DEFINE ks == k * s
  <2> HIDE DEF u, s, ks
  <2> QED
    BY <1>3, <2>2, <2>4, <2>5 DEF ks
<1>5. touched \in SUBSET Int
  <2> SUFFICES ASSUME NEW k \in 0 .. n - 1, NEW j \in 0 .. b - 1 PROVE o + k * s + j \in Int
    OBVIOUS
  <2>1. k * s \in Int
    BY <1>4
  <2> QED
    BY <1>1, <2>1
<1>6. ASSUME NEW y \in touched PROVE lo <= y /\ y <= hi
  <2>1. PICK k \in 0 .. n - 1, j \in 0 .. b - 1 : y = o + k * s + j
    OBVIOUS
  <2> DEFINE ks == k * s
  <2>2. ks \in Int /\ (s >= 0 => 0 <= ks /\ ks <= u) /\ (s < 0 => u <= ks /\ ks <= 0)
    BY <1>4
  <2>3. y = o + ks + j
    BY <2>1
  <2> HIDE DEF u, s, ks, o, n, b
  <2> QED
    BY <1>1, <1>3, <2>2, <2>3
<1>7. lo \in touched /\ hi \in touched
  <2>1. o + 0 * s + 0 \in touched /\ o + (n - 1) * s + 0 \in touched
        /\ o + 0 * s + (b - 1) \in touched /\ o + (n - 1) * s + (b - 1) \in touched
    BY <1>2
  <2>2. o + 0 + 0 \in touched /\ o + u + 0 \in touched /\ o + 0 + (b - 1) \in touched /\ o + u + (b - 1) \in touched
    <3> HIDE DEF touched, o, u, s, n, b
    <3> QED
      BY <1>3, <2>1
  <2> HIDE DEF touched, o, u, s, n, b
  <2> QED
    BY <1>1, <1>3, <2>2
<1>8. Min(touched) = lo /\ Max(touched) = hi
  <2> HIDE DEF touched, lo, hi
  <2>1. lo \in touched /\ hi \in touched /\ \A y \in touched : lo <= y /\ y <= hi
    BY <1>6, <1>7
  <2>2. lo \in Int /\ hi \in Int /\ \A y \in touched : y \in Int
    BY <1>5, <2>1
  <2>3. \A y \in touched : hi >= y
    BY <2>1, <2>2
  <2> QED
    BY <1>5, <2>1, <2>3, ExtremeIs
<1>9. stride_bounds(a).min = lo /\ stride_bounds(a).max = hi /\ stride_bounds(a).nbytes = hi - lo + 1
  <2> DEFINE w == (IF s < 0 THEN -s ELSE s) * (n - 1) + b
             last == o + b - 1
  <2>1. w = (IF s < 0 THEN -u ELSE u) + b
    BY <1>1, Z3
  <2>2. ~(a.nstrides < 0 \/ a.bytes < 0)
    OBVIOUS
  <2>3. CASE s < 0
    <3>1. stride_bounds(a) = [nbytes |-> w, min |-> last - w + 1, max |-> last]
      BY <2>2, <2>3 DEF stride_bounds
    <3>2. last - w + 1 = lo /\ last = hi /\ w = hi - lo + 1
      <4> HIDE DEF w, u, s, o, n, b
      <4> QED
        BY <1>1, <1>3, <2>1, <2>3
    <3> HIDE DEF w, lo, hi, last
    <3> QED
      BY <3>1, <3>2
  <2>4. CASE ~(s < 0)
    <3>1. stride_bounds(a) = [nbytes |-> w, min |-> o, max |-> o + w - 1]
      BY <2>2, <2>4 DEF stride_bounds
    <3>2. o = lo /\ o + w - 1 = hi /\ w = hi - lo + 1
      <4> HIDE DEF w, u, s, o, n, b
      <4> QED
        BY <1>1, <1>3, <2>1, <2>4
    <3> DEFINE v == o + w - 1
    <3> HIDE DEF w, lo, hi, o, v
    <3> QED
      BY <3>1, <3>2 DEF v
  <2> QED
    BY <2>3, <2>4
<1> QED
  BY <1>8, <1>9

-----------------------------------------------------------------------------
(* The invariant: what the locals of each loop are.                        *)
Least(a)    == Bump(Lower(a), a.mult)
Greatest(a) == Reduce(Upper(a), a.mult)

(* divider goes on with a part of the range that is at most half as wide   *)
(* as the one before.                                                      *)
RangellFrame(a, f) ==
  \/ f = <<>> /\ (a.mult < 1 \/ Least(a) > Greatest(a))
  \/ /\ f \in [min : Int, max : Int, cnt : 0 .. DEPTH, rand : 0 .. W - 1]
     /\ a.mult >= 1 /\ Least(a) <= Greatest(a)
     /\ f.cnt = 0 => f.max = Greatest(a)
     /\ f.cnt > 0 => Greatest(a) > W - 1
     /\ Least(a) <= f.min /\ f.min <= f.max
     /\ f.max - f.min <= W * 2 ^ (DEPTH - f.cnt)

RangellInv ==
  (args # <<>> /\ args.fn = "random_rangell" /\ answer = <<>>) => RangellFrame(args, frame)

(* The tokens, and those that strtok has found.                            *)
Toks(a)      == {i \in DOMAIN a.fields : a.fields[i] # <<BLANK>>}
Before(a, n) == {i \in Toks(a) : i < n}
Bad(t)       == \E k \in DOMAIN t : t[k] = BAD

(* What the answer of parse_ranges is: see ParsedRight.                    *)
Listed(a, v) ==
  LET f == a.fields
      toks == {i \in DOMAIN f : f[i] # <<BLANK>>}
  IN IF \E i \in toks : \E k \in DOMAIN f[i] : f[i][k] = BAD THEN v.n = -1
     ELSE /\ v.n = Cardinality(toks) /\ Len(v.ranges) = v.n
          /\ \A i \in toks :
               LET r == v.ranges[Cardinality({j \in toks : j <= i})] IN
               /\ r.min = Given(f[i], 1, a.default.min)
               /\ r.max = Given(f[i], 2, IF Len(f[i]) = 1 THEN f[i][1] ELSE a.default.max)
               /\ r.mult = Given(f[i], 3, a.default.mult)

(* The ranges are those of the tokens so far, each at its place.           *)
RangesInv ==
  (args # <<>> /\ args.fn = "parse_ranges" /\ answer = <<>>) =>
    /\ frame \in [ind : Nat \ {0}, ranges : Seq([min : Int, max : Int, mult : Int])]
    /\ frame.ind <= Len(args.fields) + 1
    /\ Len(frame.ranges) = Cardinality(Before(args, frame.ind))
    /\ \A i \in Before(args, frame.ind) :
         ~Bad(args.fields[i]) /\ frame.ranges[Rank(Toks(args), i)] = RangeOf(args.fields[i], args.default)

Names == {Open_flags[j][1] : j \in DOMAIN Open_flags}

(* The flags that names stand for.                                         *)
Means(names) == UNION {FlagOf(names[i]) : i \in DOMAIN names}

(* The names stand for the bits that are gone; rows behind the loop are    *)
(* not in the others, and O_SYNC is left only without O_DSYNC.             *)
SymbolsInv ==
  (args # <<>> /\ args.fn = "openflags2symbols" /\ answer = <<>>) =>
    /\ frame \in [ind : 2 .. Len(Open_flags) + 1, bits : SUBSET args.flags, names : Seq(Names)]
    /\ Means(frame.names) = args.flags \ frame.bits
    /\ \A j \in 2 .. frame.ind - 1 : ~(Open_flags[j][2] \subseteq frame.bits)
    /\ IF frame.ind <= 4 THEN "DSYNC" \in args.flags => "DSYNC" \in frame.bits
       ELSE "SYNC" \in frame.bits => "DSYNC" \notin args.flags

CallInv == IF args = <<>> THEN answer = <<>> ELSE args \in HelperCalls

HelperInv == CallInv /\ RangellInv /\ RangesInv /\ SymbolsInv /\ RangesRight /\ ParsedRight

(* What is asked of the arguments.                                         *)
LEMMA CallFacts ==
  ASSUME NEW c \in HelperCalls
  PROVE  /\ c.fn = "random_range" => {c.min, c.max, c.mult} \subseteq -W .. W - 1
         /\ c.fn = "random_rangell" =>
              /\ {c.min, c.max, c.mult} \subseteq LongLong
              /\ {c.max - c.min + 1, c.min - c.max + 1} \subseteq LongLong
         /\ c.fn = "random_bit" => c.mask \subseteq Nat /\ IsFiniteSet(c.mask) /\ Cardinality(c.mask) < W
         /\ c.fn = "parse_ranges" =>
              /\ c.fields \in Seq(Seq(Int) \ {<<>>})
              /\ {c.default.min, c.default.max, c.default.mult} \subseteq Int \ {BLANK, BAD}
         /\ c.fn = "string_to_tokens" => c.toks \in Seq(STRING) /\ c.size \in Int
         /\ c.fn = "openflags2symbols" => c.flags \subseteq STRING
         /\ c.fn = "stride_bounds" => {c.offset, c.stride, c.nstrides, c.bytes} \subseteq Int
BY HelperAssumption DEF CallAssumption

(* A number for which random_rangell asks gives a multiple.                *)
LEMMA RangellIs ==
  ASSUME NEW a, a.min \in Int, a.max \in Int, a.mult \in Nat \ {0},
         Signed(a.min, a.mult), Signed(a.max, a.mult), Least(a) <= Greatest(a), NEW rand \in Nat
  PROVE  Least(a) + CMod(rand, (Greatest(a) - Least(a)) \div a.mult + 1) * a.mult \in Multiples(a)
<1> DEFINE n == (Greatest(a) - Least(a)) \div a.mult + 1
<1>1. n \in Nat \ {0} /\ \A x \in 0 .. n - 1 : Least(a) + x * a.mult \in Multiples(a)
  BY RangeIs DEF Least, Greatest
<1>2. rand % n \in 0 .. n - 1
  <2> HIDE DEF n
  <2>1. rand \in Int
    OBVIOUS
  <2> QED
    BY <1>1, <2>1, QuotientOf
<1>3. CMod(rand, n) = rand % n
  BY DEF CMod
<1> HIDE DEF n
<1>4. Least(a) + CMod(rand, n) * a.mult \in Multiples(a)
  BY <1>1, <1>2, <1>3
<1> QED
  BY <1>4 DEF n

(* The ends, whatever their signs.                                         *)
LEMMA EndsAre ==
  ASSUME NEW e \in Int, NEW m \in Nat \ {0}
  PROVE  /\ Bump(e, m) \in Int /\ e <= Bump(e, m)
         /\ Reduce(e, m) \in Int /\ (Reduce(e, m) <= e \/ Reduce(e, m) <= 0)
<1>1. CASE e >= 0
  <2> DEFINE r == e % m
  <2>1. r \in 0 .. m - 1 /\ CMod(e, m) = r
    BY <1>1, QuotientOf DEF CMod
  <2>2. Bump(e, m) = (IF r # 0 THEN e + m - r ELSE e) /\ Reduce(e, m) = e - r
    BY <2>1 DEF Bump, Reduce
  <2> HIDE DEF r
  <2> QED
    BY <2>1, <2>2
<1>2. CASE e < 0
  <2> DEFINE r == (-e) % m
             q == m * ((-e) \div m)
  <2>1. r \in 0 .. m - 1 /\ CMod(e, m) = -r /\ -e = q + r /\ q \in Int /\ (-e) \div m \in Int
    <3>1. -e \in Int
      OBVIOUS
    <3>2. r \in 0 .. m - 1 /\ -e = q + r /\ (-e) \div m \in Int
      BY <3>1, QuotientOf
    <3>3. q \in Int
      BY <3>2, Z3
    <3> QED
      BY <1>2, <3>2, <3>3 DEF CMod
  <2>2. q >= 0
    <3> DEFINE d == (-e) \div m
    <3>1. d < 0 => m * d + m <= m * 0
      BY <2>1, Apart
    <3>2. m * 0 = 0
      BY Z3
    <3>3. d >= 0 => m * d >= 0
      BY <2>1, Z3
    <3>4. q = m * d /\ d \in Int
      BY <2>1
    <3> HIDE DEF q, r, d
    <3> QED
      BY <1>2, <2>1, <3>1, <3>2, <3>3, <3>4
  <2>3. Bump(e, m) = (IF -r # 0 THEN e + m - (-r) ELSE e) /\ Reduce(e, m) = e - (-r)
    BY <2>1 DEF Bump, Reduce
  <2> HIDE DEF r, q
  <2> QED
    BY <1>2, <2>1, <2>2, <2>3
<1> QED
  BY <1>1, <1>2

(* Powers of two and what they bound.                                      *)
LEMMA HalvesAre ==
  ASSUME NEW c \in 0 .. DEPTH, NEW d \in Nat, d <= W * 2 ^ (DEPTH - c)
  PROVE  LET half == d \div 2 IN
         /\ half \in Nat /\ half <= d /\ d - half \in Nat
         /\ half > W - 1 => /\ c + 1 \in 0 .. DEPTH
                            /\ half <= W * 2 ^ (DEPTH - (c + 1)) /\ d - half <= W * 2 ^ (DEPTH - (c + 1))
<1> DEFINE half == d \div 2
<1>1. W \in Nat \ {0} /\ DEPTH \in Nat
  BY HelperAssumption
<1>2. half \in Nat /\ 2 * half <= d /\ d <= 2 * half + 1
  OBVIOUS
<1>3. CASE c = DEPTH
  <2>1. 2 ^ (DEPTH - c) = 1
    <3>1. DEPTH - c = 0
      BY <1>1, <1>3
    <3> QED
      BY <3>1, PowerAssumption
  <2>2. d <= W
    BY <1>1, <2>1
  <2> HIDE DEF half
  <2> QED
    BY <1>1, <1>2, <2>2
<1>4. CASE c < DEPTH
  <2> DEFINE p == 2 ^ (DEPTH - (c + 1))
             x == W * p
  <2>1. DEPTH - (c + 1) \in 0 .. DEPTH /\ DEPTH - (c + 1) + 1 = DEPTH - c /\ c + 1 \in 0 .. DEPTH
    BY <1>1, <1>4
  <2>2. p \in Nat /\ 2 ^ (DEPTH - c) = 2 * p
    BY <2>1, PowerAssumption
  <2>3. x \in Nat /\ W * (2 * p) = 2 * x
    <3>1. \A u, v \in Nat : u * v \in Nat /\ u * (2 * v) = 2 * (u * v)
      BY Z3
    <3> HIDE DEF p
    <3> QED
      BY <1>1, <2>2, <3>1
  <2>4. d <= 2 * x
    BY <2>2, <2>3
  <2> HIDE DEF half, p
  <2>5. half <= x /\ d - half <= x
    <3> HIDE DEF x
    <3> QED
      BY <1>2, <2>3, <2>4
  <2> QED
    BY <1>2, <2>1, <2>5 DEF p
<1>5. c = DEPTH \/ c < DEPTH
  BY <1>1
<1> HIDE DEF half
<1> QED
  BY <1>3, <1>4, <1>5 DEF half

(* Before the first call.                                                  *)
LEMMA InitHelper == HelperInit => HelperInv
BY DEF HelperInit, HelperInv, CallInv, RangellInv, RangesInv, SymbolsInv, RangesRight, RandomRight,
       StridesCovered, ParsedRight, Returned

(* The rows of the table.                                                  *)
LEMMA OpenFlagsAre ==
  /\ Len(Open_flags) = 9 /\ DOMAIN Open_flags = 1 .. 9
  /\ Open_flags[1][1] = "O_RDONLY" /\ Open_flags[1][2] = {}
  /\ Open_flags[2][2] = {"WRONLY"} /\ Open_flags[3][2] = {"RDWR"}
  /\ Open_flags[4][2] = {"SYNC", "DSYNC"} /\ Open_flags[5][2] = {"CREAT"}
  /\ Open_flags[6][2] = {"NONBLOCK"} /\ Open_flags[7][2] = {"DSYNC"}
  /\ Open_flags[8][2] = {"SYNC", "DSYNC"} /\ Open_flags[9][2] = {"NONBLOCK"}
  /\ \A j, k \in 1 .. 9 : Open_flags[j][1] = Open_flags[k][1] => j = k
  /\ \A j \in 1 .. 9 : Open_flags[j][1] # UNKNOWN_SYMBOL
<1>1. Len(Open_flags) = 9 /\ DOMAIN Open_flags = 1 .. 9
  BY DEF Open_flags
<1>2. /\ Open_flags[1][1] = "O_RDONLY" /\ Open_flags[2][1] = "O_WRONLY" /\ Open_flags[3][1] = "O_RDWR"
      /\ Open_flags[4][1] = "O_SYNC" /\ Open_flags[5][1] = "O_CREAT" /\ Open_flags[6][1] = "O_NONBLOCK"
      /\ Open_flags[7][1] = "O_DSYNC" /\ Open_flags[8][1] = "O_RSYNC" /\ Open_flags[9][1] = "O_NDELAY"
  BY DEF Open_flags
<1>3. /\ Open_flags[1][2] = {} /\ Open_flags[2][2] = {"WRONLY"} /\ Open_flags[3][2] = {"RDWR"}
      /\ Open_flags[4][2] = {"SYNC", "DSYNC"} /\ Open_flags[5][2] = {"CREAT"}
      /\ Open_flags[6][2] = {"NONBLOCK"} /\ Open_flags[7][2] = {"DSYNC"}
      /\ Open_flags[8][2] = {"SYNC", "DSYNC"} /\ Open_flags[9][2] = {"NONBLOCK"}
  BY DEF Open_flags
<1>4. \A j \in 1 .. 9 : j = 1 \/ j = 2 \/ j = 3 \/ j = 4 \/ j = 5 \/ j = 6 \/ j = 7 \/ j = 8 \/ j = 9
  OBVIOUS
<1>5. \A j \in 1 .. 9 : Open_flags[j][1] # UNKNOWN_SYMBOL
  BY <1>2, <1>4 DEF UNKNOWN_SYMBOL
<1>6. \A j, k \in 1 .. 9 : Open_flags[j][1] = Open_flags[k][1] => j = k
  BY <1>2, <1>4
<1> QED
  BY <1>1, <1>2, <1>3, <1>5, <1>6

(* The flag of a row is found under its name.                              *)
LEMMA FlagIs ==
  /\ \A j \in 1 .. 9 : Known(Open_flags[j][1]) /\ FlagOf(Open_flags[j][1]) = Open_flags[j][2]
  /\ \A name : Known(name) => \E j \in 1 .. 9 : name = Open_flags[j][1]
  /\ ~Known(UNKNOWN_SYMBOL)
<1>1. \A name : Known(name) <=> \E j \in 1 .. 9 : Open_flags[j][1] = name
  BY OpenFlagsAre DEF Known
<1>2. ASSUME NEW j \in 1 .. 9 PROVE FlagOf(Open_flags[j][1]) = Open_flags[j][2]
  <2> DEFINE i == CHOOSE i \in DOMAIN Open_flags : Open_flags[i][1] = Open_flags[j][1]
  <2>1. i \in 1 .. 9 /\ Open_flags[i][1] = Open_flags[j][1]
    BY OpenFlagsAre
  <2>2. i = j
    BY <2>1, OpenFlagsAre
  <2>3. FlagOf(Open_flags[j][1]) = Open_flags[i][2]
    BY DEF FlagOf
  <2> QED
    BY <2>2, <2>3
<1>3. ~Known(UNKNOWN_SYMBOL)
  BY <1>1, OpenFlagsAre
<1> QED
  BY <1>1, <1>2, <1>3

(* What random_rangell starts with.                                        *)
LEMMA RangellStart ==
  ASSUME NEW a \in HelperCalls, a.fn = "random_rangell", NEW f \in RangellLocals(a)
  PROVE  RangellFrame(a, f)
<1> DEFINE lo == Least(a)
           hi == Greatest(a)
<1>1. W \in Nat \ {0} /\ DEPTH \in Nat
  BY HelperAssumption
<1>2. a.min \in LongLong /\ a.max \in LongLong /\ a.mult \in LongLong
      /\ a.max - a.min + 1 \in LongLong /\ a.min - a.max + 1 \in LongLong
  BY CallFacts
<1>3. W * 2 ^ DEPTH \in Nat
  <2>1. 2 ^ DEPTH \in Nat
    BY <1>1, PowerAssumption
  <2>2. \A u, v \in Nat : u * v \in Nat
    BY Z3
  <2> QED
    BY <1>1, <2>1, <2>2
<1> DEFINE P == W * 2 ^ DEPTH
<1>4. a.min \in -P .. P - 1 /\ a.max \in -P .. P - 1 /\ a.mult \in -P .. P - 1
      /\ a.max - a.min + 1 \in -P .. P - 1 /\ a.min - a.max + 1 \in -P .. P - 1
  <2>1. LongLong = -P .. P - 1
    <3>1. \A u, v \in Int : (-u) * v = -(u * v)
      BY Z3
    <3>2. W \in Int /\ 2 ^ DEPTH \in Int
      BY <1>1, PowerAssumption
    <3>3. (-W) * 2 ^ DEPTH = -(W * 2 ^ DEPTH)
      BY <3>1, <3>2
    <3> QED
      BY <3>3 DEF LongLong
  <2> HIDE DEF P
  <2> QED
    BY <1>2, <2>1
<1>5. /\ a.min \in Int /\ a.max \in Int /\ a.mult \in Int
      /\ Lower(a) \in Int /\ Upper(a) \in Int /\ Lower(a) <= Upper(a)
      /\ Upper(a) - Lower(a) < P /\ Lower(a) >= -P
  <2> HIDE DEF P
  <2>1. P \in Nat
    BY <1>3 DEF P
  <2>2. a.min \in Int /\ a.max \in Int /\ a.mult \in Int
    BY <1>4, <2>1
  <2> QED
    BY <1>4, <2>1, <2>2 DEF Lower, Upper
<1>6. CASE a.mult < 1 \/ lo > hi
  <2>1. f = <<>>
    BY <1>1, <1>6 DEF RangellLocals, Least, Greatest
  <2> QED
    BY <1>6, <2>1 DEF RangellFrame
<1>7. CASE ~(a.mult < 1 \/ lo > hi)
  <2>1. PICK r \in 0 .. W - 1 : f = [min |-> lo, max |-> hi, cnt |-> 0, rand |-> r]
    BY <1>1, <1>7 DEF RangellLocals, Least, Greatest
  <2>2. a.mult \in Nat \ {0}
    BY <1>5, <1>7
  <2>3. /\ lo \in Int /\ Lower(a) <= lo
        /\ hi \in Int /\ (hi <= Upper(a) \/ hi <= 0)
    BY <1>5, <2>2, EndsAre DEF Least, Greatest
  <2>4. lo <= hi /\ a.mult >= 1
    <3> HIDE DEF lo, hi
    <3> QED
      BY <1>5, <1>7, <2>3
  <2>5. hi - lo <= P
    <3>1. P \in Nat
      BY <1>3
    <3> HIDE DEF lo, hi, P
    <3> QED
      BY <1>5, <2>3, <3>1
  <2>6. DEPTH - 0 = DEPTH /\ 0 \in 0 .. DEPTH
    BY <1>1
  <2>7. f.min = lo /\ f.max = hi /\ f.cnt = 0
    BY <2>1
  <2>8. f \in [min : Int, max : Int, cnt : 0 .. DEPTH, rand : 0 .. W - 1]
    BY <2>1, <2>3, <2>6
  <2>9. lo <= lo
    BY <2>3
  <2>10. f.max - f.min <= W * 2 ^ (DEPTH - f.cnt)
    BY <2>5, <2>6, <2>7
  <2> HIDE DEF lo, hi
  <2>11. /\ a.mult >= 1 /\ lo <= hi
         /\ f.cnt = 0 => f.max = hi
         /\ f.cnt > 0 => hi > W - 1
         /\ lo <= f.min /\ f.min <= f.max
    BY <2>4, <2>7, <2>9
  <2>12. /\ a.mult >= 1 /\ Least(a) <= Greatest(a)
         /\ f.cnt = 0 => f.max = Greatest(a)
         /\ f.cnt > 0 => Greatest(a) > W - 1
         /\ Least(a) <= f.min /\ f.min <= f.max
    BY <2>11 DEF lo, hi
  <2> QED
    BY <2>8, <2>10, <2>12 DEF RangellFrame
<1> QED
  BY <1>6, <1>7

(* A call.                                                                 *)
LEMMA CallStep ==
  ASSUME HelperInv, CallHelper
  PROVE  HelperInv'
<1>1. args = <<>> /\ answer = <<>> /\ answer' = <<>> /\ args' \in HelperCalls /\ frame' \in Locals(args')
  BY DEF HelperInv, CallInv, CallHelper
<1>2. CallInv' /\ RangesRight' /\ ParsedRight'
  BY <1>1 DEF CallInv, RangesRight, RandomRight, StridesCovered, ParsedRight, Returned
<1>3. W \in Nat \ {0} /\ DEPTH \in Nat
  BY HelperAssumption
<1>4. RangellInv'
  <2> SUFFICES ASSUME args'.fn = "random_rangell" PROVE RangellFrame(args', frame')
    BY DEF RangellInv
  <2>1. frame' \in RangellLocals(args')
    BY <1>1 DEF Locals
  <2> QED
    BY <1>1, <2>1, RangellStart
<1>5. RangesInv'
  <2> SUFFICES ASSUME args'.fn = "parse_ranges" PROVE RangesInv'
    BY DEF RangesInv
  <2>1. frame' = [ind |-> 1, ranges |-> <<>>]
    BY <1>1 DEF Locals, RangesStart
  <2>2. args'.fields \in Seq(Seq(Int) \ {<<>>})
    BY <1>1, CallFacts
  <2>3. Before(args', 1) = {}
    <3> SUFFICES ASSUME NEW i \in DOMAIN args'.fields PROVE ~(i < 1)
      BY DEF Before, Toks
    <3> QED
      BY <2>2
  <2>4. Cardinality(Before(args', 1)) = 0
    BY <2>3, FS_EmptySet
  <2>5. frame'.ind = 1 /\ frame'.ranges = <<>>
    BY <2>1
  <2>6. frame' \in [ind : Nat \ {0}, ranges : Seq([min : Int, max : Int, mult : Int])]
    BY <2>1
  <2>7. 1 <= Len(args'.fields) + 1 /\ Len(<<>>) = 0
    BY <2>2
  <2> QED
    BY <2>3, <2>4, <2>5, <2>6, <2>7 DEF RangesInv
<1>6. SymbolsInv'
  <2> SUFFICES ASSUME args'.fn = "openflags2symbols" PROVE SymbolsInv'
    BY DEF SymbolsInv
  <2> DEFINE names == IF {"WRONLY", "RDWR"} \cap args'.flags = {} THEN <<"O_RDONLY">> ELSE <<>>
  <2>1. frame' = [ind |-> 2, bits |-> args'.flags, names |-> names]
    BY <1>1 DEF Locals, SymbolsStart
  <2>2. names \in Seq(Names) /\ \A i \in DOMAIN names : names[i] = "O_RDONLY"
    <3>1. "O_RDONLY" \in Names
      BY OpenFlagsAre DEF Names
    <3>2. CASE {"WRONLY", "RDWR"} \cap args'.flags = {}
      <4>1. names = <<"O_RDONLY">>
        BY <3>2
      <4> HIDE DEF names
      <4> QED
        BY <3>1, <4>1
    <3>3. CASE {"WRONLY", "RDWR"} \cap args'.flags # {}
      <4>1. names = <<>>
        BY <3>3
      <4> HIDE DEF names
      <4> QED
        BY <4>1
    <3> QED
      BY <3>2, <3>3
  <2>3. \A i \in DOMAIN names : FlagOf(names[i]) = {}
    <3>1. FlagOf("O_RDONLY") = {}
      BY FlagIs, OpenFlagsAre
    <3> HIDE DEF names
    <3> QED
      BY <2>2, <3>1
  <2> HIDE DEF names
  <2>4. Means(names) = {}
    BY <2>3 DEF Means
  <2>5. frame' \in [ind : 2 .. Len(Open_flags) + 1, bits : SUBSET args'.flags, names : Seq(Names)]
    BY <2>1, <2>2, OpenFlagsAre
  <2>6. frame'.ind = 2 /\ frame'.bits = args'.flags /\ frame'.names = names
    BY <2>1
  <2> QED
    BY <2>3, <2>4, <2>5, <2>6 DEF SymbolsInv
<1> QED
  BY <1>2, <1>4, <1>5, <1>6 DEF HelperInv

(* The arguments of random_rangell are numbers.                            *)
LEMMA CallNumbers ==
  ASSUME NEW a \in HelperCalls, a.fn = "random_rangell"
  PROVE  a.min \in Int /\ a.max \in Int /\ a.mult \in Int
<1>1. a.min \in LongLong /\ a.max \in LongLong /\ a.mult \in LongLong
  BY CallFacts
<1> QED
  BY <1>1 DEF LongLong

(* After an answer there is nothing left to say but that it is right.      *)
LEMMA Answered ==
  ASSUME NEW v, CallInv, args # <<>>, Answer(v), RangesRight', ParsedRight'
  PROVE  HelperInv'
<1>1. answer' = <<v>> /\ args' = args /\ <<v>> # <<>>
  BY DEF Answer
<1> QED
  BY <1>1 DEF HelperInv, CallInv, RangellInv, RangesInv, SymbolsInv

(* The helpers that take one step.                                         *)
LEMMA ReturnStep ==
  ASSUME HelperInv, HelperReturns
  PROVE  HelperInv'
<1>1. CallInv /\ (args # <<>> => args \in HelperCalls)
  BY DEF HelperInv, CallInv
<1>2. ASSUME Busy("random_range"), NEW v \in random_range(args), Answer(v) PROVE HelperInv'
  <2>1. args # <<>> /\ args \in HelperCalls /\ args.fn = "random_range" /\ args' = args /\ answer' = <<v>>
    BY <1>1, <1>2 DEF Busy, Answer
  <2>2. {args.min, args.max, args.mult} \subseteq -W .. W - 1
    BY <2>1, CallFacts
  <2>3. ASSUME Fair(args), Upper(args) + args.mult <= W
        PROVE  /\ v.err = IF Multiples(args) = {} THEN 1 ELSE 0
               /\ v.err = 0 => v.val \in Multiples(args)
               /\ {a.val : a \in {b \in random_range(args) : b.err = 0}} = Multiples(args)
    <3>1. IF Multiples(args) = {} THEN random_range(args) = {Error}
          ELSE random_range(args) = {Drawn(x) : x \in Multiples(args)}
      BY <2>2, <2>3, RandomRangeIs
    <3>2. Error.err = 1 /\ \A x : Drawn(x).err = 0 /\ Drawn(x).val = x
      BY DEF Error, Drawn
    <3>3. CASE Multiples(args) = {}
      BY <1>2, <3>1, <3>2, <3>3
    <3>4. CASE Multiples(args) # {}
      BY <1>2, <3>1, <3>2, <3>4
    <3> QED
      BY <3>3, <3>4
  <2>4. RandomRight'
    BY <2>1, <2>3 DEF RandomRight, Returned, Fair, Signed
  <2>5. StridesCovered' /\ ParsedRight'
    BY <2>1 DEF StridesCovered, ParsedRight, Returned
  <2> QED
    BY <1>1, <1>2, <2>1, <2>4, <2>5, Answered DEF RangesRight
<1>3. ASSUME Busy("random_bit"), NEW v \in random_bit(args.mask), Answer(v) PROVE HelperInv'
  <2>1. args # <<>> /\ args \in HelperCalls /\ args.fn = "random_bit" /\ args' = args /\ answer' = <<v>>
    BY <1>1, <1>3 DEF Busy, Answer
  <2>2. args.mask = {} \/ random_bit(args.mask) = args.mask
    BY <2>1, CallFacts, RandomBitIs
  <2>3. RandomRight'
    BY <2>1, <2>2 DEF RandomRight, Returned
  <2>4. StridesCovered' /\ ParsedRight'
    BY <2>1 DEF StridesCovered, ParsedRight, Returned
  <2> QED
    BY <1>1, <1>3, <2>1, <2>3, <2>4, Answered DEF RangesRight
<1>4. ASSUME Busy("string_to_tokens"), Answer(string_to_tokens(args.toks, args.size)) PROVE HelperInv'
  <2> DEFINE v == string_to_tokens(args.toks, args.size)
  <2>1. args # <<>> /\ args \in HelperCalls /\ args.fn = "string_to_tokens" /\ args' = args /\ answer' = <<v>>
    BY <1>1, <1>4 DEF Busy, Answer
  <2>2. args.toks \in Seq(STRING) /\ args.size \in Int
    BY <2>1, CallFacts
  <2>3. ASSUME args.size > 1, Len(args.toks) < args.size
        PROVE  v.n = Len(args.toks) /\ Len(v.array) <= args.size /\ v.array = Append(args.toks, NULL)
    <3>1. v = [n |-> Len(args.toks), array |-> Append(args.toks, NULL)]
      BY <2>2, <2>3 DEF string_to_tokens
    <3>2. Len(Append(args.toks, NULL)) = Len(args.toks) + 1 /\ Len(args.toks) \in Nat
      BY <2>2
    <3> HIDE DEF v
    <3> QED
      BY <2>2, <2>3, <3>1, <3>2
  <2> HIDE DEF v
  <2>4. ParsedRight'
    BY <2>1, <2>3 DEF ParsedRight, Returned
  <2>5. RangesRight'
    BY <2>1 DEF RangesRight, RandomRight, StridesCovered, Returned
  <2> QED
    BY <1>1, <1>4, <2>1, <2>4, <2>5, Answered DEF v
<1>5. ASSUME Busy("stride_bounds"), Answer(stride_bounds(args)) PROVE HelperInv'
  <2>1. args # <<>> /\ args \in HelperCalls /\ args.fn = "stride_bounds"
        /\ args' = args /\ answer' = <<stride_bounds(args)>>
    BY <1>1, <1>5 DEF Busy, Answer
  <2>2. {args.offset, args.stride, args.nstrides, args.bytes} \subseteq Int
    BY <2>1, CallFacts
  <2>3. StridesCovered'
    <3> SUFFICES ASSUME args.nstrides > 0, args.bytes > 0 PROVE StridesCovered'
      BY <2>1 DEF StridesCovered
    <3> QED
      BY <2>1, <2>2, StrideIs DEF StridesCovered
  <2>4. RandomRight' /\ ParsedRight'
    BY <2>1 DEF RandomRight, ParsedRight, Returned
  <2> QED
    BY <1>1, <1>5, <2>1, <2>3, <2>4, Answered DEF RangesRight
<1> QED
  BY <1>2, <1>3, <1>4, <1>5 DEF HelperReturns

(* What random_rangell answers.                                            *)
LEMMA RangellAnswers ==
  ASSUME CallInv, Busy("random_rangell"), args.mult >= 1, Least(args) <= Greatest(args),
         NEW rand, RangellAnswer(rand),
         (Lower(args) >= 0 \/ Upper(args) - Lower(args) < W) => rand \in Nat
  PROVE  HelperInv'
<1> DEFINE w == Least(args) + CMod(rand, (Greatest(args) - Least(args)) \div args.mult + 1) * args.mult
<1>1. args # <<>> /\ args \in HelperCalls /\ args.fn = "random_rangell" /\ args' = args
      /\ Answer(Drawn(w)) /\ answer' = <<Drawn(w)>>
  BY DEF CallInv, Busy, Answer, RangellAnswer, Least, Greatest
<1>2. args.min \in Int /\ args.max \in Int /\ args.mult \in Nat \ {0}
  BY <1>1, CallNumbers
<1>3. ASSUME Signed(args.min, args.mult), Signed(args.max, args.mult)
      PROVE  /\ Multiples(args) # {}
             /\ (Lower(args) >= 0 \/ Upper(args) - Lower(args) < W) => w \in Multiples(args)
  <2>1. Multiples(args) # {}
    <3>1. ~(Least(args) > Greatest(args))
      <4>1. Least(args) \in Int /\ Greatest(args) \in Int
        BY <1>2, <1>3, RangeIs DEF Least, Greatest
      <4> QED
        BY <4>1
    <3> QED
      BY <1>2, <1>3, <3>1, RangeIs DEF Least, Greatest
  <2> QED
    BY <1>2, <1>3, <2>1, RangellIs
<1>4. Lower(args) >= 0 => args.min >= 0 /\ args.max >= 0
  BY <1>2 DEF Lower
<1>5. Drawn(w).err = 0 /\ Drawn(w).val = w
  BY DEF Drawn
<1> HIDE DEF w
<1>6. RandomRight'
  BY <1>1, <1>3, <1>4, <1>5 DEF RandomRight, Returned, Signed
<1>7. StridesCovered' /\ ParsedRight'
  BY <1>1 DEF StridesCovered, ParsedRight, Returned
<1> QED
  BY <1>1, <1>6, <1>7, Answered DEF RangesRight

(* Another round changes nothing but the locals.                           *)
LEMMA RoundOn ==
  ASSUME HelperInv, answer = <<>>, UNCHANGED <<args, answer>>, RangellInv', RangesInv', SymbolsInv'
  PROVE  HelperInv'
<1>1. CallInv'
  BY DEF HelperInv, CallInv
<1>2. RangesRight' /\ ParsedRight'
  BY DEF RangesRight, RandomRight, StridesCovered, ParsedRight, Returned
<1> QED
  BY <1>1, <1>2 DEF HelperInv

(* random_rangell where a number of 31 bits will do.                       *)
LEMMA RangellStep ==
  ASSUME HelperInv, random_rangell
  PROVE  HelperInv'
<1>1. CallInv /\ Busy("random_rangell") /\ args # <<>> /\ args \in HelperCalls /\ args.fn = "random_rangell"
      /\ RangellFrame(args, frame)
  BY DEF HelperInv, CallInv, random_rangell, Busy, RangellInv
<1>2. W \in Nat \ {0}
  BY HelperAssumption
<1>3. CASE args.mult >= 1 /\ Least(args) <= Greatest(args) /\ frame \in [min : Int, max : Int, cnt : 0 .. DEPTH, rand : 0 .. W - 1]
            /\ RangellAnswer(frame.rand)
  <2>1. frame.rand \in Nat
    BY <1>2, <1>3
  <2> QED
    BY <1>1, <1>3, <2>1, RangellAnswers
<1>4. CASE Answer(Error) /\ (args.mult < 1 \/ Least(args) > Greatest(args))
  <2>1. answer' = <<Error>> /\ args' = args /\ Error.err = 1
    BY <1>4 DEF Answer, Error
  <2>2. args.min \in Int /\ args.max \in Int /\ args.mult \in Int
    BY <1>1, CallNumbers
  <2>3. ASSUME args.mult > 0, Signed(args.min, args.mult), Signed(args.max, args.mult)
        PROVE  Multiples(args) = {}
    <3>1. args.mult \in Nat \ {0} /\ ~(args.mult < 1)
      BY <2>2, <2>3
    <3> QED
      BY <1>4, <2>2, <2>3, <3>1, RangeIs DEF Least, Greatest
  <2>4. RandomRight'
    BY <1>1, <2>1, <2>3 DEF RandomRight, Returned, Signed
  <2>5. StridesCovered' /\ ParsedRight'
    BY <1>1, <2>1 DEF StridesCovered, ParsedRight, Returned
  <2> QED
    BY <1>1, <1>4, <2>4, <2>5, Answered DEF RangesRight
<1>5. ASSUME frame = <<>> PROVE ~(frame \in [min : Int, max : Int, cnt : 0 .. DEPTH, rand : 0 .. W - 1])
  <2>1. DOMAIN frame = {}
    BY <1>5
  <2>2. frame \in [min : Int, max : Int, cnt : 0 .. DEPTH, rand : 0 .. W - 1] => "cnt" \in DOMAIN frame
    OBVIOUS
  <2> QED
    BY <2>1, <2>2
<1> QED
  BY <1>1, <1>3, <1>4, <1>5 DEF random_rangell, RangellFrame

(* A halving.                                                              *)
LEMMA DividerStep ==
  ASSUME HelperInv, divider
  PROVE  HelperInv'
<1> DEFINE f    == frame
           d    == f.max - f.min
           half == d \div 2
           med  == f.min + half
<1>1. CallInv /\ Busy("random_rangell") /\ args # <<>> /\ args \in HelperCalls /\ args.fn = "random_rangell"
      /\ answer = <<>> /\ RangellFrame(args, f) /\ f # <<>> /\ (f.cnt = 0 => f.max > W - 1)
  BY DEF HelperInv, CallInv, divider, Busy, RangellInv
<1>2. W \in Nat \ {0} /\ DEPTH \in Nat
  BY HelperAssumption
<1>3. /\ f \in [min : Int, max : Int, cnt : 0 .. DEPTH, rand : 0 .. W - 1]
      /\ args.mult >= 1 /\ Least(args) <= Greatest(args)
      /\ f.cnt = 0 => f.max = Greatest(args)
      /\ f.cnt > 0 => Greatest(args) > W - 1
      /\ Least(args) <= f.min /\ f.min <= f.max
      /\ d <= W * 2 ^ (DEPTH - f.cnt)
  BY <1>1 DEF RangellFrame
<1>4. args.min \in Int /\ args.max \in Int /\ args.mult \in Nat \ {0}
  <2>1. args.min \in Int /\ args.max \in Int /\ args.mult \in Int
    BY <1>1, CallNumbers
  <2> QED
    BY <1>3, <2>1
<1>5. /\ Lower(args) \in Int /\ Upper(args) \in Int
      /\ Least(args) \in Int /\ Lower(args) <= Least(args)
      /\ Greatest(args) \in Int /\ (Greatest(args) <= Upper(args) \/ Greatest(args) <= 0)
  <2>1. Lower(args) \in Int /\ Upper(args) \in Int
    BY <1>4 DEF Lower, Upper
  <2> QED
    BY <1>4, <2>1, EndsAre DEF Least, Greatest
<1>6. f.min \in Int /\ f.max \in Int /\ f.cnt \in 0 .. DEPTH /\ f.rand \in 0 .. W - 1 /\ f.rand \in Nat
      /\ d \in Nat /\ f.cnt <= DEPTH
  BY <1>2, <1>3
<1>7. Greatest(args) > W - 1
  <2>1. f.cnt = 0 \/ f.cnt > 0
    BY <1>2, <1>6
  <2> QED
    BY <1>1, <1>3, <2>1
<1>8. (Lower(args) >= 0 \/ Upper(args) - Lower(args) < W) => f.min >= 0
  <2> HIDE DEF f
  <2> QED
    BY <1>2, <1>3, <1>5, <1>6, <1>7
<1>9. /\ half \in Nat /\ half <= d /\ d - half \in Nat
      /\ half > W - 1 => /\ f.cnt + 1 \in 0 .. DEPTH
                         /\ half <= W * 2 ^ (DEPTH - (f.cnt + 1)) /\ d - half <= W * 2 ^ (DEPTH - (f.cnt + 1))
  <2> HIDE DEF d
  <2> QED
    BY <1>3, <1>6, HalvesAre
<1>10. CASE RangellAnswer(f.min + f.rand)
  <2>1. (Lower(args) >= 0 \/ Upper(args) - Lower(args) < W) => f.min + f.rand \in Nat
    BY <1>6, <1>8
  <2> QED
    BY <1>1, <1>3, <1>10, <2>1, RangellAnswers
<1>11. CASE RangellAnswer(med + f.rand)
  <2>1. (Lower(args) >= 0 \/ Upper(args) - Lower(args) < W) => med + f.rand \in Nat
    <3> HIDE DEF half, f
    <3> QED
      BY <1>6, <1>8, <1>9
  <2> QED
    BY <1>1, <1>3, <1>11, <2>1, RangellAnswers
<1>12. ASSUME half > W - 1, NEW lo \in Int, NEW hi \in Int,
              frame' = [min |-> lo, max |-> hi, cnt |-> f.cnt + 1, rand |-> f.rand],
              UNCHANGED <<args, answer>>,
              f.min <= lo, lo <= hi, hi - lo <= W * 2 ^ (DEPTH - (f.cnt + 1))
       PROVE  HelperInv'
  <2>1. RangellFrame(args, frame')
    <3> DEFINE g == frame'
    <3>1. g = [min |-> lo, max |-> hi, cnt |-> f.cnt + 1, rand |-> f.rand]
      BY <1>12
    <3>2. f.cnt + 1 \in 0 .. DEPTH /\ f.cnt + 1 # 0
      BY <1>2, <1>6, <1>9, <1>12
    <3>3. g.min = lo /\ g.max = hi /\ g.cnt = f.cnt + 1
      BY <3>1
    <3>4. g \in [min : Int, max : Int, cnt : 0 .. DEPTH, rand : 0 .. W - 1]
      BY <1>6, <3>1, <3>2
    <3>5. Least(args) <= lo
      BY <1>3, <1>5, <1>6, <1>12
    <3> HIDE DEF g, f, d, half
    <3>6. g.cnt # 0 /\ g.max - g.min <= W * 2 ^ (DEPTH - g.cnt) /\ Least(args) <= g.min /\ g.min <= g.max
      BY <1>12, <3>2, <3>3, <3>5
    <3>7. RangellFrame(args, g)
      BY <1>3, <1>7, <3>4, <3>6 DEF RangellFrame
    <3> QED
      BY <3>7 DEF g
  <2>2. args' = args /\ answer' = answer
    BY <1>12
  <2>3. RangellInv' /\ RangesInv' /\ SymbolsInv'
    BY <1>1, <2>1, <2>2 DEF RangellInv, RangesInv, SymbolsInv
  <2> QED
    BY <1>1, <1>12, <2>3, RoundOn
<1>13. CASE half > W - 1 /\ Goes([f EXCEPT !.min = med, !.cnt = @ + 1])
  <2>1. frame' = [min |-> med, max |-> f.max, cnt |-> f.cnt + 1, rand |-> f.rand] /\ UNCHANGED <<args, answer>>
    BY <1>3, <1>13 DEF Goes
  <2>2. med \in Int /\ f.min <= med /\ med <= f.max /\ f.max - med = d - half
    <3> HIDE DEF half, f
    <3> QED
      BY <1>6, <1>9
  <2>3. f.max - med <= W * 2 ^ (DEPTH - (f.cnt + 1))
    BY <1>9, <1>13, <2>2
  <2> HIDE DEF half, d, med
  <2> QED
    BY <1>6, <1>12, <1>13, <2>1, <2>2, <2>3
<1>14. CASE half > W - 1 /\ Goes([f EXCEPT !.max = med, !.cnt = @ + 1])
  <2>1. frame' = [min |-> f.min, max |-> med, cnt |-> f.cnt + 1, rand |-> f.rand] /\ UNCHANGED <<args, answer>>
    BY <1>3, <1>14 DEF Goes
  <2>2. med \in Int /\ f.min <= f.min /\ f.min <= med /\ med - f.min = half
    <3> HIDE DEF half, f
    <3> QED
      BY <1>6, <1>9
  <2>3. med - f.min <= W * 2 ^ (DEPTH - (f.cnt + 1))
    BY <1>9, <1>14, <2>2
  <2> HIDE DEF half, d, med
  <2> QED
    BY <1>6, <1>12, <1>14, <2>1, <2>2, <2>3
<1>15. PICK bit \in BitValues(f.rand, f.cnt) :
       \/ RangellAnswer(IF f.cnt > DEPTH THEN -1 ELSE f.min + f.rand)
       \/ RangellAnswer(IF bit = 1 THEN med + f.rand ELSE f.min + f.rand)
       \/ half > W - 1 /\ Goes(IF bit = 1 THEN [f EXCEPT !.min = med, !.cnt = @ + 1]
                               ELSE [f EXCEPT !.max = med, !.cnt = @ + 1])
  BY DEF divider
<1>16. ~(f.cnt > DEPTH)
  BY <1>2, <1>6
<1> HIDE DEF med, half
<1> QED
  BY <1>10, <1>11, <1>13, <1>14, <1>15, <1>16

(* One more token.                                                         *)
LEMMA NextToken ==
  ASSUME NEW a, a.fields \in Seq(Seq(Int) \ {<<>>}), NEW n \in 1 .. Len(a.fields)
  PROVE  /\ Toks(a) \in SUBSET Nat /\ IsFiniteSet(Toks(a))
         /\ IsFiniteSet(Before(a, n)) /\ Cardinality(Before(a, n)) \in Nat
         /\ n \notin Toks(a) => Before(a, n + 1) = Before(a, n)
         /\ n \in Toks(a) => /\ Before(a, n + 1) = Before(a, n) \cup {n}
                             /\ Cardinality(Before(a, n + 1)) = Cardinality(Before(a, n)) + 1
                             /\ Rank(Toks(a), n) = Cardinality(Before(a, n)) + 1
<1>1. Toks(a) \in SUBSET (1 .. Len(a.fields)) /\ Len(a.fields) \in Nat
  <2>1. Len(a.fields) \in Nat /\ DOMAIN a.fields = 1 .. Len(a.fields)
    OBVIOUS
  <2>2. Toks(a) \in SUBSET DOMAIN a.fields
    BY DEF Toks
  <2> QED
    BY <2>1, <2>2
<1>2. Toks(a) \in SUBSET Nat /\ IsFiniteSet(Toks(a))
  <2>1. IsFiniteSet(1 .. Len(a.fields))
    BY <1>1, FS_Interval
  <2> QED
    BY <1>1, <2>1, FS_Subset
<1>3. Before(a, n) \in SUBSET Toks(a) /\ n \notin Before(a, n)
  BY <1>1 DEF Before
<1>4. IsFiniteSet(Before(a, n)) /\ Cardinality(Before(a, n)) \in Nat
  BY <1>2, <1>3, FS_Subset, FS_CardinalityType
<1>5. \A j \in Toks(a) : (j < n + 1 <=> j < n \/ j = n) /\ (j <= n <=> j < n + 1)
  <2>1. n \in Int
    BY <1>1
  <2>2. \A j \in Int : (j < n + 1 <=> j < n \/ j = n) /\ (j <= n <=> j < n + 1)
    BY <2>1
  <2>3. \A j \in Toks(a) : j \in Int
    BY <1>1
  <2> QED
    BY <2>2, <2>3
<1>6. n \notin Toks(a) => Before(a, n + 1) = Before(a, n)
  BY <1>5 DEF Before
<1>7. n \in Toks(a) => Before(a, n + 1) = Before(a, n) \cup {n}
  BY <1>5 DEF Before
<1>8. n \in Toks(a) => Cardinality(Before(a, n + 1)) = Cardinality(Before(a, n)) + 1
  <2>1. Cardinality(Before(a, n) \cup {n}) = Cardinality(Before(a, n)) + 1
    BY <1>3, <1>4, FS_AddElement
  <2> QED
    BY <1>7, <2>1
<1>9. Rank(Toks(a), n) = Cardinality(Before(a, n + 1))
  <2>1. {j \in Toks(a) : j <= n} = {j \in Toks(a) : j < n + 1}
    BY <1>5
  <2> QED
    BY <2>1 DEF Rank, Before
<1> QED
  BY <1>2, <1>4, <1>6, <1>7, <1>8, <1>9

(* A range without bad fields takes the numbers that are given, each at its*)
(* place, and the defaults for the others.                                 *)
LEMMA RangeFacts ==
  ASSUME NEW t \in Seq(Int) \ {<<>>}, t # <<BLANK>>, ~Bad(t),
         NEW d, {d.min, d.max, d.mult} \subseteq Int \ {BLANK, BAD}
  PROVE  /\ RangeOf(t, d) \in [min : Int, max : Int, mult : Int]
         /\ RangeOf(t, d).min = Given(t, 1, d.min)
         /\ RangeOf(t, d).max = Given(t, 2, IF Len(t) = 1 THEN t[1] ELSE d.max)
         /\ RangeOf(t, d).mult = Given(t, 3, d.mult)
<1>1. Len(t) \in Nat \ {0} /\ DOMAIN t = 1 .. Len(t)
  OBVIOUS
<1>2. ASSUME NEW i \in {1, 2, 3}, NEW e \in Int
      PROVE  Parsed(t, i, e) = Given(t, i, e) /\ Parsed(t, i, e) \in Int
  <2>1. i \in DOMAIN t <=> i <= Len(t)
    BY <1>1
  <2>2. i \in DOMAIN t => t[i] \in Int
    OBVIOUS
  <2>3. (i > Len(t)) <=> ~(i <= Len(t))
    BY <1>1
  <2> QED
    BY <2>1, <2>2, <2>3 DEF Parsed, Given
<1>3. /\ Parsed(t, 1, d.min) = Given(t, 1, d.min) /\ Parsed(t, 1, d.min) \in Int
      /\ Parsed(t, 2, d.max) = Given(t, 2, d.max) /\ Parsed(t, 2, d.max) \in Int
      /\ Parsed(t, 3, d.mult) = Given(t, 3, d.mult) /\ Parsed(t, 3, d.mult) \in Int
  BY <1>2
<1>4. Len(t) = 1 => Parsed(t, 1, d.min) = t[1] /\ Given(t, 2, t[1]) = t[1]
  <2> SUFFICES ASSUME Len(t) = 1 PROVE Parsed(t, 1, d.min) = t[1] /\ Given(t, 2, t[1]) = t[1]
    OBVIOUS
  <2>1. t[1] # BLANK
    <3> SUFFICES ASSUME t[1] = BLANK PROVE FALSE
      OBVIOUS
    <3>1. t = <<BLANK>>
      OBVIOUS
    <3> QED
      BY <3>1
  <2>2. 2 \notin DOMAIN t
    BY <1>1
  <2> QED
    BY <2>1, <2>2 DEF Parsed, Given
<1> HIDE DEF Parsed, Given
<1>5. /\ RangeOf(t, d) = [min |-> RangeOf(t, d).min, max |-> RangeOf(t, d).max, mult |-> RangeOf(t, d).mult]
      /\ RangeOf(t, d).min = Parsed(t, 1, d.min)
      /\ RangeOf(t, d).max = IF Len(t) = 1 THEN Parsed(t, 1, d.min) ELSE Parsed(t, 2, d.max)
      /\ RangeOf(t, d).mult = Parsed(t, 3, d.mult)
  BY DEF RangeOf
<1> HIDE DEF RangeOf
<1>6. RangeOf(t, d) \in [min : Int, max : Int, mult : Int]
  BY <1>3, <1>5
<1>7. RangeOf(t, d).max = Given(t, 2, IF Len(t) = 1 THEN t[1] ELSE d.max)
  BY <1>3, <1>4, <1>5
<1> QED
  BY <1>3, <1>5, <1>6, <1>7

(* A token.                                                                *)
LEMMA RangesStep ==
  ASSUME HelperInv, parse_ranges
  PROVE  HelperInv'
<1> DEFINE f == args.fields
           t == f[frame.ind]
           n == frame.ind
<1>1. CallInv /\ Busy("parse_ranges") /\ args # <<>> /\ args \in HelperCalls /\ args.fn = "parse_ranges"
      /\ answer = <<>>
  BY DEF HelperInv, CallInv, parse_ranges, Busy
<1>2. /\ frame \in [ind : Nat \ {0}, ranges : Seq([min : Int, max : Int, mult : Int])]
      /\ n \in Nat \ {0} /\ n <= Len(f) + 1
      /\ Len(frame.ranges) = Cardinality(Before(args, n))
      /\ \A i \in Before(args, n) : ~Bad(f[i]) /\ frame.ranges[Rank(Toks(args), i)] = RangeOf(f[i], args.default)
  BY <1>1 DEF HelperInv, RangesInv
<1>3. f \in Seq(Seq(Int) \ {<<>>}) /\ {args.default.min, args.default.max, args.default.mult} \subseteq Int \ {BLANK, BAD}
      /\ Len(f) \in Nat
  BY <1>1, CallFacts
<1>4. /\ Toks(args) = {i \in DOMAIN f : f[i] # <<BLANK>>}
      /\ Toks(args) \in SUBSET (1 .. Len(f)) /\ Toks(args) \in SUBSET Nat /\ IsFiniteSet(Toks(args))
  <2>1. Toks(args) \in SUBSET (1 .. Len(f))
    <3>1. DOMAIN f = 1 .. Len(f)
      BY <1>3
    <3>2. Toks(args) \in SUBSET DOMAIN f
      BY DEF Toks
    <3> QED
      BY <3>1, <3>2
  <2>2. IsFiniteSet(1 .. Len(f))
    BY <1>3, FS_Interval
  <2> QED
    BY <1>3, <2>1, <2>2, FS_Subset DEF Toks
<1>5. /\ Cardinality(Toks(args)) \in Nat
      /\ \A i \in Toks(args) : Rank(Toks(args), i) \in 1 .. Cardinality(Toks(args))
      /\ \A i, k \in Toks(args) : i < k => Rank(Toks(args), i) < Rank(Toks(args), k)
  BY <1>4, PlacesApart
<1>7. CASE n > Len(f) /\ Answer([n |-> Len(frame.ranges), ranges |-> frame.ranges])
  <2> DEFINE v == [n |-> Len(frame.ranges), ranges |-> frame.ranges]
  <2>1. answer' = <<v>> /\ args' = args
    BY <1>7 DEF Answer
  <2>2. Before(args, n) = Toks(args)
    <3> SUFFICES ASSUME NEW i \in Toks(args) PROVE i < n
      BY DEF Before
    <3>1. i \in 1 .. Len(f)
      BY <1>4
    <3> HIDE DEF n
    <3> QED
      BY <1>2, <1>3, <1>7, <3>1
  <2>3. v.n = Cardinality(Toks(args)) /\ Len(v.ranges) = v.n
    BY <1>2, <2>2
  <2>4. ASSUME NEW i \in Toks(args)
        PROVE  /\ ~\E k \in DOMAIN f[i] : f[i][k] = BAD
               /\ LET r == v.ranges[Cardinality({j \in Toks(args) : j <= i})] IN
                  /\ r.min = Given(f[i], 1, args.default.min)
                  /\ r.max = Given(f[i], 2, IF Len(f[i]) = 1 THEN f[i][1] ELSE args.default.max)
                  /\ r.mult = Given(f[i], 3, args.default.mult)
    <3>1. ~Bad(f[i]) /\ frame.ranges[Rank(Toks(args), i)] = RangeOf(f[i], args.default)
      BY <1>2, <2>2
    <3>2. f[i] \in Seq(Int) \ {<<>>} /\ f[i] # <<BLANK>>
      BY <1>3, <1>4
    <3>3. v.ranges[Cardinality({j \in Toks(args) : j <= i})] = RangeOf(f[i], args.default)
      BY <3>1 DEF Rank
    <3>4. LET r == RangeOf(f[i], args.default) IN
          /\ r.min = Given(f[i], 1, args.default.min)
          /\ r.max = Given(f[i], 2, IF Len(f[i]) = 1 THEN f[i][1] ELSE args.default.max)
          /\ r.mult = Given(f[i], 3, args.default.mult)
      BY <1>3, <3>1, <3>2, RangeFacts
    <3> HIDE DEF v
    <3> QED
      BY <3>1, <3>3, <3>4 DEF Bad
  <2> HIDE DEF v
  <2>5. ParsedRight'
    <3>1. Listed(args, v)
      BY <1>4, <2>3, <2>4 DEF Listed
    <3>2. Listed(args', answer'[1])
      BY <2>1, <3>1
    <3> QED
      BY <1>1, <2>1, <3>2 DEF ParsedRight, Returned, Listed
  <2>6. RangesRight'
    BY <1>1, <2>1 DEF RangesRight, RandomRight, StridesCovered, Returned
  <2> QED
    BY <1>1, <1>7, <2>5, <2>6, Answered DEF v
<1>8. CASE n <= Len(f) /\ t = <<BLANK>> /\ Goes([frame EXCEPT !.ind = @ + 1])
  <2>1. n \in 1 .. Len(f) /\ n \notin Toks(args)
    <3>1. n \in 1 .. Len(f)
      <4> HIDE DEF n, f
      <4> QED
        BY <1>2, <1>3, <1>8
    <3>2. n \notin Toks(args)
      BY <1>4, <1>8
    <3> QED
      BY <3>1, <3>2
  <2>2. frame' = [ind |-> n + 1, ranges |-> frame.ranges] /\ args' = args /\ answer' = answer
    BY <1>2, <1>8 DEF Goes
  <2>3. Before(args, n + 1) = Before(args, n)
    BY <1>3, <2>1, NextToken
  <2>4. RangesInv'
    <3>1. frame'.ind = n + 1 /\ frame'.ranges = frame.ranges
      BY <2>2
    <3>2. n + 1 \in Nat \ {0} /\ n + 1 <= Len(f) + 1
      <4>1. Len(f) \in Nat /\ n \in 1 .. Len(f)
        BY <1>3, <2>1
      <4> HIDE DEF n, f
      <4> QED
        BY <4>1
    <3>3. frame' \in [ind : Nat \ {0}, ranges : Seq([min : Int, max : Int, mult : Int])]
      BY <1>2, <2>2, <3>2
    <3> HIDE DEF n
    <3> QED
      BY <1>2, <2>2, <2>3, <3>1, <3>2, <3>3 DEF RangesInv
  <2>5. RangellInv' /\ SymbolsInv'
    BY <1>1, <2>2 DEF RangellInv, SymbolsInv
  <2> QED
    BY <1>1, <2>2, <2>4, <2>5, RoundOn
<1>9. CASE n <= Len(f) /\ (\E k \in DOMAIN t : t[k] = BAD) /\ Answer([n |-> -1, ranges |-> <<>>])
  <2> DEFINE v == [n |-> -1, ranges |-> <<>>]
  <2>1. answer' = <<v>> /\ args' = args /\ v.n = -1
    BY <1>9 DEF Answer
  <2>2. n \in 1 .. Len(f)
    BY <1>2, <1>3, <1>9
  <2>3. n \in Toks(args)
    <3>1. DOMAIN <<BLANK>> = {1} /\ <<BLANK>>[1] # BAD
      BY DEF BLANK, BAD
    <3>2. t # <<BLANK>>
      BY <1>9, <3>1
    <3> QED
      BY <1>3, <1>4, <2>2, <3>2
  <2> HIDE DEF v
  <2>4. ParsedRight'
    BY <1>1, <1>4, <1>9, <2>1, <2>3 DEF ParsedRight, Returned
  <2>5. RangesRight'
    BY <1>1, <2>1 DEF RangesRight, RandomRight, StridesCovered, Returned
  <2> QED
    BY <1>1, <1>9, <2>4, <2>5, Answered DEF v
<1>10. CASE /\ n <= Len(f) /\ t # <<BLANK>> /\ \A k \in DOMAIN t : t[k] # BAD
            /\ Goes([frame EXCEPT !.ind = @ + 1, !.ranges = Append(@, RangeOf(t, args.default))])
  <2> DEFINE r == RangeOf(t, args.default)
             toks == Toks(args)
             rs == frame.ranges
             rt == [min : Int, max : Int, mult : Int]
  <2>1. n \in 1 .. Len(f) /\ n \in toks /\ t \in Seq(Int) \ {<<>>} /\ ~Bad(t)
    <3>1. n \in 1 .. Len(f)
      <4>1. n \in Nat \ {0} /\ Len(f) \in Nat /\ n <= Len(f)
        BY <1>2, <1>3, <1>10
      <4> HIDE DEF n, f
      <4> QED
        BY <4>1
    <3>2. DOMAIN f = 1 .. Len(f)
      BY <1>3
    <3>3. n \in toks
      BY <1>4, <1>10, <3>1, <3>2
    <3>4. t \in Seq(Int) \ {<<>>}
      BY <1>3, <3>1
    <3>5. ~Bad(t)
      BY <1>10 DEF Bad
    <3> QED
      BY <3>1, <3>3, <3>4, <3>5
  <2>2. r \in rt
    BY <1>3, <1>10, <2>1, RangeFacts
  <2>3. frame' = [ind |-> n + 1, ranges |-> Append(rs, r)] /\ args' = args /\ answer' = answer
    BY <1>2, <1>10 DEF Goes
  <2>4. /\ Before(args, n + 1) = Before(args, n) \cup {n}
        /\ Cardinality(Before(args, n + 1)) = Cardinality(Before(args, n)) + 1
        /\ Rank(toks, n) = Cardinality(Before(args, n)) + 1
    BY <1>3, <2>1, NextToken
  <2> HIDE DEF rt, r
  <2>5. rs \in Seq(rt) /\ Len(rs) \in Nat
    BY <1>2 DEF rt
  <2>6. /\ Append(rs, r) \in Seq(rt) /\ Len(Append(rs, r)) = Len(rs) + 1
        /\ Append(rs, r)[Len(rs) + 1] = r /\ \A k \in 1 .. Len(rs) : Append(rs, r)[k] = rs[k]
    BY <2>2, <2>5
  <2>7. ASSUME NEW i \in Before(args, n) PROVE Append(rs, r)[Rank(toks, i)] = RangeOf(f[i], args.default)
    <3>1. i \in toks /\ i < n
      BY DEF Before
    <3>2. Rank(toks, i) < Rank(toks, n) /\ Rank(toks, i) \in 1 .. Cardinality(toks)
      BY <1>5, <2>1, <3>1
    <3>3. Rank(toks, i) \in 1 .. Len(rs)
      <4> DEFINE p == Rank(toks, i)
                 q == Rank(toks, n)
      <4>1. q = Len(rs) + 1 /\ p < q /\ p \in Int /\ p >= 1
        BY <1>2, <1>5, <2>4, <3>2
      <4> HIDE DEF p, q, rs
      <4>2. p \in 1 .. Len(rs)
        BY <2>5, <4>1
      <4> QED
        BY <4>2 DEF p
    <3>4. Append(rs, r)[Rank(toks, i)] = rs[Rank(toks, i)]
      BY <2>6, <3>3
    <3> QED
      BY <1>2, <3>4
  <2>8. Append(rs, r)[Rank(toks, n)] = RangeOf(f[n], args.default)
    BY <1>2, <2>4, <2>6 DEF r
  <2>9. RangesInv'
    <3>1. frame'.ind = n + 1 /\ frame'.ranges = Append(rs, r)
      BY <2>3
    <3>2. n + 1 \in Nat \ {0} /\ n + 1 <= Len(f) + 1
      <4>1. Len(f) \in Nat /\ n \in 1 .. Len(f)
        BY <1>3, <2>1
      <4> HIDE DEF n, f
      <4> QED
        BY <4>1
    <3>3. frame' \in [ind : Nat \ {0}, ranges : Seq([min : Int, max : Int, mult : Int])]
      BY <2>3, <2>6, <3>2 DEF rt
    <3>4. Len(Append(rs, r)) = Cardinality(Before(args, n + 1))
      BY <1>2, <2>4, <2>6
    <3>5. \A i \in Before(args, n + 1) : ~Bad(f[i]) /\ Append(rs, r)[Rank(toks, i)] = RangeOf(f[i], args.default)
      BY <1>2, <2>1, <2>4, <2>7, <2>8
    <3> HIDE DEF n, rs
    <3> QED
      BY <2>3, <3>1, <3>2, <3>3, <3>4, <3>5 DEF RangesInv
  <2>10. RangellInv' /\ SymbolsInv'
    BY <1>1, <2>3 DEF RangellInv, SymbolsInv
  <2> QED
    BY <1>1, <2>3, <2>9, <2>10, RoundOn
<1> QED
  BY <1>7, <1>8, <1>9, <1>10 DEF parse_ranges

(* A bit of a row; O_SYNC never comes without O_DSYNC.                     *)
LEMMA BitsAre ==
  LET known == UNION {Open_flags[i][2] : i \in DOMAIN Open_flags} IN
  /\ known = {"WRONLY", "RDWR", "SYNC", "DSYNC", "CREAT", "NONBLOCK"}
  /\ \A name \in Names : Known(name) /\ FlagOf(name) \in SUBSET known /\ ("SYNC" \in FlagOf(name) => "DSYNC" \in FlagOf(name))
<1> DEFINE known == UNION {Open_flags[i][2] : i \in DOMAIN Open_flags}
<1>1. \A j \in 1 .. 9 : j = 1 \/ j = 2 \/ j = 3 \/ j = 4 \/ j = 5 \/ j = 6 \/ j = 7 \/ j = 8 \/ j = 9
  OBVIOUS
<1>2. \A j \in 1 .. 9 : /\ Open_flags[j][2] \in SUBSET {"WRONLY", "RDWR", "SYNC", "DSYNC", "CREAT", "NONBLOCK"}
                        /\ "SYNC" \in Open_flags[j][2] => "DSYNC" \in Open_flags[j][2]
  BY <1>1, OpenFlagsAre
<1>3. 2 \in 1 .. 9 /\ 3 \in 1 .. 9 /\ 4 \in 1 .. 9 /\ 5 \in 1 .. 9 /\ 6 \in 1 .. 9
  OBVIOUS
<1>4. {"WRONLY", "RDWR", "SYNC", "DSYNC", "CREAT", "NONBLOCK"} \in SUBSET known
  BY <1>3, OpenFlagsAre
<1>5. known = {"WRONLY", "RDWR", "SYNC", "DSYNC", "CREAT", "NONBLOCK"}
  <2>1. \A x \in known : x \in {"WRONLY", "RDWR", "SYNC", "DSYNC", "CREAT", "NONBLOCK"}
    BY <1>2, OpenFlagsAre
  <2> QED
    BY <1>4, <2>1
<1>6. ASSUME NEW name \in Names
      PROVE  Known(name) /\ FlagOf(name) \in SUBSET known /\ ("SYNC" \in FlagOf(name) => "DSYNC" \in FlagOf(name))
  <2>1. PICK j \in 1 .. 9 : name = Open_flags[j][1]
    BY OpenFlagsAre DEF Names
  <2>2. Known(name) /\ FlagOf(name) = Open_flags[j][2]
    BY <2>1, FlagIs
  <2> HIDE DEF known
  <2> QED
    BY <1>2, <1>5, <2>2
<1> QED
  BY <1>5, <1>6

(* One more symbol.                                                        *)
LEMMA SymbolAdded ==
  ASSUME NEW names \in Seq(Names), NEW name \in Names
  PROVE  /\ Append(names, name) \in Seq(Names)
         /\ Means(Append(names, name)) = Means(names) \cup FlagOf(name)
<1> DEFINE s == Append(names, name)
           n == Len(names)
<1>1. /\ s \in Seq(Names) /\ n \in Nat /\ DOMAIN names = 1 .. n /\ DOMAIN s = 1 .. n + 1 /\ s[n + 1] = name
      /\ \A i \in 1 .. n : s[i] = names[i]
  OBVIOUS
<1> HIDE DEF s, n
<1>2. \A i : i \in 1 .. n + 1 <=> i \in 1 .. n \/ i = n + 1
  BY <1>1
<1>3. ASSUME NEW x PROVE (\E i \in DOMAIN s : x \in FlagOf(s[i])) <=> (\E i \in DOMAIN names : x \in FlagOf(names[i])) \/ x \in FlagOf(name)
  BY <1>1, <1>2, Zenon
<1>4. ASSUME NEW x PROVE x \in Means(s) <=> \E i \in DOMAIN s : x \in FlagOf(s[i])
  BY DEF Means
<1>5. ASSUME NEW x PROVE x \in Means(names) <=> \E i \in DOMAIN names : x \in FlagOf(names[i])
  BY DEF Means
<1>6. ASSUME NEW x PROVE x \in Means(s) <=> x \in Means(names) \/ x \in FlagOf(name)
  BY <1>3, <1>4, <1>5
<1>7. Means(s) = Means(names) \cup FlagOf(name)
  BY <1>6
<1> QED
  BY <1>1, <1>7 DEF s

(* What the symbols are for: see ParsedRight.                              *)
Kept(flags, mode, names) ==
  LET known == flags \cap UNION {Open_flags[i][2] : i \in DOMAIN Open_flags}
      lost  == known \cap {"SYNC"} # {} /\ "DSYNC" \notin known
      back  == parse_open_flags(names)
  IN IF known = flags /\ ~lost THEN back = [ok |-> 1, bits |-> flags]
     ELSE IF mode = 1 THEN back.ok = 0 ELSE back.bits \subseteq flags

(* They are for that at the end of the loop.                               *)
LEMMA SymbolsEnd ==
  ASSUME NEW flags, NEW bits \in SUBSET flags, NEW names \in Seq(Names), NEW mode,
         Means(names) = flags \ bits,
         \A j \in 2 .. 9 : ~(Open_flags[j][2] \subseteq bits),
         "SYNC" \in bits => "DSYNC" \notin flags
  PROVE  Kept(flags, mode, IF bits # {} /\ mode = 1 THEN Append(names, UNKNOWN_SYMBOL) ELSE names)
<1> DEFINE all   == UNION {Open_flags[i][2] : i \in DOMAIN Open_flags}
           known == flags \cap all
           lost  == known \cap {"SYNC"} # {} /\ "DSYNC" \notin known
           named == Means(names)
           s     == Append(names, UNKNOWN_SYMBOL)
<1>1. all = {"WRONLY", "RDWR", "SYNC", "DSYNC", "CREAT", "NONBLOCK"}
  BY BitsAre
<1>2. /\ \A i \in DOMAIN names : Known(names[i])
      /\ named \in SUBSET all /\ ("SYNC" \in named => "DSYNC" \in named)
  <2>1. \A i \in DOMAIN names : names[i] \in Names
    OBVIOUS
  <2>2. \A i \in DOMAIN names : /\ Known(names[i]) /\ FlagOf(names[i]) \in SUBSET all
                                /\ "SYNC" \in FlagOf(names[i]) => "DSYNC" \in FlagOf(names[i])
    BY <2>1, BitsAre
  <2> HIDE DEF all
  <2> QED
    BY <2>2 DEF Means
<1>3. parse_open_flags(names) = [ok |-> 1, bits |-> named] /\ named = flags \ bits
  BY <1>2 DEF parse_open_flags, Means
<1>4. parse_open_flags(s).ok = 0
  <2>1. Len(names) + 1 \in DOMAIN s /\ s[Len(names) + 1] = UNKNOWN_SYMBOL
    OBVIOUS
  <2>2. ~\A i \in DOMAIN s : Known(s[i])
    BY <2>1, FlagIs
  <2> QED
    BY <2>2 DEF parse_open_flags
<1>5. {"WRONLY", "RDWR", "DSYNC", "CREAT", "NONBLOCK"} \cap bits = {}
  <2>1. 2 \in 2 .. 9 /\ 3 \in 2 .. 9 /\ 5 \in 2 .. 9 /\ 6 \in 2 .. 9 /\ 7 \in 2 .. 9
    OBVIOUS
  <2>2. /\ ~({"WRONLY"} \subseteq bits) /\ ~({"RDWR"} \subseteq bits) /\ ~({"CREAT"} \subseteq bits)
        /\ ~({"NONBLOCK"} \subseteq bits) /\ ~({"DSYNC"} \subseteq bits)
    BY <2>1, OpenFlagsAre
  <2> QED
    BY <2>2
<1> HIDE DEF all, named, s
<1>6. known = flags /\ ~lost => bits = {}
  <2> SUFFICES ASSUME known = flags, ~lost, NEW x \in bits PROVE FALSE
    OBVIOUS
  <2>1. x \in flags /\ x \in all
    OBVIOUS
  <2>2. x = "SYNC"
    BY <1>1, <1>5, <2>1
  <2> QED
    BY <1>1, <2>1, <2>2
<1>7. ~(known = flags /\ ~lost) => bits # {}
  <2> SUFFICES ASSUME ~(known = flags /\ ~lost), bits = {} PROVE FALSE
    OBVIOUS
  <2>1. named = flags
    BY <1>3
  <2> QED
    BY <1>2, <2>1
<1>8. CASE known = flags /\ ~lost
  <2>1. bits = {} /\ named = flags
    BY <1>3, <1>6, <1>8
  <2> QED
    BY <1>3, <1>8, <2>1 DEF all, Kept
<1>9. CASE ~(known = flags /\ ~lost) /\ mode = 1
  BY <1>4, <1>7, <1>9 DEF all, s, Kept
<1>10. CASE ~(known = flags /\ ~lost) /\ mode # 1
  BY <1>3, <1>10 DEF all, Kept
<1> QED
  BY <1>8, <1>9, <1>10

(* A row of the table.                                                     *)
LEMMA SymbolsStep ==
  ASSUME HelperInv, openflags2symbols
  PROVE  HelperInv'
<1> DEFINE n   == frame.ind
           row == Open_flags[n]
           flags == args.flags
<1>1. CallInv /\ args # <<>> /\ args \in HelperCalls /\ args.fn = "openflags2symbols" /\ answer = <<>>
  BY DEF HelperInv, CallInv, openflags2symbols, Busy
<1>2. /\ frame \in [ind : 2 .. 10, bits : SUBSET flags, names : Seq(Names)]
      /\ Means(frame.names) = flags \ frame.bits
      /\ \A j \in 2 .. n - 1 : ~(Open_flags[j][2] \subseteq frame.bits)
      /\ IF n <= 4 THEN "DSYNC" \in flags => "DSYNC" \in frame.bits
         ELSE "SYNC" \in frame.bits => "DSYNC" \notin flags
  BY <1>1, OpenFlagsAre DEF HelperInv, SymbolsInv
<1>3. n \in 2 .. 10 /\ frame.bits \in SUBSET flags /\ frame.names \in Seq(Names)
  BY <1>2
<1>4. CASE n > Len(Open_flags)
            /\ Answer(IF frame.bits # {} /\ args.mode = 1 THEN Append(frame.names, UNKNOWN_SYMBOL) ELSE frame.names)
  <2> DEFINE v == IF frame.bits # {} /\ args.mode = 1 THEN Append(frame.names, UNKNOWN_SYMBOL) ELSE frame.names
  <2>1. answer' = <<v>> /\ args' = args
    BY <1>4 DEF Answer
  <2>2. n = 10
    <3> HIDE DEF n
    <3> QED
      BY <1>3, <1>4, OpenFlagsAre
  <2>3. (\A j \in 2 .. 9 : ~(Open_flags[j][2] \subseteq frame.bits)) /\ ("SYNC" \in frame.bits => "DSYNC" \notin flags)
    BY <1>2, <2>2
  <2>4. Kept(flags, args.mode, v)
    <3> HIDE DEF flags
    <3> QED
      BY <1>2, <1>3, <2>3, SymbolsEnd
  <2> HIDE DEF v
  <2>5. ParsedRight'
    BY <1>1, <2>1, <2>4 DEF ParsedRight, Returned, Kept
  <2>6. RangesRight'
    BY <1>1, <2>1 DEF RangesRight, RandomRight, StridesCovered, Returned
  <2> QED
    BY <1>1, <1>4, <2>5, <2>6, Answered DEF v
<1>5. CASE n <= Len(Open_flags) /\ ~(row[2] \subseteq frame.bits) /\ Goes([frame EXCEPT !.ind = @ + 1])
  <2>1. n \in 2 .. 9
    <3> HIDE DEF n
    <3> QED
      BY <1>3, <1>5, OpenFlagsAre
  <2>2. frame' = [ind |-> n + 1, bits |-> frame.bits, names |-> frame.names] /\ args' = args /\ answer' = answer
    BY <1>2, <1>5 DEF Goes
  <2>3. frame'.ind = n + 1 /\ frame'.bits = frame.bits /\ frame'.names = frame.names /\ frame' \in [ind : 2 .. 10, bits : SUBSET flags, names : Seq(Names)]
    <3>1. n + 1 \in 2 .. 10
      BY <2>1
    <3> QED
      BY <1>3, <2>2, <3>1
  <2>4. \A j \in 2 .. n + 1 - 1 : ~(Open_flags[j][2] \subseteq frame.bits)
    <3>1. \A j \in 2 .. n + 1 - 1 : j = n \/ j \in 2 .. n - 1
      BY <2>1
    <3> QED
      BY <1>2, <1>5, <3>1
  <2>5. IF n + 1 <= 4 THEN "DSYNC" \in flags => "DSYNC" \in frame.bits
        ELSE "SYNC" \in frame.bits => "DSYNC" \notin flags
    <3>1. n <= 3 \/ n = 4 \/ n >= 5
      BY <2>1
    <3>2. CASE n <= 3
      BY <1>2, <2>1, <3>2
    <3>3. CASE n = 4
      BY <1>2, <1>5, <3>3, OpenFlagsAre
    <3>4. CASE n >= 5
      BY <1>2, <2>1, <3>4
    <3> QED
      BY <3>1, <3>2, <3>3, <3>4
  <2>6. SymbolsInv'
    <3>1. Len(Open_flags) + 1 = 10
      BY OpenFlagsAre
    <3> HIDE DEF n
    <3>2. frame' \in [ind : 2 .. Len(Open_flags) + 1, bits : SUBSET args'.flags, names : Seq(Names)]
      BY <2>2, <2>3, <3>1
    <3>3. Means(frame'.names) = args'.flags \ frame'.bits
      BY <1>2, <2>2, <2>3
    <3>4. \A j \in 2 .. frame'.ind - 1 : ~(Open_flags[j][2] \subseteq frame'.bits)
      <4>1. frame'.ind = n + 1 /\ frame'.bits = frame.bits
        BY <2>3
      <4> SUFFICES ASSUME NEW j \in 2 .. frame'.ind - 1 PROVE ~(Open_flags[j][2] \subseteq frame'.bits)
        OBVIOUS
      <4>2. j \in 2 .. n + 1 - 1
        BY <2>1, <4>1
      <4>3. ~(Open_flags[j][2] \subseteq frame.bits)
        BY <2>4, <4>2
      <4> QED
        BY <4>1, <4>3
    <3>5. IF frame'.ind <= 4 THEN "DSYNC" \in args'.flags => "DSYNC" \in frame'.bits
          ELSE "SYNC" \in frame'.bits => "DSYNC" \notin args'.flags
      BY <2>2, <2>3, <2>5
    <3> QED
      BY <3>2, <3>3, <3>4, <3>5 DEF SymbolsInv
  <2>7. RangellInv' /\ RangesInv'
    BY <1>1, <2>2 DEF RangellInv, RangesInv
  <2> QED
    BY <1>1, <2>2, <2>6, <2>7, RoundOn
<1>6. CASE /\ n <= Len(Open_flags) /\ row[2] \subseteq frame.bits
           /\ Goes([frame EXCEPT !.ind = @ + 1, !.bits = @ \ row[2], !.names = Append(@, row[1])])
  <2> DEFINE left == frame.bits \ row[2]
             s    == Append(frame.names, row[1])
  <2>1. n \in 2 .. 9
    <3> HIDE DEF n
    <3> QED
      BY <1>3, <1>6, OpenFlagsAre
  <2>2. frame' = [ind |-> n + 1, bits |-> left, names |-> s] /\ args' = args /\ answer' = answer
    BY <1>2, <1>6 DEF Goes
  <2>3. n \in 1 .. 9 /\ row[1] \in Names /\ FlagOf(row[1]) = row[2]
    BY <2>1, OpenFlagsAre, FlagIs DEF Names
  <2>4. /\ s \in Seq(Names)
        /\ Means(s) = (flags \ frame.bits) \cup row[2]
    <3> HIDE DEF row, flags
    <3> QED
      BY <1>2, <1>3, <2>3, SymbolAdded
  <2>5. left \in SUBSET flags /\ Means(s) = flags \ left
    BY <1>3, <1>6, <2>4
  <2>6. \E x : x \in row[2]
    <3>1. n = 2 \/ n = 3 \/ n = 4 \/ n = 5 \/ n = 6 \/ n = 7 \/ n = 8 \/ n = 9
      BY <2>1
    <3> HIDE DEF n
    <3> QED
      BY <3>1, OpenFlagsAre
  <2>7. \A j \in 2 .. n + 1 - 1 : ~(Open_flags[j][2] \subseteq left)
    <3>1. \A j \in 2 .. n + 1 - 1 : j = n \/ j \in 2 .. n - 1
      BY <2>1
    <3> QED
      BY <1>2, <2>6, <3>1
  <2>8. IF n + 1 <= 4 THEN "DSYNC" \in flags => "DSYNC" \in left
        ELSE "SYNC" \in left => "DSYNC" \notin flags
    <3>1. n = 2 \/ n = 3 \/ n = 4 \/ n >= 5
      BY <2>1
    <3>2. CASE n = 2
      BY <1>2, <3>2, OpenFlagsAre
    <3>3. CASE n = 3
      BY <1>2, <3>3, OpenFlagsAre
    <3>4. CASE n = 4
      BY <3>4, OpenFlagsAre
    <3>5. CASE n >= 5
      BY <1>2, <2>1, <3>5
    <3> QED
      BY <3>1, <3>2, <3>3, <3>4, <3>5
  <2> HIDE DEF left, s, n
  <2>9. frame'.ind = n + 1 /\ frame'.bits = left /\ frame'.names = s /\ frame' \in [ind : 2 .. 10, bits : SUBSET flags, names : Seq(Names)]
    <3>1. n + 1 \in 2 .. 10
      BY <2>1
    <3> QED
      BY <2>2, <2>4, <2>5, <3>1
  <2>10. SymbolsInv'
    <3>1. Len(Open_flags) + 1 = 10
      BY OpenFlagsAre
    <3>2. frame' \in [ind : 2 .. Len(Open_flags) + 1, bits : SUBSET args'.flags, names : Seq(Names)]
      BY <2>2, <2>9, <3>1
    <3>3. Means(frame'.names) = args'.flags \ frame'.bits
      BY <1>2, <2>2, <2>9, <2>5
    <3>4. \A j \in 2 .. frame'.ind - 1 : ~(Open_flags[j][2] \subseteq frame'.bits)
      <4>1. frame'.ind = n + 1 /\ frame'.bits = left
        BY <2>9
      <4> SUFFICES ASSUME NEW j \in 2 .. frame'.ind - 1 PROVE ~(Open_flags[j][2] \subseteq frame'.bits)
        OBVIOUS
      <4>2. j \in 2 .. n + 1 - 1
        BY <2>1, <4>1
      <4>3. ~(Open_flags[j][2] \subseteq left)
        BY <2>7, <4>2
      <4> QED
        BY <4>1, <4>3
    <3>5. IF frame'.ind <= 4 THEN "DSYNC" \in args'.flags => "DSYNC" \in frame'.bits
          ELSE "SYNC" \in frame'.bits => "DSYNC" \notin args'.flags
      BY <2>2, <2>9, <2>8
    <3> QED
      BY <3>2, <3>3, <3>4, <3>5 DEF SymbolsInv
  <2>11. RangellInv' /\ RangesInv'
    BY <1>1, <2>2 DEF RangellInv, RangesInv
  <2> QED
    BY <1>1, <2>2, <2>10, <2>11, RoundOn
<1> QED
  BY <1>4, <1>5, <1>6 DEF openflags2symbols

(* A helper's locals stand for what it has done, and its answer is right.  *)
THEOREM HelperInvariant == HelperSpec => []HelperInv
<1>1. HelperInit => HelperInv
  BY InitHelper
<1>2. HelperInv /\ [HelperNext]_helperVars => HelperInv'
  <2> SUFFICES ASSUME HelperInv, [HelperNext]_helperVars PROVE HelperInv'
    OBVIOUS
  <2>1. CASE CallHelper
    BY <2>1, CallStep
  <2>2. CASE HelperReturns
    BY <2>2, ReturnStep
  <2>3. CASE random_rangell
    BY <2>3, RangellStep
  <2>4. CASE divider
    BY <2>4, DividerStep
  <2>5. CASE parse_ranges
    BY <2>5, RangesStep
  <2>6. CASE openflags2symbols
    BY <2>6, SymbolsStep
  <2>7. CASE UNCHANGED helperVars
    <3>1. args' = args /\ frame' = frame /\ answer' = answer
      BY <2>7 DEF helperVars
    <3>2. CallInv' /\ RangellInv' /\ RangesInv' /\ SymbolsInv'
      BY <3>1 DEF HelperInv, CallInv, RangellInv, RangesInv, SymbolsInv
    <3>3. RangesRight'
      BY <3>1 DEF HelperInv, RangesRight, RandomRight, StridesCovered, Returned
    <3>4. ParsedRight'
      <4> SUFFICES ASSUME answer # <<>>, args # <<>> PROVE ParsedRight'
        BY <3>1 DEF ParsedRight, Returned
      <4>1. CASE args.fn = "openflags2symbols"
        <5>1. Kept(args.flags, args.mode, answer[1])
          BY <4>1 DEF HelperInv, ParsedRight, Returned, Kept
        <5>2. Kept(args'.flags, args'.mode, answer'[1])
          BY <3>1, <5>1
        <5> QED
          BY <3>1, <4>1, <5>2 DEF ParsedRight, Returned, Kept
      <4>2. CASE args.fn = "string_to_tokens"
        BY <3>1, <4>2 DEF HelperInv, ParsedRight, Returned
      <4>3. CASE args.fn = "parse_ranges"
        <5>1. Listed(args, answer[1])
          BY <4>3 DEF HelperInv, ParsedRight, Returned, Listed
        <5>2. Listed(args', answer'[1])
          BY <3>1, <5>1
        <5> QED
          BY <3>1, <4>3, <5>2 DEF ParsedRight, Returned, Listed
      <4> QED
        BY <3>1, <4>1, <4>2, <4>3 DEF ParsedRight, Returned
    <3> QED
      BY <3>2, <3>3, <3>4 DEF HelperInv
  <2> QED
    BY <2>1, <2>2, <2>3, <2>4, <2>5, <2>6, <2>7 DEF HelperNext
<1> QED
  BY <1>1, <1>2, PTL DEF HelperSpec

(* A number drawn from a range is a multiple in it, every multiple can be  *)
(* drawn, and a strided request is bounded by the bytes it touches.        *)
THEOREM RangesAreRight == HelperSpec => []RangesRight
<1>1. HelperInv => RangesRight
  BY DEF HelperInv
<1> QED
  BY <1>1, HelperInvariant, PTL

(* Symbols, tokens and ranges stand for what was given: every token that   *)
(* parse_ranges takes gives its range, each field at its place, blank or   *)
(* missing ones their defaults.                                            *)
THEOREM ParsedAreRight == HelperSpec => []ParsedRight
<1>1. HelperInv => ParsedRight
  BY DEF HelperInv
<1> QED
  BY <1>1, HelperInvariant, PTL
=============================================================================
