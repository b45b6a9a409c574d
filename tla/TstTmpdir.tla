----------------------------- MODULE TstTmpdir -----------------------------
(***************************************************************************)
(* The temporary directory of a test: tst_tmpdir, which creates it and     *)
(* makes it the current one, tst_rmdir and rmobj, which remove it with all *)
(* it holds (tst_tmpdir.c, rmobj.c).                                       *)
(*                                                                         *)
(* Every system call on the way may fail, and every call of rmobj on the   *)
(* file system is a step of its own: between any two of them a process     *)
(* that the test has left behind may create and remove entries in the      *)
(* tree.  What it may NOT do here is give a name another kind: opendir     *)
(* follows links, so rmobj relies on what lstat saw still being a directory*)
(* (and on the directories above it still being directories).  tst_brk is  *)
(* what TstRes shows it to be at depth 0: the cleanup function, if there   *)
(* is one, then exit.                                                      *)
(***************************************************************************)
EXTENDS Integers, FiniteSets, Sequences

CONSTANTS
  Nodes,     \* the file system: the temporary directory, what is or can come
             \* to be in it, and the objects outside it
  TMP,       \* the temporary directory
  Parent,    \* function: the directory that a node is in
  Kind,      \* function: "dir", "file" or "link" (to a directory), which a
             \* node keeps for as long as the program runs
  Target,    \* function: where a link leads
  Outside,   \* nodes that are not below TMP
  CHURN      \* bound: different entries the other process meddles with

ASSUME TreeAssumption ==
  /\ TMP \in Nodes /\ Outside \subseteq Nodes \ {TMP}
  /\ Parent \in [Nodes \ {TMP} -> Nodes]
  /\ Kind \in [Nodes -> {"dir", "file", "link"}] /\ Kind[TMP] = "dir"
  /\ Target \in [{n \in Nodes : Kind[n] = "link"} -> Nodes]
(* Entries are in directories; what is outside is not below the temporary  *)
(* directory, and all the rest is.                                         *)
ASSUME BelowAssumption ==
  /\ \A n \in Nodes \ {TMP} : Kind[Parent[n]] = "dir"
  /\ \A n \in Outside : Parent[n] \in Outside
  /\ \A S \in SUBSET (Nodes \ (Outside \cup {TMP})) :
       S # {} => \E n \in S : Parent[n] \notin S \cup Outside
ASSUME BoundAssumption == CHURN \in Nat

VARIABLES
  TDIRECTORY,  \* is the environment variable set?  0 or 1 (never changes)
  TESTDIR,     \* "NULL", "env" (the directory TDIRECTORY names) or "tmp"
  fs,          \* the nodes that exist
  cwd,         \* "start", "testdir" or "parent"
  pc,          \* where the test is
  stack,       \* the calls of rmobj: [obj, todo, seen, ret_val], innermost last
  ret,         \* what the call of rmobj that ended last returned
  warned,      \* 1 once a TBROK or TWARN has been reported
  churn        \* the nodes that the other process has created or removed

vars == <<TDIRECTORY, TESTDIR, fs, cwd, pc, stack, ret, warned, churn>>

Init ==
  /\ TDIRECTORY \in {0, 1} /\ TESTDIR = "NULL"
  /\ fs = Outside /\ cwd = "start" /\ pc = "tmpdir"
  /\ stack = <<>> /\ ret = 0 /\ warned = 0 /\ churn = {}

(***************************************************************************)
(* tst_tmpdir.                                                             *)
(***************************************************************************)

(* tst_brkm(TBROK, ...): the test ends.                                    *)
Breaks == pc' = "exited" /\ warned' = 1

(* TDIRECTORY is set: the directory is created or is there already.        *)
UseTdirectory ==
  /\ pc = "tmpdir" /\ TDIRECTORY = 1
  /\ TESTDIR' = "env"
  /\ \/ fs' = fs \cup {TMP} /\ pc' = "chdir" /\ UNCHANGED warned
     \/ Breaks /\ UNCHANGED fs
  /\ UNCHANGED <<TDIRECTORY, cwd, stack, ret, churn>>

mkdtemp ==
  /\ pc = "tmpdir" /\ TDIRECTORY = 0
  /\ \/ fs' = fs \cup {TMP} /\ pc' = "strdup" /\ UNCHANGED warned
     \/ Breaks /\ UNCHANGED fs
  /\ UNCHANGED <<TDIRECTORY, TESTDIR, cwd, stack, ret, churn>>

(* strdup, chown and chmod: tmpdir_cleanup does not remove the directory.  *)
Prepare ==
  /\ \/ /\ pc = "strdup"
        /\ \/ TESTDIR' = "tmp" /\ pc' = "chown" /\ UNCHANGED warned
           \/ Breaks /\ UNCHANGED TESTDIR
     \/ /\ pc \in {"chown", "chmod"}
        /\ \/ pc' = (IF pc = "chown" THEN "chmod" ELSE "chdir") /\ UNCHANGED warned
           \/ Breaks
        /\ UNCHANGED TESTDIR
  /\ UNCHANGED <<TDIRECTORY, fs, cwd, stack, ret, churn>>

(* tst_brkm(TBROK, NULL, ...) does not return: the rmdir behind it is not  *)
(* reached.                                                                *)
Chdir ==
  /\ pc = "chdir"
  /\ \/ cwd' = "testdir" /\ pc' = "test" /\ UNCHANGED warned
     \/ Breaks /\ UNCHANGED cwd
  /\ UNCHANGED <<TDIRECTORY, TESTDIR, fs, stack, ret, churn>>

(***************************************************************************)
(* The test, and what it leaves behind.                                    *)
(***************************************************************************)

Inside == Nodes \ (Outside \cup {TMP})

(* A node can be created where its directory is, removed if it is empty.   *)
Creatable == {n \in Inside \ fs : Parent[n] \in fs}
Removable == {n \in Inside \cap fs : \A m \in Inside \cap fs : Parent[m] # n}

TestCreates ==
  /\ pc = "test"
  /\ \E n \in Creatable : fs' = fs \cup {n}
  /\ UNCHANGED <<TDIRECTORY, TESTDIR, cwd, pc, stack, ret, warned, churn>>

(* Where rmobj is: "walk" when a call has just begun, "return" when one has*)
(* ended, and in between the system call that comes next, "read" for       *)
(* readdir.                                                                *)
Walks == {"walk", "unlink", "opendir", "rmdir", "read", "remove"}

(* Another process, before any call of rmobj on the file system, and as    *)
(* often as it likes.                                                      *)
Interfere ==
  /\ pc \in Walks \cup {"return"}
  /\ \/ \E n \in Creatable : fs' = fs \cup {n} /\ churn' = churn \cup {n}
     \/ \E n \in Removable : fs' = fs \ {n} /\ churn' = churn \cup {n}
  /\ Cardinality(churn') <= CHURN
  /\ UNCHANGED <<TDIRECTORY, TESTDIR, cwd, pc, stack, ret, warned>>

(***************************************************************************)
(* tst_rmdir.                                                              *)
(***************************************************************************)

Frame(obj) == [obj |-> obj, todo |-> {}, seen |-> {}, ret_val |-> 0]

(* With TDIRECTORY set there is nothing to do.  Without a directory, or    *)
(* with one whose name it does not like, it warns.  Otherwise leave the    *)
(* directory (or warn that this failed) and call rmobj.  A cleanup         *)
(* function may call it before tst_tmpdir.                                 *)
tst_rmdir ==
  /\ pc \in {"tmpdir", "test"}
  /\ \/ TDIRECTORY = 1 /\ pc' = "exited" /\ UNCHANGED <<cwd, stack, warned>>
     \/ /\ TDIRECTORY = 0
        /\ warned' = 1 /\ pc' = "exited" /\ UNCHANGED <<cwd, stack>>
     \/ /\ TDIRECTORY = 0 /\ TESTDIR # "NULL"
        /\ pc' = "walk" /\ stack' = <<Frame(TMP)>>
        /\ \/ cwd' = "parent" /\ UNCHANGED warned
           \/ warned' = 1 /\ UNCHANGED cwd
  /\ UNCHANGED <<TDIRECTORY, TESTDIR, fs, ret, churn>>

(* rmobj has returned to tst_rmdir.                                        *)
RmdirEnds ==
  /\ pc = "return" /\ stack = <<>>
  /\ warned' = IF ret = -1 THEN 1 ELSE warned
  /\ pc' = "exited"
  /\ UNCHANGED <<TDIRECTORY, TESTDIR, fs, cwd, stack, ret, churn>>

(***************************************************************************)
(* rmobj: the last element of stack is its innermost call.                 *)
(***************************************************************************)

Top == stack[Len(stack)]

(* The innermost call returns r.                                           *)
Return(r) == ret' = r /\ pc' = "return" /\ stack' = SubSeq(stack, 1, Len(stack) - 1)

walkVars == <<TDIRECTORY, TESTDIR, cwd, warned, churn>>

(* Wrong variant: stat, which follows a link.                              *)
StatIsDir(n) == Kind[n] = "dir" \/ (Kind[n] = "link" /\ Kind[Target[n]] = "dir")

(* lstat does not follow a link.                                           *)
IsDir(n) == Kind[n] = "dir"

(* Where the entries of a directory are.                                   *)
Place(n) == IF Kind[n] = "link" THEN Target[n] ELSE n
Entries(n) == {m \in fs \ {TMP} : Parent[m] = Place(n)}

(* lstat(obj) tells the type, unless it fails, as it does when the object  *)
(* has gone.                                                               *)
Lstat ==
  /\ pc = "walk"
  /\ \/ /\ Top.obj \in fs
        /\ pc' = IF IsDir(Top.obj) THEN "opendir" ELSE "unlink"
        /\ UNCHANGED <<ret, stack>>
     \/ Return(-1)
  /\ UNCHANGED <<walkVars, fs>>

(* Not a directory: unlink.                                                *)
Unlink ==
  /\ pc = "unlink"
  /\ \/ Top.obj \in fs /\ fs' = fs \ {Top.obj} /\ Return(0)
     \/ UNCHANGED fs /\ Return(-1)
  /\ UNCHANGED walkVars

(* opendir, which follows links.                                           *)
Opendir ==
  /\ pc = "opendir"
  /\ \/ /\ Top.obj \in fs
        /\ stack' = [stack EXCEPT ![Len(stack)].todo = Entries(Top.obj)]
        /\ pc' = "read"
     \/ pc' = "rmdir" /\ UNCHANGED stack
  /\ UNCHANGED <<walkVars, ret, fs>>

(* A directory that cannot be opened is removed if it is empty.            *)
Rmdir ==
  /\ pc = "rmdir"
  /\ \/ /\ Top.obj \in fs /\ Entries(Top.obj) = {}
        /\ fs' = fs \ {Top.obj} /\ Return(0)
     \/ UNCHANGED fs /\ Return(-1)
  /\ UNCHANGED walkVars

(* Wrong variant: the directory is read from its start after every entry.  *)
ReaddirAgain ==
  /\ pc = "read"
  /\ \E n \in Entries(Top.obj) :
       stack' = Append(stack, Frame(n)) /\ pc' = "walk"
  /\ UNCHANGED <<walkVars, ret, fs>>

(* readdir gives an entry that was there when the directory was opened (it *)
(* may have gone since) or one that has come to be there; rmobj on it.     *)
Readdir ==
  /\ pc = "read"
  /\ \E n \in (Top.todo \cup Entries(Top.obj)) \ Top.seen :
       /\ stack' = Append([stack EXCEPT ![Len(stack)].seen = @ \cup {n}], Frame(n))
       /\ pc' = "walk"
  /\ UNCHANGED <<walkVars, ret, fs>>

(* The inner call returns: its failure is remembered.                      *)
CallReturns ==
  /\ pc = "return" /\ stack # <<>>
  /\ stack' = [stack EXCEPT ![Len(stack)].ret_val = IF ret # 0 THEN -1 ELSE @]
  /\ pc' = "read"
  /\ UNCHANGED <<walkVars, ret, fs>>

(* Every entry that was there and that nobody has touched has been given.  *)
AllRead == (Top.todo \cap fs) \ churn \subseteq Top.seen

(* The end of the directory.  After a failure it is kept; otherwise lstat  *)
(* asks for the number of links.                                           *)
EndOfDir ==
  /\ pc = "read" /\ AllRead
  /\ \/ Top.ret_val = 0 /\ Top.obj \in fs /\ pc' = "remove" /\ UNCHANGED <<ret, stack>>
     \/ Return(-1)
  /\ UNCHANGED <<walkVars, fs>>

(* Wrong variant: a directory that the loop emptied is taken to be gone.   *)
EmptiedIsGone ==
  /\ pc = "remove"
  /\ fs' = IF Entries(Top.obj) = {} THEN fs \ {Top.obj} ELSE fs
  /\ Return(0) /\ UNCHANGED walkVars

(* remove, which fails if the directory has gone or is not empty; with     *)
(* three links or more it had a subdirectory, and it is unlink that fails. *)
Remove ==
  /\ pc = "remove"
  /\ \/ /\ Top.obj \in fs /\ Entries(Top.obj) = {}
        /\ fs' = fs \ {Top.obj} /\ Return(0)
     \/ UNCHANGED fs /\ Return(-1)
  /\ UNCHANGED walkVars

(***************************************************************************)
(* The specification.                                                      *)
(***************************************************************************)

rmobj ==
  Lstat \/ Unlink \/ Opendir \/ Rmdir \/ Readdir \/ CallReturns \/ EndOfDir \/ Remove

Program ==
  UseTdirectory \/ mkdtemp \/ Prepare \/ Chdir \/ tst_rmdir \/ RmdirEnds \/ rmobj

Next ==
  \/ Program \/ TestCreates \/ Interfere
  \/ pc = "exited" /\ UNCHANGED vars

Spec == Init /\ [][Next]_vars

(* The program goes on, the other process need not.                        *)
FairSpec == Spec /\ WF_vars(Program)

(***************************************************************************)
(* Properties.                                                             *)
(***************************************************************************)

(* Nothing outside the temporary directory is removed, also if a link in   *)
(* it leads there and entries come and go between lstat, opendir and the   *)
(* removal, as long as nobody puts a link in the place of a directory (a   *)
(* node keeps its kind); and with TDIRECTORY set rmobj is not called.      *)
NothingElseRemoved ==
  /\ Outside \subseteq fs
  /\ TDIRECTORY = 1 => pc \notin Walks \cup {"return"}

(* A test that exits without TBROK or TWARN has left no directory that it  *)
(* created, whatever failed and whoever else used the directory.  A        *)
(* failure deep in the tree is not papered over: rmobj returns 0 only if   *)
(* the whole tree is gone, and a directory is removed only after all that  *)
(* was in it.                                                              *)
GoneOrWarned ==
  /\ (pc = "exited" /\ TDIRECTORY = 0 /\ warned = 0) => fs = Outside
  /\ (pc = "return" /\ stack = <<>> /\ ret = 0) => fs = Outside
  /\ \A n \in fs \cap Inside : Parent[n] \in fs

(* rmobj ends, though entries come and go without end while it reads the   *)
(* directories.                                                            *)
Terminates == (pc \in Walks) ~> (pc = "exited")
=============================================================================
