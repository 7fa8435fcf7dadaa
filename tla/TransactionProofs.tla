------------------------- MODULE TransactionProofs -------------------------
(***************************************************************************)
(* Theorems about Transaction, for every set of files, contents and        *)
(* clients and every value of the bounds.                                  *)
(***************************************************************************)
EXTENDS Transaction, FiniteSetTheorems, WellFoundedInduction, TLAPS

\* What the end of a run of the script leaves of the process' variables.
LEMMA ExitType ==
  ASSUME TypeOK, NEW c \in Procs, NEW v, NEW s \in {0, 1, EINVALID}, Exit(c, v, s)
  PROVE  /\ pc' \in [Procs -> Labels]
         /\ verb' \in [Procs -> Verbs]
         /\ todo' \in [Procs -> SUBSET Files]
         /\ dir' \in [Procs -> Stamps]
         /\ ret' \in [Procs -> {0, 1}]
         /\ result' \in [Procs -> {0, 1, EINVALID}]
         /\ goal' \in [Procs -> Dir]
         /\ up' \in BOOLEAN
<1>1. 0 \in Stamps
  BY BoundsAssumption DEF Stamps
<1>2. NoFiles \in Dir
  BY DEF NoFiles, Dir
<1>3. ExitStatus(v, s) \in {0, 1, EINVALID}
  BY DEF ExitStatus
<1> QED
  BY <1>1, <1>2, <1>3 DEF Exit, Goto, TypeOK, Labels, Verbs

\* A failing command that ends the script is one of those ends.
LEMMA AbortType ==
  ASSUME TypeOK, NEW c \in Procs, Abort(c)
  PROVE  /\ Exit(c, verb[c], 1)
         /\ failures' \in 0..MaxFailures
<1> QED
  BY BoundsAssumption DEF Abort, Fails, TypeOK

\* One more failure is within its bound.
LEMMA FailsType ==
  ASSUME TypeOK, Fails
  PROVE  failures' \in 0..MaxFailures
  BY BoundsAssumption DEF Fails, TypeOK

\* Changing one file of a directory gives a directory.
LEMMA DirExcept ==
  ASSUME NEW d \in Dir, NEW f \in Files, NEW x \in Contents \cup {Absent, Torn}
  PROVE  [d EXCEPT ![f] = x] \in Dir
  BY DEF Dir

\* A file of a directory holds a content, nothing, or a torn copy.
LEMMA DirValue ==
  ASSUME NEW d \in Dir, NEW f \in Files
  PROVE  d[f] \in Contents \cup {Absent, Torn}
  BY DEF Dir

\* A copy that fails leaves a directory.
LEMMA FailedCopyType ==
  ASSUME NEW d \in Dir, NEW f \in Files, NEW e \in FailedCopy(d, f)
  PROVE  e \in Dir
  BY DEF Dir, FailedCopy

\* So does one that removed its target.
LEMMA FailedForcedCopyType ==
  ASSUME NEW d \in Dir, NEW f \in Files, NEW e \in FailedForcedCopy(d, f)
  PROVE  e \in Dir
  BY FailedCopyType DEF Dir, FailedForcedCopy

\* The empty directory is a directory.
LEMMA NoFilesType == NoFiles \in Dir
  BY DEF NoFiles, Dir

\* An archive, made or not, is a directory.
LEMMA ArchivedType ==
  ASSUME TypeOK, NEW d
  PROVE  Archived(d) \in Dir
  BY NoFilesType DEF Archived, TypeOK

\* Writing an archive keeps arch a function from time stamps to directories.
LEMMA SetArchiveType ==
  ASSUME TypeOK, NEW d \in Stamps, NEW files \in Dir, SetArchive(d, files)
  PROVE  /\ DOMAIN arch' \subseteq Stamps
         /\ arch' \in [DOMAIN arch' -> Dir]
         /\ DOMAIN arch' = DOMAIN arch \cup {d}
         /\ \A e \in DOMAIN arch' : arch'[e] = IF e = d THEN files ELSE arch[e]
  BY DEF SetArchive, TypeOK

\* Pruning keeps arch a function from time stamps to directories.
LEMMA KeepOnlyType ==
  ASSUME TypeOK, NEW S, S \subseteq DOMAIN arch, KeepOnly(S)
  PROVE  /\ DOMAIN arch' \subseteq Stamps
         /\ arch' \in [DOMAIN arch' -> Dir]
  BY DEF KeepOnly, TypeOK

\* A copy into the snapshot leaves a directory, or a plain file in its place.
LEMMA CopyToSnapshotType ==
  ASSUME TypeOK, NEW f \in Files, CopyToSnapshot(f)
  PROVE  snap' \in Dir /\ snapdir' \in {"none", "dir", "file"}
  BY DEF CopyToSnapshot, TypeOK, Dir

-----------------------------------------------------------------------------
\* The initial state is well typed.
LEMMA InitType == Init => TypeOK
<1> SUFFICES ASSUME Init PROVE TypeOK
  OBVIOUS
<1>1. conf \in Dir /\ snap \in Dir /\ base \in Dir
  BY NoFilesType DEF Init, Dir
<1>2. DOMAIN arch \subseteq Stamps /\ arch \in [DOMAIN arch -> Dir]
  BY DEF Init
<1>3. clock \in Stamps /\ 0 \in Stamps /\ crashes \in 0..MaxCrashes /\ failures \in 0..MaxFailures
  BY BoundsAssumption DEF Init, Stamps
<1> QED
  BY <1>1, <1>2, <1>3, NoFilesType DEF Init, TypeOK, Labels, Verbs

\* The steps of change_begin keep the types.
LEMMA BeginType ==
  ASSUME TypeOK, NEW c \in Procs,
         ChangeBegin(c) \/ MakeSnapshotDir(c) \/ SaveFile(c) \/ WriteDate(c)
  PROVE  TypeOK'
<1>1. CASE ChangeBegin(c)
  <2>1. CASE MayRun(c) /\ Exit(c, "begin", EINVALID)
    BY <1>1, <2>1, ExitType DEF ChangeBegin, TypeOK
  <2>2. CASE Call(c, "begin", "mkdir") /\ UNCHANGED <<todo, dir, ret, result, goal, up>>
    BY <1>1, <2>2 DEF ChangeBegin, Call, Goto, TypeOK, Labels, Verbs
  <2> QED BY <1>1, <2>1, <2>2 DEF ChangeBegin
<1>2. CASE MakeSnapshotDir(c)
  <2>1. CASE Exit(c, "begin", 1) /\ UNCHANGED <<snapdir, base, begun, failures>>
    BY <1>2, <2>1, ExitType DEF MakeSnapshotDir, TypeOK
  <2>2. CASE Abort(c) /\ UNCHANGED <<snapdir, base, begun>>
    <3>1. Exit(c, verb[c], 1) /\ failures' \in 0..MaxFailures
      BY <2>2, AbortType
    <3> QED BY <1>2, <2>2, <3>1, ExitType DEF MakeSnapshotDir, TypeOK
  <2>3. CASE /\ snapdir' = "dir"
             /\ base' = conf /\ begun' = FALSE
             /\ Loop(c, "save", conf)
             /\ UNCHANGED <<verb, dir, ret, result, goal, up, failures>>
    BY <1>2, <2>3 DEF MakeSnapshotDir, Loop, Goto, Present, TypeOK, Labels
  <2> QED BY <1>2, <2>1, <2>2, <2>3 DEF MakeSnapshotDir
<1>3. CASE SaveFile(c)
  <2>1. PICK f \in todo[c] : SaveFile(c)!2!(f)
    BY <1>3 DEF SaveFile
  <2>2. f \in Files
    BY <2>1 DEF TypeOK
  <2>3. UNCHANGED <<conf, arch, clock, crashes, base, begun>>
    BY <1>3 DEF SaveFile
  <2>4. CASE Abort(c)
    <3>1. Exit(c, verb[c], 1) /\ failures' \in 0..MaxFailures
      BY <2>4, AbortType
    <3>2. snap' \in Dir /\ snapdir' \in {"none", "dir", "file"}
      BY <2>1, <2>2, FailedCopyType, CopyToSnapshotType DEF TypeOK
    <3> QED BY <2>3, <3>1, <3>2, ExitType DEF TypeOK
  <2>5. CASE ~Abort(c)
    <3>1. snap' \in Dir /\ snapdir' \in {"none", "dir", "file"}
      BY <2>1, <2>2, <2>5, CopyToSnapshotType DEF TypeOK
    <3> QED BY <2>1, <2>3, <2>5, <3>1 DEF TypeOK, Continue
  <2> QED BY <2>4, <2>5
<1>4. CASE WriteDate(c)
  <2>1. CASE Abort(c)
    <3>1. Exit(c, verb[c], 1) /\ failures' \in 0..MaxFailures
      BY <2>1, AbortType
    <3>2. begun' \in BOOLEAN
      BY <1>4 DEF WriteDate, TypeOK
    <3> QED BY <1>4, <3>1, <3>2, ExitType DEF WriteDate, TypeOK
  <2>2. CASE ~Abort(c)
    <3>1. /\ Exit(c, "begin", 0) \/ Exit(c, "begin", 1)
          /\ UNCHANGED <<conf, snapdir, snap, arch, clock, crashes, base, failures>>
          /\ begun' \in BOOLEAN
      BY <1>4, <2>2 DEF WriteDate, TypeOK
    <3> QED BY <3>1, ExitType DEF TypeOK
  <2> QED BY <2>1, <2>2
<1> QED BY <1>1, <1>2, <1>3, <1>4

\* The first steps of change_commit and change_rollback, and the saving of the
\* current configuration, keep the types.
LEMMA SaveType ==
  ASSUME TypeOK, NEW c \in Procs,
         \/ ChangeCommit(c)
         \/ \E v \in {"rollback", "start"} : ChangeRollback(c, v)
         \/ Prune(c) \/ MakeArchive(c) \/ ArchiveFile(c) \/ ArchiveDone(c)
  PROVE  TypeOK'
<1>1. CASE ChangeCommit(c)
  <2>1. CASE Exit(c, "commit", EINVALID)
    BY <1>1, <2>1, ExitType DEF ChangeCommit, TypeOK
  <2>2. CASE ~Exit(c, "commit", EINVALID)
    BY <1>1, <2>2 DEF ChangeCommit, Call, Goto, Present, TypeOK, Labels, Verbs
  <2> QED BY <2>1, <2>2
<1>2. CASE \E v \in {"rollback", "start"} : ChangeRollback(c, v)
  <2>1. PICK v \in {"rollback", "start"} : ChangeRollback(c, v)
    BY <1>2
  <2>2. CASE Exit(c, v, EINVALID)
    BY <2>1, <2>2, ExitType DEF ChangeRollback, TypeOK
  <2>3. CASE ~Exit(c, v, EINVALID)
    BY <2>1, <2>3 DEF ChangeRollback, Call, Goto, TypeOK, Labels, Verbs
  <2> QED BY <2>2, <2>3
<1>3. CASE Prune(c)
  <2>1. PICK S : S \subseteq DOMAIN arch /\ KeepOnly(S)
    BY <1>3 DEF Prune, Obsolete
  <2>2. failures' \in 0..MaxFailures
    BY <1>3, FailsType DEF Prune, TypeOK
  <2> QED BY <1>3, <2>1, <2>2, KeepOnlyType DEF Prune, Goto, TypeOK, Labels
<1>4. CASE MakeArchive(c)
  <2>1. CASE Abort(c)
    <3>1. Exit(c, verb[c], 1) /\ failures' \in 0..MaxFailures
      BY <2>1, AbortType
    <3>2. DOMAIN arch' \subseteq Stamps /\ arch' \in [DOMAIN arch' -> Dir]
      <4>1. UNCHANGED arch \/ SetArchive(clock, Archived(clock))
        BY <1>4 DEF MakeArchive
      <4>2. clock \in Stamps /\ Archived(clock) \in Dir
        BY ArchivedType DEF TypeOK
      <4> QED BY <4>1, <4>2, SetArchiveType DEF TypeOK
    <3> QED BY <1>4, <3>1, <3>2, ExitType DEF MakeArchive, TypeOK
  <2>2. CASE ~Abort(c)
    <3>1. DOMAIN arch' \subseteq Stamps /\ arch' \in [DOMAIN arch' -> Dir]
      BY <1>4, <2>2, SetArchiveType, ArchivedType DEF MakeArchive, TypeOK
    <3> QED BY <1>4, <2>2, <3>1 DEF MakeArchive, Loop, Goto, Present, TypeOK, Labels
  <2> QED BY <2>1, <2>2
<1>5. CASE ArchiveFile(c)
  <2>1. PICK f \in todo[c] : ArchiveFile(c)!2!(f)
    BY <1>5 DEF ArchiveFile
  <2>2. f \in Files /\ dir[c] \in Stamps /\ Archived(dir[c]) \in Dir
    BY <2>1, ArchivedType DEF TypeOK
  <2>3. UNCHANGED <<conf, snapdir, snap, clock, crashes, base, begun>>
    BY <1>5 DEF ArchiveFile
  <2>4. DOMAIN arch' \subseteq Stamps /\ arch' \in [DOMAIN arch' -> Dir]
    <3>1. UNCHANGED arch \/ \E files \in Dir : SetArchive(dir[c], files)
      <4>1. [Archived(dir[c]) EXCEPT ![f] = conf[f]] \in Dir
        BY <2>2, DirExcept, DirValue DEF TypeOK
      <4> QED BY <2>1, <2>2, <4>1, FailedCopyType
    <3> QED BY <2>2, <3>1, SetArchiveType DEF TypeOK
  <2>5. CASE Abort(c)
    <3>1. Exit(c, verb[c], 1) /\ failures' \in 0..MaxFailures
      BY <2>5, AbortType
    <3> QED BY <2>3, <2>4, <3>1, ExitType DEF TypeOK
  <2>6. CASE ~Abort(c)
    BY <2>1, <2>3, <2>4, <2>6 DEF TypeOK, Continue
  <2> QED BY <2>5, <2>6
<1>6. CASE ArchiveDone(c)
  BY <1>6 DEF ArchiveDone, Loop, Goto, Present, TypeOK, Labels
<1> QED BY <1>1, <1>2, <1>3, <1>4, <1>5, <1>6

\* The restore loops and the last rm -rf keep the types.
LEMMA RestoreType ==
  ASSUME TypeOK, NEW c \in Procs,
         \/ CopyBack(c) \/ EraseCopy(c) \/ RemoveNew(c) \/ RestoreDone(c)
         \/ RefillFile(c) \/ RefillDone(c) \/ UnlinkCopy(c) \/ RemoveSnapshotDir(c)
  PROVE  TypeOK'
<1>1. CASE CopyBack(c)
  <2>1. PICK f \in todo[c] : CopyBack(c)!2!(f)
    BY <1>1 DEF CopyBack
  <2>2. f \in Files
    BY <2>1 DEF TypeOK
  <2>3. conf' \in Dir
    BY <2>1, <2>2, FailedForcedCopyType DEF TypeOK, Dir
  <2>4. UNCHANGED <<snapdir, snap, arch, clock, crashes, base, begun>>
    BY <1>1 DEF CopyBack
  <2>5. CASE Abort(c)
    <3>1. Exit(c, verb[c], 1) /\ failures' \in 0..MaxFailures
      BY <2>5, AbortType
    <3> QED BY <2>3, <2>4, <3>1, ExitType DEF TypeOK
  <2>6. CASE ~Abort(c)
    BY <2>1, <2>3, <2>4, <2>6 DEF TypeOK, Goto, Labels
  <2> QED BY <2>5, <2>6
<1>2. CASE EraseCopy(c)
  <2>1. PICK f \in todo[c] : EraseCopy(c)!2!(f)
    BY <1>2 DEF EraseCopy
  <2>2. snap' \in Dir
    BY <2>1 DEF TypeOK, Dir
  <2>3. failures' \in 0..MaxFailures
    BY <2>1, FailsType DEF TypeOK
  <2> QED BY <1>2, <2>1, <2>2, <2>3 DEF EraseCopy, Continue, Goto, TypeOK, Labels
<1>3. CASE RemoveNew(c)
  <2>1. PICK f \in todo[c] : RemoveNew(c)!2!(f)
    BY <1>3 DEF RemoveNew
  <2>2. conf' \in Dir
    BY <2>1 DEF TypeOK, Dir
  <2>3. failures' \in 0..MaxFailures
    BY <2>1, FailsType DEF TypeOK
  <2> QED BY <1>3, <2>1, <2>2, <2>3 DEF RemoveNew, Continue, TypeOK
<1>4. CASE RestoreDone(c)
  BY <1>4 DEF RestoreDone, Loop, Goto, Present, TypeOK, Labels
<1>5. CASE RefillFile(c)
  <2>1. PICK f \in todo[c] : RefillFile(c)!2!(f)
    BY <1>5 DEF RefillFile
  <2>2. f \in Files
    BY <2>1 DEF TypeOK
  <2>3. conf' \in Dir
    BY <2>1, <2>2, FailedForcedCopyType DEF TypeOK, Dir
  <2>4. UNCHANGED <<snapdir, snap, arch, clock, crashes, base, begun>>
    BY <1>5 DEF RefillFile
  <2>5. CASE Abort(c)
    <3>1. Exit(c, verb[c], 1) /\ failures' \in 0..MaxFailures
      BY <2>5, AbortType
    <3> QED BY <2>3, <2>4, <3>1, ExitType DEF TypeOK
  <2>6. CASE ~Abort(c)
    BY <2>1, <2>3, <2>4, <2>6 DEF TypeOK, Continue
  <2> QED BY <2>5, <2>6
<1>6. CASE RefillDone(c)
  BY <1>6 DEF RefillDone, Loop, Goto, Present, TypeOK, Labels
<1>7. CASE UnlinkCopy(c)
  <2>1. PICK f \in todo[c] : UnlinkCopy(c)!2!(f)
    BY <1>7 DEF UnlinkCopy
  <2>2. snap' \in Dir
    BY <2>1 DEF TypeOK, Dir
  <2>3. failures' \in 0..MaxFailures
    BY <2>1, FailsType DEF TypeOK
  <2> QED BY <1>7, <2>1, <2>2, <2>3 DEF UnlinkCopy, Continue, TypeOK
<1>8. CASE RemoveSnapshotDir(c)
  <2>1. PICK s \in {0, 1, EINVALID} : Exit(c, verb[c], s)
    BY <1>8 DEF RemoveSnapshotDir, TypeOK
  <2>2. /\ begun' \in BOOLEAN /\ base' \in Dir
        /\ snapdir' \in {"none", "dir", "file"}
    BY <1>8, NoFilesType DEF RemoveSnapshotDir, TypeOK
  <2>3. failures' \in 0..MaxFailures
    BY <1>8, FailsType DEF RemoveSnapshotDir, TypeOK
  <2> QED BY <1>8, <2>1, <2>2, <2>3, ExitType DEF RemoveSnapshotDir, TypeOK
<1> QED BY <1>1, <1>2, <1>3, <1>4, <1>5, <1>6, <1>7, <1>8

\* The steps of the environment keep the types.
LEMMA EnvironmentType ==
  ASSUME TypeOK, (\E c \in Procs : Edit(c)) \/ Tick \/ Crash
  PROVE  TypeOK'
<1>1. CASE \E c \in Procs : Edit(c)
  <2>1. PICK c \in Procs, f \in Files, x \in Contents \cup {Absent} :
            conf' = [conf EXCEPT ![f] = x]
    BY <1>1 DEF Edit
  <2>2. conf' \in Dir
    BY <2>1 DEF TypeOK, Dir
  <2> QED BY <1>1, <2>2 DEF Edit, TypeOK
<1>2. CASE Tick
  BY <1>2, BoundsAssumption DEF Tick, TypeOK, Stamps
<1>3. CASE Crash
  <2>1. 0 \in Stamps /\ crashes' \in 0..MaxCrashes
    BY <1>3, BoundsAssumption DEF Crash, TypeOK, Stamps
  <2> QED BY <1>3, <2>1, NoFilesType DEF Crash, TypeOK, Labels, Verbs
<1> QED BY <1>1, <1>2, <1>3

\* Every step keeps the types.
LEMMA NextType == TypeOK /\ [Next]_vars => TypeOK'
<1>1. ASSUME TypeOK, Next PROVE TypeOK'
  BY <1>1, BeginType, SaveType, RestoreType, EnvironmentType DEF Next, Step, Request
<1>2. ASSUME TypeOK, UNCHANGED vars PROVE TypeOK'
  BY <1>2 DEF vars, TypeOK
<1> QED BY <1>1, <1>2

\* Type correctness of the script, its callers and the file system, however many
\* clients run it at once.
THEOREM TypeCorrect == Spec => []TypeOK
<1> QED BY InitType, NextType, PTL DEF Spec

-----------------------------------------------------------------------------
(***************************************************************************)
(* One client at a time.  With a second client running, an edit can fall   *)
(* between the archive and the restore loop, and neither Restored nor      *)
(* DiscardsArchived holds.                                                 *)
(***************************************************************************)
OneClient == \A c, d \in Clients : c = d

\* Init and the clients never run the script at the same time.
Alone ==
    /\ pc[Boot] # "idle" => ~up
    /\ ~up => \A c \in Clients : pc[c] = "idle"

\* Before the restore loops the snapshot is as it was when the rollback started.
GoalKept(c) ==
    pc[c] \in {"prune", "mkarchive", "archive"} => goal[c] = snap

\* In the archive loop the files it has passed are in the archive; in the restore
\* loop the files it has not reached are.
ArchiveKept(c) ==
    /\ pc[c] = "archive" =>
        \A f \in Files \ todo[c] : conf[f] # Absent => Archived(dir[c])[f] = conf[f]
    /\ pc[c] \in {"restore", "erase"} =>
        \A f \in todo[c] :
            \/ Archived(dir[c])[f] = conf[f]
            \/ pc[c] = "erase" /\ IsNext(f, c)

\* While the restore loop runs, a file it has not reached is as in the snapshot, and
\* one it has passed is either restored, its copy erased, or waits for the refill.
RestorePart(c) ==
    pc[c] \in {"restore", "erase"} =>
        /\ \A f \in todo[c] :
            /\ conf[f] # Absent
            /\ ret[c] = 0 => snap[f] = goal[c][f]
            /\ pc[c] = "erase" /\ IsNext(f, c) => conf[f] = snap[f]
        /\ \A f \in Files \ todo[c] :
            /\ conf[f] = Absent \/ snap[f] = Absent \/ conf[f] = snap[f]
            /\ ret[c] = 0 =>
                \/ conf[f] = goal[c][f] /\ snap[f] = Absent
                \/ conf[f] = Absent /\ snap[f] = goal[c][f]

\* In the refill loop what it has not reached is still in the snapshot.
RefillPart(c) ==
    pc[c] = "refill" =>
        /\ \A f \in todo[c] :
            /\ snap[f] # Absent
            /\ conf[f] = Absent \/ conf[f] = snap[f]
            /\ ret[c] = 0 => snap[f] = goal[c][f]
        /\ \A f \in Files \ todo[c] : ret[c] = 0 => conf[f] = goal[c][f]

RemovePart(c) ==
    pc[c] = "rmsnap" /\ verb[c] # "commit" /\ ret[c] = 0 => conf = goal[c]

IdleRet(c) == pc[c] = "idle" => ret[c] = 0

ProcInv(c) ==
    /\ GoalKept(c) /\ ArchiveKept(c) /\ RestorePart(c) /\ RefillPart(c)
    /\ RemovePart(c) /\ IdleRet(c)

\* The inductive invariant.
IInv == TypeOK /\ Alone /\ \A c \in Procs : ProcInv(c)

\* Nothing is asked of a process that does not run the script.
LEMMA IdleInv ==
  ASSUME NEW c \in Procs, pc'[c] = "idle", ret'[c] = 0
  PROVE  ProcInv(c)'
  BY DEF ProcInv, GoalKept, ArchiveKept, RestorePart, RefillPart, RemovePart, IdleRet

\* A process that ends owes nothing to the invariant.
LEMMA ExitInv ==
  ASSUME TypeOK, NEW c \in Procs, NEW v, NEW s, Exit(c, v, s)
  PROVE  ProcInv(c)'
<1>1. pc'[c] = "idle" /\ ret'[c] = 0
  BY DEF Exit, Goto, TypeOK
<1> QED BY <1>1, IdleInv

\* Nor does one that a failing command ends.
LEMMA AbortInv ==
  ASSUME TypeOK, NEW c \in Procs, Abort(c)
  PROVE  ProcInv(c)'
  BY ExitInv DEF Abort

\* While one process runs, or is about to, the others do not.
LEMMA OthersIdle ==
  ASSUME TypeOK, Alone, OneClient, NEW c \in Procs, pc[c] # "idle" \/ MayRun(c)
  PROVE  \A d \in Procs \ {c} : pc[d] = "idle"
  BY BootAssumption DEF Alone, OneClient, MayRun, Procs

\* A step of the script in c, or a request of c, leaves the other processes alone.
StepFrame(c) ==
    /\ pc[c] # "idle" \/ MayRun(c)
    /\ \E l \in Labels : pc' = [pc EXCEPT ![c] = l]
    /\ \A d \in Procs \ {c} : ret'[d] = ret[d]
    /\ \/ up' = up
       \/ pc'[c] = "idle" /\ up' = (up \/ c = Boot)

\* The end of a run changes the variables of its own process only.
LEMMA ExitFrame ==
  ASSUME TypeOK, NEW c \in Procs, NEW v, NEW s, Exit(c, v, s), pc[c] # "idle" \/ MayRun(c)
  PROVE  StepFrame(c)
  BY DEF Exit, Goto, TypeOK, StepFrame, Labels

\* The same for a run that a failing command ends.
LEMMA AbortFrame ==
  ASSUME TypeOK, NEW c \in Procs, Abort(c), pc[c] # "idle"
  PROVE  StepFrame(c)
  BY ExitFrame DEF Abort

\* A call of the script, and an edit, change the variables of their own process only.
LEMMA RequestFrame ==
  ASSUME TypeOK, NEW c \in Procs, Request(c)
  PROVE  StepFrame(c)
<1>1. CASE ChangeBegin(c)
  BY <1>1, ExitFrame DEF ChangeBegin, Call, Goto, TypeOK, StepFrame, Labels
<1>2. CASE ChangeCommit(c)
  BY <1>2, ExitFrame DEF ChangeCommit, Call, Goto, TypeOK, StepFrame, Labels
<1>3. CASE Edit(c)
  <2>1. pc' = [pc EXCEPT ![c] = "idle"]
    BY <1>3 DEF Edit, MayRun, TypeOK
  <2> QED BY <1>3, <2>1 DEF Edit, StepFrame, Labels
<1>4. ASSUME NEW v \in {"rollback", "start"}, ChangeRollback(c, v) PROVE StepFrame(c)
  BY <1>4, ExitFrame DEF ChangeRollback, Call, Goto, TypeOK, StepFrame, Labels
<1> QED BY <1>1, <1>2, <1>3, <1>4 DEF Request

\* A step of the script changes the variables of its own process only.
LEMMA RunFrame ==
  ASSUME TypeOK, NEW c \in Procs, Step(c)
  PROVE  StepFrame(c)
<1> DEFINE Goes == /\ pc[c] # "idle"
                   /\ \E l \in Labels : pc' = [pc EXCEPT ![c] = l]
                   /\ \A d \in Procs \ {c} : ret'[d] = ret[d]
                   /\ up' = up
<1>1. Goes => StepFrame(c)
  BY DEF StepFrame
<1>2. ASSUME pc' = pc PROVE \E l \in Labels : pc' = [pc EXCEPT ![c] = l]
  BY <1>2 DEF TypeOK
<1> HIDE DEF Goes
<1>3. pc[c] # "idle"
  BY DEF Step, MakeSnapshotDir, SaveFile, WriteDate, Prune, MakeArchive, ArchiveFile,
         ArchiveDone, CopyBack, EraseCopy, RemoveNew, RestoreDone, RefillFile,
         RefillDone, UnlinkCopy, RemoveSnapshotDir
<1>4. CASE MakeSnapshotDir(c)
  BY <1>1, <1>3, <1>4, ExitFrame, AbortFrame DEF MakeSnapshotDir, Goes, Loop, Goto, Labels
<1>5. CASE SaveFile(c)
  BY <1>1, <1>2, <1>3, <1>5, AbortFrame DEF SaveFile, Goes
<1>6. CASE WriteDate(c)
  BY <1>3, <1>6, ExitFrame, AbortFrame DEF WriteDate
<1>7. CASE Prune(c)
  BY <1>1, <1>3, <1>7 DEF Prune, Goes, Goto, Labels
<1>8. CASE MakeArchive(c)
  BY <1>1, <1>3, <1>8, AbortFrame DEF MakeArchive, Goes, Loop, Goto, Labels
<1>9. CASE ArchiveFile(c)
  BY <1>1, <1>2, <1>3, <1>9, AbortFrame DEF ArchiveFile, Goes
<1>10. CASE ArchiveDone(c) \/ RestoreDone(c) \/ RefillDone(c)
  BY <1>1, <1>3, <1>10 DEF ArchiveDone, RestoreDone, RefillDone, Goes, Loop, Goto, Labels
<1>11. CASE CopyBack(c)
  BY <1>1, <1>3, <1>11, AbortFrame DEF CopyBack, Goes, Goto, Labels
<1>12. CASE EraseCopy(c)
  BY <1>1, <1>3, <1>12 DEF EraseCopy, Goes, Goto, Labels, TypeOK
<1>13. CASE RemoveNew(c)
  BY <1>1, <1>2, <1>3, <1>13 DEF RemoveNew, Goes, TypeOK
<1>14. CASE RefillFile(c)
  BY <1>1, <1>2, <1>3, <1>14, AbortFrame DEF RefillFile, Goes
<1>15. CASE UnlinkCopy(c)
  BY <1>1, <1>2, <1>3, <1>15 DEF UnlinkCopy, Goes
<1>16. CASE RemoveSnapshotDir(c)
  BY <1>3, <1>16, ExitFrame DEF RemoveSnapshotDir
<1> QED BY <1>4, <1>5, <1>6, <1>7, <1>8, <1>9, <1>10, <1>11, <1>12, <1>13, <1>14,
           <1>15, <1>16 DEF Step

\* So the processes stay alone, and the others keep their part of the invariant.
LEMMA FrameInv ==
  ASSUME IInv, OneClient, NEW c \in Procs, StepFrame(c)
  PROVE  Alone' /\ \A d \in Procs \ {c} : ProcInv(d)'
<1>1. \A d \in Procs \ {c} : pc[d] = "idle" /\ pc'[d] = "idle" /\ ret'[d] = 0
  <2>1. \A d \in Procs \ {c} : pc[d] = "idle"
    BY OthersIdle DEF IInv, StepFrame
  <2>2. \A d \in Procs \ {c} : pc'[d] = pc[d] /\ ret'[d] = ret[d]
    BY DEF IInv, StepFrame, TypeOK
  <2> QED BY <2>1, <2>2 DEF IInv, ProcInv, IdleRet
<1>2. \A d \in Procs \ {c} : ProcInv(d)'
  BY <1>1, IdleInv
<1>3. Alone'
  <2>1. CASE up' = up
    BY <1>1, <2>1, BootAssumption DEF IInv, Alone, StepFrame, MayRun, Procs
  <2>2. CASE pc'[c] = "idle" /\ up' = (up \/ c = Boot)
    BY <1>1, <2>2, BootAssumption DEF IInv, Alone, StepFrame, MayRun, Procs
  <2> QED BY <2>1, <2>2 DEF StepFrame
<1> QED BY <1>2, <1>3

-----------------------------------------------------------------------------
\* change_begin and change_commit owe nothing to the invariant.
LEMMA BeginInv ==
  ASSUME IInv, NEW c \in Procs,
         \/ ChangeBegin(c) \/ MakeSnapshotDir(c) \/ SaveFile(c) \/ WriteDate(c)
         \/ ChangeCommit(c) \/ Edit(c)
  PROVE  ProcInv(c)'
<1> DEFINE Elsewhere == \/ pc'[c] \in {"mkdir", "save"}
                        \/ pc'[c] = "rmsnap" /\ verb'[c] = "commit"
<1>1. ASSUME Elsewhere PROVE ProcInv(c)'
  BY <1>1 DEF ProcInv, GoalKept, ArchiveKept, RestorePart, RefillPart, RemovePart, IdleRet
<1>2. TypeOK
  BY DEF IInv
<1> HIDE DEF Elsewhere
<1>3. CASE ChangeBegin(c)
  BY <1>1, <1>2, <1>3, ExitInv DEF ChangeBegin, Call, Goto, TypeOK, Elsewhere
<1>4. CASE MakeSnapshotDir(c)
  BY <1>1, <1>2, <1>4, ExitInv, AbortInv DEF MakeSnapshotDir, Loop, Goto, TypeOK, Elsewhere
<1>5. CASE SaveFile(c)
  BY <1>1, <1>2, <1>5, AbortInv DEF SaveFile, Elsewhere
<1>6. CASE WriteDate(c)
  BY <1>2, <1>6, ExitInv, AbortInv DEF WriteDate
<1>7. CASE ChangeCommit(c)
  BY <1>1, <1>2, <1>7, ExitInv DEF ChangeCommit, Call, Goto, TypeOK, Elsewhere
<1>8. CASE Edit(c)
  BY <1>8, IdleInv DEF Edit, MayRun, IInv, ProcInv, IdleRet
<1> QED BY <1>3, <1>4, <1>5, <1>6, <1>7, <1>8

\* What SetArchive has put into an archive is what Archived finds there.
LEMMA ArchivedSet ==
  ASSUME NEW d, NEW files, SetArchive(d, files)
  PROVE  Archived(d)' = files
  BY DEF SetArchive, Archived

\* Up to the restore loop, a rollback only reads the snapshot and the configuration.
LEMMA ArchiveInv ==
  ASSUME IInv, NEW c \in Procs,
         \/ \E v \in {"rollback", "start"} : ChangeRollback(c, v)
         \/ Prune(c) \/ MakeArchive(c) \/ ArchiveFile(c) \/ ArchiveDone(c)
  PROVE  ProcInv(c)'
<1>1. TypeOK /\ ProcInv(c)
  BY DEF IInv
<1>2. CASE \E v \in {"rollback", "start"} : ChangeRollback(c, v)
  <2>1. PICK v \in {"rollback", "start"} : ChangeRollback(c, v)
    BY <1>2
  <2>2. CASE Exit(c, v, EINVALID)
    BY <1>1, <2>2, ExitInv
  <2>3. CASE ~Exit(c, v, EINVALID)
    <3>1. pc'[c] = "prune" /\ goal'[c] = snap /\ snap' = snap
      BY <1>1, <2>1, <2>3 DEF ChangeRollback, Call, Goto, TypeOK
    <3> QED BY <3>1 DEF ProcInv, GoalKept, ArchiveKept, RestorePart, RefillPart,
                        RemovePart, IdleRet
  <2> QED BY <2>2, <2>3
<1>3. CASE Prune(c)
  <2>1. pc'[c] = "mkarchive" /\ goal'[c] = snap' 
    BY <1>1, <1>3 DEF Prune, Goto, TypeOK, ProcInv, GoalKept
  <2> QED BY <2>1 DEF ProcInv, GoalKept, ArchiveKept, RestorePart, RefillPart,
                      RemovePart, IdleRet
<1>4. CASE MakeArchive(c)
  <2>1. CASE Abort(c)
    BY <1>1, <2>1, AbortInv
  <2>2. CASE ~Abort(c)
    <3>1. /\ pc'[c] = "archive" /\ goal'[c] = snap'
          /\ todo'[c] = Present(conf) /\ conf' = conf
      BY <1>1, <1>4, <2>2 DEF MakeArchive, Loop, Goto, TypeOK, ProcInv, GoalKept
    <3>2. \A f \in Files \ todo'[c] : conf'[f] = Absent
      BY <3>1 DEF Present
    <3> QED BY <3>1, <3>2 DEF ProcInv, GoalKept, ArchiveKept, RestorePart, RefillPart,
                              RemovePart, IdleRet
  <2> QED BY <2>1, <2>2
<1>5. CASE ArchiveFile(c)
  <2>1. CASE Abort(c)
    BY <1>1, <2>1, AbortInv
  <2>2. CASE ~Abort(c)
    <3>1. PICK f \in todo[c] : ArchiveFile(c)!2!(f)
      BY <1>5 DEF ArchiveFile
    <3>2. /\ pc[c] = "archive" /\ pc'[c] = "archive"
          /\ goal'[c] = snap' /\ conf' = conf /\ dir' = dir
          /\ todo'[c] = todo[c] \ {f} /\ f \in Files
      BY <1>1, <1>5, <2>2, <3>1
         DEF ArchiveFile, Continue, TypeOK, ProcInv, GoalKept
    <3>3. /\ Archived(dir[c]) \in Dir
          /\ \A g \in Files \ todo[c] : conf[g] # Absent => Archived(dir[c])[g] = conf[g]
      BY <1>1, <3>2, ArchivedType DEF ProcInv, ArchiveKept
    <3>4. \A g \in Files \ todo'[c] : conf[g] # Absent => Archived(dir[c])'[g] = conf[g]
      <4>1. CASE conf[f] = Absent
        <5>1. UNCHANGED arch
          BY <3>1, <4>1, <2>2
        <5>2. Archived(dir[c])' = Archived(dir[c])
          BY <3>2, <5>1 DEF Archived
        <5> QED BY <3>2, <3>3, <4>1, <5>2
      <4>2. CASE conf[f] # Absent
        <5>1. SetArchive(dir[c], [Archived(dir[c]) EXCEPT ![f] = conf[f]])
          BY <3>1, <4>2, <2>2
        <5>2. Archived(dir[c])' = [Archived(dir[c]) EXCEPT ![f] = conf[f]]
          BY <3>2, <5>1 DEF SetArchive, Archived
        <5> QED BY <3>2, <3>3, <5>2 DEF Dir
      <4> QED BY <4>1, <4>2
    <3> QED BY <3>2, <3>4 DEF ProcInv, GoalKept, ArchiveKept, RestorePart, RefillPart,
                              RemovePart, IdleRet
  <2> QED BY <2>1, <2>2
<1>6. CASE ArchiveDone(c)
  <2>1. /\ pc[c] = "archive" /\ todo[c] = {} /\ goal[c] = snap
        /\ UNCHANGED <<conf, snap, arch, dir, goal, verb, ret>>
        /\ pc'[c] = "restore" /\ todo'[c] = Present(conf)
    BY <1>1, <1>6 DEF ArchiveDone, Loop, Goto, TypeOK, ProcInv, GoalKept
  <2>2. \A f \in Files : conf[f] # Absent => Archived(dir[c])[f] = conf[f]
    BY <1>1, <2>1 DEF ProcInv, ArchiveKept
  <2>3. Archived(dir[c])' = Archived(dir[c])
    BY <2>1 DEF Archived
  <2>4. ArchiveKept(c)' /\ RestorePart(c)'
    BY <2>1, <2>2, <2>3 DEF ArchiveKept, RestorePart, Present
  <2> QED BY <2>1, <2>4 DEF ProcInv, GoalKept, RefillPart, RemovePart, IdleRet
<1> QED BY <1>2, <1>3, <1>4, <1>5, <1>6

\* The next file of a loop is one file.
LEMMA NextUnique ==
  ASSUME TypeOK, NEW c \in Procs, NEW f, NEW g, IsNext(f, c), IsNext(g, c)
  PROVE  g = f
<1>1. f \in Nat /\ g \in Nat
  BY FilesAssumption DEF TypeOK, IsNext
<1>2. f <= g /\ g <= f
  BY DEF IsNext
<1> QED BY <1>1, <1>2

\* The restore loop: copying back, erasing the copy, removing what is new.
LEMMA RestoreInv ==
  ASSUME IInv, TypeOK', NEW c \in Procs, CopyBack(c) \/ EraseCopy(c) \/ RemoveNew(c)
  PROVE  ProcInv(c)'
<1>1. TypeOK /\ ProcInv(c)
  BY DEF IInv
<1>2. CASE CopyBack(c)
  <2>1. CASE Abort(c)
    BY <1>1, <2>1, AbortInv
  <2>2. CASE ~Abort(c)
    <3>1. PICK f \in todo[c] : CopyBack(c)!2!(f)
      BY <1>2 DEF CopyBack
    <3>2. /\ pc[c] = "restore" /\ pc'[c] = "erase" /\ IsNext(f, c)
          /\ conf' = [conf EXCEPT ![f] = snap[f]]
          /\ UNCHANGED <<snap, arch, verb, todo, dir, ret, goal>>
          /\ f \in Files /\ todo[c] \subseteq Files /\ conf \in Dir /\ snap[f] # Absent
      BY <1>1, <1>2, <2>2, <3>1 DEF CopyBack, Goto, TypeOK
    <3>3. conf'[f] = snap[f] /\ \A g \in Files \ {f} : conf'[g] = conf[g]
      BY <3>2 DEF Dir
    <3>4. \A g \in Files : IsNext(g, c)' <=> IsNext(g, c)
      BY <3>2 DEF IsNext
    <3>5. \A g \in todo[c] : IsNext(g, c) => g = f
      BY <1>1, <3>2, NextUnique
    <3>6. Archived(dir[c])' = Archived(dir[c])
      BY <3>2 DEF Archived
    <3>7. ArchiveKept(c)'
      BY <1>1, <3>2, <3>3, <3>4, <3>6 DEF ProcInv, ArchiveKept
    <3>8. RestorePart(c)'
      BY <1>1, <3>2, <3>3, <3>4, <3>5 DEF ProcInv, RestorePart
    <3> QED BY <3>2, <3>7, <3>8 DEF ProcInv, GoalKept, RefillPart, RemovePart, IdleRet
  <2> QED BY <2>1, <2>2
<1>3. CASE EraseCopy(c)
  <2>1. PICK f \in todo[c] : EraseCopy(c)!2!(f)
    BY <1>3 DEF EraseCopy
  <2>2. /\ pc[c] = "erase" /\ pc'[c] = "restore" /\ IsNext(f, c)
        /\ UNCHANGED <<conf, arch, verb, dir, goal>>
        /\ todo'[c] = todo[c] \ {f}
        /\ f \in Files /\ todo[c] \subseteq Files /\ snap \in Dir
    BY <1>1, <1>3, <2>1 DEF EraseCopy, Continue, Goto, TypeOK
  <2>3. \/ snap' = [snap EXCEPT ![f] = Absent] /\ ret' = ret
        \/ snap' = snap /\ ret'[c] = 1
    BY <1>1, <2>1 DEF TypeOK
  <2>4. (snap'[f] = Absent \/ snap'[f] = snap[f]) /\ \A g \in Files \ {f} : snap'[g] = snap[g]
    BY <2>2, <2>3 DEF Dir
  <2>5. \A g \in todo[c] : IsNext(g, c) => g = f
    BY <1>1, <2>2, NextUnique
  <2>6. Archived(dir[c])' = Archived(dir[c])
    BY <2>2 DEF Archived
  <2>7. ArchiveKept(c)'
    BY <1>1, <2>2, <2>5, <2>6 DEF ProcInv, ArchiveKept
  <2>8. RestorePart(c)'
    <3>1. conf[f] = snap[f] /\ (ret[c] = 0 => snap[f] = goal[c][f])
      BY <1>1, <2>2 DEF ProcInv, RestorePart
    <3>2. ret'[c] = 0 => ret[c] = 0 /\ snap'[f] = Absent
      BY <2>2, <2>3, <1>1 DEF TypeOK, Dir
    <3> QED BY <1>1, <2>2, <2>4, <3>1, <3>2 DEF ProcInv, RestorePart
  <2> QED BY <2>2, <2>7, <2>8 DEF ProcInv, GoalKept, RefillPart, RemovePart, IdleRet
<1>4. CASE RemoveNew(c)
  <2>1. PICK f \in todo[c] : RemoveNew(c)!2!(f)
    BY <1>4 DEF RemoveNew
  <2>2. /\ pc[c] = "restore" /\ pc'[c] = "restore"
        /\ UNCHANGED <<snap, arch, verb, dir, goal>>
        /\ todo'[c] = todo[c] \ {f}
        /\ f \in Files /\ todo[c] \subseteq Files /\ conf \in Dir
    BY <1>1, <1>4, <2>1 DEF RemoveNew, Continue, TypeOK
  <2>3. /\ snap[f] = Absent
        /\ \/ conf' = [conf EXCEPT ![f] = Absent] /\ ret' = ret
           \/ conf' = conf /\ ret'[c] = 1
    BY <1>1, <2>1, <2>2 DEF TypeOK, ProcInv, RestorePart
  <2>4. \A g \in Files \ {f} : conf'[g] = conf[g]
    BY <2>2, <2>3 DEF Dir
  <2>5. ret'[c] = 0 => ret[c] = 0 /\ conf'[f] = Absent
    BY <2>2, <2>3 DEF Dir
  <2>6. Archived(dir[c])' = Archived(dir[c])
    BY <2>2 DEF Archived
  <2>7. ArchiveKept(c)'
    BY <1>1, <2>2, <2>4, <2>6 DEF ProcInv, ArchiveKept
  <2>8. RestorePart(c)'
    BY <1>1, <2>2, <2>3, <2>4, <2>5 DEF ProcInv, RestorePart
  <2> QED BY <2>2, <2>7, <2>8 DEF ProcInv, GoalKept, RefillPart, RemovePart, IdleRet
<1> QED BY <1>2, <1>3, <1>4

\* The refill loop, and the removal of the snapshot.
LEMMA RefillInv ==
  ASSUME IInv, TypeOK', NEW c \in Procs,
         RestoreDone(c) \/ RefillFile(c) \/ RefillDone(c) \/ UnlinkCopy(c) \/ RemoveSnapshotDir(c)
  PROVE  ProcInv(c)'
<1>1. TypeOK /\ ProcInv(c)
  BY DEF IInv
<1>2. CASE RestoreDone(c)
  <2>1. /\ pc[c] = "restore" /\ todo[c] = {}
        /\ UNCHANGED <<conf, snap, ret, goal>>
        /\ pc'[c] = "refill" /\ todo'[c] = Present(snap)
    BY <1>1, <1>2 DEF RestoreDone, Loop, Goto, TypeOK
  <2>2. RefillPart(c)'
    BY <1>1, <2>1 DEF ProcInv, RestorePart, RefillPart, Present
  <2> QED BY <2>1, <2>2 DEF ProcInv, GoalKept, ArchiveKept, RestorePart, RemovePart, IdleRet
<1>3. CASE RefillFile(c)
  <2>1. CASE Abort(c)
    BY <1>1, <2>1, AbortInv
  <2>2. CASE ~Abort(c)
    <3>1. PICK f \in todo[c] : RefillFile(c)!2!(f)
      BY <1>3 DEF RefillFile
    <3>2. /\ pc[c] = "refill" /\ pc'[c] = "refill"
          /\ UNCHANGED <<snap, ret, goal>>
          /\ todo'[c] = todo[c] \ {f}
          /\ f \in Files /\ todo[c] \subseteq Files /\ conf \in Dir
      BY <1>1, <1>3, <2>2, <3>1 DEF RefillFile, Continue, TypeOK
    <3>3. conf' = [conf EXCEPT ![f] = snap[f]]
      BY <1>1, <2>2, <3>1, <3>2 DEF ProcInv, RefillPart
    <3>4. conf'[f] = snap[f] /\ \A g \in Files \ {f} : conf'[g] = conf[g]
      BY <3>2, <3>3 DEF Dir
    <3>5. RefillPart(c)'
      BY <1>1, <3>2, <3>4 DEF ProcInv, RefillPart
    <3> QED BY <3>2, <3>5 DEF ProcInv, GoalKept, ArchiveKept, RestorePart, RemovePart, IdleRet
  <2> QED BY <2>1, <2>2
<1>4. CASE RefillDone(c)
  <2>1. /\ pc[c] = "refill" /\ todo[c] = {} /\ conf \in Dir /\ goal[c] \in Dir
        /\ UNCHANGED <<conf, ret, goal>>
        /\ pc'[c] = "rmsnap"
    BY <1>1, <1>4 DEF RefillDone, Loop, Goto, TypeOK
  <2>2. ret[c] = 0 => \A f \in Files : conf[f] = goal[c][f]
    BY <1>1, <2>1 DEF ProcInv, RefillPart
  <2>3. ret[c] = 0 => conf = goal[c]
    BY <2>1, <2>2 DEF Dir
  <2> QED BY <2>1, <2>3 DEF ProcInv, GoalKept, ArchiveKept, RestorePart, RefillPart, RemovePart, IdleRet
<1>5. CASE UnlinkCopy(c)
  <2>1. pc[c] = "rmsnap" /\ UNCHANGED <<pc, verb, ret, conf, goal>>
    BY <1>5 DEF UnlinkCopy
  <2> QED BY <1>1, <2>1 DEF ProcInv, GoalKept, ArchiveKept, RestorePart, RefillPart, RemovePart, IdleRet
<1>6. CASE RemoveSnapshotDir(c)
  BY <1>1, <1>6, ExitInv DEF RemoveSnapshotDir
<1> QED BY <1>2, <1>3, <1>4, <1>5, <1>6

-----------------------------------------------------------------------------
\* The invariant holds initially and every step keeps it.
LEMMA InitInv == Init => IInv
<1> SUFFICES ASSUME Init PROVE IInv
  OBVIOUS
<1>1. TypeOK
  BY InitType
<1>2. Alone
  BY DEF Init, Alone, Procs
<1>3. \A c \in Procs : ProcInv(c)
  BY DEF Init, ProcInv, GoalKept, ArchiveKept, RestorePart, RefillPart, RemovePart, IdleRet
<1> QED BY <1>1, <1>2, <1>3 DEF IInv

\* Every step of the script, of its callers and of the environment keeps the invariant.
LEMMA NextInv ==
  ASSUME IInv, OneClient, [Next]_vars
  PROVE  IInv'
<1>1. TypeOK'
  BY NextType DEF IInv
<1>2. ASSUME NEW c \in Procs, Step(c) \/ Request(c) PROVE IInv'
  <2>1. StepFrame(c)
    BY <1>2, RunFrame, RequestFrame DEF IInv
  <2>2. ProcInv(c)'
    BY <1>1, <1>2, BeginInv, ArchiveInv, RestoreInv, RefillInv DEF Step, Request
  <2> QED BY <1>1, <2>1, <2>2, FrameInv DEF IInv
<1>3. CASE Tick
  <2>1. \A c \in Procs : ProcInv(c)'
    BY <1>3 DEF Tick, IInv, ProcInv, GoalKept, ArchiveKept, RestorePart, RefillPart,
                RemovePart, IdleRet, Archived, IsNext
  <2> QED BY <1>1, <1>3, <2>1 DEF Tick, IInv, Alone
<1>4. CASE Crash
  <2>1. \A c \in Procs : ProcInv(c)'
    BY <1>4, IdleInv DEF Crash
  <2>2. Alone'
    BY <1>4 DEF Crash, Alone, Procs
  <2> QED BY <1>1, <2>1, <2>2 DEF IInv
<1>5. CASE UNCHANGED vars
  <2>1. \A c \in Procs : ProcInv(c)'
    BY <1>5 DEF vars, IInv, ProcInv, GoalKept, ArchiveKept, RestorePart, RefillPart,
                RemovePart, IdleRet, Archived, IsNext
  <2> QED BY <1>1, <1>5, <2>1 DEF vars, IInv, Alone
<1> QED BY <1>2, <1>3, <1>4, <1>5 DEF Next

\* The inductive invariant is an invariant when there is one client.
LEMMA Invariance == ASSUME OneClient PROVE Spec => []IInv
<1>1. IInv /\ [Next]_vars => IInv'
  BY NextInv
<1> QED BY InitInv, <1>1, PTL DEF Spec

\* With one client at a time, a rollback that comes through its restore loops without
\* an error leaves exactly the configuration of the snapshot it started from, whatever
\* crashed or failed before.
THEOREM RollbackRestores == ASSUME OneClient PROVE Spec => []Restored
<1>1. IInv => Restored
  BY DEF IInv, ProcInv, RemovePart, Restored
<1> QED BY Invariance, <1>1, PTL

-----------------------------------------------------------------------------
\* A step that changes a file of the configuration, and what it finds in the archive
\* and in the snapshot.
Covered(f) ==
    \/ snap'[f] = conf[f]
    \/ \E c \in Procs : Restoring(c) /\ Archived(dir[c])[f] = conf[f]

\* What the restore loop overwrites is in the run's archive.
LEMMA CopyBackCovered ==
  ASSUME IInv, NEW c \in Procs, CopyBack(c) \/ RemoveNew(c),
         NEW f \in Files, conf'[f] # conf[f]
  PROVE  Covered(f)
<1>1. TypeOK /\ ArchiveKept(c) /\ pc[c] = "restore"
  BY DEF IInv, ProcInv, CopyBack, RemoveNew
<1>2. PICK g \in todo[c] : \/ conf' = conf
                           \/ \E x : conf' = [conf EXCEPT ![g] = x]
  BY DEF CopyBack, RemoveNew, FailedCopy, FailedForcedCopy
<1>3. f \in todo[c]
  BY <1>1, <1>2 DEF TypeOK, Dir
<1>4. Archived(dir[c])[f] = conf[f]
  BY <1>1, <1>3 DEF ArchiveKept
<1> QED BY <1>1, <1>4 DEF Covered, Restoring

\* What the refill loop overwrites is still in the snapshot.
LEMMA RefillCovered ==
  ASSUME IInv, NEW c \in Procs, RefillFile(c),
         NEW f \in Files, conf[f] # Absent, conf'[f] # conf[f]
  PROVE  Covered(f)
<1>1. TypeOK /\ RefillPart(c) /\ pc[c] = "refill" /\ snap' = snap
  BY DEF IInv, ProcInv, RefillFile
<1>2. PICK g \in todo[c] : \/ conf' = conf
                           \/ \E x : conf' = [conf EXCEPT ![g] = x]
  BY DEF RefillFile, FailedCopy, FailedForcedCopy
<1>3. f \in todo[c]
  BY <1>1, <1>2 DEF TypeOK, Dir
<1>4. snap[f] = conf[f]
  BY <1>1, <1>3 DEF RefillPart
<1> QED BY <1>1, <1>4 DEF Covered

\* With one client at a time, nothing that a rollback discards is lost: it is in this
\* run's archive, or the snapshot still has it.
THEOREM NothingLost == ASSUME OneClient PROVE Spec => DiscardsArchived
<1> DEFINE Discards == \A f \in Files :
             conf[f] # Absent /\ conf'[f] # conf[f] /\ (\E c \in Procs : pc[c] # "idle")
               => \/ snap'[f] = conf[f]
                  \/ \E c \in Procs : Restoring(c) /\ Archived(dir[c])[f] = conf[f]
<1>1. IInv /\ [Next]_vars => [Discards]_vars
  <2> SUFFICES ASSUME IInv, Next,
                      NEW f \in Files, conf[f] # Absent, conf'[f] # conf[f],
                      \E c \in Procs : pc[c] # "idle"
               PROVE  Covered(f)
    BY DEF Covered
  <2>1. CASE Tick \/ Crash
    BY <2>1 DEF Tick, Crash
  <2>2. ASSUME NEW c \in Procs, Step(c) PROVE Covered(f)
    <3>1. conf' # conf
      OBVIOUS
    <3>2. CopyBack(c) \/ RemoveNew(c) \/ RefillFile(c)
      BY <2>2, <3>1 DEF Step, MakeSnapshotDir, SaveFile, WriteDate, Prune, MakeArchive,
         ArchiveFile, ArchiveDone, EraseCopy, RestoreDone, RefillDone, UnlinkCopy,
         RemoveSnapshotDir
    <3> QED BY <3>2, CopyBackCovered, RefillCovered
  <2>3. ASSUME NEW c \in Procs, Request(c) PROVE Covered(f)
    <3>1. Edit(c)
      BY <2>3 DEF Request, ChangeBegin, ChangeCommit, ChangeRollback
    <3>2. MayRun(c) /\ pc[c] = "idle" /\ TypeOK /\ Alone
      BY <3>1 DEF Edit, MayRun, IInv
    <3>3. \A d \in Procs \ {c} : pc[d] = "idle"
      BY <3>2, OthersIdle
    <3> QED BY <3>2, <3>3
  <2> QED BY <2>1, <2>2, <2>3 DEF Next
<1> QED BY Invariance, <1>1, PTL DEF DiscardsArchived, Spec

-----------------------------------------------------------------------------
(***************************************************************************)
(* Any number of clients: how many rollback saves there can be.            *)
(***************************************************************************)

\* The processes that will still make a save: they have pruned and not come to the
\* mkdir, or another process has pruned the save that they are copying to.
Pending ==
    {c \in Procs : \/ pc[c] = "mkarchive"
                   \/ pc[c] = "archive" /\ dir[c] \notin DOMAIN arch}

SavesBounded ==
    Cardinality(DOMAIN arch) + Cardinality(Pending)
        <= Keep + Cardinality(Clients) + failures

BoundInv == TypeOK /\ Alone /\ SavesBounded

\* A set of numbers has a least one.
LEMMA LeastNumber ==
  ASSUME NEW S, S \subseteq Nat, S # {}
  PROVE  \E m \in S : \A x \in S : m <= x
<1>1. PICK m \in S : \A x \in S : ~(<<x, m>> \in OpToRel(<, Nat))
  BY WFMin, NatLessThanWellFounded
<1>2. \A x \in S : ~(x < m)
  BY <1>1 DEF OpToRel
<1>3. \A x \in S : m <= x
  BY <1>2
<1> QED BY <1>3

\* What head -n -k leaves of a sorted list: at most k of its names.
LEMMA LastFew ==
  ASSUME NEW S, IsFiniteSet(S), S \subseteq Nat, NEW k \in Nat
  PROVE  Cardinality({d \in S : ~(Cardinality({e \in S : e > d}) >= k)}) <= k
<1> DEFINE After(d) == {e \in S : e > d}
           R == {d \in S : ~(Cardinality(After(d)) >= k)}
<1>1. CASE R = {}
  <2> HIDE DEF R
  <2>1. Cardinality(R) <= k
    BY <1>1, FS_EmptySet
  <2> QED BY <2>1 DEF R
<1>2. CASE R # {}
  <2>1. PICK m \in R : \A x \in R : m <= x
    BY <1>2, LeastNumber
  <2>2. IsFiniteSet(After(m)) /\ Cardinality(After(m)) \in Nat /\ m \notin After(m)
    <3>1. After(m) \subseteq S /\ m \in Nat
      OBVIOUS
    <3>2. m \notin After(m)
      BY <3>1
    <3> HIDE DEF After
    <3> QED BY <3>1, <3>2, FS_Subset, FS_CardinalityType
  <2>3. Cardinality(After(m)) < k
    <3> HIDE DEF After
    <3>1. ~(Cardinality(After(m)) >= k)
      OBVIOUS
    <3> QED BY <2>2, <3>1
  <2>4. R \subseteq After(m) \cup {m}
    <3>1. R \subseteq S
      OBVIOUS
    <3>2. \A x \in R : x = m \/ x > m
      <4> HIDE DEF R
      <4> QED BY <2>1, <3>1
    <3> HIDE DEF R
    <3> QED BY <3>1, <3>2
  <2> DEFINE A == After(m)
  <2> HIDE DEF A, R, After
  <2>5. IsFiniteSet(A \cup {m}) /\ Cardinality(A \cup {m}) = Cardinality(A) + 1
    BY <2>2, FS_AddElement DEF A
  <2>6. Cardinality(R) <= Cardinality(A \cup {m}) /\ Cardinality(R) \in Nat
    BY <2>4, <2>5, FS_Subset, FS_CardinalityType DEF A
  <2>7. Cardinality(R) <= k
    BY <2>2, <2>3, <2>5, <2>6 DEF A
  <2> QED BY <2>7 DEF R, After
<1> QED BY <1>1, <1>2

\* Init and the clients keep out of each other's way, however many clients there are.
LEMMA AloneStep ==
  ASSUME TypeOK, Alone, NEW c \in Procs, StepFrame(c)
  PROVE  Alone'
<1>1. \A d \in Procs \ {c} : pc'[d] = pc[d]
  BY DEF StepFrame, TypeOK
<1>2. CASE c = Boot
  BY <1>1, <1>2, BootAssumption DEF Alone, StepFrame, MayRun, Procs
<1>3. CASE c \in Clients
  BY <1>1, <1>3, BootAssumption DEF Alone, StepFrame, MayRun, Procs
<1> QED BY <1>2, <1>3 DEF Procs

\* A step of c, or a request of c, as the other processes and the failures see it.
SaveFrame(c) ==
    /\ \A d \in Procs \ {c} : pc'[d] = pc[d] /\ dir'[d] = dir[d]
    /\ failures' \in {failures, failures + 1}

\* A process that exits is idle, and the others are where they were.
LEMMA ExitSaves ==
  ASSUME TypeOK, NEW c \in Procs, NEW v, NEW s, Exit(c, v, s)
  PROVE  pc'[c] = "idle" /\ \A d \in Procs \ {c} : pc'[d] = pc[d] /\ dir'[d] = dir[d]
BY DEF Exit, Goto, TypeOK

\* A process that aborts leaves the saves alone.
LEMMA AbortSaves ==
  ASSUME TypeOK, NEW c \in Procs, Abort(c)
  PROVE  pc'[c] = "idle" /\ SaveFrame(c)
BY ExitSaves DEF Abort, Fails, SaveFrame

\* Most steps make no save, and do not lead to one.
LEMMA SavesLeft ==
  ASSUME TypeOK, NEW c \in Procs, Step(c) \/ Request(c),
         ~Prune(c), ~MakeArchive(c), ~ArchiveFile(c)
  PROVE  SaveFrame(c) /\ arch' = arch /\ pc'[c] \notin {"mkarchive", "archive"}
<1>1. CASE ChangeBegin(c)
  BY <1>1, ExitSaves DEF ChangeBegin, Call, Goto, TypeOK, SaveFrame
<1>2. CASE MakeSnapshotDir(c)
  BY <1>2, ExitSaves, AbortSaves DEF MakeSnapshotDir, Loop, Goto, TypeOK, SaveFrame
<1>3. CASE SaveFile(c)
  BY <1>3, AbortSaves DEF SaveFile, TypeOK, SaveFrame
<1>4. CASE WriteDate(c)
  BY <1>4, ExitSaves, AbortSaves DEF WriteDate, TypeOK, SaveFrame
<1>5. CASE ChangeCommit(c)
  BY <1>5, ExitSaves DEF ChangeCommit, Call, Goto, TypeOK, SaveFrame
<1>6. CASE Edit(c)
  BY <1>6 DEF Edit, MayRun, SaveFrame
<1>7. CASE \E v \in {"rollback", "start"} : ChangeRollback(c, v)
  BY <1>7, ExitSaves DEF ChangeRollback, Call, Goto, TypeOK, SaveFrame
<1>8. CASE ArchiveDone(c) \/ RestoreDone(c) \/ RefillDone(c)
  BY <1>8 DEF ArchiveDone, RestoreDone, RefillDone, Loop, Goto, TypeOK, SaveFrame
<1>9. CASE CopyBack(c)
  BY <1>9, AbortSaves DEF CopyBack, Goto, TypeOK, SaveFrame
<1>10. CASE EraseCopy(c)
  BY <1>10 DEF EraseCopy, Goto, Fails, TypeOK, SaveFrame
<1>11. CASE RemoveNew(c)
  BY <1>11 DEF RemoveNew, Fails, SaveFrame
<1>12. CASE RefillFile(c)
  BY <1>12, AbortSaves DEF RefillFile, SaveFrame
<1>13. CASE UnlinkCopy(c)
  BY <1>13 DEF UnlinkCopy, Fails, SaveFrame
<1>14. CASE RemoveSnapshotDir(c)
  BY <1>14, ExitSaves DEF RemoveSnapshotDir, Fails, SaveFrame
<1> QED BY <1>1, <1>2, <1>3, <1>4, <1>5, <1>6, <1>7, <1>8, <1>9, <1>10, <1>11, <1>12,
           <1>13, <1>14 DEF Step, Request

\* There are finitely many saves, processes about to make one, and clients.
LEMMA FiniteSaves ==
  /\ TypeOK => IsFiniteSet(DOMAIN arch) /\ DOMAIN arch \subseteq Nat
  /\ TypeOK' => IsFiniteSet(DOMAIN arch') /\ DOMAIN arch' \subseteq Nat
  /\ IsFiniteSet(Pending) /\ IsFiniteSet(Pending')
  /\ Cardinality(Clients) \in Nat /\ 1 <= Cardinality(Clients)
<1>1. IsFiniteSet(Stamps) /\ Stamps \subseteq Nat
  BY FS_Interval, BoundsAssumption DEF Stamps
<1>2. IsFiniteSet(Procs)
  BY ClientsAssumption, FS_AddElement DEF Procs
<1>3. Pending \subseteq Procs /\ Pending' \subseteq Procs
  BY DEF Pending
<1>4. IsFiniteSet(Pending) /\ IsFiniteSet(Pending')
  BY <1>2, <1>3, FS_Subset
<1>5. Cardinality(Clients) \in Nat /\ Cardinality(Clients) # 0
  BY ClientsAssumption, FS_CardinalityType, FS_EmptySet
<1>6. 1 <= Cardinality(Clients)
  BY <1>5
<1>7. TypeOK => IsFiniteSet(DOMAIN arch) /\ DOMAIN arch \subseteq Nat
  BY <1>1, FS_Subset DEF TypeOK
<1>8. TypeOK' => IsFiniteSet(DOMAIN arch') /\ DOMAIN arch' \subseteq Nat
  BY <1>1, FS_Subset DEF TypeOK
<1> QED BY <1>4, <1>5, <1>6, <1>7, <1>8

\* A step that makes at most the save that was pending, or none.
LEMMA BoundStep ==
  ASSUME TypeOK, TypeOK', SavesBounded, failures' \in {failures, failures + 1},
         Pending' \subseteq Pending,
         \/ DOMAIN arch' = DOMAIN arch
         \/ \E d, c : /\ DOMAIN arch' = DOMAIN arch \cup {d}
                      /\ d \notin DOMAIN arch => c \in Pending \ Pending'
  PROVE  SavesBounded'
<1> DEFINE a == Cardinality(DOMAIN arch)  a1 == Cardinality(DOMAIN arch')
           b == Cardinality(Pending)  b1 == Cardinality(Pending')
           k == Cardinality(Clients)  f1 == failures'
<1>1. /\ IsFiniteSet(DOMAIN arch) /\ IsFiniteSet(DOMAIN arch')
      /\ IsFiniteSet(Pending) /\ IsFiniteSet(Pending') /\ k \in Nat
  BY FiniteSaves
<1>2. a \in Nat /\ a1 \in Nat /\ b \in Nat /\ b1 \in Nat
  BY <1>1, FS_CardinalityType
<1>3. failures \in Nat /\ (f1 = failures \/ f1 = failures + 1)
  BY BoundsAssumption DEF TypeOK
<1>4. b1 <= b
  BY <1>1, FS_Subset
<1>5. a1 = a \/ (a1 = a + 1 /\ b1 < b)
  <2>1. CASE DOMAIN arch' = DOMAIN arch
    BY <2>1
  <2>2. ASSUME NEW d, NEW c, DOMAIN arch' = DOMAIN arch \cup {d}, d \notin DOMAIN arch,
               c \in Pending \ Pending'
        PROVE  a1 = a + 1 /\ b1 < b
    <3>1. a1 = a + 1
      BY <1>1, <2>2, FS_AddElement
    <3>2. b1 # b
      BY <1>1, <2>2, FS_Subset
    <3> HIDE DEF a, a1, b, b1
    <3> QED BY <1>2, <1>4, <3>1, <3>2
  <2>3. ASSUME NEW d, DOMAIN arch' = DOMAIN arch \cup {d}, d \in DOMAIN arch
        PROVE  a1 = a
    BY <2>3
  <2> HIDE DEF a, a1, b, b1
  <2> QED BY Zenon, <2>1, <2>2, <2>3 DEF a, a1
<1>6. a + b <= Keep + k + failures
  BY DEF SavesBounded
<1> HIDE DEF a, a1, b, b1, k, f1
<1>7. a1 + b1 <= Keep + k + f1
  BY <1>1, <1>2, <1>3, <1>4, <1>5, <1>6, BoundsAssumption
<1> QED BY Zenon, <1>7 DEF SavesBounded, a1, b1, k, f1

\* A process that makes its save, or copies to it, is no longer pending.
LEMMA ArchiveBounded ==
  ASSUME BoundInv, TypeOK', NEW c \in Procs, MakeArchive(c) \/ ArchiveFile(c)
  PROVE  SavesBounded'
<1>1. TypeOK /\ SavesBounded
  BY DEF BoundInv
<1>2. ASSUME NEW d, DOMAIN arch' = DOMAIN arch \cup {d}, SaveFrame(c),
             \/ pc[c] = "mkarchive"
             \/ pc[c] = "archive" /\ dir[c] = d,
             pc'[c] = "idle" \/ (pc'[c] = "archive" /\ dir'[c] = d)
      PROVE  SavesBounded'
  <2>1. Pending' \subseteq Pending
    BY <1>2 DEF Pending, SaveFrame
  <2>2. d \notin DOMAIN arch => c \in Pending \ Pending'
    BY <1>2 DEF Pending
  <2>3. failures' \in {failures, failures + 1}
    BY <1>2 DEF SaveFrame
  <2> QED BY <1>1, <1>2, <2>1, <2>2, <2>3, BoundStep
<1>3. ASSUME arch' = arch, SaveFrame(c),
             pc'[c] = "idle" \/ (pc'[c] = pc[c] /\ dir'[c] = dir[c])
      PROVE  SavesBounded'
  <2>1. Pending' \subseteq Pending
    BY <1>3 DEF Pending, SaveFrame
  <2>2. failures' \in {failures, failures + 1} /\ DOMAIN arch' = DOMAIN arch
    BY <1>3 DEF SaveFrame
  <2> QED BY <1>1, <2>1, <2>2, BoundStep
<1>4. CASE MakeArchive(c)
  <2>1. CASE Abort(c) /\ UNCHANGED arch
    BY <1>1, <1>3, <2>1, AbortSaves
  <2>2. CASE /\ SetArchive(clock, Archived(clock))
             /\ dir' = [dir EXCEPT ![c] = clock]
             /\ Loop(c, "archive", conf)
             /\ UNCHANGED <<verb, ret, result, goal, up, failures>>
    <3>1. DOMAIN arch' = DOMAIN arch \cup {clock}
      BY <2>2 DEF SetArchive
    <3>2. SaveFrame(c) /\ pc'[c] = "archive" /\ dir'[c] = clock
      BY <1>1, <2>2 DEF SaveFrame, Loop, Goto, TypeOK
    <3> QED BY <1>2, <1>4, <3>1, <3>2 DEF MakeArchive
  <2> QED BY <1>4, <2>1, <2>2 DEF MakeArchive
<1>5. CASE ArchiveFile(c)
  <2>1. PICK f \in todo[c] : ArchiveFile(c)!2!(f)
    BY <1>5 DEF ArchiveFile
  <2>2. CASE Abort(c)
    <3>1. pc'[c] = "idle" /\ SaveFrame(c) /\ pc[c] = "archive"
      BY <1>1, <1>5, <2>2, AbortSaves DEF ArchiveFile
    <3>2. arch' = arch \/ DOMAIN arch' = DOMAIN arch \cup {dir[c]}
      BY <2>1 DEF SetArchive
    <3> QED BY <1>2, <1>3, <3>1, <3>2
  <2>3. CASE ~Abort(c)
    <3>1. /\ UNCHANGED <<pc, dir, failures>> /\ pc[c] = "archive"
          /\ arch' = arch \/ DOMAIN arch' = DOMAIN arch \cup {dir[c]}
      BY <1>5, <2>1, <2>3 DEF SetArchive, ArchiveFile
    <3>2. SaveFrame(c)
      BY <3>1 DEF SaveFrame
    <3> QED BY <1>2, <1>3, <3>1, <3>2
  <2> QED BY <2>2, <2>3
<1> QED BY <1>4, <1>5

\* After a prune there are Keep saves, one more when a removal failed, and every process that
\* runs may still make one.
LEMMA PruneBounded ==
  ASSUME BoundInv, TypeOK', Alone', NEW c \in Procs, Prune(c)
  PROVE  SavesBounded'
<1> DEFINE S == DOMAIN arch
           R == {d \in S : ~(Cardinality({e \in S : e > d}) >= Keep)}
           a1 == Cardinality(DOMAIN arch')  b1 == Cardinality(Pending')
           k == Cardinality(Clients)  f1 == failures'
           r == Cardinality(R)
<1>1. /\ IsFiniteSet(S) /\ S \subseteq Nat /\ k \in Nat /\ 1 <= k
      /\ IsFiniteSet(Pending') /\ IsFiniteSet(DOMAIN arch')
  BY FiniteSaves DEF BoundInv
<1>2. r <= Keep
  BY <1>1, LastFew, BoundsAssumption
<1>3. DOMAIN arch \ Obsolete = R
  BY DEF Obsolete
<1>4. \/ DOMAIN arch' = R /\ f1 = failures
      \/ (\E d : DOMAIN arch' = R \cup {d}) /\ f1 = failures + 1
  <2> HIDE DEF R
  <2> QED BY <1>3 DEF Prune, KeepOnly, Fails
<1>5. IsFiniteSet(R)
  <2>1. R \subseteq S
    OBVIOUS
  <2> QED BY <1>1, <2>1, FS_Subset
<1> HIDE DEF R
<1>6. r \in Nat /\ a1 \in Nat /\ b1 \in Nat
  BY <1>1, <1>5, FS_CardinalityType
<1>7. \A d : Cardinality(R \cup {d}) = r \/ Cardinality(R \cup {d}) = r + 1
  BY <1>5, FS_AddElement
<1>8. (a1 = r /\ f1 = failures) \/ ((a1 = r \/ a1 = r + 1) /\ f1 = failures + 1)
  BY Zenon, <1>4, <1>7
<1>9. b1 <= k
  <2>1. pc'[c] = "mkarchive"
    BY DEF Prune, Goto, BoundInv, TypeOK
  <2>2. CASE c \in Clients
    <3>1. pc'[Boot] = "idle"
      BY <2>1, <2>2 DEF Alone
    <3>2. Pending' \subseteq Clients
      BY <3>1 DEF Pending, Procs
    <3> QED BY <3>2, ClientsAssumption, FS_Subset
  <2>3. CASE c = Boot
    <3>1. \A d \in Clients : pc'[d] = "idle"
      BY <2>1, <2>3 DEF Alone
    <3>2. Pending' \subseteq {Boot}
      BY <3>1 DEF Pending, Procs
    <3>3. b1 <= 1
      <4>1. IsFiniteSet({Boot}) /\ Cardinality({Boot}) = 1
        BY FS_Singleton
      <4>2. b1 <= Cardinality({Boot})
        BY <3>2, <4>1, FS_Subset
      <4> QED BY <4>1, <4>2
    <3> HIDE DEF b1, k
    <3> QED BY <1>1, <1>6, <3>3
  <2> QED BY <2>2, <2>3 DEF Procs
<1>10. failures \in Nat
  BY BoundsAssumption DEF BoundInv, TypeOK
<1> HIDE DEF a1, b1, k, f1, r
<1>11. a1 + b1 <= Keep + k + f1
  BY <1>1, <1>2, <1>6, <1>8, <1>9, <1>10, BoundsAssumption
<1> QED BY Zenon, <1>11 DEF SavesBounded, a1, b1, k, f1

\* Every step keeps the bound on the saves.
LEMMA BoundNext == BoundInv /\ [Next]_vars => BoundInv'
<1> SUFFICES ASSUME BoundInv, [Next]_vars PROVE BoundInv'
  OBVIOUS
<1>1. TypeOK /\ TypeOK' /\ Alone /\ SavesBounded
  BY NextType DEF BoundInv
<1>2. ASSUME NEW c \in Procs, Step(c) \/ Request(c) PROVE BoundInv'
  <2>1. Alone'
    BY <1>1, <1>2, RunFrame, RequestFrame, AloneStep
  <2>2. CASE ~Prune(c) /\ ~MakeArchive(c) /\ ~ArchiveFile(c)
    <3>1. SaveFrame(c) /\ arch' = arch /\ pc'[c] \notin {"mkarchive", "archive"}
      BY <1>1, <1>2, <2>2, SavesLeft
    <3>2. Pending' \subseteq Pending
      BY <3>1 DEF Pending, SaveFrame
    <3>3. SavesBounded'
      <4>1. failures' \in {failures, failures + 1} /\ DOMAIN arch' = DOMAIN arch
        BY <3>1 DEF SaveFrame
      <4> QED BY <1>1, <3>2, <4>1, BoundStep
    <3> QED BY <1>1, <2>1, <3>3 DEF BoundInv
  <2>3. CASE Prune(c) \/ MakeArchive(c) \/ ArchiveFile(c)
    BY <1>1, <2>1, <2>3, PruneBounded, ArchiveBounded DEF BoundInv
  <2> QED BY <2>2, <2>3
<1>3. CASE Tick \/ UNCHANGED vars
  <2>1. UNCHANGED <<arch, pc, dir, up, failures>>
    BY <1>3 DEF Tick, vars
  <2> QED BY <1>1, <2>1 DEF BoundInv, Alone, SavesBounded, Pending
<1>4. CASE Crash
  <2>1. Alone'
    BY <1>4 DEF Crash, Alone, Procs
  <2>2. Pending' = {}
    BY <1>4 DEF Crash, Pending
  <2>3. SavesBounded'
    BY <1>1, <1>4, <2>2, BoundStep DEF Crash
  <2> QED BY <1>1, <2>1, <2>3 DEF BoundInv
<1> QED BY <1>2, <1>3, <1>4 DEF Next

\* However many clients roll back at once, and whatever crashes, there are never more rollback
\* saves than Keep, one for each client, and one for each removal that failed.
THEOREM SavesStayBounded == Spec => []ArchiveBound
<1>1. Init => BoundInv
  <2> SUFFICES ASSUME Init PROVE Alone /\ SavesBounded
    BY InitType DEF BoundInv
  <2>1. Alone
    BY DEF Init, Alone, Procs
  <2>2. DOMAIN arch = {} /\ Pending = {} /\ failures = 0
    BY DEF Init, Pending
  <2>3. Cardinality(DOMAIN arch) = 0 /\ Cardinality(Pending) = 0
    BY <2>2, FS_EmptySet
  <2>4. Cardinality(Clients) \in Nat
    BY FiniteSaves
  <2>5. SavesBounded
    BY <2>2, <2>3, <2>4, BoundsAssumption DEF SavesBounded
  <2> QED BY <2>1, <2>5
<1>2. BoundInv => ArchiveBound
  <2> SUFFICES ASSUME BoundInv PROVE ArchiveBound
    OBVIOUS
  <2>1. Cardinality(DOMAIN arch) \in Nat /\ Cardinality(Pending) \in Nat
    BY FiniteSaves, FS_CardinalityType DEF BoundInv
  <2>2. Cardinality(Clients) \in Nat /\ failures \in Nat
    BY FiniteSaves, BoundsAssumption DEF BoundInv, TypeOK
  <2>3. Cardinality(DOMAIN arch) + Cardinality(Pending)
          <= Keep + Cardinality(Clients) + failures
    BY DEF BoundInv, SavesBounded
  <2> QED BY <2>1, <2>2, <2>3, BoundsAssumption DEF ArchiveBound
<1> QED BY <1>1, <1>2, BoundNext, PTL DEF Spec
-----------------------------------------------------------------------------
(***************************************************************************)
(* With one client, no crash and no failing command, the script implements *)
(* AbstractTransaction: its many steps amount to one Begin, one Commit or  *)
(* one Rollback each.                                                      *)
(***************************************************************************)

\* The two variables of AbstractTransaction, as Transaction maps them.
Config == IF \E c \in Procs : Restoring(c) THEN base ELSE conf
Saved == IF snapdir = "dir" /\ ~Saving /\ ~\E c \in Procs : Restoring(c)
         THEN base ELSE Absent

\* What a run of the script finds and leaves in the snapshot directory.
Phase(c) ==
    /\ ret[c] = 0
    /\ pc[c] = "mkdir" => snapdir = "none"
    /\ pc[c] \notin {"idle", "mkdir"} => snapdir = "dir"
    /\ pc[c] = "save" =>
           /\ conf = base /\ todo[c] \subseteq Present(conf)
           /\ \A f \in Files \ todo[c] : snap[f] = base[f]
    /\ pc[c] \in {"prune", "mkarchive", "archive"} => snap = base
    /\ pc[c] \in {"prune", "mkarchive", "archive", "restore", "erase", "refill"} =>
           verb[c] # "commit"
    /\ pc[c] \in {"prune", "mkarchive", "archive"} \/ Restoring(c) => goal[c] = base
    /\ pc[c] = "rmsnap" => Present(snap) \subseteq todo[c]

\* Between runs the snapshot is whole, or there is none.
Settled ==
    /\ snapdir # "file"
    /\ snapdir = "none" => snap = NoFiles
    /\ snapdir = "dir" /\ (\A c \in Procs : pc[c] = "idle") => snap = base

RefInv == IInv /\ up /\ failures = 0 /\ Settled /\ \A c \in Procs : Phase(c)

NoFaults == MaxCrashes = 0 /\ MaxFailures = 0

\* The abstract variables while c is the only process that runs.
ConfigOf(c) == IF Restoring(c) THEN base ELSE conf
SavedOf(c) == IF snapdir = "dir" /\ pc[c] # "save" /\ ~Restoring(c) THEN base ELSE Absent

\* What a step of c amounts to.
Amounts(c) ==
    \/ ConfigOf(c)' = ConfigOf(c) /\ SavedOf(c)' = SavedOf(c)
    \/ /\ SavedOf(c) = Absent
       /\ SavedOf(c)' = ConfigOf(c) /\ ConfigOf(c)' = ConfigOf(c)
    \/ /\ SavedOf(c) # Absent
       /\ SavedOf(c)' = Absent /\ ConfigOf(c)' = ConfigOf(c)
    \/ /\ SavedOf(c) # Absent
       /\ SavedOf(c)' = Absent /\ ConfigOf(c)' = SavedOf(c)
    \/ /\ \E f \in Files, x \in Contents \cup {Absent} :
             ConfigOf(c)' = [ConfigOf(c) EXCEPT ![f] = x]
       /\ SavedOf(c)' = SavedOf(c)

\* What a step of c leaves.
Leaves(c) ==
    /\ up' /\ failures' = 0
    /\ snapdir' # "file"
    /\ snapdir' = "none" => snap' = NoFiles
    /\ snapdir' = "dir" /\ pc'[c] = "idle" => snap' = base'
    /\ Phase(c)'

-----------------------------------------------------------------------------
\* No command fails.
LEMMA NothingFails ==
  ASSUME RefInv, NoFaults
  PROVE  ~Fails /\ \A c : ~Abort(c)
<1>1. ~Fails
  BY DEF RefInv, NoFaults, Fails
<1> QED BY <1>1 DEF Abort

\* Only the client runs, and alone.
LEMMA OnlyClient ==
  ASSUME RefInv, OneClient, NEW c \in Procs, StepFrame(c)
  PROVE  /\ c # Boot
         /\ \A d \in Procs \ {c} : pc[d] = "idle" /\ pc'[d] = "idle" /\ ret'[d] = 0
<1>1. TypeOK /\ Alone /\ up
  BY DEF RefInv, IInv
<1>2. \A d \in Procs \ {c} : pc[d] = "idle"
  BY <1>1, OthersIdle DEF StepFrame
<1>3. \A d \in Procs \ {c} : pc'[d] = pc[d] /\ ret'[d] = ret[d] /\ ret[d] = 0
  BY <1>1 DEF StepFrame, TypeOK, RefInv, Phase
<1>4. c # Boot
  BY <1>1 DEF StepFrame, Alone, MayRun
<1> QED BY <1>2, <1>3, <1>4

\* With one client the mapping follows that client's place in the script.
LEMMA OnlyClientMaps ==
  ASSUME NEW c \in Procs, \A d \in Procs \ {c} : pc[d] = "idle" /\ pc'[d] = "idle"
  PROVE  /\ Config = ConfigOf(c) /\ Saved = SavedOf(c)
         /\ Config' = ConfigOf(c)' /\ Saved' = SavedOf(c)'
<1>1. \A d \in Procs \ {c} : ~Restoring(d) /\ ~Restoring(d)'
  BY DEF Restoring
<1>2. (\E d \in Procs : Restoring(d)) <=> Restoring(c)
  BY <1>1
<1>3. (\E d \in Procs : Restoring(d)') <=> Restoring(c)'
  BY <1>1
<1>4. (Saving <=> pc[c] = "save") /\ (Saving' <=> pc'[c] = "save")
  BY DEF Saving
<1>5. Config = ConfigOf(c) /\ Saved = SavedOf(c)
  BY <1>2, <1>4 DEF Config, Saved, ConfigOf, SavedOf
<1>6. Config' = ConfigOf(c)' /\ Saved' = SavedOf(c)'
  BY <1>3, <1>4 DEF Config, Saved, ConfigOf, SavedOf
<1> QED BY <1>5, <1>6

\* The invariant after a step of c.
LEMMA LeavesInv ==
  ASSUME RefInv, IInv', OneClient, NEW c \in Procs, StepFrame(c), Leaves(c)
  PROVE  RefInv'
<1>1. \A d \in Procs \ {c} : pc'[d] = "idle" /\ ret'[d] = 0
  BY OnlyClient
<1>2. \A d \in Procs \ {c} : Phase(d)'
  BY <1>1 DEF Phase, Restoring
<1>3. Settled'
  BY DEF Leaves, Settled
<1> QED BY <1>2, <1>3 DEF RefInv, Leaves

\* A step amounts to a step of AbstractTransaction.
LEMMA AmountsToStep ==
  ASSUME NEW c \in Procs, \A d \in Procs \ {c} : pc[d] = "idle" /\ pc'[d] = "idle", Amounts(c)
  PROVE  [Abstract!Next]_<<Config, Saved>>
<1>1. /\ Config = ConfigOf(c) /\ Saved = SavedOf(c)
      /\ Config' = ConfigOf(c)' /\ Saved' = SavedOf(c)'
  BY OnlyClientMaps
<1>2. \/ Config' = Config /\ Saved' = Saved
      \/ Saved = Absent /\ Saved' = Config /\ Config' = Config
      \/ Saved # Absent /\ Saved' = Absent /\ Config' = Config
      \/ Saved # Absent /\ Saved' = Absent /\ Config' = Saved
      \/ /\ \E f \in Files, x \in Contents \cup {Absent} : Config' = [Config EXCEPT ![f] = x]
         /\ Saved' = Saved
  BY Zenon, <1>1 DEF Amounts
<1> QED BY <1>2 DEF Abstract!Next, Abstract!Edit, Abstract!Begin, Abstract!Commit,
                    Abstract!Rollback, Config, Saved

-----------------------------------------------------------------------------
\* A call that the script refuses does nothing.
LEMMA Refused ==
  ASSUME RefInv, NEW c \in Procs, NEW v, NEW s, Exit(c, v, s), pc[c] = "idle",
         \A d \in Procs \ {c} : pc[d] = "idle",
         UNCHANGED <<conf, snapdir, snap, failures, base>>
  PROVE  Leaves(c) /\ Amounts(c)
<1>1. TypeOK /\ up /\ failures = 0 /\ Settled
  BY DEF RefInv, IInv
<1>2. pc'[c] = "idle" /\ ret'[c] = 0 /\ up'
  BY <1>1 DEF Exit, Goto, TypeOK
<1>3. snapdir = "dir" => snap = base
  BY <1>1 DEF Settled
<1>4. Leaves(c)
  BY <1>1, <1>2, <1>3 DEF Leaves, Settled, Phase, Restoring
<1>5. Amounts(c)
  BY <1>2 DEF Amounts, ConfigOf, SavedOf, Restoring
<1> QED BY <1>4, <1>5

\* A call that goes on has done nothing yet.
LEMMA RequestRefines ==
  ASSUME RefInv, OneClient, NEW c \in Procs, Request(c)
  PROVE  Leaves(c) /\ Amounts(c)
<1>1. TypeOK /\ up /\ failures = 0 /\ Settled /\ Phase(c) /\ ProcInv(c)
  BY DEF RefInv, IInv
<1>2. StepFrame(c)
  BY <1>1, RequestFrame
<1>3. pc[c] = "idle"
  BY DEF Request, ChangeBegin, ChangeCommit, ChangeRollback, Edit, Call, MayRun
<1>4. \A d \in Procs \ {c} : pc[d] = "idle"
  BY <1>2, OnlyClient
<1>5. snapdir = "dir" => snap = base
  BY <1>1, <1>3, <1>4 DEF Settled
<1>6. ret[c] = 0
  BY <1>1 DEF Phase
<1>7. CASE ChangeBegin(c)
  <2>1. CASE snapdir = "none"
    <3>1. /\ pc'[c] = "mkdir" /\ UNCHANGED <<conf, snapdir, snap, base, ret, up, failures>>
      BY <1>1, <1>7, <2>1 DEF ChangeBegin, Call, Goto, TypeOK
    <3>2. Leaves(c)
      BY <1>1, <1>6, <2>1, <3>1 DEF Leaves, Settled, Phase, Restoring
    <3>3. Amounts(c)
      BY <1>3, <3>1 DEF Amounts, ConfigOf, SavedOf, Restoring
    <3> QED BY <3>2, <3>3
  <2>2. CASE snapdir # "none"
    BY <1>3, <1>4, <1>7, <2>2, Refused DEF ChangeBegin
  <2> QED BY <2>1, <2>2
<1>8. CASE ChangeCommit(c)
  <2>1. CASE snapdir = "dir"
    <3>1. /\ pc'[c] = "rmsnap" /\ verb'[c] = "commit" /\ todo'[c] = Present(snap)
          /\ UNCHANGED <<conf, snapdir, snap, base, ret, up, failures>>
      BY <1>1, <1>8, <2>1 DEF ChangeCommit, Call, Goto, TypeOK
    <3>2. Leaves(c)
      BY <1>1, <1>6, <2>1, <3>1 DEF Leaves, Settled, Phase, Restoring, Present
    <3>3. Amounts(c)
      BY <1>3, <3>1 DEF Amounts, ConfigOf, SavedOf, Restoring
    <3> QED BY <3>2, <3>3
  <2>2. CASE snapdir # "dir"
    BY <1>3, <1>4, <1>8, <2>2, Refused DEF ChangeCommit
  <2> QED BY <2>1, <2>2
<1>9. ASSUME NEW v \in {"rollback", "start"}, ChangeRollback(c, v)
      PROVE  Leaves(c) /\ Amounts(c)
  <2>1. CASE snapdir = "dir"
    <3>1. /\ pc'[c] = "prune" /\ verb'[c] = v /\ goal'[c] = snap
          /\ UNCHANGED <<conf, snapdir, snap, base, ret, up, failures>>
      BY <1>1, <1>9, <2>1 DEF ChangeRollback, Call, Goto, TypeOK
    <3>2. Leaves(c)
      BY <1>1, <1>5, <1>6, <2>1, <3>1 DEF Leaves, Settled, Phase, Restoring
    <3>3. Amounts(c)
      BY <1>3, <3>1 DEF Amounts, ConfigOf, SavedOf, Restoring
    <3> QED BY <3>2, <3>3
  <2>2. CASE snapdir # "dir"
    BY <1>3, <1>4, <1>9, <2>2, Refused DEF ChangeRollback
  <2> QED BY <2>1, <2>2
<1>10. CASE Edit(c)
  <2>1. PICK f \in Files, x \in Contents \cup {Absent} : conf' = [conf EXCEPT ![f] = x]
    BY <1>10 DEF Edit
  <2>2. UNCHANGED <<snapdir, snap, base, ret, up, failures, pc>>
    BY <1>10 DEF Edit
  <2>3. Leaves(c)
    BY <1>1, <1>3, <1>5, <1>6, <2>2 DEF Leaves, Settled, Phase, Restoring
  <2>4. Amounts(c)
    <3>1. ConfigOf(c) = conf /\ ConfigOf(c)' = conf' /\ SavedOf(c)' = SavedOf(c)
      BY <1>3, <2>2 DEF ConfigOf, SavedOf, Restoring
    <3> QED BY <2>1, <3>1 DEF Amounts
  <2> QED BY <2>3, <2>4
<1> QED BY <1>7, <1>8, <1>9, <1>10 DEF Request

\* change_begin: the snapshot is whole when the date file is written.
LEMMA BeginRefines ==
  ASSUME RefInv, NoFaults, NEW c \in Procs,
         MakeSnapshotDir(c) \/ SaveFile(c) \/ WriteDate(c)
  PROVE  Leaves(c) /\ Amounts(c)
<1>1. TypeOK /\ up /\ failures = 0 /\ Settled /\ Phase(c)
  BY DEF RefInv, IInv
<1>2. ~Abort(c)
  BY NothingFails
<1>3. CASE MakeSnapshotDir(c)
  <2>1. snapdir = "none" /\ snap = NoFiles /\ ret[c] = 0 /\ pc[c] = "mkdir"
    BY <1>1, <1>3 DEF MakeSnapshotDir, Phase, Settled
  <2>2. /\ snapdir' = "dir" /\ base' = conf /\ pc'[c] = "save" /\ todo'[c] = Present(conf)
        /\ UNCHANGED <<conf, snap, ret, up, failures>>
    BY <1>1, <1>2, <1>3, <2>1 DEF MakeSnapshotDir, Loop, Goto, TypeOK
  <2>3. \A f \in Files \ Present(conf) : NoFiles[f] = conf[f]
    BY DEF Present, NoFiles
  <2>4. Leaves(c)
    BY <1>1, <2>1, <2>2, <2>3 DEF Leaves, Phase, Restoring
  <2>5. Amounts(c)
    BY <2>1, <2>2 DEF Amounts, ConfigOf, SavedOf, Restoring
  <2> QED BY <2>4, <2>5
<1>4. CASE SaveFile(c)
  <2>1. PICK f \in todo[c] : SaveFile(c)!2!(f)
    BY <1>4 DEF SaveFile
  <2>2. /\ pc[c] = "save" /\ snapdir = "dir" /\ ret[c] = 0 /\ conf = base
        /\ \A g \in Files \ todo[c] : snap[g] = base[g]
        /\ todo[c] \subseteq Present(conf) /\ todo[c] \subseteq Files /\ snap \in Dir /\ conf \in Dir
    BY <1>1, <1>4 DEF SaveFile, Phase, TypeOK
  <2>3. /\ UNCHANGED <<conf, base, pc, ret, up, failures>> /\ todo'[c] = todo[c] \ {f}
    BY <1>1, <1>2, <1>4, <2>1 DEF SaveFile, Continue, TypeOK
  <2>4. snapdir' = "dir" /\ snap' \in {snap, [snap EXCEPT ![f] = conf[f]]}
        /\ (conf[f] # Absent => snap' = [snap EXCEPT ![f] = conf[f]])
    BY <1>2, <2>1, <2>2 DEF CopyToSnapshot
  <2>5. \A g \in Files \ {f} : snap'[g] = snap[g]
    BY <2>2, <2>4 DEF Dir
  <2>6. snap'[f] = base[f]
    BY <2>2, <2>4 DEF Present, Dir
  <2>7. Leaves(c)
    BY <1>1, <2>2, <2>3, <2>4, <2>5, <2>6 DEF Leaves, Phase, Restoring
  <2>8. Amounts(c)
    BY <2>2, <2>3, <2>4 DEF Amounts, ConfigOf, SavedOf, Restoring
  <2> QED BY <2>7, <2>8
<1>5. CASE WriteDate(c)
  <2>1. /\ pc[c] = "save" /\ snapdir = "dir" /\ ret[c] = 0 /\ conf = base
        /\ \A g \in Files : snap[g] = base[g]
        /\ snap \in Dir /\ base \in Dir
    BY <1>1, <1>5 DEF WriteDate, Phase, TypeOK
  <2>2. snap = base
    BY <2>1 DEF Dir
  <2>3. /\ UNCHANGED <<conf, snapdir, snap, base, failures>>
        /\ pc'[c] = "idle" /\ ret'[c] = 0 /\ up'
    BY <1>1, <1>2, <1>5, <2>1 DEF WriteDate, Exit, Goto, TypeOK
  <2>4. Leaves(c)
    BY <1>1, <2>1, <2>2, <2>3 DEF Leaves, Phase, Restoring
  <2>5. Amounts(c)
    BY <2>1, <2>3 DEF Amounts, ConfigOf, SavedOf, Restoring
  <2> QED BY <2>4, <2>5
<1> QED BY <1>3, <1>4, <1>5

\* Until the restore loops start, change_rollback changes neither the configuration
\* nor the snapshot; when they start, the abstract rollback happens.
LEMMA ArchiveRefines ==
  ASSUME RefInv, NoFaults, NEW c \in Procs,
         Prune(c) \/ MakeArchive(c) \/ ArchiveFile(c) \/ ArchiveDone(c)
  PROVE  Leaves(c) /\ Amounts(c)
<1>1. TypeOK /\ up /\ failures = 0 /\ Settled /\ Phase(c)
  BY DEF RefInv, IInv
<1>2. ~Abort(c) /\ ~Fails
  BY NothingFails
<1>3. pc[c] \in {"prune", "mkarchive", "archive"}
  BY DEF Prune, MakeArchive, ArchiveFile, ArchiveDone
<1>4. /\ snapdir = "dir" /\ snap = base /\ ret[c] = 0 /\ verb[c] # "commit"
      /\ goal[c] = base
  BY <1>1, <1>3 DEF Phase
<1>5. UNCHANGED <<conf, snapdir, snap, base, ret, up, failures, verb, goal>>
  BY <1>2 DEF Prune, MakeArchive, ArchiveFile, ArchiveDone
<1>6. pc'[c] \in {"mkarchive", "archive", "restore"}
  BY <1>1, <1>2, <1>3 DEF Prune, MakeArchive, ArchiveFile, ArchiveDone, Loop, Goto, TypeOK
<1>7. Leaves(c)
  BY <1>1, <1>4, <1>5, <1>6 DEF Leaves, Phase, Restoring
<1>8. CASE pc'[c] # "restore"
  BY <1>3, <1>4, <1>5, <1>6, <1>7, <1>8 DEF Amounts, ConfigOf, SavedOf, Restoring
<1>9. CASE pc'[c] = "restore"
  <2>1. SavedOf(c) = base /\ SavedOf(c)' = Absent /\ ConfigOf(c)' = base
    BY <1>3, <1>4, <1>5, <1>9 DEF ConfigOf, SavedOf, Restoring
  <2>2. base # Absent
    BY <1>1, DirAssumption DEF TypeOK
  <2> QED BY <1>7, <2>1, <2>2 DEF Amounts
<1> QED BY <1>7, <1>8, <1>9

\* The loops of the restore are inside the abstract rollback.
LEMMA RestoreRefines ==
  ASSUME RefInv, NoFaults, NEW c \in Procs,
         \/ CopyBack(c) \/ EraseCopy(c) \/ RemoveNew(c)
         \/ RestoreDone(c) \/ RefillFile(c) \/ RefillDone(c)
  PROVE  Leaves(c) /\ Amounts(c)
<1>1. TypeOK /\ up /\ failures = 0 /\ Settled /\ Phase(c)
  BY DEF RefInv, IInv
<1>2. ~Abort(c) /\ ~Fails
  BY NothingFails
<1>3. pc[c] \in {"restore", "erase", "refill"}
  BY DEF CopyBack, EraseCopy, RemoveNew, RestoreDone, RefillFile, RefillDone
<1>4. snapdir = "dir" /\ ret[c] = 0 /\ verb[c] # "commit" /\ goal[c] = base
  BY <1>1, <1>3 DEF Phase, Restoring
<1>5. UNCHANGED <<snapdir, base, ret, up, failures, verb, goal>>
  BY <1>2 DEF CopyBack, EraseCopy, RemoveNew, RestoreDone, RefillFile, RefillDone
<1>6. \/ pc'[c] \in {"restore", "erase", "refill"}
      \/ pc'[c] = "rmsnap" /\ todo'[c] = Present(snap) /\ snap' = snap
  BY <1>1, <1>2, <1>3
     DEF CopyBack, EraseCopy, RemoveNew, RestoreDone, RefillFile, RefillDone, Loop, Goto, TypeOK
<1>7. Restoring(c) /\ Restoring(c)'
  BY <1>3, <1>4, <1>5, <1>6 DEF Restoring
<1>8. Present(snap)' = Present(snap')
  BY DEF Present
<1>9. Leaves(c)
  BY <1>1, <1>4, <1>5, <1>6, <1>7, <1>8 DEF Leaves, Phase
<1>10. Amounts(c)
  BY <1>5, <1>7 DEF Amounts, ConfigOf, SavedOf
<1> QED BY <1>9, <1>10

\* rm -rf "$snapshotdir": a commit takes effect when the directory goes.
LEMMA RemoveRefines ==
  ASSUME RefInv, NoFaults, NEW c \in Procs, UnlinkCopy(c) \/ RemoveSnapshotDir(c)
  PROVE  Leaves(c) /\ Amounts(c)
<1>1. TypeOK /\ up /\ failures = 0 /\ Settled /\ Phase(c) /\ RemovePart(c)
  BY DEF RefInv, IInv, ProcInv
<1>2. ~Fails
  BY NothingFails
<1>3. pc[c] = "rmsnap"
  BY DEF UnlinkCopy, RemoveSnapshotDir
<1>4. snapdir = "dir" /\ ret[c] = 0 /\ Present(snap) \subseteq todo[c]
  BY <1>1, <1>3 DEF Phase
<1>5. CASE UnlinkCopy(c)
  <2>1. PICK f \in todo[c] : snap' = [snap EXCEPT ![f] = Absent] /\ Continue(c, f)
    BY <1>2, <1>5 DEF UnlinkCopy
  <2>2. UNCHANGED <<conf, snapdir, base, ret, up, pc, verb, goal>> /\ failures' = failures
    BY <1>2, <1>5 DEF UnlinkCopy
  <2>3. todo'[c] = todo[c] \ {f} /\ snap \in Dir /\ f \in Files
    BY <1>1, <2>1 DEF Continue, TypeOK
  <2>4. Present(snap)' \subseteq todo'[c]
    BY <1>4, <2>1, <2>3 DEF Present, Dir
  <2>5. Leaves(c)
    BY <1>1, <1>3, <1>4, <2>2, <2>4 DEF Leaves, Phase, Restoring
  <2>6. Amounts(c)
    BY <2>2 DEF Amounts, ConfigOf, SavedOf, Restoring
  <2> QED BY <2>5, <2>6
<1>6. CASE RemoveSnapshotDir(c)
  <2>1. Present(snap) = {} /\ snap \in Dir
    BY <1>1, <1>4, <1>6 DEF RemoveSnapshotDir, TypeOK
  <2>2. snap = NoFiles
    BY <2>1 DEF Present, Dir, NoFiles
  <2>3. /\ UNCHANGED <<conf, snap, failures>> /\ snapdir' = "none" /\ pc'[c] = "idle"
        /\ ret'[c] = 0 /\ up'
    BY <1>1, <1>2, <1>6, <2>2 DEF RemoveSnapshotDir, Exit, Goto, TypeOK
  <2>4. Leaves(c)
    BY <1>1, <2>2, <2>3 DEF Leaves, Phase, Restoring
  <2>5. SavedOf(c)' = Absent /\ ConfigOf(c)' = conf
    BY <2>3 DEF SavedOf, ConfigOf, Restoring
  <2>6. CASE verb[c] = "commit"
    <3>1. SavedOf(c) = base /\ ConfigOf(c) = conf
      BY <1>3, <1>4, <2>6 DEF SavedOf, ConfigOf, Restoring
    <3>2. base # Absent
      BY <1>1, DirAssumption DEF TypeOK
    <3> QED BY <2>4, <2>5, <3>1, <3>2 DEF Amounts
  <2>7. CASE verb[c] # "commit"
    <3>1. Restoring(c)
      BY <1>3, <2>7 DEF Restoring
    <3>2. goal[c] = base /\ conf = goal[c]
      BY <1>1, <1>3, <1>4, <2>7, <3>1 DEF Phase, RemovePart
    <3>3. SavedOf(c) = Absent /\ ConfigOf(c) = base
      BY <3>1 DEF SavedOf, ConfigOf
    <3> QED BY <2>4, <2>5, <3>2, <3>3 DEF Amounts
  <2> QED BY <2>6, <2>7
<1> QED BY <1>5, <1>6

-----------------------------------------------------------------------------
\* The initial states are initial states of AbstractTransaction.
LEMMA InitRefines == Init => RefInv /\ Abstract!Init
<1> SUFFICES ASSUME Init PROVE RefInv /\ Abstract!Init
  OBVIOUS
<1>1. IInv
  BY InitInv
<1>2. Settled /\ up /\ failures = 0
  BY DEF Init, Settled
<1>3. \A c \in Procs : Phase(c)
  BY DEF Init, Phase, Restoring
<1>4. Abstract!Init
  BY DEF Init, Abstract!Init, Abstract!Configs, Restoring, Saving
<1> QED BY <1>1, <1>2, <1>3, <1>4 DEF RefInv

\* Every step amounts to a step of AbstractTransaction or to none.
LEMMA NextRefines ==
  ASSUME OneClient, NoFaults, RefInv, [Next]_vars
  PROVE  RefInv' /\ [Abstract!Next]_<<Config, Saved>>
<1>1. TypeOK /\ IInv
  BY DEF RefInv, IInv
<1>2. IInv'
  BY <1>1, NextInv
<1>3. ASSUME NEW c \in Procs, Step(c) \/ Request(c)
      PROVE  RefInv' /\ [Abstract!Next]_<<Config, Saved>>
  <2>1. Leaves(c) /\ Amounts(c)
    BY <1>3, RequestRefines, BeginRefines, ArchiveRefines, RestoreRefines, RemoveRefines DEF Step
  <2>2. StepFrame(c)
    BY <1>1, <1>3, RequestFrame, RunFrame
  <2>3. \A d \in Procs \ {c} : pc[d] = "idle" /\ pc'[d] = "idle"
    BY <2>2, OnlyClient
  <2>4. RefInv'
    BY <1>2, <2>1, <2>2, LeavesInv
  <2> QED BY <2>1, <2>3, <2>4, AmountsToStep
<1>4. CASE Tick \/ UNCHANGED vars
  <2>1. UNCHANGED <<conf, snapdir, snap, up, pc, verb, todo, ret, failures, base, goal>>
    BY <1>4 DEF Tick, vars
  <2>2. RefInv'
    BY <1>2, <2>1 DEF RefInv, Settled, Phase, Restoring, Present
  <2>3. Config' = Config /\ Saved' = Saved
    BY <2>1 DEF Config, Saved, Restoring, Saving
  <2> QED BY <2>2, <2>3
<1>5. ~Crash
  BY <1>1 DEF Crash, NoFaults, TypeOK
<1> QED BY <1>3, <1>4, <1>5 DEF Next

\* With one client, no crash and no failing command, ncf_change_begin, _commit and
\* _rollback are the atomic operations of AbstractTransaction, whatever the files,
\* their contents, and the edits between the calls.
THEOREM Refinement == ASSUME OneClient, NoFaults PROVE Spec => RefinesAbstract
<1>1. RefInv /\ [Next]_vars => RefInv' /\ [Abstract!Next]_<<Config, Saved>>
  BY NextRefines
<1>2. Init => RefInv /\ Abstract!Init
  BY InitRefines
<1> QED BY <1>1, <1>2, PTL DEF Spec, RefinesAbstract, Abstract!Spec, Config, Saved
=============================================================================
