---------------------------- MODULE Transaction ----------------------------
(***************************************************************************)
(* The transaction script netcf-transaction (netcf-transaction.init.sh)    *)
(* and the processes that run it: the callers of ncf_change_begin,         *)
(* ncf_change_commit and ncf_change_rollback, and init at boot.            *)
(*                                                                         *)
(* The script keeps all its state in the file system, takes no lock, and   *)
(* works file by file, so every copy, removal and directory operation is a *)
(* step of its own: another process, a failing cp or rm, or a crash of the *)
(* machine can fall between any two of them.  Only the pruning of old      *)
(* rollback saves is one step.                                             *)
(*                                                                         *)
(* A configuration file (ifcfg-, route-, rule-) is a number, its place in  *)
(* the order in which the shell expands the globs.  A file that is not     *)
(* there has content Absent; one that a cp began and did not finish has    *)
(* content Torn.  The date file in the snapshot is not kept: the script    *)
(* only echoes it.                                                         *)
(***************************************************************************)
EXTENDS Integers, FiniteSets

CONSTANTS
    Files,          \* the names that match the globs of the script
    Contents,       \* what a whole configuration file can hold
    Absent,         \* "there is no such file"
    Torn,           \* what a cp leaves that did not finish
    Clients,        \* processes that call the netcf API
    Boot,           \* init, which runs "netcf-transaction start" at boot
    Keep,           \* how many rollback saves survive pruning (20 in the code)
    MaxClock,       \* bound: seconds that pass
    MaxCrashes,     \* bound: crashes of the machine
    MaxFailures     \* bound: commands of the script that fail

ASSUME FilesAssumption == Files \subseteq Nat /\ IsFiniteSet(Files)
ASSUME ContentsAssumption == Absent \notin Contents /\ Torn \notin Contents /\ Absent # Torn
ASSUME BootAssumption == Boot \notin Clients
ASSUME ClientsAssumption == IsFiniteSet(Clients) /\ Clients # {}
ASSUME BoundsAssumption ==
    Keep \in Nat /\ MaxClock \in Nat /\ MaxCrashes \in Nat /\ MaxFailures \in Nat

Procs == Clients \cup {Boot}
Stamps == 0..MaxClock

\* The configuration files of a directory.
Dir == [Files -> Contents \cup {Absent, Torn}]
NoFiles == [f \in Files |-> Absent]

\* There is a directory, or there is none.
ASSUME DirAssumption == Absent \notin Dir

Present(d) == {f \in Files : d[f] # Absent}

\* EINVALID_IN_THIS_STATE
EINVALID == 199

VARIABLES
    conf,       \* $netconfdir: the network configuration
    snapdir,    \* what $snapshotdir is: "none", "dir" or (a plain) "file"
    snap,       \* the configuration files in $snapshotdir
    arch,       \* $rollbackdirbase-*: a function from time stamps to Dir
    clock,      \* the time, in seconds, as date prints it
    up,         \* TRUE once init has let the clients run
    pc,         \* where each process is in the script, or "idle"
    verb,       \* the script's argument, "none" outside it
    todo,       \* what is left of the expanded glob of the current loop
    dir,        \* $rollbackdir, as its time stamp
    ret,        \* $rollback_ret
    result,     \* exit status of each process' last run of the script
    crashes,    \* crashes so far
    failures,   \* failed commands so far
    base,       \* history: the configuration when the snapshot directory was made
    begun,      \* history: that begin has exited 0, and no commit since
    goal        \* history: what the snapshot held when a rollback started

vars == <<conf, snapdir, snap, arch, clock, up, pc, verb, todo, dir, ret,
          result, crashes, failures, base, begun, goal>>

Labels == {"idle", "mkdir", "save", "prune", "mkarchive", "archive",
           "restore", "erase", "refill", "rmsnap"}
Verbs == {"none", "begin", "commit", "rollback", "start"}

TypeOK ==
    /\ conf \in Dir /\ snap \in Dir
    /\ snapdir \in {"none", "dir", "file"}
    /\ DOMAIN arch \subseteq Stamps /\ arch \in [DOMAIN arch -> Dir]
    /\ clock \in Stamps
    /\ up \in BOOLEAN
    /\ pc \in [Procs -> Labels]
    /\ verb \in [Procs -> Verbs]
    /\ todo \in [Procs -> SUBSET Files]
    /\ dir \in [Procs -> Stamps]
    /\ ret \in [Procs -> {0, 1}]
    /\ result \in [Procs -> {0, 1, EINVALID}]
    /\ crashes \in 0..MaxCrashes /\ failures \in 0..MaxFailures
    /\ base \in Dir /\ begun \in BOOLEAN
    /\ goal \in [Procs -> Dir]

Init ==
    /\ conf \in [Files -> Contents \cup {Absent}]
    /\ snapdir = "none" /\ snap = NoFiles
    /\ arch = [d \in {} |-> NoFiles]
    /\ clock = 0
    /\ up = TRUE
    /\ pc = [c \in Procs |-> "idle"]
    /\ verb = [c \in Procs |-> "none"]
    /\ todo = [c \in Procs |-> {}]
    /\ dir = [c \in Procs |-> 0]
    /\ ret = [c \in Procs |-> 0]
    /\ result = [c \in Procs |-> 0]
    /\ crashes = 0 /\ failures = 0
    /\ base = NoFiles /\ begun = FALSE
    /\ goal = [c \in Procs |-> NoFiles]

-----------------------------------------------------------------------------
(***************************************************************************)
(* Steps of the shell.                                                     *)
(***************************************************************************)

\* A client runs once the machine is up, init before.
MayRun(c) == pc[c] = "idle" /\ (up <=> c # Boot)

\* f is the next word of the expanded glob (the shell sorts it).
IsNext(f, c) == f \in todo[c] /\ \A g \in todo[c] : f <= g

\* One more command fails.
Fails == failures < MaxFailures /\ failures' = failures + 1

\* A cp that fails leaves its target as it was or truncated.
FailedCopy(d, f) == {d, [d EXCEPT ![f] = Torn]}

\* cp -f may have removed its target before.
FailedForcedCopy(d, f) == FailedCopy(d, f) \cup {[d EXCEPT ![f] = Absent]}

Goto(c, label) == pc' = [pc EXCEPT ![c] = label]

\* The current loop goes on after f.
Continue(c, f) == todo' = [todo EXCEPT ![c] = @ \ {f}]

\* Enter a loop over the files that are now in d.
Loop(c, label, d) == Goto(c, label) /\ todo' = [todo EXCEPT ![c] = Present(d)]

\* The script is called with argument v and goes on at a label.
Call(c, v, label) ==
    /\ MayRun(c)
    /\ Goto(c, label)
    /\ verb' = [verb EXCEPT ![c] = v]

\* The status with which the script exits: the function's own, except that start
\* and its synonyms test $retval, still 0, and then assign the status of that test.
ExitStatus(v, status) == IF v = "start" THEN 0 ELSE status

\* The script ends and its shell variables with it.  When init's run is over the
\* clients start.
Exit(c, v, status) ==
    /\ Goto(c, "idle")
    /\ result' = [result EXCEPT ![c] = ExitStatus(v, status)]
    /\ verb' = [verb EXCEPT ![c] = "none"]
    /\ todo' = [todo EXCEPT ![c] = {}]
    /\ dir' = [dir EXCEPT ![c] = 0]
    /\ ret' = [ret EXCEPT ![c] = 0]
    /\ goal' = [goal EXCEPT ![c] = NoFiles]
    /\ up' = (up \/ c = Boot)

\* A command whose failure ends the script with status 1.
Abort(c) == Fails /\ Exit(c, verb[c], 1)

-----------------------------------------------------------------------------
(***************************************************************************)
(* change_begin                                                            *)
(***************************************************************************)
ChangeBegin(c) ==
    /\ c # Boot
    /\ \/ /\ snapdir = "none"
          /\ Call(c, "begin", "mkdir")
          /\ UNCHANGED <<todo, dir, ret, result, goal, up>>
       \/ /\ snapdir # "none"
          /\ MayRun(c)
          /\ Exit(c, "begin", EINVALID)
    /\ UNCHANGED <<conf, snapdir, snap, arch, clock, crashes, failures, base, begun>>

\* mkdir -p accepts a directory that exists, but not a plain file.
MakeSnapshotDir(c) ==
    /\ pc[c] = "mkdir"
    /\ \/ /\ snapdir # "file"
          /\ snapdir' = "dir"
          /\ base' = conf /\ begun' = FALSE
          /\ Loop(c, "save", conf)
          /\ UNCHANGED <<verb, dir, ret, result, goal, up, failures>>
       \/ /\ snapdir = "file"
          /\ Exit(c, "begin", 1)
          /\ UNCHANGED <<snapdir, base, begun, failures>>
       \/ /\ Abort(c)
          /\ UNCHANGED <<snapdir, base, begun>>
    /\ UNCHANGED <<conf, snap, arch, clock, crashes>>

\* cp -p "$f" "$snapshotdir": when the directory is gone by now, the copy becomes
\* a plain file of that name.
CopyToSnapshot(f) ==
    IF snapdir = "dir" THEN snap' = [snap EXCEPT ![f] = conf[f]] /\ UNCHANGED snapdir
                       ELSE snapdir' = "file" /\ UNCHANGED snap

SaveFile(c) ==
    /\ pc[c] = "save"
    /\ \E f \in todo[c] :
        /\ IsNext(f, c)
        /\ \/ /\ conf[f] = Absent
              /\ Continue(c, f)
              /\ UNCHANGED <<snapdir, snap, pc, verb, dir, ret, result, goal, up, failures>>
           \/ /\ conf[f] # Absent
              /\ CopyToSnapshot(f)
              /\ Continue(c, f)
              /\ UNCHANGED <<pc, verb, dir, ret, result, goal, up, failures>>
           \/ /\ conf[f] # Absent
              /\ snap' \in IF snapdir = "dir" THEN FailedCopy(snap, f) ELSE {snap}
              /\ snapdir' \in IF snapdir = "dir" THEN {"dir"} ELSE {snapdir, "file"}
              /\ Abort(c)
    /\ UNCHANGED <<conf, arch, clock, crashes, base, begun>>

\* The date file: the status of its redirection is the function's.
WriteDate(c) ==
    /\ pc[c] = "save" /\ todo[c] = {}
    /\ \/ /\ snapdir = "dir"
          /\ Exit(c, "begin", 0)
          /\ begun' = TRUE
          /\ UNCHANGED failures
       \/ /\ snapdir # "dir"
          /\ Exit(c, "begin", 1)
          /\ UNCHANGED <<begun, failures>>
       \/ /\ Abort(c)
          /\ UNCHANGED begun
    /\ UNCHANGED <<conf, snapdir, snap, arch, clock, crashes, base>>

-----------------------------------------------------------------------------
(***************************************************************************)
(* change_commit: its test; the rm -rf is shared with change_rollback.     *)
(***************************************************************************)
ChangeCommit(c) ==
    /\ c # Boot
    /\ \/ /\ snapdir = "dir"
          /\ Call(c, "commit", "rmsnap")
          /\ todo' = [todo EXCEPT ![c] = Present(snap)]
          /\ UNCHANGED <<dir, ret, result, goal, up>>
       \/ /\ snapdir # "dir"
          /\ MayRun(c)
          /\ Exit(c, "commit", EINVALID)
    /\ UNCHANGED <<conf, snapdir, snap, arch, clock, crashes, failures, base, begun>>

-----------------------------------------------------------------------------
(***************************************************************************)
(* change_rollback, as change-rollback or as start                         *)
(***************************************************************************)
ChangeRollback(c, v) ==
    /\ c = Boot => v = "start"
    /\ \/ /\ snapdir = "dir"
          /\ Call(c, v, "prune")
          /\ goal' = [goal EXCEPT ![c] = snap]
          /\ UNCHANGED <<todo, dir, ret, result, up>>
       \/ /\ snapdir # "dir"
          /\ MayRun(c)
          /\ Exit(c, v, EINVALID)
    /\ UNCHANGED <<conf, snapdir, snap, arch, clock, crashes, failures, base, begun>>

\* Mutant of Obsolete: one save too many survives (tail instead of head's count).
ObsoleteKeepsOneMore ==
    {d \in DOMAIN arch : Cardinality({e \in DOMAIN arch : e > d}) > Keep}

\* head -n -Keep of the sorted names: all but the last Keep.
Obsolete == {d \in DOMAIN arch : Cardinality({e \in DOMAIN arch : e > d}) >= Keep}

KeepOnly(stamps) == arch' = [d \in stamps |-> arch[d]]

\* The loop runs in a subshell of the pipe: that a removal failed is forgotten.
Prune(c) ==
    /\ pc[c] = "prune"
    /\ \/ /\ KeepOnly(DOMAIN arch \ Obsolete)
          /\ UNCHANGED failures
       \/ /\ Fails
          /\ \E d \in Obsolete : KeepOnly((DOMAIN arch \ Obsolete) \cup {d})
    /\ Goto(c, "mkarchive")
    /\ UNCHANGED <<conf, snapdir, snap, clock, up, verb, todo, dir, ret, result,
                   crashes, base, begun, goal>>

\* What the archive of time stamp d holds, or would hold when it is made.
Archived(d) == IF d \in DOMAIN arch THEN arch[d] ELSE NoFiles

SetArchive(d, files) ==
    arch' = [e \in DOMAIN arch \cup {d} |-> IF e = d THEN files ELSE arch[e]]

\* Mutant of MakeArchive: the save is named after a second that has not come yet.
MakeArchiveAhead(c) ==
    /\ pc[c] = "mkarchive"
    /\ SetArchive(clock + 1, Archived(clock + 1))
    /\ dir' = [dir EXCEPT ![c] = clock + 1]
    /\ Loop(c, "archive", conf)
    /\ UNCHANGED <<conf, snapdir, snap, clock, up, verb, ret, result,
                   crashes, failures, base, begun, goal>>

\* mkdir -p keeps what an archive of the same second already holds.
MakeArchive(c) ==
    /\ pc[c] = "mkarchive"
    /\ \/ /\ SetArchive(clock, Archived(clock))
          /\ dir' = [dir EXCEPT ![c] = clock]
          /\ Loop(c, "archive", conf)
          /\ UNCHANGED <<verb, ret, result, goal, up, failures>>
       \/ /\ Abort(c)
          /\ UNCHANGED arch
    /\ UNCHANGED <<conf, snapdir, snap, clock, crashes, base, begun>>

\* Mutant of ArchiveFile: a cp that fails is skipped, as a failing rm is.
ArchiveFileSkips(c) ==
    /\ pc[c] = "archive"
    /\ \E f \in todo[c] :
        /\ IsNext(f, c)
        /\ \/ /\ conf[f] # Absent
              /\ SetArchive(dir[c], [Archived(dir[c]) EXCEPT ![f] = conf[f]])
              /\ UNCHANGED failures
           \/ /\ conf[f] # Absent
              /\ Fails
              /\ UNCHANGED arch
           \/ /\ conf[f] = Absent
              /\ UNCHANGED <<arch, failures>>
        /\ Continue(c, f)
    /\ UNCHANGED <<conf, snapdir, snap, clock, up, pc, verb, dir, ret, result,
                   crashes, base, begun, goal>>

ArchiveFile(c) ==
    /\ pc[c] = "archive"
    /\ \E f \in todo[c] :
        /\ IsNext(f, c)
        /\ \/ /\ conf[f] = Absent
              /\ Continue(c, f)
              /\ UNCHANGED <<arch, pc, verb, dir, ret, result, goal, up, failures>>
           \/ /\ conf[f] # Absent
              /\ SetArchive(dir[c], [Archived(dir[c]) EXCEPT ![f] = conf[f]])
              /\ Continue(c, f)
              /\ UNCHANGED <<pc, verb, dir, ret, result, goal, up, failures>>
           \/ /\ conf[f] # Absent
              /\ \E files \in FailedCopy(Archived(dir[c]), f) : SetArchive(dir[c], files)
              /\ Abort(c)
    /\ UNCHANGED <<conf, snapdir, snap, clock, crashes, base, begun>>

ArchiveDone(c) ==
    /\ pc[c] = "archive" /\ todo[c] = {}
    /\ Loop(c, "restore", conf)
    /\ UNCHANGED <<conf, snapdir, snap, arch, clock, up, verb, dir, ret, result,
                   crashes, failures, base, begun, goal>>

\* Cases 1 and 2, a file that is also in the snapshot: copy it back (cp only when
\* cmp finds a difference), then erase the snapshot's copy.
CopyBack(c) ==
    /\ pc[c] = "restore"
    /\ \E f \in todo[c] :
        /\ IsNext(f, c)
        /\ conf[f] # Absent /\ snap[f] # Absent
        /\ \/ /\ conf' = [conf EXCEPT ![f] = snap[f]]
              /\ Goto(c, "erase")
              /\ UNCHANGED <<verb, todo, dir, ret, result, goal, up, failures>>
           \/ /\ conf[f] # snap[f]
              /\ conf' \in FailedForcedCopy(conf, f)
              /\ Abort(c)
    /\ UNCHANGED <<snapdir, snap, arch, clock, crashes, base, begun>>

EraseCopy(c) ==
    /\ pc[c] = "erase"
    /\ \E f \in todo[c] :
        /\ IsNext(f, c)
        /\ \/ /\ snap' = [snap EXCEPT ![f] = Absent]
              /\ UNCHANGED <<ret, failures>>
           \/ /\ Fails
              /\ ret' = [ret EXCEPT ![c] = 1]
              /\ UNCHANGED snap
        /\ Continue(c, f)
    /\ Goto(c, "restore")
    /\ UNCHANGED <<conf, snapdir, arch, clock, up, verb, dir, result, crashes, base, begun, goal>>

\* Mutant of RemoveNew: files that the snapshot does not hold stay.
RemoveNewSkips(c) ==
    /\ pc[c] = "restore"
    /\ \E f \in todo[c] :
        /\ IsNext(f, c)
        /\ conf[f] = Absent \/ snap[f] = Absent
        /\ Continue(c, f)
    /\ UNCHANGED <<conf, snapdir, snap, arch, clock, up, pc, verb, dir, ret, result,
                   crashes, failures, base, begun, goal>>

\* Mutant of RemoveNew: a failing rm is not noted in rollback_ret.
RemoveNewForgets(c) ==
    /\ pc[c] = "restore"
    /\ \E f \in todo[c] :
        /\ IsNext(f, c)
        /\ conf[f] = Absent \/ snap[f] = Absent
        /\ \/ conf' = [conf EXCEPT ![f] = Absent] /\ UNCHANGED failures
           \/ Fails /\ UNCHANGED conf
        /\ Continue(c, f)
    /\ UNCHANGED <<snapdir, snap, arch, clock, up, pc, verb, dir, ret, result,
                   crashes, base, begun, goal>>

\* Case 3, a file that the snapshot does not hold: remove it.
RemoveNew(c) ==
    /\ pc[c] = "restore"
    /\ \E f \in todo[c] :
        /\ IsNext(f, c)
        /\ \/ /\ conf[f] = Absent
              /\ UNCHANGED <<conf, ret, failures>>
           \/ /\ conf[f] # Absent /\ snap[f] = Absent
              /\ conf' = [conf EXCEPT ![f] = Absent]
              /\ UNCHANGED <<ret, failures>>
           \/ /\ conf[f] # Absent /\ snap[f] = Absent
              /\ Fails
              /\ ret' = [ret EXCEPT ![c] = 1]
              /\ UNCHANGED conf
        /\ Continue(c, f)
    /\ UNCHANGED <<snapdir, snap, arch, clock, up, pc, verb, dir, result, crashes, base, begun, goal>>

\* Mutant of RestoreDone: the loop is repeated until nothing is left in the snapshot,
\* which never comes when a file is in the snapshot only.
RestoreUntilEmpty(c) ==
    /\ pc[c] = "restore" /\ todo[c] = {}
    /\ Loop(c, IF snap = NoFiles THEN "refill" ELSE "restore", conf)
    /\ UNCHANGED <<conf, snapdir, snap, arch, clock, up, verb, dir, ret, result,
                   crashes, failures, base, begun, goal>>

RestoreDone(c) ==
    /\ pc[c] = "restore" /\ todo[c] = {}
    /\ Loop(c, "refill", snap)
    /\ UNCHANGED <<conf, snapdir, snap, arch, clock, up, verb, dir, ret, result,
                   crashes, failures, base, begun, goal>>

\* Case 4, what is left in the snapshot: copy it to the configuration.
RefillFile(c) ==
    /\ pc[c] = "refill"
    /\ \E f \in todo[c] :
        /\ IsNext(f, c)
        /\ \/ /\ snap[f] = Absent
              /\ Continue(c, f)
              /\ UNCHANGED <<conf, pc, verb, dir, ret, result, goal, up, failures>>
           \/ /\ snap[f] # Absent
              /\ conf' = [conf EXCEPT ![f] = snap[f]]
              /\ Continue(c, f)
              /\ UNCHANGED <<pc, verb, dir, ret, result, goal, up, failures>>
           \/ /\ snap[f] # Absent
              /\ conf' \in FailedForcedCopy(conf, f)
              /\ Abort(c)
    /\ UNCHANGED <<snapdir, snap, arch, clock, crashes, base, begun>>

RefillDone(c) ==
    /\ pc[c] = "refill" /\ todo[c] = {}
    /\ Loop(c, "rmsnap", snap)
    /\ UNCHANGED <<conf, snapdir, snap, arch, clock, up, verb, dir, ret, result,
                   crashes, failures, base, begun, goal>>

-----------------------------------------------------------------------------
(***************************************************************************)
(* rm -rf "$snapshotdir", at the end of change_commit and change_rollback: *)
(* the files in the order readdir returns them, then the directory, if     *)
(* nothing is left in it.                                                  *)
(***************************************************************************)
UnlinkCopy(c) ==
    /\ pc[c] = "rmsnap"
    /\ \E f \in todo[c] :
        /\ \/ /\ snap' = [snap EXCEPT ![f] = Absent]
              /\ UNCHANGED failures
           \/ /\ Fails
              /\ UNCHANGED snap
        /\ Continue(c, f)
    /\ UNCHANGED <<conf, snapdir, arch, clock, up, pc, verb, dir, ret, result,
                   crashes, base, begun, goal>>

\* The rm -rf fails when a file was left, or at the date file or the directory itself.
\* change_commit only reports it; change_rollback returns 1 for it.
RemoveSnapshotDir(c) ==
    /\ pc[c] = "rmsnap" /\ todo[c] = {}
    /\ \/ /\ snap = NoFiles
          /\ snapdir' = "none" /\ base' = NoFiles /\ begun' = FALSE
          /\ Exit(c, verb[c], IF verb[c] = "commit" THEN 0 ELSE ret[c])
          /\ UNCHANGED failures
       \/ /\ \/ snap # NoFiles /\ UNCHANGED failures
             \/ snap = NoFiles /\ snapdir # "none" /\ Fails
          /\ begun' = (begun /\ verb[c] # "commit")
          /\ Exit(c, verb[c], IF verb[c] = "commit" THEN 0 ELSE 1)
          /\ UNCHANGED <<snapdir, base>>
    /\ UNCHANGED <<conf, snap, arch, clock, crashes>>

-----------------------------------------------------------------------------
(***************************************************************************)
(* The environment.                                                        *)
(***************************************************************************)

\* A client defines or undefines an interface: Augeas replaces or removes the file.
Edit(c) ==
    /\ c # Boot /\ MayRun(c)
    /\ \E f \in Files, x \in Contents \cup {Absent} :
          conf[f] # x /\ conf' = [conf EXCEPT ![f] = x]
    /\ UNCHANGED <<snapdir, snap, arch, clock, up, pc, verb, todo, dir, ret,
                   result, crashes, failures, base, begun, goal>>

Tick ==
    /\ clock < MaxClock
    /\ clock' = clock + 1
    /\ UNCHANGED <<conf, snapdir, snap, arch, up, pc, verb, todo, dir, ret,
                   result, crashes, failures, base, begun, goal>>

\* The machine goes down.  What is in the file system stays; a cp that the crash
\* interrupts is a failing cp with the crash after it.
Crash ==
    /\ crashes < MaxCrashes
    /\ crashes' = crashes + 1
    /\ up' = FALSE
    /\ pc' = [c \in Procs |-> "idle"]
    /\ verb' = [c \in Procs |-> "none"]
    /\ todo' = [c \in Procs |-> {}]
    /\ dir' = [c \in Procs |-> 0]
    /\ ret' = [c \in Procs |-> 0]
    /\ goal' = [c \in Procs |-> NoFiles]
    /\ UNCHANGED <<conf, snapdir, snap, arch, clock, result, failures, base, begun>>

\* A step of the script in process c, once it runs.
Step(c) ==
    \/ MakeSnapshotDir(c) \/ SaveFile(c) \/ WriteDate(c)
    \/ Prune(c) \/ MakeArchive(c) \/ ArchiveFile(c) \/ ArchiveDone(c)
    \/ CopyBack(c) \/ EraseCopy(c) \/ RemoveNew(c) \/ RestoreDone(c)
    \/ RefillFile(c) \/ RefillDone(c) \/ UnlinkCopy(c) \/ RemoveSnapshotDir(c)

Request(c) ==
    \/ ChangeBegin(c) \/ ChangeCommit(c) \/ Edit(c)
    \/ \E v \in {"rollback", "start"} : ChangeRollback(c, v)

Next ==
    \/ \E c \in Procs : Step(c) \/ Request(c)
    \/ Tick
    \/ Crash

Spec == Init /\ [][Next]_vars

\* A shell that runs goes on, and init starts the script when the machine comes up.
Fairness ==
    /\ \A c \in Procs : WF_vars(Step(c))
    /\ WF_vars(ChangeRollback(Boot, "start"))

FairSpec == Spec /\ Fairness

-----------------------------------------------------------------------------
(***************************************************************************)
(* Properties                                                              *)
(***************************************************************************)

\* A rollback, by a client or at boot, whose restore loops have begun.
Restoring(c) ==
    \/ pc[c] \in {"restore", "erase", "refill"}
    \/ pc[c] = "rmsnap" /\ verb[c] # "commit"

\* The run of the script with argument v in process c ends in this step.
Ends(c, v) == verb[c] = v /\ pc'[c] = "idle" /\ crashes' = crashes

\* When change_rollback comes to its last rm -rf with rollback_ret still 0, the
\* configuration is exactly what the snapshot held when it started: nothing is left
\* over, missing or torn, whatever failed or crashed in earlier runs.
Restored ==
    \A c \in Procs :
        pc[c] = "rmsnap" /\ verb[c] # "commit" /\ ret[c] = 0 => conf = goal[c]

\* The script's header: "the discarded changes are archived".  No step of the script
\* overwrites or removes a configuration file whose content is not, at that moment, in
\* the archive of the same run or still in the snapshot.
DiscardsArchived ==
    [][\A f \in Files :
         conf[f] # Absent /\ conf'[f] # conf[f] /\ (\E c \in Procs : pc[c] # "idle") =>
            \/ snap'[f] = conf[f]
            \/ \E c \in Procs : Restoring(c) /\ Archived(dir[c])[f] = conf[f]]_vars

\* change_rollback prunes "all but the last 20 rollback saves" before it makes its own
\* save, so there are never more than Keep and one for each caller, however the runs
\* of several callers overlap, and one for each removal that failed.
ArchiveBound == Cardinality(DOMAIN arch) <= Keep + Cardinality(Clients) + failures

\* Every run of the script comes to its end: the callers' run_program gets a status.
Terminates == \A c \in Procs : pc[c] # "idle" ~> pc[c] = "idle"

\* ncf_change_begin, _commit and _rollback behave as the three atomic operations of
\* AbstractTransaction: a begin takes effect when it exits, a commit when the snapshot
\* directory is gone, a rollback when its restore loops start.
Saving == \E c \in Procs : pc[c] = "save"
Abstract == INSTANCE AbstractTransaction WITH
    Values <- Contents \cup {Absent},
    NoConfig <- Absent,
    config <- IF \E c \in Procs : Restoring(c) THEN base ELSE conf,
    saved <- IF snapdir = "dir" /\ ~Saving /\ ~\E c \in Procs : Restoring(c)
             THEN base ELSE Absent
RefinesAbstract == Abstract!Spec

\* The script's header: "At boot time, if there are uncommitted changes to the network
\* config, they are reverted": when the boot's rollback is over, the configuration is
\* the one that the last begin set out to save.
BootReverts == [][~up /\ up' /\ pc[Boot] # "idle" => conf' = base]_vars

\* netcf.h on ncf_change_rollback: "Revert to the previously snapshotted (with
\* ncf_change_begin) network configuration": after a begin that succeeded, a rollback
\* that succeeds leaves the configuration of that begin.
RollbackReverts ==
    [][\A c \in Clients :
         begun /\ Ends(c, "rollback") /\ result'[c] = 0 => conf' = base]_vars
=============================================================================
