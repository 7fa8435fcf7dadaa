---------------------------- MODULE RunProgram -----------------------------
(***************************************************************************)
(* run_program and exec_program (dutil_posix.c), through which netcf runs  *)
(* ifup, ifdown and the transaction script: the calling thread, the child  *)
(* it forks, a program that the child leaves behind and that still holds   *)
(* the write end of the pipe, and the other threads of the caller.         *)
(*                                                                         *)
(* The text that passes through the pipe is a number of blocks.  Of the    *)
(* caller's descriptors the one numbered outfd is followed: once closed,   *)
(* the number is free and another thread can get it.                       *)
(***************************************************************************)
EXTENDS Integers

CONSTANTS
    Statuses,       \* exit statuses of the programs that are run
    PipeSize,       \* blocks that a pipe holds
    MaxOutput       \* bound: blocks that a program writes

ASSUME PipeAssumption == PipeSize \in Nat \ {0} /\ MaxOutput \in Nat
ASSUME StatusesAssumption == Statuses \subseteq 0..255

\* Exit codes of the child before it runs the program, and of the transaction script.
EXIT_DUP2 == 124
EXIT_SIGMASK == 125
EXIT_CANNOT_INVOKE == 126
EXIT_ENOENT == 127
EXIT_INVALID_IN_THIS_STATE == 199
ChildCodes == {EXIT_DUP2, EXIT_SIGMASK, EXIT_CANNOT_INVOKE, EXIT_ENOENT}

Signalled == -1     \* wait status of a child that a signal killed
Unset == -2         \* no wait status yet
Codes == Statuses \cup ChildCodes \cup {Signalled}

VARIABLES
    pc,         \* where the calling thread is, "idle" outside run_program
    errcode,    \* ncf->errcode
    mask,       \* its signal mask: the "caller"'s or "all"
    outfd,      \* outfd >= 0
    fd,         \* what the descriptor of that number is: "free", "pipe" or "other"
    outfile,    \* the stream over it is open
    writers,    \* who holds the write end of the pipe
    pipe,       \* blocks in the pipe
    child,      \* "none", "forked", "running", "zombie", "reaped" or, when somebody
                \* else has reaped it, "lost"
    output,     \* blocks that the child has still to write
    status,     \* the child's wait status
    exitstatus, \* the variable that waitpid assigns
    ret         \* the variable ret

vars == <<pc, errcode, mask, outfd, fd, outfile, writers, pipe, child, output,
          status, exitstatus, ret>>

TypeOK ==
    /\ pc \in {"idle", "pipe", "mask", "fork", "restore", "fdopen", "read", "wait",
               "status", "cleanup"}
    /\ errcode \in {"NOERROR", "ENOMEM", "EEXEC", "EINVALIDOP", "EOTHER"}
    /\ mask \in {"caller", "all"}
    /\ outfd \in BOOLEAN /\ fd \in {"free", "pipe", "other"} /\ outfile \in BOOLEAN
    /\ writers \subseteq {"parent", "child", "daemon"}
    /\ pipe \in 0..PipeSize
    /\ child \in {"none", "forked", "running", "zombie", "reaped", "lost"}
    /\ output \in 0..MaxOutput
    /\ status \in Codes \cup {Unset} /\ exitstatus \in Codes \cup {Unset}
    /\ ret \in {0, -1}

Init ==
    /\ pc = "idle" /\ errcode = "NOERROR" /\ mask = "caller"
    /\ outfd = FALSE /\ fd = "free" /\ outfile = FALSE /\ writers = {} /\ pipe = 0
    /\ child = "none" /\ output = 0 /\ status = Unset /\ exitstatus = Unset
    /\ ret = -1

-----------------------------------------------------------------------------
(***************************************************************************)
(* The calling thread                                                      *)
(***************************************************************************)
Goto(label) == pc' = label

\* report_error keeps the first error.
Report(code) == errcode' = IF errcode = "NOERROR" THEN code ELSE errcode

\* run_program is called after API_ENTRY cleared errcode, or after is_bridge in
\* drv_if_up left an error there.  What is left of an earlier call is forgotten.
Call ==
    /\ pc = "idle"
    /\ \/ errcode' \in {"NOERROR", "EOTHER"} /\ Goto("pipe")
       \/ errcode' = "ENOMEM" /\ Goto("idle")
    /\ mask' = "caller" /\ outfd' = FALSE /\ fd' = "free" /\ outfile' = FALSE
    /\ writers' = {} /\ pipe' = 0
    /\ child' = "none" /\ output' = 0 /\ status' = Unset /\ exitstatus' = Unset
    /\ ret' = -1

CreatePipe ==
    /\ pc = "pipe"
    /\ \/ /\ outfd' = TRUE /\ fd' = "pipe" /\ writers' = {"parent"}
          /\ Goto("mask")
          /\ UNCHANGED errcode
       \/ /\ Report("EEXEC") /\ Goto("cleanup")
          /\ UNCHANGED <<outfd, fd, writers>>
    /\ UNCHANGED <<mask, outfile, pipe, child, output, status, exitstatus, ret>>

\* The error exit of exec_program.
ExecError ==
    /\ Report("EEXEC") /\ Goto("cleanup")
    /\ outfd' = FALSE /\ fd' = "free" /\ writers' = writers \ {"parent"}

BlockSignals ==
    /\ pc = "mask"
    /\ \/ /\ mask' = "all" /\ Goto("fork")
          /\ UNCHANGED <<errcode, outfd, fd, writers>>
       \/ ExecError /\ UNCHANGED mask
    /\ UNCHANGED <<outfile, pipe, child, output, status, exitstatus, ret>>

Fork ==
    /\ pc = "fork"
    /\ \/ /\ child' = "forked" /\ writers' = writers \cup {"child"}
          /\ Goto("restore")
          /\ UNCHANGED <<errcode, outfd, fd>>
       \/ ExecError /\ UNCHANGED child
    /\ UNCHANGED <<mask, outfile, pipe, output, status, exitstatus, ret>>

\* Mutant of RestoreSignals: the parent keeps its write end.
RestoreKeepsWriteEnd ==
    /\ pc = "restore"
    /\ mask' = "caller" /\ Goto(IF errcode = "NOERROR" THEN "fdopen" ELSE "cleanup")
    /\ UNCHANGED <<errcode, outfd, fd, outfile, writers, pipe, child, output,
                   status, exitstatus, ret>>

\* The end of exec_program in the parent, and run_program's ERR_BAIL after it, which
\* also sees an error from before the call.
RestoreSignals ==
    /\ pc = "restore"
    /\ \/ /\ mask' = "caller" /\ writers' = writers \ {"parent"}
          /\ Goto(IF errcode = "NOERROR" THEN "fdopen" ELSE "cleanup")
          /\ UNCHANGED <<errcode, outfd, fd>>
       \/ ExecError /\ UNCHANGED mask
    /\ UNCHANGED <<outfile, pipe, child, output, status, exitstatus, ret>>

OpenStream ==
    /\ pc = "fdopen"
    /\ \/ outfile' = TRUE /\ Goto("read") /\ UNCHANGED errcode
       \/ Report("EEXEC") /\ Goto("cleanup") /\ UNCHANGED outfile
    /\ UNCHANGED <<mask, outfd, fd, writers, pipe, child, output, status, exitstatus, ret>>

\* fread_file reads until nobody holds the write end; then fclose.
ReadOutput ==
    /\ pc = "read"
    /\ \/ /\ pipe > 0 /\ pipe' = pipe - 1
          /\ UNCHANGED <<pc, fd, outfile>>
       \/ /\ pipe = 0 /\ writers = {}
          /\ outfile' = FALSE /\ fd' = "free"
          /\ Goto("wait")
          /\ UNCHANGED pipe
    /\ UNCHANGED <<errcode, mask, outfd, writers, child, output, status, exitstatus, ret>>

ReadFails ==
    /\ pc = "read"
    /\ Report("EEXEC") /\ Goto("cleanup")
    /\ UNCHANGED <<mask, outfd, fd, outfile, writers, pipe, child, output, status,
                   exitstatus, ret>>

\* waitpid again while it is interrupted.  When there is no child to wait for it fails
\* and leaves exitstatus as it was, uninitialized; the test that follows compares the
\* result of the comparison with -1 and never sees it.
WaitChild ==
    /\ pc = "wait"
    /\ \/ child = "zombie" /\ child' = "reaped" /\ exitstatus' = status
       \/ child = "lost" /\ exitstatus' \in Codes /\ UNCHANGED child
    /\ Goto("status")
    /\ UNCHANGED <<errcode, mask, outfd, fd, outfile, writers, pipe, output, status, ret>>

\* Mutant of ErrorOf: an exit code of the child is handed on, which is no netcf_errcode_t.
ErrorIsCode(code) == IF code \in ChildCodes THEN "EXIT" ELSE "EEXEC"

\* Mutant of ErrorOf: the tests of WIFEXITED are gone, and WEXITSTATUS of a signalled
\* child is 0.
ErrorOfExit(code) ==
    CASE code = EXIT_INVALID_IN_THIS_STATE -> "EINVALIDOP"
      [] code \in {0, Signalled} -> "NOERROR"
      [] OTHER -> "EEXEC"

\* The error that a wait status stands for.
ErrorOf(code) ==
    CASE code = EXIT_INVALID_IN_THIS_STATE -> "EINVALIDOP"
      [] code = 0 -> "NOERROR"
      [] OTHER -> "EEXEC"

CheckStatus ==
    /\ pc = "status"
    /\ ret' = IF ErrorOf(exitstatus) = "NOERROR" THEN 0 ELSE -1
    /\ Report(ErrorOf(exitstatus))
    /\ Goto("cleanup")
    /\ UNCHANGED <<mask, outfd, fd, outfile, writers, pipe, child, output, status, exitstatus>>

\* Label error, which every call passes: the stream is closed or else outfd, also when
\* fclose has already closed it.
Cleanup ==
    /\ pc = "cleanup"
    /\ fd' = IF outfile \/ outfd THEN "free" ELSE fd
    /\ outfile' = FALSE
    /\ Goto("idle")
    /\ UNCHANGED <<errcode, mask, outfd, writers, pipe, child, output, status, exitstatus, ret>>

-----------------------------------------------------------------------------
(***************************************************************************)
(* The child, and the caller's other threads                               *)
(***************************************************************************)
parent == <<pc, errcode, mask, outfd, outfile, exitstatus, ret>>

\* The child's part of exec_program: it ends with a code of its own or the program runs.
ChildExec ==
    /\ child = "forked"
    /\ \/ /\ child' = "running" /\ output' \in 0..MaxOutput
          /\ UNCHANGED <<status, writers>>
       \/ /\ child' = "zombie" /\ status' \in ChildCodes
          /\ writers' = writers \ {"child"}
          /\ UNCHANGED output
    /\ UNCHANGED <<parent, fd, pipe>>

\* The program writes; it waits while the pipe is full, and gets SIGPIPE when nobody
\* can read it any more.
ChildWrites ==
    /\ child = "running" /\ output > 0
    /\ \/ /\ fd = "pipe" /\ pipe < PipeSize
          /\ pipe' = pipe + 1 /\ output' = output - 1
          /\ UNCHANGED <<child, status, writers>>
       \/ /\ fd # "pipe"
          /\ child' = "zombie" /\ status' = Signalled /\ writers' = writers \ {"child"}
          /\ UNCHANGED <<pipe, output>>
    /\ UNCHANGED <<parent, fd>>

\* It ends, and may leave a daemon that has its output.
ChildEnds ==
    /\ child = "running" /\ output = 0
    /\ child' = "zombie" /\ status' \in Statuses
    /\ \E d \in SUBSET {"daemon"} : writers' = (writers \ {"child"}) \cup d
    /\ UNCHANGED <<parent, fd, pipe, output>>

ChildKilled ==
    /\ child = "running"
    /\ child' = "zombie" /\ status' = Signalled /\ writers' = writers \ {"child"}
    /\ UNCHANGED <<parent, fd, pipe, output>>

DaemonCloses ==
    /\ "daemon" \in writers
    /\ writers' = writers \ {"daemon"}
    /\ UNCHANGED <<parent, fd, pipe, child, output, status>>

\* The caller ignores SIGCHLD, or another of its threads waits for any child.
OtherReaps ==
    /\ child = "zombie"
    /\ child' = "lost"
    /\ UNCHANGED <<parent, fd, writers, pipe, output, status>>

\* Another thread opens a file and gets the number, or closes it.
OtherOpens ==
    /\ pc \in {"wait", "status", "cleanup"}
    /\ \/ fd = "free" /\ fd' = "other"
       \/ fd = "other" /\ fd' = "free"
    /\ UNCHANGED <<parent, writers, pipe, child, output, status>>

Parent ==
    \/ CreatePipe \/ BlockSignals \/ Fork \/ RestoreSignals \/ OpenStream
    \/ ReadOutput \/ WaitChild \/ CheckStatus \/ Cleanup

Child == ChildExec \/ ChildWrites \/ ChildEnds

Next == Call \/ Parent \/ ReadFails \/ Child \/ ChildKilled \/ DaemonCloses \/ OtherReaps \/ OtherOpens

Spec == Init /\ [][Next]_vars

\* The caller's thread is scheduled; nothing relies on a failing read or on a signal
\* that kills the child.  That the program it runs ends, and that nothing
\* it leaves behind keeps its output for ever, is assumed of ifup, ifdown and the script.
Fairness == WF_vars(Parent) /\ WF_vars(Child) /\ WF_vars(DaemonCloses)

FairSpec == Spec /\ Fairness

-----------------------------------------------------------------------------
(***************************************************************************)
(* Properties                                                              *)
(***************************************************************************)

\* When run_program is about to return 0 for a child it waited for, the program has run
\* to its end with status 0, all that it wrote has been read, nobody can write any more,
\* and the caller's signals are not blocked.
CompleteOnSuccess ==
    pc = "cleanup" /\ ret = 0 /\ child = "reaped" =>
        status = 0 /\ output = 0 /\ pipe = 0 /\ writers = {} /\ mask = "caller"

\* run_program returns: the parent closes its write end and reads before it waits, so
\* neither the child on a full pipe nor the parent on an open one waits for ever.
Returns == pc # "idle" ~> pc = "idle"
=============================================================================
