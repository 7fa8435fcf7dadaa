-------------------------- MODULE RunProgramProofs --------------------------
(***************************************************************************)
(* Proofs about RunProgram, for pipes and outputs of any size and any set  *)
(* of exit statuses.                                                       *)
(*                                                                         *)
(* CompleteOnSuccess speaks of the last step of run_program.  What makes   *)
(* it true was settled earlier: that nobody writes and the pipe is empty,  *)
(* when the read ended; that the child has nothing left to write, when it  *)
(* exited with 0; that the signals are the caller's, when exec_program     *)
(* returned.  IInv carries these facts from where they arise to the end,   *)
(* and says why the steps of the child and of other threads keep them.     *)
(***************************************************************************)
EXTENDS RunProgram, TLAPS

\* A child that has not ended holds the write end.
ChildHolds == child \in {"forked", "running"} => "child" \in writers

\* From the fork on there is a child; before it there is none, and nothing is written.
Before == pc \in {"pipe", "mask", "fork"} => child = "none"

\* From the return of exec_program to the end of a call without an error the caller's
\* signals are not blocked.
Unblocked == pc \in {"fdopen", "read", "wait", "status"} => mask = "caller"

\* After the end of the read the pipe is closed and empty, and the child has ended.
Drained ==
    pc \in {"wait", "status"} \/ (pc = "cleanup" /\ ret = 0) =>
        pipe = 0 /\ writers = {} /\ mask = "caller" /\ child \notin {"forked", "running"}

\* A child that has not ended has no status, and a status 0 is that of a program that
\* has written everything.
Written ==
    /\ child \in {"none", "forked", "running"} => status = Unset
    /\ status = 0 => output = 0

\* What waitpid assigned is the child's status.
Waited == pc = "status" /\ child = "reaped" => exitstatus = status

\* The variable ret is 0 only after the status was seen to be 0.
ZeroSeen ==
    /\ ret = 0 => pc \in {"cleanup", "idle"}
    /\ pc = "cleanup" /\ ret = 0 /\ child = "reaped" => status = 0

\* The type invariant in two parts: the provers take the Boolean variables one way and
\* the others another.
Flags == outfd \in BOOLEAN /\ outfile \in BOOLEAN
Values ==
    /\ pc \in {"idle", "pipe", "mask", "fork", "restore", "fdopen", "read", "wait",
               "status", "cleanup"}
    /\ errcode \in {"NOERROR", "ENOMEM", "EEXEC", "EINVALIDOP", "EOTHER"}
    /\ mask \in {"caller", "all"}
    /\ fd \in {"free", "pipe", "other"}
    /\ writers \subseteq {"parent", "child", "daemon"}
    /\ pipe \in 0..PipeSize
    /\ child \in {"none", "forked", "running", "zombie", "reaped", "lost"}
    /\ output \in 0..MaxOutput
    /\ status \in Codes \cup {Unset} /\ exitstatus \in Codes \cup {Unset}
    /\ ret \in {0, -1}

Facts == Values /\ ChildHolds /\ Before /\ Unblocked /\ Drained /\ Written /\ Waited /\ ZeroSeen

IInv == Flags /\ Facts

\* Together the parts are the type invariant of the model.
LEMMA TypeParts == TypeOK <=> Flags /\ Values
BY DEF TypeOK, Flags, Values

\* An error of none stands for a status 0.
LEMMA ErrorOfZero ==
    ASSUME NEW code
    PROVE  /\ ErrorOf(code) = "NOERROR" => code = 0
           /\ ErrorOf(code) \in {"NOERROR", "EEXEC", "EINVALIDOP"}
BY DEF ErrorOf, EXIT_INVALID_IN_THIS_STATE

\* A child that could not run the program, or that a signal killed, has no status 0, and
\* a status is a code.
LEMMA StatusCodes ==
    /\ Statuses \subseteq Codes /\ ChildCodes \subseteq Codes /\ Signalled \in Codes
    /\ 0 \notin ChildCodes /\ Signalled # 0 /\ Unset # 0
BY DEF Codes, ChildCodes, Signalled, Unset, EXIT_DUP2, EXIT_SIGMASK, EXIT_CANNOT_INVOKE, EXIT_ENOENT

\* The flags stay Boolean.
LEMMA FlagsStep ==
    ASSUME Flags, [Next]_vars
    PROVE  Flags'
<1>. USE DEF Flags
<1>1. CASE Call
  BY Zenon, <1>1 DEF Call
<1>2. CASE CreatePipe
  BY Zenon, <1>2 DEF CreatePipe
<1>3. CASE BlockSignals
  BY Zenon, <1>3 DEF BlockSignals, ExecError
<1>4. CASE Fork
  BY Zenon, <1>4 DEF Fork, ExecError
<1>5. CASE RestoreSignals
  BY Zenon, <1>5 DEF RestoreSignals, ExecError
<1>6. CASE OpenStream
  BY Zenon, <1>6 DEF OpenStream
<1>7. CASE ReadOutput
  BY Zenon, <1>7 DEF ReadOutput
<1>8. CASE Cleanup
  BY Zenon, <1>8 DEF Cleanup
<1>9. CASE UNCHANGED <<outfd, outfile>>
  BY Zenon, <1>9
<1>10. CASE ReadFails \/ WaitChild \/ CheckStatus
  BY <1>9, <1>10 DEF ReadFails, WaitChild, CheckStatus
<1>11. CASE ChildExec \/ ChildWrites \/ ChildEnds \/ ChildKilled \/ DaemonCloses \/ OtherReaps \/ OtherOpens
  BY <1>9, <1>11
     DEF parent, ChildExec, ChildWrites, ChildEnds, ChildKilled, DaemonCloses, OtherReaps, OtherOpens
<1>12. CASE UNCHANGED vars
  BY <1>9, <1>12 DEF vars
<1>. QED
  BY <1>1, <1>2, <1>3, <1>4, <1>5, <1>6, <1>7, <1>8, <1>10, <1>11, <1>12 DEF Next, Parent, Child

\* The invariant holds of every behaviour.
THEOREM Invariant == Spec => []IInv
<1>. USE PipeAssumption, StatusesAssumption
<1>. USE DEF Values, ChildHolds, Before, Unblocked, Drained, Written, Waited, ZeroSeen
<1>1. Init => IInv
  <2>1. Init => Flags
    BY Zenon DEF Init, Flags
  <2>2. Init => Facts
    BY DEF Init, Facts, Unset
  <2>. QED  BY <2>1, <2>2 DEF IInv
<1>2. IInv /\ [Next]_vars => IInv'
  <2>. SUFFICES ASSUME Flags, Facts, [Next]_vars PROVE Facts'
    BY FlagsStep DEF IInv
  <2>. USE StatusCodes DEF Facts
  <2>1. CASE Call
    BY <2>1 DEF Call, Goto
  <2>2. CASE CreatePipe
    BY <2>2 DEF CreatePipe, Goto, Report
  <2>3. CASE BlockSignals
    BY <2>3 DEF BlockSignals, ExecError, Goto, Report
  <2>4. CASE Fork
    BY <2>4 DEF Fork, ExecError, Goto, Report
  <2>5. CASE RestoreSignals
    <3>1. /\ ret = -1 /\ ret' = ret
          /\ UNCHANGED <<pipe, child, output, status, exitstatus>>
          /\ writers' = writers \ {"parent"}
      BY <2>5 DEF RestoreSignals, ExecError
    <3>2. /\ pc' \in {"fdopen", "cleanup"}
          /\ pc' = "fdopen" => mask' = "caller"
          /\ Values'
      BY <2>5 DEF RestoreSignals, ExecError, Goto, Report
    <3>. QED  BY <3>1, <3>2
  <2>6. CASE OpenStream
    BY <2>6 DEF OpenStream, Goto, Report
  <2>7. CASE ReadOutput
    BY <2>7 DEF ReadOutput, Goto
  <2>8. CASE ReadFails
    BY <2>8 DEF ReadFails, Goto, Report
  <2>9. CASE WaitChild
    BY <2>9 DEF WaitChild, Goto
  <2>10. CASE CheckStatus
    BY <2>10, ErrorOfZero DEF CheckStatus, Goto, Report
  <2>11. CASE Cleanup
    BY <2>11 DEF Cleanup, Goto
  <2>12. CASE ChildExec
    BY <2>12 DEF ChildExec, parent
  <2>13. CASE ChildWrites
    <3>1. UNCHANGED <<pc, errcode, mask, exitstatus, ret, fd>>
      BY <2>13 DEF ChildWrites, parent
    <3>2. CASE /\ pipe < PipeSize /\ pipe' = pipe + 1 /\ output' = output - 1
               /\ UNCHANGED <<child, status, writers>>
      BY <2>13, <3>1, <3>2 DEF ChildWrites
    <3>3. CASE /\ child' = "zombie" /\ status' = Signalled /\ writers' = writers \ {"child"}
               /\ UNCHANGED <<pipe, output>>
      BY <2>13, <3>1, <3>3 DEF ChildWrites
    <3>. QED  BY <2>13, <3>2, <3>3 DEF ChildWrites
  <2>14. CASE ChildEnds
    BY <2>14 DEF ChildEnds, parent
  <2>15. CASE ChildKilled
    BY <2>15 DEF ChildKilled, parent
  <2>16. CASE DaemonCloses
    BY <2>16 DEF DaemonCloses, parent
  <2>17. CASE OtherReaps
    BY <2>17 DEF OtherReaps, parent
  <2>18. CASE OtherOpens
    BY <2>18 DEF OtherOpens, parent
  <2>19. CASE UNCHANGED vars
    BY <2>19 DEF vars
  <2>. QED
    BY <2>1, <2>2, <2>3, <2>4, <2>5, <2>6, <2>7, <2>8, <2>9, <2>10, <2>11, <2>12,
       <2>13, <2>14, <2>15, <2>16, <2>17, <2>18, <2>19 DEF Next, Parent, Child
<1>. QED  BY <1>1, <1>2, PTL DEF Spec

\* Type correctness for pipes and outputs of any size.
THEOREM TypeCorrect == Spec => []TypeOK
<1>1. IInv => TypeOK
  BY TypeParts DEF IInv, Facts
<1>. QED  BY <1>1, Invariant, PTL

\* When run_program returns 0 for a child it waited for, the program ended with status 0
\* and all of its output was read, whatever the sizes of the output and of the pipe and
\* whatever the child, a signal, a daemon and other threads do meanwhile.
THEOREM SuccessIsComplete == Spec => []CompleteOnSuccess
<1>1. IInv => CompleteOnSuccess
  BY DEF IInv, Facts, Drained, Written, ZeroSeen, CompleteOnSuccess
<1>. QED  BY <1>1, Invariant, PTL
=============================================================================
