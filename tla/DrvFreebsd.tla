----------------------------- MODULE DrvFreebsd -----------------------------
(***************************************************************************)
(* The operations of the FreeBSD driver that change the system             *)
(* (src/drv_freebsd.c): drv_undefine, which copies /etc/rc.conf without    *)
(* the lines of an interface to /etc/rc.conf.tmp and renames the copy, and *)
(* drv_if_up and drv_if_down, which read the interface's flags, change     *)
(* IFF_UP in them and write them back.  Several processes do this without  *)
(* a lock, any of them may be killed at any point, writes fail without     *)
(* being noticed, and other programs change flags and interfaces.          *)
(*                                                                         *)
(* A file is a sequence of what fgets returns for it: a line, or a piece   *)
(* of a line of 256 bytes or more, told apart by whether it starts with a  *)
(* number sign and by the interface names in its text.  Pieces take one    *)
(* position each, so a write in the middle of one is not represented.      *)
(*                                                                         *)
(* The flags of an interface are an int.  The ioctls pass it as two short  *)
(* fields of struct ifreq, its low and its high half.                      *)
(***************************************************************************)
EXTENDS Integers, Sequences, FiniteSets

CONSTANTS
  Procs,        \* processes that use netcf
  Names,        \* names of interfaces
  Substrings,   \* Substrings[n]: the names that occur in n
  Words,        \* flags that other programs give to interfaces
  Files,        \* contents that rc.conf may have at the start
  None,         \* no inode, no interface
  Hole,         \* the bytes before a write beyond the end of a file
  MaxCalls,     \* bound on the calls of drv_undefine and setifflags
  MaxFailures,  \* bound on failing opens, failing writes and kills
  MaxForeign    \* bound on the changes by other programs

ASSUME NamesAssumption == \A n \in Names : n \in Substrings[n]

Within(lo, hi) == {i \in Int : lo <= i /\ i <= hi}
Int32 == Within(-2147483647 - 1, 2147483647)
Short == Within(-32768, 32767)

ASSUME WordsAssumption == Words \subseteq Int32
ASSUME BoundsAssumption ==
  MaxCalls \in Nat /\ MaxFailures \in Nat /\ MaxForeign \in Nat

Lines == [comment : BOOLEAN, names : SUBSET Names]

ASSUME FilesAssumption == Files \subseteq Seq(Lines)
ASSUME MarkersAssumption ==
  None \notin Names /\ None \notin Int32 /\ None \notin 1 .. MaxCalls + 1
  /\ Hole \notin Lines
VARIABLES
  flags,     \* flags[n]: the flags of interface n, None when it is absent
  data,      \* data[i]: the content of inode i
  rc,        \* the inode of /etc/rc.conf
  tmp,       \* the inode of /etc/rc.conf.tmp, or None
  proc,      \* per process: where it is, its handle and its local variables
  calls, failures, foreign,
  expected,  \* history: what whole calls made of the first rc.conf
  spoilt,    \* history: two undefines overlapped, a write failed, or one was for
             \* an interface whose name is part of another's
  others,    \* history: the flags except IFF_UP as other programs set them
  raced      \* history: interfaces that another program changed last while
             \* a call was between its two ioctls on them

vars == <<flags, data, rc, tmp, proc, calls, failures, foreign,
          expected, spoilt, others, raced>>
history == <<expected, spoilt, others, raced>>
bounds == <<calls, failures, foreign>>

Inodes == 1 .. MaxCalls + 1
Places == {"none", "idle", "tmp", "copy", "set"}

Ifreq == [flags : Short, flagshigh : Short]
Process == [at : Places, nif : Names \union {None},
            rfd : Inodes \union {None}, rpos : Nat \ {0},
            wfd : Inodes \union {None}, wpos : Nat \ {0},
            value : BOOLEAN, ifr : Ifreq]

Fresh == [at |-> "none", nif |-> None, rfd |-> None, rpos |-> 1,
          wfd |-> None, wpos |-> 1, value |-> FALSE,
          ifr |-> [flags |-> 0, flagshigh |-> 0]]

\* all flags but IFF_UP, which is the lowest bit
Rest(f) == f \div 2

Init ==
  /\ flags \in [Names -> Words]
  /\ data \in {[i \in Inodes |-> IF i = 1 THEN f ELSE <<>>] : f \in Files}
  /\ rc = 1
  /\ tmp = None
  /\ proc = [p \in Procs |-> Fresh]
  /\ calls = 0 /\ failures = 0 /\ foreign = 0
  /\ expected = data[1]
  /\ spoilt = FALSE
  /\ others = [n \in Names |-> Rest(flags[n])]
  /\ raced = {}

Failing == failures < MaxFailures /\ failures' = failures + 1
Calling == calls < MaxCalls /\ calls' = calls + 1
-----------------------------------------------------------------------------
(***************************************************************************)
(* Handles: a lookup asks the kernel for the interface by name.            *)
(***************************************************************************)
probe_interface(n) == flags[n] # None

LookupByName(p, n) ==
  /\ proc[p].at = "none"
  /\ probe_interface(n)
  /\ proc' = [proc EXCEPT ![p].at = "idle", ![p].nif = n]
  /\ UNCHANGED <<flags, data, rc, tmp, bounds, history>>

IfFree(p) ==
  /\ proc[p].at = "idle"
  /\ proc' = [proc EXCEPT ![p] = Fresh]
  /\ UNCHANGED <<flags, data, rc, tmp, bounds, history>>
-----------------------------------------------------------------------------
(***************************************************************************)
(* drv_undefine.                                                           *)
(***************************************************************************)
Undefining(p) == proc[p].at \in {"tmp", "copy"}

\* the name is part of another interface's, as em1 is of em10
Nested(n) == \E m \in Names \ {n} : n \in Substrings[m]

Undefine(p) ==
  /\ proc[p].at = "idle"
  /\ Calling
  /\ proc' = [proc EXCEPT ![p].at = "tmp", ![p].rfd = rc, ![p].rpos = 1]
  /\ spoilt' = (spoilt \/ (\E q \in Procs : Undefining(q)) \/ Nested(proc[p].nif))
  /\ UNCHANGED <<flags, data, rc, tmp, failures, foreign, expected, others, raced>>

\* Mutant of Truncated: the file is opened for appending.
KeptContent(i) == data

\* fopen with mode w empties a file that is there
Truncated(i) == [data EXCEPT ![i] = <<>>]

InUse ==
  {rc, tmp} \union {proc[p].rfd : p \in Procs} \union {proc[p].wfd : p \in Procs}

\* an inode that no name and no open file refers to
NewInode == CHOOSE i \in Inodes : i \notin InUse

OpenTmp(p) ==
  /\ proc[p].at = "tmp"
  /\ LET i == IF tmp # None THEN tmp ELSE NewInode IN
       /\ tmp' = i
       /\ data' = Truncated(i)
       /\ proc' = [proc EXCEPT ![p].at = "copy", ![p].wfd = i,
                               ![p].wpos = Len(Truncated(i)[i]) + 1]
  /\ UNCHANGED <<flags, rc, bounds, history>>

\* either fopen fails: the call returns -1
OpenFails(p) ==
  /\ proc[p].at = "tmp"
  /\ Failing
  /\ proc' = [proc EXCEPT ![p].at = "idle", ![p].rfd = None]
  /\ UNCHANGED <<flags, data, rc, tmp, calls, foreign, history>>

\* strstr(line, name)
strstr(line, n) == \E m \in line.names : n \in Substrings[m]

\* fputs at position k: what lies between the end of the file and k is empty
Written(s, k, line) ==
  [i \in 1 .. IF k > Len(s) THEN k ELSE Len(s) |->
     IF i = k THEN line ELSE IF i <= Len(s) THEN s[i] ELSE Hole]

Line(p) == data[proc[p].rfd][proc[p].rpos]

Drops(p) ==
  Line(p) # Hole /\ ~Line(p).comment /\ strstr(Line(p), proc[p].nif)

CopyLine(p) ==
  /\ proc[p].at = "copy"
  /\ proc[p].rpos <= Len(data[proc[p].rfd])
  /\ \/ /\ Drops(p)
        /\ proc' = [proc EXCEPT ![p].rpos = @ + 1]
        /\ UNCHANGED <<data, failures, spoilt>>
     \/ /\ ~Drops(p)
        /\ data' = [data EXCEPT
                      ![proc[p].wfd] = Written(@, proc[p].wpos, Line(p))]
        /\ proc' = [proc EXCEPT ![p].rpos = @ + 1, ![p].wpos = @ + 1]
        /\ UNCHANGED <<failures, spoilt>>
     \/ /\ ~Drops(p)                    \* fputs fails and nobody looks
        /\ Failing
        /\ proc' = [proc EXCEPT ![p].rpos = @ + 1]
        /\ spoilt' = TRUE
        /\ UNCHANGED data
  /\ UNCHANGED <<flags, rc, tmp, calls, foreign, expected, others, raced>>

\* Mutant of Renamed: the old rc.conf is unlinked before the rename.
RenamedUnlinked == /\ rc' = tmp
                   /\ tmp' = None

\* rename(2): fails without a word when another process took the file away
Renamed == IF tmp = None THEN UNCHANGED <<rc, tmp>>
                         ELSE rc' = tmp /\ tmp' = None

\* the places in s of the lines that configure something else than interface n
Kept(s, n) == {i \in 1 .. Len(s) : s[i].comment \/ n \notin s[i].names}

Rank(K, i) == Cardinality({k \in K : k <= i})

\* those lines, in their order
Less(s, n) ==
  LET K == Kept(s, n)
  IN  [j \in 1 .. Cardinality(K) |-> s[CHOOSE i \in K : Rank(K, i) = j]]

Rename(p) ==
  /\ proc[p].at = "copy"
  /\ proc[p].rpos > Len(data[proc[p].rfd])
  /\ Renamed
  /\ proc' = [proc EXCEPT ![p].at = "idle", ![p].rfd = None, ![p].wfd = None]
  /\ expected' = IF spoilt THEN expected ELSE Less(expected, proc[p].nif)
  /\ UNCHANGED <<flags, data, bounds, spoilt, others, raced>>
-----------------------------------------------------------------------------
(***************************************************************************)
(* setifflags, for drv_if_up (value TRUE) and drv_if_down (value FALSE).   *)
(***************************************************************************)
AsShort(x) == IF x % 65536 < 32768 THEN x % 65536 ELSE (x % 65536) - 65536

\* what the kernel makes of its flags for the one ioctl and of the fields for the other
SIOCGIFFLAGS(f) == [flags |-> AsShort(f), flagshigh |-> f \div 65536]
SIOCSIFFLAGS(ifr) == (ifr.flags % 65536) + 65536 * ifr.flagshigh

\* Mutant of Joined: without the mask a negative ifr_flags fills the high half.
JoinedUnmasked(ifr) ==
  IF ifr.flags < 0 THEN ifr.flags ELSE ifr.flags + 65536 * ifr.flagshigh

\* (ifr_flags & 0xffff) | (ifr_flagshigh << 16)
Joined(ifr) == (ifr.flags % 65536) + 65536 * ifr.flagshigh

\* flags |= IFF_UP, or flags &= ~IFF_UP
WithUp(f, value) == f - (f % 2) + (IF value THEN 1 ELSE 0)

\* flags & 0xffff and flags >> 16
Filled(f) == [flags |-> AsShort(f % 65536), flagshigh |-> f \div 65536]

GetFlags(p, value) ==
  LET n == proc[p].nif IN
  /\ proc[p].at = "idle"
  /\ Calling
  /\ IF flags[n] = None                                      \* returns -1
     THEN UNCHANGED proc
     ELSE proc' = [proc EXCEPT ![p].at = "set", ![p].value = value,
                               ![p].ifr = SIOCGIFFLAGS(flags[n])]
  /\ UNCHANGED <<flags, data, rc, tmp, failures, foreign, history>>

SetFlags(p) ==
  LET n == proc[p].nif
      ifr == Filled(WithUp(Joined(proc[p].ifr), proc[p].value))
  IN
  /\ proc[p].at = "set"
  /\ flags' = IF flags[n] = None THEN flags                  \* returns -1
              ELSE [flags EXCEPT ![n] = SIOCSIFFLAGS(ifr)]
  /\ proc' = [proc EXCEPT ![p].at = "idle", ![p].ifr = Fresh.ifr]
  /\ UNCHANGED <<data, rc, tmp, bounds, history>>
-----------------------------------------------------------------------------
\* The process is killed; its next incarnation starts without a handle.
Kill(p) ==
  /\ proc[p].at \notin {"none", "idle"}
  /\ Failing
  /\ proc' = [proc EXCEPT ![p] = Fresh]
  /\ UNCHANGED <<flags, data, rc, tmp, calls, foreign, history>>

\* Another program creates, destroys or changes an interface.
OtherProgram(n) ==
  /\ foreign < MaxForeign /\ foreign' = foreign + 1
  /\ \E f \in {None} \union Words :
       /\ flags' = [flags EXCEPT ![n] = f]
       /\ others' = [others EXCEPT ![n] = IF f = None THEN None ELSE Rest(f)]
  /\ raced' = IF \E p \in Procs : proc[p].at = "set" /\ proc[p].nif = n
              THEN raced \union {n} ELSE raced \ {n}
  /\ UNCHANGED <<data, rc, tmp, proc, calls, failures, expected, spoilt>>

Next ==
  \/ \E p \in Procs :
       \/ \E n \in Names : LookupByName(p, n)
       \/ IfFree(p)
       \/ Undefine(p) \/ OpenTmp(p) \/ OpenFails(p) \/ CopyLine(p) \/ Rename(p)
       \/ \E value \in BOOLEAN : GetFlags(p, value)
       \/ SetFlags(p)
       \/ Kill(p)
  \/ \E n \in Names : OtherProgram(n)

Spec == Init /\ [][Next]_vars
-----------------------------------------------------------------------------
(***************************************************************************)
(* Properties.                                                             *)
(***************************************************************************)

(* /etc/rc.conf always exists, and everything is of its type: no           *)
(* interleaving of opens and renames of processes that share               *)
(* /etc/rc.conf.tmp (drv_undefine) leaves the machine without it.          *)
TypeOK ==
  /\ flags \in [Names -> {None} \union Int]
  /\ \A n \in Names : flags[n] # None => flags[n] \in Int32
  /\ data \in [Inodes -> Seq(Lines \union {Hole})]
  /\ rc \in Inodes
  /\ tmp \in Inodes \union {None} /\ tmp # rc
  /\ proc \in [Procs -> Process]
  /\ calls \in 0 .. MaxCalls /\ failures \in 0 .. MaxFailures
  /\ foreign \in 0 .. MaxForeign
  /\ expected \in Seq(Lines) /\ spoilt \in BOOLEAN
  /\ others \in [Names -> {None} \union Int] /\ raced \subseteq Names

(* As long as no two calls of drv_undefine overlapped, no write failed and *)
(* none was for an interface whose name is part of another's, rc.conf is   *)
(* at every moment what whole calls made of it: each took away the lines   *)
(* that configure its interface, and no others ("We write everything less  *)
(* interface in question"), and a call that was killed or could not open a *)
(* file took away nothing, whatever it left in rc.conf.tmp for the next    *)
(* call.  The third exception is where the code does not do what that      *)
(* comment says: the test is strstr, and em1 takes em10's lines along.     *)
RcConfWhole == ~spoilt => data[rc] = expected

(* The flags of an interface, all but IFF_UP and in both halves of the     *)
(* word, are as other programs last set them, however many calls of        *)
(* drv_if_up and drv_if_down read and write them back at the same time, in *)
(* whichever order, and wherever some of them were killed.  The exception  *)
(* is an interface that another program changed while a call was between   *)
(* its two ioctls: the call undoes that change.                            *)
OtherFlagsKept ==
  \A n \in Names \ raced : flags[n] # None => Rest(flags[n]) = others[n]
=============================================================================
