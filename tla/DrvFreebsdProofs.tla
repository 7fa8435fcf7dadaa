-------------------------- MODULE DrvFreebsdProofs --------------------------
(***************************************************************************)
(* Theorems about DrvFreebsd, for any number of processes, interfaces,     *)
(* flags and lines, and every value of the bounds.                         *)
(***************************************************************************)
EXTENDS DrvFreebsd, FiniteSetTheorems, SequenceTheorems, TLAPS

\* A process holds the file it reads from its fopen to its fclose, and the file it writes
\* while it copies; it has an interface as long as it has a handle.
Handles(p) ==
  /\ proc[p].at # "none" => proc[p].nif \in Names
  /\ Undefining(p) <=> proc[p].rfd # None
  /\ proc[p].at = "copy" <=> proc[p].wfd # None

Used == InUse \ {None}

\* The processes that have yet to open rc.conf.tmp.
Starting == {p \in Procs : proc[p].at = "tmp"}

\* Each call of drv_undefine makes one inode at most, and not before it opens rc.conf.tmp:
\* there is always one left for it.
Room ==
  /\ IsFiniteSet(Starting)
  /\ Cardinality(Used) + Cardinality(Starting) <= calls + 1

TInv == TypeOK /\ (\A p \in Procs : Handles(p)) /\ Room
-----------------------------------------------------------------------------
\* The inodes in use are inodes.
LEMMA UsedInodes ==
  /\ TypeOK => Used \subseteq Inodes
  /\ TypeOK' => Used' \subseteq Inodes
BY DEF TypeOK, Process, Used, InUse

\* There are finitely many inodes, one more than there can be calls.
LEMMA InodesFinite ==
  /\ IsFiniteSet(Inodes) /\ Cardinality(Inodes) = MaxCalls + 1
  /\ None \notin Inodes /\ 1 \in Inodes
<1>1. MaxCalls + 1 \in Nat /\ 1 <= MaxCalls + 1
  BY BoundsAssumption
<1>2. IsFiniteSet(1 .. MaxCalls + 1) /\ Cardinality(1 .. MaxCalls + 1) = MaxCalls + 1
  BY <1>1, FS_Interval
<1> QED BY <1>1, <1>2, MarkersAssumption DEF Inodes

\* An inode that is not in use can be found whenever one is needed.
LEMMA NewInodeIsNew ==
  ASSUME TInv, NEW p \in Procs, proc[p].at = "tmp"
  PROVE  NewInode \in Inodes /\ NewInode \notin InUse
<1>1. IsFiniteSet(Starting) /\ p \in Starting
  BY DEF TInv, Room, Starting
<1>2. Cardinality(Starting) \in Nat /\ Cardinality(Starting) # 0
  BY <1>1, FS_CardinalityType, FS_EmptySet
<1>3. Used \subseteq Inodes /\ IsFiniteSet(Used)
  BY UsedInodes, InodesFinite, FS_Subset DEF TInv
<1>4. Cardinality(Used) \in Nat
  BY <1>3, FS_CardinalityType
<1>5. Cardinality(Used) # Cardinality(Inodes)
  BY <1>2, <1>4, InodesFinite, BoundsAssumption DEF TInv, Room, TypeOK
<1>6. Used # Inodes
  BY <1>5
<1>7. PICK i \in Inodes : i \notin Used
  BY <1>3, <1>6
<1>8. i \notin InUse
  BY <1>7, InodesFinite DEF Used
<1> QED BY <1>7, <1>8 DEF NewInode

\* A step of one process, seen from the others.
Only(p) == /\ proc' = [proc EXCEPT ![p] = proc'[p]]
           /\ proc'[p] \in Process

\* A step of one process leaves the others as they are.
LEMMA OnlyType ==
  ASSUME TypeOK, NEW p \in Procs, Only(p)
  PROVE  /\ proc' \in [Procs -> Process]
         /\ \A q \in Procs \ {p} : proc'[q] = proc[q]
BY DEF TypeOK, Only

\* What a step may do to the inodes in use and to the processes that start a copy.
LEMMA RoomStep ==
  ASSUME TInv, TypeOK',
         \/ Used' \subseteq Used /\ Starting' \subseteq Starting /\ calls <= calls'
         \/ /\ Used' \subseteq Used
            /\ \E p : Starting' = Starting \cup {p}
            /\ calls' = calls + 1
         \/ /\ \E i : Used' \subseteq Used \cup {i}
            /\ \E p \in Starting : Starting' = Starting \ {p}
            /\ calls' = calls
  PROVE  Room'
<1>1. IsFiniteSet(Used) /\ IsFiniteSet(Used')
  BY UsedInodes, InodesFinite, FS_Subset DEF TInv
<1>2. IsFiniteSet(Starting) /\ IsFiniteSet(Starting')
  BY FS_Subset, FS_AddElement, FS_RemoveElement DEF TInv, Room
<1> DEFINE a == Cardinality(Used)  a1 == Cardinality(Used')
           b == Cardinality(Starting)  b1 == Cardinality(Starting')
           c1 == calls'
<1>3. a \in Nat /\ a1 \in Nat /\ b \in Nat /\ b1 \in Nat
  BY <1>1, <1>2, FS_CardinalityType
<1>4. calls \in Nat /\ c1 \in Nat
  BY BoundsAssumption DEF TInv, TypeOK
<1>5. a + b <= calls + 1
  BY DEF TInv, Room
<1>6. Used' \subseteq Used => a1 <= a
  BY <1>1, FS_Subset
<1>7. Starting' \subseteq Starting => b1 <= b
  BY <1>2, FS_Subset
<1>8. ASSUME NEW p, Starting' = Starting \cup {p} PROVE b1 <= b + 1
  <2>1. b1 = b \/ b1 = b + 1
    BY <1>2, <1>8, FS_AddElement
  <2> QED BY <1>3, <2>1
<1>9. ASSUME NEW i, Used' \subseteq Used \cup {i} PROVE a1 <= a + 1
  <2>1. IsFiniteSet(Used \cup {i})
    BY <1>1, FS_AddElement
  <2>2. a1 <= Cardinality(Used \cup {i})
    BY <1>9, <2>1, FS_Subset
  <2>3. Cardinality(Used \cup {i}) \in {a, a + 1}
    BY <1>1, FS_AddElement
  <2> QED BY <1>3, <2>2, <2>3
<1>10. ASSUME NEW p \in Starting, Starting' = Starting \ {p} PROVE b1 <= b - 1
  <2>1. b1 = b - 1
    BY <1>2, <1>10, FS_RemoveElement
  <2> QED BY <1>3, <2>1
<1> HIDE DEF a, a1, b, b1, c1
<1>11. \/ a1 <= a /\ b1 <= b /\ calls <= c1
       \/ a1 <= a /\ b1 <= b + 1 /\ c1 = calls + 1
       \/ a1 <= a + 1 /\ b1 <= b - 1 /\ c1 = calls
  <2>1. CASE Used' \subseteq Used /\ Starting' \subseteq Starting /\ calls <= calls'
    BY Zenon, <1>6, <1>7, <2>1 DEF c1
  <2>2. CASE /\ Used' \subseteq Used
             /\ \E p : Starting' = Starting \cup {p}
             /\ calls' = calls + 1
    BY Zenon, <1>6, <1>8, <2>2 DEF c1
  <2>3. CASE /\ \E i : Used' \subseteq Used \cup {i}
             /\ \E p \in Starting : Starting' = Starting \ {p}
             /\ calls' = calls
    BY Zenon, <1>9, <1>10, <2>3 DEF c1
  <2> QED BY Zenon, <2>1, <2>2, <2>3
<1>12. a1 + b1 <= c1 + 1
  BY <1>3, <1>4, <1>5, <1>11
<1> QED BY Zenon, <1>2, <1>12 DEF Room, a1, b1, c1

-----------------------------------------------------------------------------
\* A function on 1 .. m is a sequence of length m.
LEMMA SeqOfLength ==
  ASSUME NEW S, NEW m \in Nat, NEW w \in [1 .. m -> S]
  PROVE  w \in Seq(S) /\ Len(w) = m
<1> DEFINE l == Len(w)
<1>1. w \in Seq(S)
  BY SeqDef
<1>2. l \in Nat /\ DOMAIN w = 1 .. l
  BY <1>1, LenProperties
<1> HIDE DEF l
<1>3. 1 .. l = 1 .. m
  BY <1>2
<1>4. l <= m
  <2>1. CASE l = 0
    BY <2>1
  <2>2. CASE l # 0
    <3>1. l \in 1 .. l
      BY <1>2, <2>2
    <3> QED BY <1>3, <3>1
  <2> QED BY <2>1, <2>2
<1>5. m <= l
  <2>1. CASE m = 0
    BY <1>2, <2>1
  <2>2. CASE m # 0
    <3>1. m \in 1 .. m
      BY <2>2
    <3>2. m \in 1 .. l
      BY Zenon, <1>3, <3>1
    <3> QED BY <1>2, <3>2
  <2> QED BY <2>1, <2>2
<1>6. l = m
  BY <1>2, <1>4, <1>5
<1> QED BY <1>1, <1>6 DEF l

\* What fputs leaves is a file.
LEMMA WrittenType ==
  ASSUME NEW S, NEW s \in Seq(S), NEW k \in Nat \ {0}, NEW line \in S, Hole \in S
  PROVE  /\ Written(s, k, line) \in Seq(S)
         /\ Len(Written(s, k, line)) = IF k > Len(s) THEN k ELSE Len(s)
         /\ Written(s, k, line)[k] = line
         /\ \A i \in 1 .. Len(s) : i # k => Written(s, k, line)[i] = s[i]
<1> DEFINE m == IF k > Len(s) THEN k ELSE Len(s)
           w == Written(s, k, line)
<1>1. Len(s) \in Nat /\ \A i \in 1 .. Len(s) : s[i] \in S
  BY LenProperties, ElementOfSeq
<1>2. m \in Nat /\ k \in 1 .. m /\ 1 .. Len(s) \subseteq 1 .. m
  BY <1>1
<1>3. w = [i \in 1 .. m |-> IF i = k THEN line ELSE IF i <= Len(s) THEN s[i] ELSE Hole]
  BY DEF Written
<1> HIDE DEF w, m
<1>4. w \in [1 .. m -> S]
  <2>1. \A i \in 1 .. m : (IF i = k THEN line ELSE IF i <= Len(s) THEN s[i] ELSE Hole) \in S
    BY <1>1, <1>2
  <2> QED BY <1>3, <2>1
<1>5. w \in Seq(S) /\ Len(w) = m
  BY <1>2, <1>4, SeqOfLength
<1>6. w[k] = line /\ \A i \in 1 .. Len(s) : i # k => w[i] = s[i]
  BY <1>1, <1>2, <1>3
<1> QED BY <1>5, <1>6 DEF m, w

\* A step of p, seen from the other processes: it changes nothing of theirs.
LEMMA OthersKept ==
  ASSUME TInv, NEW p \in Procs, Only(p), Handles(p)'
  PROVE  \A q \in Procs : Handles(q)'
<1>1. \A q \in Procs \ {p} : proc'[q] = proc[q]
  BY OnlyType DEF TInv
<1>2. \A q \in Procs \ {p} : Handles(q)'
  BY <1>1 DEF TInv, Handles, Undefining
<1> QED BY <1>2

\* The inodes in use after a step of p.
LEMMA UsedStep ==
  ASSUME TInv, NEW p \in Procs, Only(p), NEW i,
         {rc', tmp', proc'[p].rfd, proc'[p].wfd} \subseteq InUse \cup {None, i}
  PROVE  Used' \subseteq Used \cup {i}
<1>1. \A q \in Procs \ {p} : proc'[q] = proc[q]
  BY OnlyType DEF TInv
<1> QED BY <1>1 DEF Used, InUse

\* The processes that start a copy after a step of p.
LEMMA StartingStep ==
  ASSUME TInv, NEW p \in Procs, Only(p)
  PROVE  Starting' = IF proc'[p].at = "tmp" THEN Starting \cup {p} ELSE Starting \ {p}
<1>1. \A q \in Procs \ {p} : proc'[q] = proc[q]
  BY OnlyType DEF TInv
<1> QED BY <1>1 DEF Starting

\* A step of p that takes no new inode and starts no copy.
LEMMA QuietRoom ==
  ASSUME TInv, TypeOK', NEW p \in Procs, Only(p), proc'[p].at # "tmp", calls <= calls',
         {rc', tmp', proc'[p].rfd, proc'[p].wfd} \subseteq InUse \cup {None}
  PROVE  Room'
<1>1. Used' \subseteq Used
  <2>1. Used' \subseteq Used \cup {None}
    BY UsedStep
  <2> QED BY <2>1 DEF Used
<1>2. Starting' \subseteq Starting
  BY StartingStep
<1> QED BY <1>1, <1>2, RoomStep

\* A step of p that leaves its files alone.
LEMMA QuietStep ==
  ASSUME TInv, TypeOK', NEW p \in Procs, Only(p), Handles(p)',
         proc'[p].at # "tmp", calls <= calls', UNCHANGED <<rc, tmp>>,
         {proc'[p].rfd, proc'[p].wfd} \subseteq {None, proc[p].rfd, proc[p].wfd}
  PROVE  TInv'
<1>1. {rc', tmp', proc'[p].rfd, proc'[p].wfd} \subseteq InUse \cup {None}
  BY DEF InUse
<1>2. Room'
  BY <1>1, QuietRoom
<1> QED BY <1>2, OthersKept DEF TInv
-----------------------------------------------------------------------------
\* Counting up to a bound.
LEMMA Counting ==
  \A m \in Nat : \A c \in 0 .. m :
    (c <= c) /\ (c < m => c + 1 \in 0 .. m /\ c <= c + 1)
OBVIOUS

\* A bounded step stays within its bound.
LEMMA BoundedSteps ==
  ASSUME TypeOK
  PROVE  /\ Failing => failures' \in 0 .. MaxFailures
         /\ Calling => calls' \in 0 .. MaxCalls /\ calls <= calls'
         /\ foreign < MaxForeign => foreign + 1 \in 0 .. MaxForeign
         /\ calls <= calls
<1>1. failures \in 0 .. MaxFailures /\ calls \in 0 .. MaxCalls /\ foreign \in 0 .. MaxForeign
  BY DEF TypeOK
<1> QED BY Zenon, <1>1, Counting, BoundsAssumption DEF Failing, Calling

\* The steps keep the invariant.
LEMMA LookupByNameType ==
  ASSUME TInv, NEW p \in Procs, NEW n \in Names, LookupByName(p, n)
  PROVE  TInv'
<1>1. Only(p) /\ Handles(p)' /\ proc'[p].rfd = None /\ proc'[p].wfd = None
      /\ proc'[p].at # "tmp"
  BY DEF TInv, TypeOK, LookupByName, Only, Process, Places, Handles, Undefining
<1>2. TypeOK'
  BY <1>1, OnlyType DEF TInv, TypeOK, LookupByName, bounds, history
<1>3. UNCHANGED <<rc, tmp, calls>>
  BY DEF LookupByName, bounds
<1> QED BY <1>1, <1>2, <1>3, QuietStep, BoundsAssumption DEF TInv, TypeOK

\* A new process has its type.
LEMMA FreshType == Fresh \in Process
<1>1. [flags |-> 0, flagshigh |-> 0] \in Ifreq
  BY SMT DEF Ifreq, Short, Within
<1> QED BY <1>1, InodesFinite DEF Fresh, Process, Places

\* free_netcf_if keeps the types.
LEMMA IfFreeType ==
  ASSUME TInv, NEW p \in Procs, IfFree(p) \/ Kill(p)
  PROVE  TInv'
<1>1. proc' = [proc EXCEPT ![p] = Fresh] /\ Fresh \in Process
  BY FreshType DEF IfFree, Kill
<1>2. Only(p) /\ Handles(p)' /\ proc'[p] = Fresh
  BY <1>1 DEF TInv, TypeOK, Only, Process, Places, Handles, Undefining, Fresh
<1>3. failures' \in 0 .. MaxFailures
  BY Zenon, BoundedSteps DEF TInv, TypeOK, IfFree, Kill, bounds
<1>4. UNCHANGED <<flags, data, rc, tmp, calls, foreign, expected, spoilt, others, raced>>
  BY DEF IfFree, Kill, bounds, history
<1>5. TypeOK'
  BY <1>2, <1>3, <1>4, OnlyType DEF TInv, TypeOK
<1>6. calls <= calls'
  BY <1>4, BoundsAssumption DEF TInv, TypeOK
<1> QED BY <1>2, <1>4, <1>5, <1>6, QuietStep DEF Fresh

\* A failing fopen keeps the types.
LEMMA OpenFailsType ==
  ASSUME TInv, NEW p \in Procs, OpenFails(p)
  PROVE  TInv'
<1>1. Only(p) /\ Handles(p)' /\ proc'[p].rfd = None /\ proc'[p].wfd = None
      /\ proc'[p].at # "tmp"
  BY DEF TInv, TypeOK, OpenFails, Only, Process, Places, Handles, Undefining
<1>2. failures' \in 0 .. MaxFailures
  BY Zenon, BoundedSteps DEF TInv, OpenFails
<1>3. TypeOK'
  BY <1>1, <1>2, OnlyType DEF TInv, TypeOK, OpenFails, history
<1>4. calls <= calls' /\ UNCHANGED <<rc, tmp>>
  BY BoundsAssumption DEF OpenFails, TInv, TypeOK
<1> QED BY <1>1, <1>3, <1>4, QuietStep

\* A word is an integer, and so is what is left of it without IFF_UP.
LEMMA WordIsInt == \A f \in Int32 : f \in Int /\ Rest(f) \in Int
BY SMT DEF Int32, Within, Rest

\* The numbers that setifflags handles: what a word is made of, and what is left of it.
LEMMA Halves ==
  ASSUME NEW f \in Int32
  PROVE  /\ f \in Int
         /\ AsShort(f) \in Short /\ AsShort(f % 65536) \in Short /\ f \div 65536 \in Short
         /\ (AsShort(f) % 65536) + 65536 * (f \div 65536) = f
         /\ (AsShort(f % 65536) % 65536) + 65536 * (f \div 65536) = f
<1>1. f \in Int
  BY WordIsInt
<1>2. AsShort(f) \in Short /\ AsShort(f % 65536) \in Short
  BY SMT, <1>1 DEF AsShort, Short, Within
<1>3. f \div 65536 \in Short
  BY SMT DEF Int32, Short, Within
<1>4. (AsShort(f) % 65536) + 65536 * (f \div 65536) = f
  BY SMT, <1>1 DEF AsShort
<1>5. (AsShort(f % 65536) % 65536) + 65536 * (f \div 65536) = f
  BY SMT, <1>1 DEF AsShort
<1> QED BY SMT, <1>1, <1>2, <1>3, <1>4, <1>5

\* Two halves make a word.
LEMMA JoinedType ==
  ASSUME NEW ifr \in Ifreq
  PROVE  Joined(ifr) \in Int32
<1>1. ifr.flags \in Short /\ ifr.flagshigh \in Short
  BY DEF Ifreq
<1>2. \A a, b \in Short : (a % 65536) + 65536 * b \in Int32
  BY SMT DEF Short, Int32, Within
<1> QED BY SMT, <1>1, <1>2 DEF Joined

\* Reading the flags and joining them gives the flags of the interface: the sign of ifr_flags does
\* not reach the high half.
LEMMA GetJoined ==
  ASSUME NEW f \in Int32
  PROVE  SIOCGIFFLAGS(f) \in Ifreq /\ Joined(SIOCGIFFLAGS(f)) = f
<1> DEFINE a == AsShort(f)
           b == f \div 65536
<1>1. a \in Short /\ b \in Short /\ (a % 65536) + 65536 * b = f
  BY SMT, Halves
<1>2. SIOCGIFFLAGS(f) = [flags |-> a, flagshigh |-> b]
  BY SMT DEF SIOCGIFFLAGS
<1> HIDE DEF a, b
<1>3. SIOCGIFFLAGS(f).flags = a /\ SIOCGIFFLAGS(f).flagshigh = b
  BY <1>2
<1>4. SIOCGIFFLAGS(f) \in Ifreq
  BY <1>1, <1>2 DEF Ifreq
<1> QED BY SMT, <1>1, <1>3, <1>4 DEF Joined

\* Splitting the flags and setting them gives the interface these flags.
LEMMA SetFilled ==
  ASSUME NEW f \in Int32
  PROVE  SIOCSIFFLAGS(Filled(f)) = f
<1> DEFINE a == AsShort(f % 65536)
           b == f \div 65536
<1>1. (a % 65536) + 65536 * b = f
  BY SMT, Halves
<1>2. Filled(f) = [flags |-> a, flagshigh |-> b]
  BY SMT DEF Filled
<1> HIDE DEF a, b
<1>3. Filled(f).flags = a /\ Filled(f).flagshigh = b
  BY <1>2
<1> QED BY SMT, <1>1, <1>3 DEF SIOCSIFFLAGS

\* Setting and clearing IFF_UP touches no other flag.
LEMMA WithUpRest ==
  ASSUME NEW f \in Int32, NEW value \in BOOLEAN
  PROVE  WithUp(f, value) \in Int32 /\ Rest(WithUp(f, value)) = Rest(f)
<1> DEFINE v == IF value THEN 1 ELSE 0
<1>1. v \in {0, 1}
  OBVIOUS
<1> HIDE DEF v
<1>2. /\ f - (f % 2) + v \in Int32
      /\ (f - (f % 2) + v) \div 2 = f \div 2
  BY SMT, <1>1 DEF Int32, Within
<1> QED BY Zenon, <1>2 DEF WithUp, Rest, v

\* What setifflags makes of the flags it read.
LEMMA FlagsWritten ==
  ASSUME NEW ifr \in Ifreq, NEW value \in BOOLEAN
  PROVE  /\ SIOCSIFFLAGS(Filled(WithUp(Joined(ifr), value))) \in Int32
         /\ Rest(SIOCSIFFLAGS(Filled(WithUp(Joined(ifr), value)))) = Rest(Joined(ifr))
BY Zenon, JoinedType, WithUpRest, SetFilled

\* SIOCGIFFLAGS, the first half of setifflags, keeps the types.
LEMMA GetFlagsType ==
  ASSUME TInv, NEW p \in Procs, NEW value \in BOOLEAN, GetFlags(p, value)
  PROVE  TInv'
<1>1. proc[p].nif \in Names /\ proc[p].rfd = None /\ proc[p].wfd = None
  BY DEF TInv, Handles, Undefining, GetFlags
<1>2. Only(p) /\ Handles(p)' /\ proc'[p].rfd = None /\ proc'[p].wfd = None
      /\ proc'[p].at # "tmp"
  <2>1. CASE flags[proc[p].nif] = None
    <3>1. proc' = proc /\ proc[p].at = "idle"
      BY <2>1 DEF GetFlags
    <3> QED BY <1>1, <3>1 DEF TInv, TypeOK, Only, Handles, Undefining
  <2>2. CASE flags[proc[p].nif] # None
    <3> DEFINE g == SIOCGIFFLAGS(flags[proc[p].nif])
    <3>1. g \in Ifreq
      BY <1>1, <2>2, GetJoined DEF TInv, TypeOK
    <3>2. /\ proc' = [proc EXCEPT ![p].at = "set", ![p].value = value, ![p].ifr = g]
          /\ proc[p].at = "idle"
      BY <2>2 DEF GetFlags
    <3> HIDE DEF g
    <3> QED
      BY <1>1, <3>1, <3>2 DEF TInv, TypeOK, Only, Process, Places, Handles, Undefining
  <2> QED BY <2>1, <2>2
<1>3. calls' \in 0 .. MaxCalls /\ calls <= calls'
  BY Zenon, BoundedSteps DEF TInv, GetFlags
<1>4. UNCHANGED <<flags, data, rc, tmp, failures, foreign, expected, spoilt, others, raced>>
  BY DEF GetFlags, history
<1>5. TypeOK'
  BY <1>2, <1>3, <1>4, OnlyType DEF TInv, TypeOK
<1> QED BY <1>2, <1>3, <1>4, <1>5, QuietStep

\* SIOCSIFFLAGS, the second half, keeps the types.
LEMMA SetFlagsType ==
  ASSUME TInv, NEW p \in Procs, SetFlags(p)
  PROVE  TInv'
<1>1. proc[p].nif \in Names /\ proc[p].rfd = None /\ proc[p].wfd = None
  BY DEF TInv, Handles, Undefining, SetFlags
<1>2. Only(p) /\ Handles(p)' /\ proc'[p].rfd = None /\ proc'[p].wfd = None
      /\ proc'[p].at # "tmp"
  <2>1. Fresh.ifr \in Ifreq
    BY SMT DEF Fresh, Ifreq, Short, Within
  <2> DEFINE z == Fresh.ifr
  <2>2. proc' = [proc EXCEPT ![p].at = "idle", ![p].ifr = z] /\ proc[p].at = "set"
    BY DEF SetFlags
  <2> HIDE DEF z
  <2> QED BY <1>1, <2>1, <2>2 DEF TInv, TypeOK, Only, Process, Places, Handles, Undefining, z
<1>3. /\ flags' \in [Names -> {None} \union Int]
      /\ \A n \in Names : flags'[n] # None => flags'[n] \in Int32
  <2> DEFINE f == SIOCSIFFLAGS(Filled(WithUp(Joined(proc[p].ifr), proc[p].value)))
  <2>1. f \in Int32
    BY FlagsWritten DEF TInv, TypeOK, Process
  <2>2. f \in Int
    BY <2>1, WordIsInt
  <2>3. flags' = flags \/ flags' = [flags EXCEPT ![proc[p].nif] = f]
    BY DEF SetFlags
  <2> HIDE DEF f
  <2> QED BY <1>1, <2>1, <2>2, <2>3 DEF TInv, TypeOK
<1>4. UNCHANGED <<data, rc, tmp, calls, failures, foreign, expected, spoilt, others, raced>>
  BY DEF SetFlags, history, bounds
<1>5. TypeOK'
  BY <1>2, <1>3, <1>4, OnlyType DEF TInv, TypeOK
<1>6. calls <= calls'
  BY <1>4, BoundedSteps DEF TInv
<1> QED BY <1>2, <1>4, <1>5, <1>6, QuietStep

\* A change by another program keeps the types.
LEMMA OtherProgramType ==
  ASSUME TInv, NEW n \in Names, OtherProgram(n)
  PROVE  TInv'
<1>1. TypeOK'
  <2>1. foreign' \in 0 .. MaxForeign
    BY Zenon, BoundedSteps DEF TInv, OtherProgram
  <2>2. PICK f \in {None} \union Words :
          /\ flags' = [flags EXCEPT ![n] = f]
          /\ others' = [others EXCEPT ![n] = IF f = None THEN None ELSE Rest(f)]
    BY DEF OtherProgram
  <2>3. f # None => f \in Int32 /\ f \in Int /\ Rest(f) \in Int
    BY WordsAssumption, WordIsInt
  <2>4. /\ flags' \in [Names -> {None} \union Int]
        /\ \A m \in Names : flags'[m] # None => flags'[m] \in Int32
    BY <2>2, <2>3 DEF TInv, TypeOK
  <2>5. others' \in [Names -> {None} \union Int] /\ raced' \subseteq Names
    BY <2>2, <2>3 DEF TInv, TypeOK, OtherProgram
  <2> QED BY <2>1, <2>4, <2>5 DEF TInv, TypeOK, OtherProgram
<1>2. UNCHANGED <<Starting, Used, calls>>
  BY DEF OtherProgram, Starting, Used, InUse
<1>3. Room' /\ \A p \in Procs : Handles(p)'
  BY <1>2 DEF TInv, Room, Handles, Undefining, OtherProgram
<1> QED BY <1>1, <1>3 DEF TInv

\* The start of drv_undefine keeps the types.
LEMMA UndefineType ==
  ASSUME TInv, NEW p \in Procs, Undefine(p)
  PROVE  TInv'
<1>1. rc \in Inodes /\ rc # None /\ proc[p].wfd = None
  BY InodesFinite DEF TInv, TypeOK, Handles, Undefine
<1>2. Only(p) /\ Handles(p)' /\ proc'[p].rfd = rc /\ proc'[p].wfd = None
      /\ proc'[p].at = "tmp"
  BY <1>1 DEF TInv, TypeOK, Undefine, Only, Process, Places, Handles, Undefining
<1>3. calls' \in 0 .. MaxCalls /\ calls' = calls + 1
  BY Zenon, BoundedSteps DEF TInv, Undefine, Calling
<1>4. spoilt' \in BOOLEAN
  BY Zenon DEF TInv, TypeOK, Undefine
<1>5. TypeOK'
  BY <1>2, <1>3, <1>4, OnlyType DEF TInv, TypeOK, Undefine
<1>6. {rc', tmp', proc'[p].rfd, proc'[p].wfd} \subseteq InUse \cup {None, None}
  BY <1>2 DEF Undefine, InUse
<1>7. Used' \subseteq Used
  <2>1. Used' \subseteq Used \cup {None}
    BY <1>2, <1>6, UsedStep
  <2> QED BY <2>1 DEF Used
<1>8. Starting' = Starting \cup {p}
  BY <1>2, StartingStep
<1>9. Room'
  BY <1>3, <1>5, <1>7, <1>8, RoomStep
<1> QED BY <1>2, <1>5, <1>9, OthersKept DEF TInv

\* Opening rc.conf.tmp, new or there, keeps the types.
LEMMA OpenTmpType ==
  ASSUME TInv, NEW p \in Procs, OpenTmp(p)
  PROVE  TInv'
<1> DEFINE i == IF tmp # None THEN tmp ELSE NewInode
<1>1. i \in Inodes /\ i # None /\ i # rc
  BY NewInodeIsNew, InodesFinite DEF TInv, TypeOK, OpenTmp, InUse
<1>2. Truncated(i) = [data EXCEPT ![i] = <<>>] /\ Truncated(i)[i] = <<>>
  BY <1>1 DEF Truncated, TInv, TypeOK
<1>3. /\ tmp' = i /\ data' = [data EXCEPT ![i] = <<>>]
      /\ proc' = [proc EXCEPT ![p].at = "copy", ![p].wfd = i, ![p].wpos = 1]
      /\ proc[p].at = "tmp" /\ UNCHANGED <<flags, rc, bounds, history>>
  <2>1. Len(Truncated(i)[i]) + 1 = 1
    BY <1>2
  <2> QED BY <1>2, <2>1 DEF OpenTmp
<1> HIDE DEF i
<1>4. Only(p) /\ Handles(p)' /\ proc'[p].rfd = proc[p].rfd /\ proc'[p].wfd = i
      /\ proc'[p].at = "copy"
  BY <1>1, <1>3 DEF TInv, TypeOK, Only, Process, Places, Handles, Undefining
<1>5. data' \in [Inodes -> Seq(Lines \union {Hole})]
  BY <1>1, <1>3 DEF TInv, TypeOK
<1>6. TypeOK'
  BY <1>1, <1>3, <1>4, <1>5, OnlyType DEF TInv, TypeOK, bounds, history
<1>7. {rc', tmp', proc'[p].rfd, proc'[p].wfd} \subseteq InUse \cup {None, i}
  BY <1>3, <1>4 DEF InUse
<1>8. Used' \subseteq Used \cup {i}
  BY <1>4, <1>7, UsedStep
<1>9. p \in Starting /\ Starting' = Starting \ {p}
  BY <1>3, <1>4, StartingStep DEF Starting
<1>10. Room'
  BY <1>3, <1>6, <1>8, <1>9, RoomStep DEF bounds
<1> QED BY <1>4, <1>6, <1>10, OthersKept DEF TInv

\* A line that is read and written, dropped, or lost in a failing fputs keeps the types.
LEMMA CopyLineType ==
  ASSUME TInv, NEW p \in Procs, CopyLine(p)
  PROVE  TInv'
<1> DEFINE S == Lines \union {Hole}
<1>1. /\ proc[p].rfd \in Inodes /\ proc[p].wfd \in Inodes
      /\ proc[p].rpos \in Nat \ {0} /\ proc[p].wpos \in Nat \ {0}
  BY DEF TInv, TypeOK, Handles, Undefining, CopyLine, Process
<1>2. proc[p].rpos + 1 \in Nat \ {0} /\ proc[p].wpos + 1 \in Nat \ {0}
  BY <1>1
<1>3. data[proc[p].rfd] \in Seq(S) /\ data[proc[p].wfd] \in Seq(S)
  BY <1>1 DEF TInv, TypeOK
<1>4. Line(p) \in S
  BY <1>1, <1>3, ElementOfSeq DEF Line, CopyLine
<1>5. Only(p) /\ Handles(p)' /\ proc'[p].rfd = proc[p].rfd /\ proc'[p].wfd = proc[p].wfd
      /\ proc'[p].at = "copy"
  <2>1. proc[p] \in Process /\ proc[p].at = "copy" /\ Handles(p)
    BY DEF TInv, TypeOK, CopyLine
  <2>2. CASE proc' = [proc EXCEPT ![p].rpos = @ + 1]
    BY <1>2, <2>1, <2>2 DEF TInv, TypeOK, Only, Process, Handles, Undefining
  <2>3. CASE proc' = [proc EXCEPT ![p].rpos = @ + 1, ![p].wpos = @ + 1]
    BY <1>2, <2>1, <2>3 DEF TInv, TypeOK, Only, Process, Handles, Undefining
  <2> QED BY <2>2, <2>3 DEF CopyLine
<1>6. data' \in [Inodes -> Seq(S)]
  <2>1. Written(data[proc[p].wfd], proc[p].wpos, Line(p)) \in Seq(S)
    BY <1>1, <1>3, <1>4, WrittenType
  <2> QED BY <1>1, <2>1 DEF TInv, TypeOK, CopyLine
<1>7. failures' \in 0 .. MaxFailures
  <2>1. failures' = failures \/ Failing
    BY Zenon DEF CopyLine
  <2> QED BY Zenon, <2>1, BoundedSteps DEF TInv, TypeOK
<1>8. spoilt' \in BOOLEAN
  BY Zenon DEF TInv, TypeOK, CopyLine
<1>9. UNCHANGED <<flags, rc, tmp, calls, foreign, expected, others, raced>>
  BY DEF CopyLine
<1>10. TypeOK'
  BY <1>5, <1>6, <1>7, <1>8, <1>9, OnlyType DEF TInv, TypeOK
<1>11. calls <= calls'
  BY <1>9, BoundedSteps DEF TInv
<1> QED BY <1>5, <1>9, <1>10, <1>11, QuietStep

\* An injection needs room.
LEMMA Injected ==
  ASSUME NEW S, IsFiniteSet(S), NEW T, IsFiniteSet(T), NEW f \in [S -> T],
         \A x, y \in S : f[x] = f[y] => x = y
  PROVE  ~(Cardinality(T) < Cardinality(S))
<1>1. Cardinality(T) < Cardinality(S) => \E x, y \in S : x # y /\ f[x] = f[y]
  BY FS_PigeonHole, Zenon
<1> QED BY <1>1, Zenon

\* Ranks number the places of a finite set from 1, in their order.
LEMMA RankNumbers ==
  ASSUME NEW m \in Nat, NEW K \in SUBSET (1 .. m)
  PROVE  /\ IsFiniteSet(K) /\ Cardinality(K) \in Nat
         /\ \A i \in K : Rank(K, i) \in 1 .. Cardinality(K)
         /\ \A i, j \in K : Rank(K, i) = Rank(K, j) => i = j
         /\ \A j \in 1 .. Cardinality(K) : \E i \in K : Rank(K, i) = j
<1> DEFINE Upto(i) == {k \in K : k <= i}
           n == Cardinality(K)
<1>0. K \subseteq Int
  OBVIOUS
<1>1. IsFiniteSet(K) /\ n \in Nat
  <2>1. IsFiniteSet(1 .. m)
    BY FS_Interval
  <2> QED BY <2>1, FS_Subset, FS_CardinalityType
<1>2. \A i \in K : IsFiniteSet(Upto(i)) /\ Rank(K, i) \in Nat /\ Rank(K, i) <= n
  <2>1. \A i \in K : Upto(i) \subseteq K
    OBVIOUS
  <2> QED BY <1>1, <2>1, FS_Subset, FS_CardinalityType DEF Rank
<1> HIDE DEF Upto
<1>3. \A i \in K : Rank(K, i) # 0
  <2>1. \A i \in K : i \in Upto(i)
    BY <1>0 DEF Upto
  <2> QED BY <1>2, <2>1, FS_EmptySet DEF Rank, Upto
<1> HIDE DEF n
<1>4. \A i \in K : Rank(K, i) \in 1 .. n
  BY <1>1, <1>2, <1>3
<1>5. \A i, j \in K : i < j => Rank(K, i) # Rank(K, j)
  <2> SUFFICES ASSUME NEW i \in K, NEW j \in K, i < j PROVE Rank(K, i) # Rank(K, j)
    OBVIOUS
  <2>1. Upto(i) \subseteq Upto(j) /\ Upto(i) # Upto(j)
    <3>1. j \in Upto(j) /\ j \notin Upto(i)
      BY <1>0 DEF Upto
    <3>2. \A k \in K : k <= i => k <= j
      BY <1>0
    <3>3. Upto(i) \subseteq Upto(j)
      BY <3>2 DEF Upto
    <3> QED BY <3>1, <3>3
  <2> QED BY <1>2, <2>1, FS_Subset DEF Rank, Upto
<1>6. \A i, j \in K : Rank(K, i) = Rank(K, j) => i = j
  BY <1>0, <1>5
<1>7. ASSUME NEW j \in 1 .. n PROVE \E i \in K : Rank(K, i) = j
  <2> SUFFICES ASSUME \A i \in K : Rank(K, i) # j PROVE FALSE
    OBVIOUS
  <2> DEFINE T == (1 .. n) \ {j}
             f == [i \in K |-> Rank(K, i)]
  <2>1. IsFiniteSet(1 .. n) /\ Cardinality(1 .. n) = n
    BY <1>1, FS_Interval
  <2>2. IsFiniteSet(T) /\ Cardinality(T) = n - 1
    BY <2>1, FS_RemoveElement
  <2>3. f \in [K -> T] /\ \A i \in K : f[i] = Rank(K, i)
    BY <1>4
  <2>4. Cardinality(T) < Cardinality(K)
    BY <1>1, <2>2 DEF n
  <2> HIDE DEF T, f
  <2>5. \A x, y \in K : f[x] = f[y] => x = y
    BY <1>6, <2>3
  <2> QED BY <1>1, <2>2, <2>3, <2>4, <2>5, Injected
<1> QED BY <1>1, <1>4, <1>6, <1>7 DEF n

\* What is left of a file is a file, and has each line that was kept, at the place of its rank.
LEMMA LessType ==
  ASSUME NEW s \in Seq(Lines), NEW n
  PROVE  /\ Less(s, n) \in Seq(Lines)
         /\ Len(Less(s, n)) = Cardinality(Kept(s, n))
         /\ \A i \in Kept(s, n) : Less(s, n)[Rank(Kept(s, n), i)] = s[i]
<1> DEFINE K == Kept(s, n)
           c == Cardinality(K)
           l == [j \in 1 .. c |-> s[CHOOSE i \in K : Rank(K, i) = j]]
<1>1. Len(s) \in Nat /\ K \in SUBSET (1 .. Len(s)) /\ \A i \in K : s[i] \in Lines
  BY LenProperties, ElementOfSeq DEF Kept
<1>2. Less(s, n) = l
  BY DEF Less
<1> HIDE DEF K
<1>3. /\ c \in Nat
      /\ \A i \in K : Rank(K, i) \in 1 .. c
      /\ \A i, j \in K : Rank(K, i) = Rank(K, j) => i = j
      /\ \A j \in 1 .. c : \E i \in K : Rank(K, i) = j
  BY <1>1, RankNumbers
<1> HIDE DEF c
<1>4. \A j \in 1 .. c : (CHOOSE i \in K : Rank(K, i) = j) \in K
  BY <1>3
<1>5. l \in [1 .. c -> Lines]
  BY <1>1, <1>4
<1>6. \A i \in K : (CHOOSE j \in K : Rank(K, j) = Rank(K, i)) = i
  BY <1>3
<1>7. \A i \in K : l[Rank(K, i)] = s[i]
  BY <1>3, <1>6
<1> HIDE DEF l
<1>8. l \in Seq(Lines) /\ Len(l) = c
  BY <1>3, <1>5, SeqOfLength
<1> QED BY <1>2, <1>7, <1>8 DEF K, c

\* The rename at the end of drv_undefine keeps the types.
LEMMA RenameType ==
  ASSUME TInv, NEW p \in Procs, Rename(p)
  PROVE  TInv'
<1>1. Only(p) /\ Handles(p)' /\ proc'[p].rfd = None /\ proc'[p].wfd = None
      /\ proc'[p].at = "idle"
  BY DEF TInv, TypeOK, Rename, Only, Process, Places, Handles, Undefining
<1>2. rc' \in Inodes /\ tmp' \in Inodes \union {None} /\ tmp' # rc' /\ {rc', tmp'} \subseteq {rc, tmp, None}
  BY InodesFinite DEF TInv, TypeOK, Rename, Renamed
<1>3. expected' \in Seq(Lines)
  BY LessType DEF TInv, TypeOK, Rename
<1>4. UNCHANGED <<flags, data, calls, failures, foreign, spoilt, others, raced>>
  BY DEF Rename, bounds
<1>5. TypeOK'
  BY <1>1, <1>2, <1>3, <1>4, OnlyType DEF TInv, TypeOK
<1>6. {rc', tmp', proc'[p].rfd, proc'[p].wfd} \subseteq InUse \cup {None}
  BY <1>1, <1>2 DEF InUse
<1>7. calls <= calls'
  BY <1>4, BoundedSteps DEF TInv
<1>8. Room'
  BY <1>1, <1>5, <1>6, <1>7, QuietRoom
<1> QED BY <1>1, <1>5, <1>8, OthersKept DEF TInv

\* The invariant of the types holds at the start.
LEMMA InitType == Init => TInv
<1> SUFFICES ASSUME Init PROVE TInv
  OBVIOUS
<1>1. Fresh \in Process
  BY FreshType
<1>2. PICK f \in Files : data = [i \in Inodes |-> IF i = 1 THEN f ELSE <<>>]
  BY DEF Init
<1>3. f \in Seq(Lines)
  BY FilesAssumption
<1>4. f \in Seq(Lines \union {Hole}) /\ <<>> \in Seq(Lines \union {Hole})
  BY <1>3
<1>5. data \in [Inodes -> Seq(Lines \union {Hole})] /\ expected \in Seq(Lines)
  BY <1>2, <1>3, <1>4, InodesFinite DEF Init
<1>6. calls \in 0 .. MaxCalls /\ failures \in 0 .. MaxFailures /\ foreign \in 0 .. MaxForeign
  BY BoundsAssumption DEF Init
<1>7. TypeOK
  <2>1. \A n \in Names : flags[n] \in Int32 /\ flags[n] \in Int /\ Rest(flags[n]) \in Int
    BY WordsAssumption, WordIsInt DEF Init
  <2>2. flags \in [Names -> {None} \union Int] /\ others \in [Names -> {None} \union Int]
    BY <2>1 DEF Init
  <2> QED BY <1>1, <1>5, <1>6, <2>1, <2>2, InodesFinite DEF Init, TypeOK
<1>8. \A p \in Procs : Handles(p)
  BY DEF Init, Handles, Undefining, Fresh
<1>9. Used = {1} /\ Starting = {}
  BY InodesFinite DEF Init, Used, InUse, Starting, Fresh
<1>10. Cardinality(Used) = 1 /\ Cardinality(Starting) = 0 /\ IsFiniteSet(Starting) /\ calls = 0
  BY <1>9, FS_EmptySet, FS_Singleton DEF Init
<1>11. Room
  BY <1>10 DEF Room
<1> QED BY <1>7, <1>8, <1>11 DEF TInv

\* Every step keeps it.
LEMMA NextType == TInv /\ [Next]_vars => TInv'
<1> SUFFICES ASSUME TInv, [Next]_vars PROVE TInv'
  OBVIOUS
<1>1. CASE UNCHANGED vars
  BY <1>1 DEF vars, TInv, TypeOK, Handles, Undefining, Room, Used, InUse, Starting
<1>2. CASE Next
  <2>1. ASSUME NEW n \in Names, OtherProgram(n) PROVE TInv'
    BY <2>1, OtherProgramType
  <2>2. ASSUME NEW p \in Procs,
               \/ \E n \in Names : LookupByName(p, n)
               \/ IfFree(p)
               \/ Undefine(p) \/ OpenTmp(p) \/ OpenFails(p) \/ CopyLine(p) \/ Rename(p)
               \/ \E value \in BOOLEAN : GetFlags(p, value)
               \/ SetFlags(p)
               \/ Kill(p)
        PROVE  TInv'
    BY Zenon, <2>2, LookupByNameType, IfFreeType, UndefineType, OpenTmpType, OpenFailsType,
       CopyLineType, RenameType, GetFlagsType, SetFlagsType
  <2> QED BY Zenon, <1>2, <2>1, <2>2 DEF Next
<1> QED BY <1>1, <1>2

\* Every state has its type: whatever the processes do to /etc/rc.conf.tmp, and wherever they
\* are killed, /etc/rc.conf is there and is another file than /etc/rc.conf.tmp.
THEOREM TypeCorrect == Spec => []TypeOK
<1>1. TInv => TypeOK
  BY DEF TInv
<1> QED BY <1>1, InitType, NextType, PTL DEF Spec
-----------------------------------------------------------------------------
\* What a process between its two ioctls has read: the flags as other programs set them, unless one
\* of them changed the interface since.
Trusted(p) ==
  proc[p].at = "set" /\ proc[p].nif \notin raced
  => Rest(Joined(proc[p].ifr)) = others[proc[p].nif]

FlagInv == TInv /\ OtherFlagsKept /\ \A p \in Procs : Trusted(p)

\* What is said of the flags holds at the start.
LEMMA FlagInit == Init => FlagInv
<1> SUFFICES ASSUME Init PROVE OtherFlagsKept /\ \A p \in Procs : Trusted(p)
  BY InitType DEF FlagInv
<1> QED BY DEF Init, OtherFlagsKept, Trusted, Fresh

\* A step that changes no flags, and brings no process to the ioctl.
LEMMA FlagQuiet ==
  ASSUME FlagInv, NEW p \in Procs, \A q \in Procs \ {p} : proc'[q] = proc[q],
         UNCHANGED <<flags, others, raced>>, proc'[p].at # "set"
  PROVE  OtherFlagsKept' /\ \A q \in Procs : Trusted(q)'
BY DEF FlagInv, OtherFlagsKept, Trusted

\* Reading the flags: the process has what the interface has.
LEMMA FlagGet ==
  ASSUME FlagInv, NEW p \in Procs, NEW value \in BOOLEAN, GetFlags(p, value)
  PROVE  OtherFlagsKept' /\ \A q \in Procs : Trusted(q)'
<1> DEFINE n == proc[p].nif
           g == SIOCGIFFLAGS(flags[n])
<1>1. /\ proc \in [Procs -> Process] /\ n \in Names
      /\ UNCHANGED <<flags, others, raced>> /\ OtherFlagsKept
      /\ \A q \in Procs : Trusted(q)
  BY DEF FlagInv, TInv, TypeOK, Handles, GetFlags, history
<1>2. OtherFlagsKept'
  BY <1>1 DEF OtherFlagsKept
<1>3. CASE flags[n] = None
  BY <1>1, <1>2, <1>3 DEF GetFlags, Trusted
<1>4. CASE flags[n] # None
  <2>1. flags[n] \in Int32
    BY <1>1, <1>4 DEF FlagInv, TInv, TypeOK
  <2>2. Joined(g) = flags[n]
    BY Zenon, <2>1, GetJoined
  <2>3. n \notin raced => Rest(Joined(g)) = others[n]
    BY <1>1, <1>4, <2>2 DEF OtherFlagsKept
  <2>4. proc' = [proc EXCEPT ![p].at = "set", ![p].value = value, ![p].ifr = g]
    BY <1>4 DEF GetFlags
  <2> HIDE DEF g
  <2>5. proc'[p].ifr = g /\ proc'[p].nif = n /\ \A q \in Procs \ {p} : proc'[q] = proc[q]
    BY <1>1, <2>4 DEF Process
  <2>6. Trusted(p)'
    BY <1>1, <2>3, <2>5 DEF Trusted
  <2>7. \A q \in Procs \ {p} : Trusted(q)'
    BY <1>1, <2>5 DEF Trusted
  <2> QED BY <1>2, <2>6, <2>7
<1> QED BY <1>3, <1>4

\* Writing them back: all but IFF_UP stays, in whichever order the processes do it.
LEMMA FlagSet ==
  ASSUME FlagInv, NEW p \in Procs, SetFlags(p)
  PROVE  OtherFlagsKept' /\ \A q \in Procs : Trusted(q)'
<1> DEFINE n == proc[p].nif
           f == SIOCSIFFLAGS(Filled(WithUp(Joined(proc[p].ifr), proc[p].value)))
<1>1. /\ proc \in [Procs -> Process] /\ n \in Names /\ flags \in [Names -> {None} \union Int]
      /\ UNCHANGED <<others, raced>> /\ OtherFlagsKept /\ proc[p].at = "set"
      /\ \A q \in Procs : Trusted(q)
  BY DEF FlagInv, TInv, TypeOK, Handles, SetFlags, history
<1>2. Rest(f) = Rest(Joined(proc[p].ifr))
  BY <1>1, FlagsWritten DEF Process
<1>3. n \notin raced => Rest(f) = others[n]
  BY <1>1, <1>2 DEF Trusted
<1>4. flags' = flags \/ flags' = [flags EXCEPT ![n] = f]
  BY DEF SetFlags
<1> HIDE DEF f
<1>5. OtherFlagsKept'
  BY <1>1, <1>3, <1>4 DEF OtherFlagsKept
<1>6. proc'[p].at = "idle" /\ \A q \in Procs \ {p} : proc'[q] = proc[q]
  BY <1>1 DEF SetFlags, Process
<1>7. \A q \in Procs : Trusted(q)'
  BY <1>1, <1>6 DEF Trusted
<1> QED BY <1>5, <1>7

\* Another program: the flags it sets are the ones to be kept from now on, and a call that read
\* the old ones is noted.
LEMMA FlagOther ==
  ASSUME FlagInv, NEW n \in Names, OtherProgram(n)
  PROVE  OtherFlagsKept' /\ \A q \in Procs : Trusted(q)'
<1>1. /\ proc' = proc /\ flags \in [Names -> {None} \union Int]
      /\ others \in [Names -> {None} \union Int]
      /\ OtherFlagsKept /\ \A q \in Procs : Trusted(q) /\ Handles(q)
  BY DEF FlagInv, TInv, TypeOK, OtherProgram
<1>2. \A m \in Names \ {n} : flags'[m] = flags[m] /\ others'[m] = others[m]
  BY <1>1 DEF OtherProgram
<1>3. flags'[n] # None => Rest(flags'[n]) = others'[n]
  BY <1>1 DEF OtherProgram
<1>4. /\ \A m \in Names \ {n} : m \in raced' <=> m \in raced
      /\ n \notin raced' => \A p \in Procs : proc[p].at = "set" => proc[p].nif # n
  BY DEF OtherProgram
<1>5. OtherFlagsKept'
  BY <1>1, <1>2, <1>3, <1>4 DEF OtherFlagsKept
<1>6. \A q \in Procs : Trusted(q)'
  BY <1>1, <1>2, <1>4 DEF Trusted, Handles
<1> QED BY <1>5, <1>6

\* Every step keeps what is said of the flags.
LEMMA FlagNext == FlagInv /\ [Next]_vars => FlagInv'
<1> SUFFICES ASSUME FlagInv, [Next]_vars PROVE OtherFlagsKept' /\ \A q \in Procs : Trusted(q)'
  BY NextType DEF FlagInv
<1>0. proc \in [Procs -> Process]
  BY DEF FlagInv, TInv, TypeOK
<1>1. CASE UNCHANGED vars
  BY <1>1 DEF vars, FlagInv, OtherFlagsKept, Trusted
<1>2. ASSUME NEW p \in Procs, \/ \E n \in Names : LookupByName(p, n)
                              \/ IfFree(p) \/ Undefine(p) \/ OpenTmp(p) \/ OpenFails(p)
                              \/ CopyLine(p) \/ Rename(p) \/ Kill(p)
      PROVE  OtherFlagsKept' /\ \A q \in Procs : Trusted(q)'
  <2>1. proc'[p].at # "set"
    BY <1>0, <1>2 DEF LookupByName, IfFree, Undefine, OpenTmp, OpenFails, CopyLine, Rename,
                      Kill, Fresh, Process
  <2>2. \A q \in Procs \ {p} : proc'[q] = proc[q]
    BY <1>0, <1>2 DEF LookupByName, IfFree, Undefine, OpenTmp, OpenFails, CopyLine, Rename, Kill
  <2>3. UNCHANGED <<flags, others, raced>>
    BY <1>2 DEF LookupByName, IfFree, Undefine, OpenTmp, OpenFails, CopyLine, Rename, Kill,
                history
  <2> QED BY <2>1, <2>2, <2>3, FlagQuiet
<1>3. CASE Next
  <2>1. ASSUME NEW p \in Procs,
               \/ \E n \in Names : LookupByName(p, n)
               \/ IfFree(p)
               \/ Undefine(p) \/ OpenTmp(p) \/ OpenFails(p) \/ CopyLine(p) \/ Rename(p)
               \/ \E value \in BOOLEAN : GetFlags(p, value)
               \/ SetFlags(p)
               \/ Kill(p)
        PROVE  OtherFlagsKept' /\ \A q \in Procs : Trusted(q)'
    BY Zenon, <2>1, <1>2, FlagGet, FlagSet
  <2> QED BY Zenon, <1>3, <2>1, FlagOther DEF Next
<1> QED BY <1>1, <1>3

\* The flags of an interface other than IFF_UP, in both halves of the word, are as other programs
\* last set them, whatever any number of overlapping calls of drv_if_up and drv_if_down do and
\* wherever they are killed, unless another program changed them between the ioctls of a call.
THEOREM KeepsOtherFlags == Spec => []OtherFlagsKept
<1>1. FlagInv => OtherFlagsKept
  BY DEF FlagInv
<1> QED BY <1>1, FlagInit, FlagNext, PTL DEF Spec
-----------------------------------------------------------------------------
\* The places of K before r.
Below(K, r) == {k \in K : k < r}

\* w is what drv_undefine has written when it is about to read line r of s.
IsCopy(s, n, w, r) ==
  /\ r \in Nat \ {0} /\ r <= Len(s) + 1
  /\ Len(w) = Cardinality(Below(Kept(s, n), r))
  /\ \A i \in Below(Kept(s, n), r) : w[Rank(Kept(s, n), i)] = s[i]

\* fputs at the end of a file appends.
LEMMA WrittenAtEnd ==
  ASSUME NEW w \in Seq(Lines \union {Hole}), NEW line \in Lines
  PROVE  LET x == Written(w, Len(w) + 1, line) IN
         /\ Len(x) = Len(w) + 1
         /\ x[Len(w) + 1] = line
         /\ \A i \in 1 .. Len(w) : i # Len(w) + 1 => x[i] = w[i]
<1> DEFINE S == Lines \union {Hole}
           k == Len(w) + 1
<1>1. w \in Seq(S) /\ line \in S /\ Hole \in S /\ k \in Nat \ {0} /\ k > Len(w)
  BY LenProperties
<1> HIDE DEF S, k
<1>2. /\ Len(Written(w, k, line)) = IF k > Len(w) THEN k ELSE Len(w)
      /\ Written(w, k, line)[k] = line
      /\ \A i \in 1 .. Len(w) : i # k => Written(w, k, line)[i] = w[i]
  BY <1>1, WrittenType
<1>3. /\ Len(Written(w, k, line)) = k
      /\ Written(w, k, line)[k] = line
      /\ \A i \in 1 .. Len(w) : i # k => Written(w, k, line)[i] = w[i]
  BY <1>1, <1>2
<1> QED BY <1>3 DEF k

\* How the places before r grow.
LEMMA BelowStep ==
  ASSUME NEW s \in Seq(Lines), NEW n, NEW r \in Nat \ {0}
  PROVE  LET K == Kept(s, n) IN
         /\ IsFiniteSet(Below(K, r)) /\ Cardinality(Below(K, r)) \in Nat
         /\ Below(K, 1) = {}
         /\ r > Len(s) => Below(K, r) = K
         /\ r \notin K => Below(K, r + 1) = Below(K, r)
         /\ r \in K => /\ Below(K, r + 1) = Below(K, r) \cup {r}
                       /\ Cardinality(Below(K, r + 1)) = Cardinality(Below(K, r)) + 1
                       /\ Rank(K, r) = Cardinality(Below(K, r)) + 1
         /\ \A i \in Below(K, r) : Rank(K, i) \in 1 .. Cardinality(Below(K, r))
<1> DEFINE K == Kept(s, n)
           m == Len(s)
<1>0. m \in Nat /\ K \in SUBSET (1 .. m)
  BY LenProperties DEF Kept
<1> HIDE DEF K, m
<1>1. K \subseteq Int /\ IsFiniteSet(K) /\ Below(K, r) \subseteq K
  <2>1. IsFiniteSet(K)
    BY <1>0, RankNumbers
  <2>2. K \subseteq Int
    BY <1>0
  <2> QED BY <2>1, <2>2 DEF Below
<1>2. IsFiniteSet(Below(K, r)) /\ Cardinality(Below(K, r)) \in Nat
  BY <1>1, FS_Subset, FS_CardinalityType
<1>3. Below(K, 1) = {} /\ (r > m => Below(K, r) = K)
  <2>1. \A k \in K : ~(k < 1) /\ (r > m => k < r)
    BY <1>0
  <2> QED BY <2>1 DEF Below
<1>4. r \notin K => Below(K, r + 1) = Below(K, r)
  <2>1. r \notin K => \A k \in K : k < r + 1 <=> k < r
    BY <1>1
  <2> QED BY <2>1 DEF Below
<1>5. ASSUME r \in K
      PROVE  /\ Below(K, r + 1) = Below(K, r) \cup {r}
             /\ Cardinality(Below(K, r + 1)) = Cardinality(Below(K, r)) + 1
             /\ Rank(K, r) = Cardinality(Below(K, r)) + 1
  <2>1. \A k \in K : (k < r + 1 <=> k < r \/ k = r) /\ (k <= r <=> k < r + 1)
    BY <1>1
  <2>2. Below(K, r + 1) = Below(K, r) \cup {r} /\ r \notin Below(K, r)
    <3>1. ~(r < r)
      OBVIOUS
    <3> QED BY <1>5, <2>1, <3>1 DEF Below
  <2>3. Cardinality(Below(K, r + 1)) = Cardinality(Below(K, r)) + 1
    BY <1>2, <2>2, FS_AddElement
  <2>4. {k \in K : k <= r} = Below(K, r + 1)
    BY <2>1 DEF Below
  <2> QED BY <2>2, <2>3, <2>4 DEF Rank
<1>6. ASSUME NEW i \in Below(K, r)
      PROVE  Rank(K, i) \in 1 .. Cardinality(Below(K, r))
  <2> DEFINE U == {k \in K : k <= i}
  <2>1. i \in K /\ i < r
    BY DEF Below
  <2>2. \A k \in K : k <= i => k < r
    BY <1>1, <2>1
  <2>3. U \subseteq Below(K, r)
    BY <2>2 DEF Below
  <2>4. Rank(K, i) <= Cardinality(Below(K, r))
    BY <1>2, <2>3, FS_Subset DEF Rank
  <2>5. Rank(K, i) \in Nat /\ 1 <= Rank(K, i)
    <3>1. Rank(K, i) \in 1 .. Cardinality(K) /\ Cardinality(K) \in Nat
      BY <1>0, <2>1, RankNumbers
    <3> QED BY <3>1
  <2> QED BY <1>2, <2>4, <2>5
<1> QED BY <1>2, <1>3, <1>4, <1>5, <1>6 DEF K, m

\* drv_undefine writes nothing for a line that it drops.
LEMMA CopySkips ==
  ASSUME NEW s \in Seq(Lines), NEW n, NEW w, NEW r \in 1 .. Len(s),
         IsCopy(s, n, w, r), r \notin Kept(s, n)
  PROVE  IsCopy(s, n, w, r + 1)
<1> DEFINE K == Kept(s, n)
<1>1. Len(s) \in Nat /\ K \in SUBSET (1 .. Len(s)) /\ r \notin K
  BY LenProperties DEF Kept
<1>2. r \in Nat \ {0} /\ r + 1 \in Nat \ {0} /\ r + 1 <= Len(s) + 1
  BY <1>1
<1> HIDE DEF K
<1>3. Below(K, r + 1) = Below(K, r)
  BY <1>1, <1>2, BelowStep DEF K
<1> QED BY <1>2, <1>3 DEF IsCopy, K

\* It appends a line that it keeps.
LEMMA CopyAppends ==
  ASSUME NEW s \in Seq(Lines), NEW n, NEW w \in Seq(Lines \union {Hole}),
         NEW r \in 1 .. Len(s), IsCopy(s, n, w, r), r \in Kept(s, n)
  PROVE  /\ IsCopy(s, n, Written(w, Len(w) + 1, s[r]), r + 1)
         /\ Len(Written(w, Len(w) + 1, s[r])) = Len(w) + 1
<1> DEFINE K == Kept(s, n)
           x == Written(w, Len(w) + 1, s[r])
           c == Cardinality(Below(K, r))
<1>1. /\ Len(s) \in Nat /\ K \in SUBSET (1 .. Len(s)) /\ r \in K
      /\ Len(w) \in Nat /\ s[r] \in Lines
  BY LenProperties, ElementOfSeq DEF Kept
<1>2. r \in Nat \ {0} /\ r + 1 \in Nat \ {0} /\ r + 1 <= Len(s) + 1
  BY <1>1
<1>3. Len(w) + 1 \in Nat \ {0} /\ Len(w) + 1 > Len(w)
  BY <1>1
<1>4. /\ Len(x) = Len(w) + 1
      /\ x[Len(w) + 1] = s[r]
      /\ \A i \in 1 .. Len(w) : i # Len(w) + 1 => x[i] = w[i]
  BY <1>1, WrittenAtEnd
<1>5. Len(w) = c /\ \A i \in Below(K, r) : w[Rank(K, i)] = s[i]
  BY DEF IsCopy
<1> HIDE DEF K, x
<1>6. /\ Below(K, r + 1) = Below(K, r) \cup {r}
      /\ Cardinality(Below(K, r + 1)) = c + 1
      /\ Rank(K, r) = c + 1
      /\ \A i \in Below(K, r) : Rank(K, i) \in 1 .. c
  BY <1>1, <1>2, BelowStep DEF K
<1> HIDE DEF c
<1>7. \A i \in Below(K, r) : x[Rank(K, i)] = s[i]
  <2>1. \A j \in 1 .. c : x[j] = w[j]
    BY <1>1, <1>4, <1>5
  <2> QED BY <1>5, <1>6, <2>1
<1>8. x[Rank(K, r)] = s[r]
  BY <1>4, <1>5, <1>6
<1>9. \A i \in Below(K, r + 1) : x[Rank(K, i)] = s[i]
  BY <1>6, <1>7, <1>8
<1>10. Len(x) = Cardinality(Below(K, r + 1))
  BY <1>4, <1>5, <1>6
<1> QED BY <1>2, <1>4, <1>9, <1>10 DEF IsCopy, K, x

\* At the end of the file the copy is the file without the lines of the interface.
LEMMA CopyDone ==
  ASSUME NEW s \in Seq(Lines), NEW n, NEW w \in Seq(Lines \union {Hole}), NEW r,
         IsCopy(s, n, w, r), r > Len(s)
  PROVE  w = Less(s, n)
<1> DEFINE K == Kept(s, n)
           c == Cardinality(K)
           l == Less(s, n)
<1>1. Len(s) \in Nat /\ K \in SUBSET (1 .. Len(s)) /\ r \in Nat \ {0}
  BY LenProperties DEF Kept, IsCopy
<1>2. l \in Seq(Lines) /\ Len(l) = c /\ \A i \in K : l[Rank(K, i)] = s[i]
  BY LessType
<1>3. Len(w) = Cardinality(Below(K, r)) /\ \A i \in Below(K, r) : w[Rank(K, i)] = s[i]
  BY DEF IsCopy
<1> HIDE DEF K, l
<1>4. Below(K, r) = K
  BY <1>1, BelowStep DEF K
<1>5. \A j \in 1 .. c : \E i \in K : Rank(K, i) = j
  BY <1>1, RankNumbers
<1> HIDE DEF c
<1>6. \A j \in 1 .. c : w[j] = l[j]
  BY <1>2, <1>3, <1>4, <1>5
<1>7. l \in Seq(Lines \union {Hole})
  BY <1>2
<1>8. Len(w) = Len(l) /\ \A j \in 1 .. Len(w) : w[j] = l[j]
  BY <1>2, <1>3, <1>4, <1>6 DEF c
<1>9. w = l
  BY <1>7, <1>8, SeqEqual
<1> QED BY <1>9 DEF l
-----------------------------------------------------------------------------
\* How far the only process that runs drv_undefine has come: it reads rc.conf and writes
\* rc.conf.tmp, and what it has written is a copy of what it has read.
Progress(p) ==
  /\ proc[p].rfd = rc
  /\ ~Nested(proc[p].nif)
  /\ proc[p].at = "tmp" => proc[p].rpos = 1
  /\ proc[p].at = "copy" =>
       /\ proc[p].wfd = tmp
       /\ proc[p].wpos = Len(data[tmp]) + 1
       /\ IsCopy(expected, proc[p].nif, data[tmp], proc[p].rpos)

Clean ==
  /\ data[rc] = expected
  /\ \A p, q \in Procs : Undefining(p) /\ Undefining(q) => p = q
  /\ \A p \in Procs : Undefining(p) => Progress(p)

CopyInv == TInv /\ (~spoilt => Clean)

\* A step that leaves the files and the copying processes alone.
LEMMA CleanQuiet ==
  ASSUME CopyInv, UNCHANGED <<data, rc, tmp, expected, spoilt>>,
         \A q \in Procs : Undefining(q)' => proc'[q] = proc[q]
  PROVE  ~spoilt' => Clean'
<1> SUFFICES ASSUME ~spoilt' PROVE Clean'
  OBVIOUS
<1>1. Clean
  BY DEF CopyInv
<1>2. \A q \in Procs : Undefining(q)' => Undefining(q)
  BY DEF Undefining
<1>3. \A q \in Procs : Undefining(q)' => Progress(q)'
  BY <1>1, <1>2 DEF Clean, Progress
<1> QED BY <1>1, <1>2, <1>3 DEF Clean

\* A lone undefine starts to copy the file that it expects.
LEMMA UndefineClean ==
  ASSUME CopyInv, NEW p \in Procs, Undefine(p)
  PROVE  ~spoilt' => Clean'
<1> SUFFICES ASSUME ~spoilt' PROVE Clean'
  OBVIOUS
<1>1. ~spoilt /\ ~Nested(proc[p].nif) /\ \A q \in Procs : ~Undefining(q)
  BY Zenon DEF Undefine
<1>2. Clean
  BY <1>1 DEF CopyInv
<1>3. \A q \in Procs \ {p} : proc'[q] = proc[q]
  BY DEF CopyInv, TInv, TypeOK, Undefine
<1>4. \A q \in Procs \ {p} : ~Undefining(q)'
  BY <1>1, <1>3 DEF Undefining
<1>5. Progress(p)'
  <2>1. /\ proc'[p].rfd = rc' /\ proc'[p].rpos = 1 /\ proc'[p].at = "tmp"
        /\ proc'[p].nif = proc[p].nif
    BY DEF CopyInv, TInv, TypeOK, Process, Undefine
  <2>2. Nested(proc'[p].nif) <=> Nested(proc[p].nif)
    BY <2>1
  <2> QED BY <1>1, <2>1, <2>2 DEF Progress
<1>6. UNCHANGED <<data, rc, expected>>
  BY DEF Undefine
<1> QED BY <1>2, <1>4, <1>5, <1>6 DEF Clean

\* It starts with an empty temporary file of its own.
LEMMA OpenTmpClean ==
  ASSUME CopyInv, NEW p \in Procs, OpenTmp(p)
  PROVE  ~spoilt' => Clean'
<1> SUFFICES ASSUME ~spoilt' PROVE Clean'
  OBVIOUS
<1> DEFINE i == IF tmp # None THEN tmp ELSE NewInode
<1>1. i \in Inodes /\ i # rc
  BY NewInodeIsNew, InodesFinite DEF CopyInv, TInv, TypeOK, OpenTmp, InUse
<1>2. Truncated(i) = [data EXCEPT ![i] = <<>>] /\ Truncated(i)[i] = <<>>
  BY <1>1 DEF Truncated, CopyInv, TInv, TypeOK
<1>3. /\ tmp' = i /\ data' = [data EXCEPT ![i] = <<>>]
      /\ proc' = [proc EXCEPT ![p].at = "copy", ![p].wfd = i, ![p].wpos = 1]
      /\ proc[p].at = "tmp" /\ UNCHANGED <<rc, expected, spoilt>>
  <2>1. Len(Truncated(i)[i]) + 1 = 1
    BY <1>2
  <2> QED BY <1>2, <2>1 DEF OpenTmp, history
<1> HIDE DEF i
<1>4. Clean /\ proc[p] \in Process /\ proc \in [Procs -> Process]
      /\ expected \in Seq(Lines) /\ data \in [Inodes -> Seq(Lines \union {Hole})] /\ rc \in Inodes
  BY <1>3 DEF CopyInv, TInv, TypeOK
<1>5. \A q \in Procs \ {p} : proc'[q] = proc[q]
  BY <1>3, <1>4
<1>6. \A q \in Procs \ {p} : ~Undefining(q)'
  BY <1>3, <1>4, <1>5 DEF Clean, Undefining
<1>7. data'[rc] = data[rc] /\ data'[i] = <<>>
  BY <1>1, <1>3, <1>4
<1>8. proc[p].rfd = rc /\ proc[p].rpos = 1 /\ ~Nested(proc[p].nif)
  BY <1>3, <1>4 DEF Clean, Undefining, Progress
<1>9. proc'[p] = [proc[p] EXCEPT !.at = "copy", !.wfd = i, !.wpos = 1]
  BY <1>3, <1>4
<1>10. /\ proc'[p].rfd = rc /\ proc'[p].rpos = 1 /\ proc'[p].nif = proc[p].nif
       /\ proc'[p].at = "copy" /\ proc'[p].wfd = i /\ proc'[p].wpos = 1
  BY <1>4, <1>8, <1>9 DEF Process
<1>11. IsCopy(expected, proc[p].nif, <<>>, 1)
  <2>1. Below(Kept(expected, proc[p].nif), 1) = {}
    BY <1>4, BelowStep
  <2>2. Len(expected) \in Nat
    BY <1>4, LenProperties
  <2> QED BY <2>1, <2>2, FS_EmptySet DEF IsCopy
<1>12. Progress(p)'
  <2>1. Len(data'[i]) + 1 = 1
    BY <1>7
  <2> QED BY <1>3, <1>7, <1>8, <1>10, <1>11, <2>1 DEF Progress
<1> QED BY <1>3, <1>4, <1>6, <1>7, <1>12 DEF Clean

\* The lines that drv_undefine drops are the ones that are not kept, when the name is no part of
\* another.
LEMMA DropsOthers ==
  ASSUME NEW s \in Seq(Lines), NEW n \in Names, ~Nested(n), NEW r \in 1 .. Len(s)
  PROVE  /\ s[r] # Hole
         /\ (~s[r].comment /\ strstr(s[r], n)) <=> r \notin Kept(s, n)
<1>1. s[r] \in Lines
  BY ElementOfSeq
<1>2. s[r] # Hole
  BY <1>1, MarkersAssumption
<1>3. s[r].comment \in BOOLEAN /\ s[r].names \subseteq Names
  BY <1>1 DEF Lines
<1>4. strstr(s[r], n) <=> n \in s[r].names
  BY Zenon, <1>3, NamesAssumption DEF strstr, Nested
<1> QED BY Zenon, <1>2, <1>3, <1>4 DEF Kept

\* After each line the temporary file holds the kept lines of those read so far.
LEMMA CopyLineClean ==
  ASSUME CopyInv, NEW p \in Procs, CopyLine(p)
  PROVE  ~spoilt' => Clean'
<1> SUFFICES ASSUME ~spoilt' PROVE Clean'
  OBVIOUS
<1> DEFINE s == expected
           n == proc[p].nif
           r == proc[p].rpos
           w == data[tmp]
<1>1. ~spoilt
  BY Zenon DEF CopyLine
<1>2. Clean /\ proc[p] \in Process /\ proc \in [Procs -> Process]
      /\ s \in Seq(Lines) /\ data \in [Inodes -> Seq(Lines \union {Hole})] /\ rc \in Inodes
      /\ tmp # rc /\ proc[p].at = "copy" /\ proc[p].wfd # None
      /\ tmp \in Inodes \union {None}
  BY <1>1 DEF CopyInv, TInv, TypeOK, CopyLine, Handles
<1>3. /\ proc[p].rfd = rc /\ proc[p].wfd = tmp /\ proc[p].wpos = Len(w) + 1
      /\ IsCopy(s, n, w, r) /\ data[rc] = s /\ ~Nested(n)
  BY <1>2 DEF Clean, Progress, Undefining
<1>4. tmp \in Inodes /\ w \in Seq(Lines \union {Hole}) /\ r \in Nat \ {0}
  BY <1>2, <1>3 DEF Process
<1>5. r \in 1 .. Len(s)
  BY <1>3, <1>4, <1>2, LenProperties DEF CopyLine
<1>6. Line(p) = s[r]
  BY <1>3 DEF Line
<1>7. Drops(p) <=> r \notin Kept(s, n)
  <2>1. n \in Names
    BY <1>2 DEF CopyInv, TInv, Handles
  <2>2. s \in Seq(Lines) /\ ~Nested(n)
    BY <1>2, <1>3
  <2>3. s[r] # Hole /\ ((~s[r].comment /\ strstr(s[r], n)) <=> r \notin Kept(s, n))
    <3> HIDE DEF s, n, r
    <3> QED BY Zenon, <1>5, <2>1, <2>2, DropsOthers
  <2> QED BY Zenon, <1>6, <2>3 DEF Drops
<1>8. UNCHANGED <<rc, tmp, expected>>
  BY DEF CopyLine
<1>9. \A q \in Procs \ {p} : proc'[q] = proc[q]
  BY <1>2 DEF CopyLine
<1>10. \A q \in Procs \ {p} : ~Undefining(q)'
  BY <1>2, <1>9 DEF Clean, Undefining
<1>11. SUFFICES data'[rc] = s /\ Progress(p)'
  BY <1>8, <1>10 DEF Clean
<1>12. CASE Drops(p) /\ proc' = [proc EXCEPT ![p].rpos = @ + 1] /\ data' = data
  <2>1. IsCopy(s, n, w, r + 1)
    BY <1>2, <1>3, <1>5, <1>7, <1>12, CopySkips
  <2>2. proc'[p] = [proc[p] EXCEPT !.rpos = @ + 1]
    BY <1>2, <1>12
  <2>3. /\ proc'[p].rfd = rc /\ proc'[p].rpos = r + 1 /\ proc'[p].nif = n
        /\ proc'[p].at = "copy" /\ proc'[p].wfd = tmp /\ proc'[p].wpos = Len(w) + 1
    BY <1>2, <1>3, <2>2 DEF Process
  <2> QED BY <1>3, <1>8, <1>12, <2>1, <2>3 DEF Progress
<1>13. CASE /\ ~Drops(p)
            /\ data' = [data EXCEPT ![proc[p].wfd] = Written(@, proc[p].wpos, Line(p))]
            /\ proc' = [proc EXCEPT ![p].rpos = @ + 1, ![p].wpos = @ + 1]
  <2> DEFINE x == Written(w, Len(w) + 1, s[r])
  <2>1. IsCopy(s, n, x, r + 1) /\ Len(x) = Len(w) + 1
    <3>1. /\ s \in Seq(Lines) /\ w \in Seq(Lines \union {Hole}) /\ r \in 1 .. Len(s)
          /\ IsCopy(s, n, w, r) /\ r \in Kept(s, n)
      BY <1>2, <1>3, <1>4, <1>5, <1>7, <1>13
    <3> HIDE DEF s, n, w, r
    <3> QED BY <3>1, CopyAppends
  <2>2. data'[tmp] = x /\ data'[rc] = s
    BY <1>2, <1>3, <1>4, <1>6, <1>13
  <2>3. proc'[p] = [proc[p] EXCEPT !.rpos = @ + 1, !.wpos = @ + 1]
    BY <1>2, <1>13
  <2>4. /\ proc'[p].rfd = rc /\ proc'[p].rpos = r + 1 /\ proc'[p].nif = n
        /\ proc'[p].at = "copy" /\ proc'[p].wfd = tmp /\ proc'[p].wpos = Len(w) + 1 + 1
    BY <1>2, <1>3, <2>3 DEF Process
  <2> HIDE DEF x
  <2> QED BY <1>3, <1>8, <2>1, <2>2, <2>4 DEF Progress
<1> QED BY Zenon, <1>12, <1>13 DEF CopyLine

\* The file that is renamed is the expected one.
LEMMA RenameClean ==
  ASSUME CopyInv, NEW p \in Procs, Rename(p)
  PROVE  ~spoilt' => Clean'
<1> SUFFICES ASSUME ~spoilt' PROVE Clean'
  OBVIOUS
<1> DEFINE s == expected
           n == proc[p].nif
           r == proc[p].rpos
           w == data[tmp]
<1>1. ~spoilt /\ proc[p].at = "copy"
  BY DEF Rename
<1>2. Clean /\ proc[p] \in Process /\ proc \in [Procs -> Process]
      /\ s \in Seq(Lines) /\ data \in [Inodes -> Seq(Lines \union {Hole})]
      /\ proc[p].wfd # None /\ tmp \in Inodes \union {None}
  BY <1>1 DEF CopyInv, TInv, TypeOK, Handles
<1>3. /\ proc[p].rfd = rc /\ proc[p].wfd = tmp /\ IsCopy(s, n, w, r) /\ data[rc] = s
  BY <1>1, <1>2 DEF Clean, Progress, Undefining
<1>4. tmp \in Inodes /\ tmp # None /\ w \in Seq(Lines \union {Hole})
  BY <1>2, <1>3
<1>5. r > Len(s)
  BY <1>3 DEF Rename
<1>6. w = Less(s, n)
  BY <1>2, <1>3, <1>4, <1>5, CopyDone
<1>7. rc' = tmp /\ data' = data /\ expected' = Less(s, n)
  BY <1>1, <1>4 DEF Rename, Renamed
<1>8. \A q \in Procs \ {p} : proc'[q] = proc[q]
  BY <1>2 DEF Rename
<1>9. proc'[p].at = "idle"
  BY <1>2 DEF Rename, Process
<1>10. \A q \in Procs : ~Undefining(q)'
  BY <1>1, <1>2, <1>8, <1>9 DEF Clean, Undefining
<1> QED BY <1>6, <1>7, <1>10 DEF Clean

\* Every step keeps what is said of the copy.
LEMMA CopyNext == CopyInv /\ [Next]_vars => CopyInv'
<1> SUFFICES ASSUME CopyInv, [Next]_vars PROVE ~spoilt' => Clean'
  BY NextType DEF CopyInv
<1>0. proc \in [Procs -> Process]
  BY DEF CopyInv, TInv, TypeOK
<1>1. CASE UNCHANGED vars \/ \E n \in Names : OtherProgram(n)
  <2>1. UNCHANGED <<data, rc, tmp, proc, expected, spoilt>>
    BY <1>1 DEF vars, OtherProgram
  <2> QED BY <2>1, CleanQuiet
<1>2. ASSUME NEW p \in Procs, \/ \E n \in Names : LookupByName(p, n)
                              \/ IfFree(p) \/ OpenFails(p) \/ SetFlags(p) \/ Kill(p)
                              \/ \E value \in BOOLEAN : GetFlags(p, value)
      PROVE  ~spoilt' => Clean'
  <2>1. proc' = proc \/ proc'[p].at \in {"none", "idle", "set"}
    <3>1. CASE \E value \in BOOLEAN : GetFlags(p, value)
      BY <1>0, <3>1 DEF GetFlags, Process
    <3>2. CASE \/ \E n \in Names : LookupByName(p, n)
               \/ IfFree(p) \/ OpenFails(p) \/ SetFlags(p) \/ Kill(p)
      <4>1. proc'[p].at \in {"none", "idle"}
        BY <1>0, <3>2 DEF LookupByName, IfFree, OpenFails, SetFlags, Kill, Fresh, Process
      <4> QED BY <4>1
    <3> QED BY <1>2, <3>1, <3>2
  <2>2. \A q \in Procs \ {p} : proc'[q] = proc[q]
    BY <1>0, <1>2 DEF LookupByName, IfFree, OpenFails, GetFlags, SetFlags, Kill
  <2>3. UNCHANGED <<data, rc, tmp, expected, spoilt>>
    BY <1>2 DEF LookupByName, IfFree, OpenFails, GetFlags, SetFlags, Kill, history
  <2>4. \A q \in Procs : Undefining(q)' => proc'[q] = proc[q]
    BY <2>1, <2>2 DEF Undefining
  <2> QED BY <2>3, <2>4, CleanQuiet
<1>3. CASE Next
  <2>1. ASSUME NEW p \in Procs,
               \/ \E n \in Names : LookupByName(p, n)
               \/ IfFree(p)
               \/ Undefine(p) \/ OpenTmp(p) \/ OpenFails(p) \/ CopyLine(p) \/ Rename(p)
               \/ \E value \in BOOLEAN : GetFlags(p, value)
               \/ SetFlags(p)
               \/ Kill(p)
        PROVE  ~spoilt' => Clean'
    BY Zenon, <2>1, <1>2, UndefineClean, OpenTmpClean, CopyLineClean, RenameClean
  <2> QED BY Zenon, <1>1, <1>3, <2>1 DEF Next
<1> QED BY <1>1, <1>3

\* As long as no two calls of drv_undefine overlap, no write fails and none is for an interface
\* whose name is part of another's, rc.conf is at every moment the first one without the lines that
\* configure the interfaces whose calls came to their rename: a call that was killed, or that found
\* what another had left in rc.conf.tmp, changes nothing.
THEOREM RcConfStaysWhole == Spec => []RcConfWhole
<1>1. Init => CopyInv
  <2> SUFFICES ASSUME Init PROVE Clean
    BY InitType DEF CopyInv
  <2>1. \A p \in Procs : ~Undefining(p)
    BY DEF Init, Undefining, Fresh
  <2> QED BY <2>1 DEF Init, Clean
<1>2. CopyInv => RcConfWhole
  BY DEF CopyInv, Clean, RcConfWhole
<1>3. CopyInv /\ [Next]_vars => CopyInv'
  BY CopyNext
<1> QED BY <1>1, <1>2, <1>3, PTL DEF Spec
=============================================================================
