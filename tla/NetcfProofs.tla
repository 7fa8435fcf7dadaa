---------------------------- MODULE NetcfProofs ----------------------------
(***************************************************************************)
(* Proofs about Netcf, for every number of interfaces, addresses and       *)
(* references.                                                             *)
(*                                                                         *)
(* RefExact speaks of the moments between two calls.  Within a lookup by   *)
(* address it takes the array: Pointers says that the entries made so far  *)
(* are handles that exist, differ and are not the caller's yet, and Count  *)
(* that with the Red Hat driver there is no handle beside those and the    *)
(* caller's.  Life adds what the flags and the count say about each other, *)
(* and Owned what the instance can have acquired, of which drv_close must  *)
(* miss nothing.                                                           *)
(***************************************************************************)
EXTENDS Netcf, FiniteSetTheorems, TLAPS

\* An instance that is gone has no driver, no reference and no handle, and no call runs.
Life ==
    /\ ~ncf => ref = 0 /\ heap = {} /\ ~driver /\ ~usable /\ call = Idle
    /\ ncf => "netcf" \in open
    /\ usable => driver
    /\ call.at # "idle" => usable

Types ==
    /\ kind \in Drivers /\ ncf \in BOOLEAN /\ driver \in BOOLEAN /\ usable \in BOOLEAN
    /\ ref \in Nat
    /\ heap \subseteq Handles /\ held \subseteq heap
    /\ ifaces \in [1..MaxIfaces -> Handles \cup {NULL}]
    /\ call \in Calls
    /\ call.at = "idle" => call = Idle

\* The entries of the array that a lookup has filled or has still to release.
Slots == 1..(IF kind = "freebsd" THEN call.total ELSE call.max)
Pending == {ifaces[j] : j \in Slots} \ {NULL}

Pointers ==
    /\ call.at = "walk" => kind = "freebsd" /\ call.total < call.i /\ call.i <= call.cnt + 1
    /\ call.at \in {"make", "release"} => kind = "redhat"
    /\ call.at = "make" => call.i <= call.max + 1
    /\ \A j, k \in Slots : ifaces[j] = ifaces[k] => j = k \/ ifaces[j] = NULL
    /\ \A j \in Slots :
         /\ ifaces[j] # NULL => ifaces[j] \in heap \ held
         /\ call.at = "make" => (ifaces[j] = NULL <=> j >= call.i)
         /\ call.at = "release" /\ j < call.i => ifaces[j] = NULL
         /\ call.at = "walk" => ifaces[j] # NULL

\* The count is not less than the handles that there are; with the Red Hat driver it is
\* exact, and every handle is the caller's or in the array.
Count ==
    /\ ncf => ref > Cardinality(heap)
    /\ kind = "redhat" => /\ ncf => ref = Cardinality(heap) + 1
                          /\ heap = held \cup Pending

\* What an instance of a driver can have acquired, and what of it is not the driver's.
Own(k) == IF k = "freebsd" THEN {"netcf", "root", "rng", "driver", "ioctl_fd"} ELSE Resources
Base == {"netcf", "root", "rng"}

Owned == open \subseteq Own(kind)

IInv == Types /\ Life /\ Pointers /\ Count /\ Owned /\ NothingLeaks

\* drv_close gives back all that a driver can hold: what is left is the instance's own.
LEMMA CloseAll ==
    ASSUME NEW k, NEW res \in SUBSET Own(k)
    PROVE  drv_close(k, res) \subseteq Base
BY DEF drv_close, Resources, Own, Base

\* What the steps of ncf_init acquire is the instance's or the driver's.
LEMMA AcquiredOwn ==
    ASSUME NEW k, NEW n \in 0..Len(Steps(k))
    PROVE  /\ Acquired(k, n) \subseteq Own(k)
           /\ n = 3 => Acquired(k, n) \subseteq Base
           /\ n >= 1 => "netcf" \in Acquired(k, n)
           /\ n > 3 => "driver" \in Acquired(k, n)
<1>1. CASE k = "freebsd"
  BY <1>1 DEF Acquired, Steps, Own, Base
<1>2. CASE k # "freebsd"
  BY <1>2 DEF Acquired, Steps, Own, Base, Resources
<1>. QED  BY <1>1, <1>2

\* Closing an instance leaves nothing of what it or its driver can hold.
LEMMA ClosedAll ==
    ASSUME NEW k, NEW res \in SUBSET Own(k)
    PROVE  Closed(k, res) = {}
BY CloseAll DEF Closed, UnrefNcf, Base

\* Without a call, no entry of the array is anybody's, and the handles are the caller's.
LEMMA Quiet ==
    ASSUME call = Idle
    PROVE  Slots = {} /\ Pending = {} /\ call.at = "idle" /\ Idle \in Calls
BY BoundsAssumption DEF Slots, Pending, Idle, At, Calls, Places

\* One handle more, or less, in a set of handles.
LEMMA Counting ==
    ASSUME NEW S \in SUBSET Handles, NEW h \in Handles
    PROVE  /\ Cardinality(S) \in Nat
           /\ h \notin S => Cardinality(S \cup {h}) = Cardinality(S) + 1
           /\ h \in S => Cardinality(S \ {h}) = Cardinality(S) - 1 /\ Cardinality(S) > 0
<1>1. IsFiniteSet(S)
  BY HandlesAssumption, FS_Subset
<1>2. Cardinality(S) \in Nat
  BY <1>1, FS_CardinalityType
<1>3. h \notin S => Cardinality(S \cup {h}) = Cardinality(S) + 1
  BY <1>1, FS_AddElement
<1>4. h \in S => Cardinality(S \ {h}) = Cardinality(S) - 1
  BY <1>1, FS_RemoveElement
<1>5. h \in S => Cardinality(S) > 0
  <2>. SUFFICES ASSUME h \in S, Cardinality(S) = 0 PROVE FALSE
    BY <1>2
  <2>. QED  BY <1>1, FS_EmptySet
<1>. QED  BY <1>2, <1>3, <1>4, <1>5

\* What does not touch the instance keeps what is known of its resources.
LEMMA OpenKept ==
    ASSUME IInv, UNCHANGED <<kind, ncf, driver, open>>
    PROVE  Owned' /\ NothingLeaks'
BY DEF IInv, Owned, NothingLeaks

\* ncf_init keeps the invariant, whichever of its steps fails.
LEMMA InitStep ==
    ASSUME IInv, NEW n \in 0..Len(Steps(kind)), NcfInit(n)
    PROVE  IInv'
<1>. USE DEF IInv
<1>0. n \in Int /\ Len(Steps(kind)) \in {5, 12}
  BY DEF Steps
<1>1. /\ call = Idle /\ heap = {} /\ held = {} /\ UNCHANGED <<kind, heap, held, ifaces, call>>
  BY DEF NcfInit, Life, Types
<1>2. Pointers'
  BY <1>1, Quiet DEF Pointers, Slots, Types, Idle, At
<1>3. Cardinality(heap) = 0
  BY <1>1, FS_EmptySet
<1>4. /\ ncf' \in BOOLEAN /\ driver' \in BOOLEAN /\ usable' \in BOOLEAN
      /\ ncf' => ref' = 1
      /\ ~ncf' => ref' = 0 /\ ~driver' /\ ~usable'
      /\ usable' => driver'
  <2>1. ("driver" \in open') \in BOOLEAN
    OBVIOUS
  <2>. QED  BY Zenon, <2>1 DEF NcfInit
<1>5. Types'
  <2>1. ref' = 0 \/ ref' = 1
    BY Zenon, <1>4
  <2>2. ref' \in Nat
    BY <2>1
  <2>. QED  BY Zenon, <1>1, <1>4, <2>2 DEF Types
<1>6. Count'
  <2>1. heap' = held' \cup Pending'
    <3>1. call' = Idle
      BY <1>1
    <3>2. Slots' = {}
      BY <3>1, BoundsAssumption DEF Slots, Idle, At
    <3>. QED  BY <1>1, <3>2 DEF Pending
  <2>2. Cardinality(heap') = 0
    BY <1>1, <1>3
  <2>. QED  BY <1>4, <2>1, <2>2 DEF Count
<1>7. CASE n = Len(Steps(kind)) /\ usable' /\ open' = Acquired(kind, n)
  <2>1. "netcf" \in open' /\ open' \subseteq Own(kind) /\ driver'
    BY <1>0, <1>4, <1>7, AcquiredOwn
  <2>. QED  BY <1>1, <1>2, <1>4, <1>5, <1>6, <2>1 DEF Life, Owned, NothingLeaks, Idle, At
<1>8. CASE n < 3 /\ ~ncf' /\ open' = Closed(kind, Acquired(kind, n))
  <2>1. open' = {}
    BY <1>8, AcquiredOwn, ClosedAll
  <2>. QED  BY <1>1, <1>2, <1>4, <1>5, <1>6, <1>8, <2>1 DEF Life, Owned, NothingLeaks, Idle, At
<1>9. CASE n \in 3..Len(Steps(kind)) - 1 /\ ncf' /\ ~usable'
  <2>1. open' \subseteq Own(kind) /\ "netcf" \in open'
    <3>1. CASE kind = "freebsd"
      BY <1>0, <1>9, <3>1, AcquiredOwn DEF NcfInit
    <3>2. CASE kind # "freebsd"
      <4>1. open' = drv_close(kind, Acquired(kind, n))
        BY <1>0, <1>9, <3>2 DEF NcfInit
      <4>. QED  BY <1>0, <1>9, <4>1, AcquiredOwn DEF drv_close
    <3>. QED  BY <3>1, <3>2
  <2>2. "driver" \notin open' => open' \subseteq Base
    <3>1. CASE kind = "freebsd"
      BY <1>0, <1>9, <3>1, AcquiredOwn DEF NcfInit
    <3>2. CASE kind # "freebsd"
      <4>1. open' = drv_close(kind, Acquired(kind, n))
        BY <1>0, <1>9, <3>2 DEF NcfInit
      <4>. QED  BY <4>1, AcquiredOwn, CloseAll
    <3>. QED  BY <3>1, <3>2
  <2>3. driver' = ("driver" \in open')
    BY <1>0, <1>9 DEF NcfInit
  <2>4. ~driver' => open' \subseteq Base
    BY Zenon, <2>2, <2>3
  <2>. QED  BY <1>1, <1>2, <1>4, <1>5, <1>6, <1>9, <2>1, <2>4 DEF Life, Owned, NothingLeaks, Base, Idle, At
<1>. QED  BY <1>0, <1>7, <1>8, <1>9 DEF NcfInit

\* ncf_close keeps it: it frees nothing, or everything, and then there is no handle.
LEMMA CloseStep ==
    ASSUME IInv, NcfClose
    PROVE  IInv'
<1>. USE DEF IInv
<1>0. call = Idle /\ call' = Idle /\ UNCHANGED <<kind, heap, held, ifaces>>
  BY DEF NcfClose
<1>1. CASE ref > 1 /\ UNCHANGED <<ncf, driver, usable, ref, open>>
  BY <1>0, <1>1 DEF Types, Life, Pointers, Count, Owned, NothingLeaks, Slots, Pending
<1>2. CASE ref = 1 /\ ~ncf' /\ open' = Closed(kind, open)
  <2>1. open' = {}
    BY <1>2, ClosedAll DEF Owned
  <2>2. heap = {}
    <3>1. Cardinality(heap) \in Nat /\ IsFiniteSet(heap)
      BY HandlesAssumption, FS_Subset, FS_CardinalityType DEF Types
    <3>2. ref > Cardinality(heap)
      BY DEF NcfClose, Count
    <3>3. Cardinality(heap) = 0
      BY <1>2, <3>1, <3>2
    <3>. QED  BY <3>1, <3>3, FS_EmptySet
  <2>3. /\ ~driver' /\ ~usable'
        /\ ncf' \in BOOLEAN /\ driver' \in BOOLEAN /\ usable' \in BOOLEAN /\ ref' = 0
    BY <1>2, Zenon DEF NcfClose, instance
  <2>4. Types'
    BY <1>0, <2>3 DEF Types
  <2>5. Slots' = {} /\ Pending' = {}
    <3>1. Slots' = {}
      BY <1>0, BoundsAssumption DEF Slots, Idle, At
    <3>. QED  BY <3>1 DEF Pending
  <2>6. Pointers' /\ Count' /\ Life'
    BY <1>0, <1>2, <2>1, <2>2, <2>3, <2>5 DEF Pointers, Count, Life, Types, Idle, At
  <2>. QED  BY <1>2, <2>1, <2>4, <2>6 DEF Owned, NothingLeaks
<1>. QED  BY <1>1, <1>2 DEF NcfClose, instance

\* Loading or dropping Augeas changes nothing but the driver's own resources.
LEMMA AugeasStep ==
    ASSUME IInv, driver, UNCHANGED <<kind, ncf, driver>>, MayGetAugeas
    PROVE  Owned' /\ NothingLeaks' /\ (ncf => "netcf" \in open')
BY DEF IInv, Life, Owned, NothingLeaks, MayGetAugeas, Own, Resources

\* make_netcf_if keeps the count: one reference and one handle more.
LEMMA MakeCounts ==
    ASSUME IInv, ncf, NEW h, MakeIf(h)
    PROVE  /\ h \in Handles \ heap /\ heap' = heap \cup {h} /\ heap' \subseteq Handles
           /\ ref' \in Nat /\ ref' > Cardinality(heap')
           /\ kind = "redhat" => ref' = Cardinality(heap') + 1
<1>. DEFINE c == Cardinality(heap)  d == Cardinality(heap \cup {h})
<1>1. heap \in SUBSET Handles /\ h \in Handles \ heap /\ heap' = heap \cup {h} /\ ref' = ref + 1
  BY DEF MakeIf, IInv, Types
<1>2. c \in Nat /\ d = c + 1
  BY <1>1, Counting
<1>3. ref \in Nat /\ ref > c /\ (kind = "redhat" => ref = c + 1)
  BY DEF IInv, Types, Count
<1>4. ref' \in Nat /\ ref' > d /\ (kind = "redhat" => ref' = d + 1)
  BY <1>1, <1>2, <1>3
<1>. QED  BY <1>1, <1>4

\* unref of a handle that exists keeps the count, and is never the last of the instance.
LEMMA UnrefCounts ==
    ASSUME IInv, NEW h \in heap, UnrefIf(h)
    PROVE  /\ heap' = heap \ {h} /\ open' = open /\ ncf
           /\ ref' \in Nat /\ ref' > Cardinality(heap')
           /\ kind = "redhat" => ref' = Cardinality(heap') + 1
<1>. DEFINE c == Cardinality(heap)  d == Cardinality(heap \ {h})
<1>1. heap \in SUBSET Handles /\ h \in Handles /\ h # NULL /\ ncf
  BY HandlesAssumption DEF IInv, Types, Life
<1>2. c \in Nat /\ d = c - 1 /\ c > 0
  BY <1>1, Counting
<1>3. ref \in Nat /\ ref > c /\ (kind = "redhat" => ref = c + 1)
  BY <1>1 DEF IInv, Types, Count
<1>4. heap' = heap \ {h} /\ ref' = ref - 1 /\ open' = open
  BY <1>1, <1>2, <1>3 DEF UnrefIf, UnrefNcf
<1>5. ref' \in Nat /\ ref' > d /\ (kind = "redhat" => ref' = d + 1)
  BY <1>2, <1>3, <1>4
<1>. QED  BY <1>1, <1>4, <1>5

\* A call that gives out one handle, or none.
LEMMA NewHandleStep ==
    ASSUME IInv, NewHandle
    PROVE  IInv'
<1>. USE DEF IInv
<1>1. /\ ncf /\ usable /\ driver /\ call = Idle /\ UNCHANGED <<kind, ncf, driver, usable, ifaces, call>>
  BY DEF NewHandle, MayCall, Life, instance
<1>2. Owned' /\ NothingLeaks' /\ "netcf" \in open'
  BY <1>1, AugeasStep DEF NewHandle
<1>3. Life'
  BY <1>1, <1>2 DEF Life
<1>4. Slots' = {} /\ Pending' = {}
  <2>1. Slots' = {}
    BY <1>1, BoundsAssumption DEF Slots, Idle, At
  <2>. QED  BY <2>1 DEF Pending
<1>5. Pointers'
  BY <1>1, <1>4 DEF Pointers, Types, Idle, At
<1>6. heap = held \/ kind # "redhat"
  BY <1>1, Quiet DEF Count
<1>7. CASE UNCHANGED <<heap, ref, held>>
  <2>1. Types'
    BY <1>1, <1>7 DEF Types
  <2>2. Count'
    BY <1>1, <1>4, <1>6, <1>7 DEF Count
  <2>. QED  BY <1>2, <1>3, <1>5, <2>1, <2>2
<1>8. CASE \E h \in Handles : MakeIf(h) /\ held' = held \cup {h}
  <2>1. PICK h \in Handles : MakeIf(h) /\ held' = held \cup {h}
    BY <1>8
  <2>2. /\ heap' = heap \cup {h} /\ heap' \subseteq Handles
        /\ ref' \in Nat /\ ref' > Cardinality(heap')
        /\ kind = "redhat" => ref' = Cardinality(heap') + 1
    BY <1>1, <2>1, MakeCounts
  <2>3. Types'
    BY <1>1, <2>1, <2>2 DEF Types
  <2>4. Count'
    BY <1>1, <1>4, <1>6, <2>1, <2>2 DEF Count
  <2>. QED  BY <1>2, <1>3, <1>5, <2>3, <2>4
<1>. QED  BY <1>7, <1>8 DEF NewHandle

\* ncf_if_free of a handle that the caller has.
LEMMA FreeStep ==
    ASSUME IInv, NEW h \in held, IfFree(h)
    PROVE  IInv'
<1>. USE DEF IInv
<1>1. /\ call = Idle /\ UNCHANGED <<kind, ncf, driver, usable, ifaces, call>>
      /\ held' = held \ {h} /\ h \in heap /\ UnrefIf(h)
  BY DEF IfFree, Types, instance
<1>2. /\ heap' = heap \ {h} /\ open' = open /\ ncf
      /\ ref' \in Nat /\ ref' > Cardinality(heap')
      /\ kind = "redhat" => ref' = Cardinality(heap') + 1
  BY <1>1, UnrefCounts
<1>3. Slots' = {} /\ Pending' = {}
  <2>1. Slots' = {}
    BY <1>1, BoundsAssumption DEF Slots, Idle, At
  <2>. QED  BY <2>1 DEF Pending
<1>4. heap = held \/ kind # "redhat"
  BY <1>1, Quiet DEF Count
<1>5. Types' /\ Life'
  BY <1>1, <1>2 DEF Types, Life
<1>6. Pointers'
  BY <1>1, <1>3 DEF Pointers, Idle, At
<1>7. Count'
  BY <1>1, <1>2, <1>3, <1>4 DEF Count
<1>. QED  BY <1>1, <1>2, <1>5, <1>6, <1>7, OpenKept

\* The local variables when a lookup starts and when it comes to its error label.
LEMMA CallStarts ==
    ASSUME NEW a \in Places, NEW max \in 0..MaxIfaces, NEW n \in 0..MaxIfaces
    PROVE  /\ At(a, max, n) \in Calls
           /\ At(a, max, n).at = a /\ At(a, max, n).max = max /\ At(a, max, n).cnt = n
           /\ At(a, max, n).i = 1 /\ At(a, max, n).total = 0
BY BoundsAssumption DEF At, Calls

\* The local variables in the next round of a loop.
LEMMA CallChanges ==
    ASSUME NEW c \in Calls, c.i <= MaxIfaces
    PROVE  /\ [c EXCEPT !.i = @ + 1] \in Calls
           /\ [c EXCEPT !.i = @ + 1].i = c.i + 1
           /\ [c EXCEPT !.i = @ + 1].max = c.max /\ [c EXCEPT !.i = @ + 1].at = c.at
BY BoundsAssumption DEF Calls

\* One entry of the array is replaced.
LEMMA EntrySet ==
    ASSUME NEW f \in [1..MaxIfaces -> Handles \cup {NULL}], NEW i \in 1..MaxIfaces,
           NEW x \in Handles \cup {NULL}
    PROVE  /\ [f EXCEPT ![i] = x] \in [1..MaxIfaces -> Handles \cup {NULL}]
           /\ [f EXCEPT ![i] = x][i] = x
           /\ \A j \in 1..MaxIfaces : j # i => [f EXCEPT ![i] = x][j] = f[j]
OBVIOUS

\* The call that clears the array, and the one that does not.
LEMMA BeginStep ==
    ASSUME IInv, NEW max \in 0..MaxIfaces, MacBegin(max) \/ WalkBegin(max)
    PROVE  IInv'
<1>. USE DEF IInv
<1>1. /\ ncf /\ usable /\ driver /\ call = Idle /\ heap \subseteq Handles
      /\ UNCHANGED <<kind, ncf, driver, usable, ref, heap, held>>
  BY DEF MacBegin, WalkBegin, MayCall, Life, Types, instance
<1>2. Owned' /\ NothingLeaks' /\ "netcf" \in open'
  <2>1. CASE MacBegin(max)
    BY <1>1, <2>1, AugeasStep DEF MacBegin
  <2>2. CASE WalkBegin(max)
    BY <1>1, <2>2, OpenKept DEF WalkBegin, Life
  <2>. QED  BY <2>1, <2>2
<1>3. heap = held \/ kind # "redhat"
  BY <1>1, Quiet DEF Count
<1>4. /\ call' \in Calls /\ call'.at # "idle" /\ call'.max = max /\ call'.i = 1 /\ call'.total = 0
      /\ call'.at = "walk" <=> kind = "freebsd"
      /\ call'.at \in {"make", "release"} <=> kind = "redhat"
      /\ call'.cnt \in 0..MaxIfaces
  <2>1. PICK c \in {"make", "release", "walk"}, n \in 0..MaxIfaces :
          /\ call' = At(c, max, n)
          /\ (kind = "freebsd" /\ c = "walk") \/ (kind = "redhat" /\ c # "walk")
    BY BoundsAssumption DEF MacBegin, WalkBegin
  <2>2. c \in Places /\ c # "idle"
    BY DEF Places
  <2>3. /\ call' \in Calls /\ call'.at = c /\ call'.max = max /\ call'.cnt = n
        /\ call'.i = 1 /\ call'.total = 0
    BY <2>1, <2>2, CallStarts
  <2>. QED  BY <2>1, <2>2, <2>3
<1>5. /\ ifaces' \in [1..MaxIfaces -> Handles \cup {NULL}]
      /\ kind = "redhat" => \A j \in 1..max : ifaces'[j] = NULL
  <2>1. CASE MacBegin(max)
    <3>1. ifaces' = Cleared(max) /\ max \in Int /\ max <= MaxIfaces
      BY <2>1, BoundsAssumption DEF MacBegin
    <3>2. \A j \in 1..MaxIfaces : ifaces[j] \in Handles \cup {NULL}
      BY DEF Types
    <3>. QED  BY <3>1, <3>2, BoundsAssumption DEF Cleared
  <2>2. CASE WalkBegin(max)
    BY <2>2 DEF WalkBegin, Types
  <2>. QED  BY <2>1, <2>2
<1>6. \A j \in Slots' : ifaces'[j] = NULL
  <2>1. Slots' = IF kind = "freebsd" THEN 1..0 ELSE 1..max
    BY <1>1, <1>4, Zenon DEF Slots
  <2>2. kind = "freebsd" \/ kind = "redhat"
    BY DriversAssumption DEF Types
  <2>. QED  BY <1>5, <2>1, <2>2
<1>7. Pending' = {}
  BY <1>6 DEF Pending
<1>8. Types' /\ Life'
  BY <1>1, <1>2, <1>4, <1>5 DEF Types, Life
<1>9. Pointers'
  <2>1. \A j \in Slots' : j >= 1 /\ j \in Int
    BY <1>1, <1>4, BoundsAssumption DEF Slots
  <2>2. kind = "freebsd" => Slots' = {}
    BY <1>1, <1>4 DEF Slots
  <2>. QED  BY <1>1, <1>4, <1>6, <2>1, <2>2 DEF Pointers
<1>10. Count'
  BY <1>1, <1>3, <1>7 DEF Count
<1>. QED  BY <1>2, <1>8, <1>9, <1>10
\* A round of the loop that makes handles.
LEMMA MakeStep ==
    ASSUME IInv, MacMake
    PROVE  IInv'
<1>. USE DEF IInv
<1>1. /\ kind = "redhat" /\ ncf /\ call \in Calls /\ call.at = "make"
      /\ call.i <= call.max /\ call.max \in 0..MaxIfaces /\ call.i \in 1..MaxIfaces + 1
      /\ UNCHANGED <<kind, ncf, driver, usable, open, held>>
  BY DEF MacMake, Life, Pointers, Types, Idle, At, Calls, instance
<1>2. Owned' /\ NothingLeaks'
  BY <1>1, OpenKept
<1>3. Slots = 1..call.max
  BY <1>1 DEF Slots
<1>4. CASE /\ \E h \in Handles : MakeIf(h) /\ ifaces' = [ifaces EXCEPT ![call.i] = h]
           /\ call' = [call EXCEPT !.i = @ + 1]
  <2>1. PICK h \in Handles : MakeIf(h) /\ ifaces' = [ifaces EXCEPT ![call.i] = h]
    BY <1>4
  <2>2. /\ heap' = heap \cup {h} /\ heap' \subseteq Handles /\ h \notin heap
        /\ ref' \in Nat /\ ref' > Cardinality(heap')
        /\ kind = "redhat" => ref' = Cardinality(heap') + 1
    BY <1>1, <2>1, MakeCounts
  <2>3. /\ call' \in Calls /\ call'.at = "make" /\ call'.i = call.i + 1 /\ call'.max = call.max
    <3>1. call.i <= MaxIfaces /\ "make" \in Places
      BY <1>1, BoundsAssumption DEF Places
    <3>. QED  BY <1>1, <1>4, <3>1, CallChanges, Zenon
  <2>4. /\ ifaces' \in [1..MaxIfaces -> Handles \cup {NULL}] /\ ifaces'[call.i] = h
        /\ \A j \in 1..MaxIfaces : j # call.i => ifaces'[j] = ifaces[j]
    <3>. call.i \in 1..MaxIfaces /\ h \in Handles \cup {NULL}
      BY <1>1, BoundsAssumption
    <3>. QED  BY <2>1, EntrySet, Zenon DEF Types
  <2>5. Slots' = Slots
    BY <1>1, <1>3, <2>3 DEF Slots
  <2>6. Types' /\ Life'
    BY <1>1, <2>2, <2>3, <2>4 DEF Types, Life
  <2>7. \A j \in Slots : j # call.i => ifaces[j] \in heap \/ ifaces[j] = NULL
    BY DEF Pointers
  <2>8. call.i \in Slots /\ h # NULL /\ ifaces[call.i] = NULL /\ h \notin held
    BY <1>1, <1>3, <2>2, HandlesAssumption DEF Types, Pointers
  <2>9. Pointers'
    <3>1. \A j, k \in Slots : ifaces'[j] = ifaces'[k] => j = k \/ ifaces'[j] = NULL
      <4>1. \A j \in Slots : j \in 1..MaxIfaces
        BY <1>1, <1>3, BoundsAssumption
      <4>. QED  BY <2>2, <2>4, <2>7, <2>8, <4>1 DEF Pointers
    <3>2. \A j \in Slots :
            /\ ifaces'[j] # NULL => ifaces'[j] \in heap' \ held'
            /\ ifaces'[j] = NULL <=> j >= call.i + 1
      <4>1. \A j \in Slots : j \in 1..MaxIfaces /\ (j >= call.i + 1 <=> j >= call.i /\ j # call.i)
        BY <1>1, <1>3, BoundsAssumption
      <4>2. \A j \in Slots : ifaces[j] = NULL <=> j >= call.i
        BY <1>1 DEF Pointers
      <4>3. \A j \in Slots : ifaces[j] # NULL => ifaces[j] \in heap \ held
        BY DEF Pointers
      <4>4. held' = held
        BY <1>1
      <4>. HIDE DEF IInv
      <4>. QED  BY <2>2, <2>4, <2>8, <4>1, <4>2, <4>3, <4>4
    <3>. QED  BY <1>1, <2>3, <2>5, <3>1, <3>2 DEF Pointers
  <2>10. Pending' = Pending \cup {h}
    <3>1. \A j \in Slots : j \in 1..MaxIfaces
      BY <1>1, <1>3, BoundsAssumption
    <3>. QED  BY <2>4, <2>5, <2>8, <3>1 DEF Pending
  <2>11. Count'
    BY <1>1, <2>2, <2>10 DEF Count
  <2>. QED  BY <1>2, <2>6, <2>9, <2>11
<1>5. CASE /\ call' = At("release", call.max, call.cnt)
           /\ UNCHANGED <<heap, ref, ifaces>>
  <2>1. /\ call' \in Calls /\ call'.at = "release" /\ call'.i = 1 /\ call'.max = call.max
    <3>1. "release" \in Places /\ call.max \in 0..MaxIfaces /\ call.cnt \in 0..MaxIfaces
      BY <1>1 DEF Places, Calls
    <3>. QED  BY <1>1, <1>5, <3>1, CallStarts
  <2>2. Slots' = Slots
    BY <1>1, <1>3, <2>1 DEF Slots
  <2>3. Pending' = Pending
    BY <1>5, <2>2 DEF Pending
  <2>4. Types' /\ Life' /\ Count'
    BY <1>1, <1>5, <2>1, <2>3 DEF Types, Life, Count
  <2>5. Pointers'
    BY <1>1, <1>3, <1>5, <2>1, <2>2 DEF Pointers
  <2>. QED  BY <1>2, <2>4, <2>5
<1>. QED  BY <1>4, <1>5 DEF MacMake

\* The loop is over: what it stored becomes the caller's.
LEMMA DoneStep ==
    ASSUME IInv, MacDone
    PROVE  IInv'
<1>. USE DEF IInv
<1>1. /\ kind = "redhat" /\ ncf /\ call \in Calls /\ call.at = "make" /\ call' = Idle
      /\ call.max \in 0..MaxIfaces /\ call.i \in 1..call.max + 1
      /\ UNCHANGED <<kind, ncf, driver, usable, open, ref, heap, ifaces>>
  BY DEF MacDone, Life, Pointers, Types, Idle, At, Calls, instance
<1>2. Owned' /\ NothingLeaks'
  BY <1>1, OpenKept
<1>3. Slots = 1..call.max
  BY <1>1 DEF Slots
<1>4. Pending = {ifaces[j] : j \in 1..call.i - 1}
  <2>1. \A j \in 1..call.i - 1 : j \in Slots /\ ifaces[j] # NULL
    BY <1>1, <1>3 DEF Pointers
  <2>2. \A j \in Slots : ifaces[j] # NULL => j \in 1..call.i - 1
    BY <1>1, <1>3 DEF Pointers
  <2>. QED  BY <2>1, <2>2 DEF Pending
<1>5. held' = heap /\ held' \subseteq heap'
  BY <1>1, <1>4 DEF MacDone, Count
<1>6. Slots' = {} /\ Pending' = {}
  <2>1. Slots' = {}
    BY <1>1, BoundsAssumption DEF Slots, Idle, At
  <2>. QED  BY <2>1 DEF Pending
<1>7. Types' /\ Life'
  BY <1>1, <1>5, BoundsAssumption DEF Types, Life, Idle, At, Calls, Places
<1>8. Pointers' /\ Count'
  BY <1>1, <1>5, <1>6 DEF Pointers, Count, Idle, At
<1>. QED  BY <1>2, <1>7, <1>8

\* A round of the loop that releases, for an entry that was filled and for one that was not.
LEMMA ReleaseStep ==
    ASSUME IInv, MacRelease
    PROVE  IInv'
<1>. USE DEF IInv
<1>1. /\ kind = "redhat" /\ ncf /\ call \in Calls /\ call.at = "release"
      /\ call.i <= call.max /\ call.max \in 0..MaxIfaces /\ call.i \in 1..MaxIfaces + 1
      /\ UNCHANGED <<kind, ncf, driver, usable, held>>
      /\ UnrefIf(ifaces[call.i])
      /\ ifaces' = [ifaces EXCEPT ![call.i] = NULL]
      /\ call' = [call EXCEPT !.i = @ + 1]
  BY DEF MacRelease, Life, Pointers, Types, Idle, At, Calls, instance
<1>2. Slots = 1..call.max /\ call.i \in Slots
  BY <1>1 DEF Slots
<1>3. /\ call' \in Calls /\ call'.at = "release" /\ call'.i = call.i + 1 /\ call'.max = call.max
  <2>1. call.i <= MaxIfaces /\ "release" \in Places
    BY <1>1, BoundsAssumption DEF Places
  <2>. QED  BY <1>1, <2>1, CallChanges, Zenon
<1>4. /\ ifaces' \in [1..MaxIfaces -> Handles \cup {NULL}] /\ ifaces'[call.i] = NULL
      /\ \A j \in 1..MaxIfaces : j # call.i => ifaces'[j] = ifaces[j]
  <2>. call.i \in 1..MaxIfaces /\ NULL \in Handles \cup {NULL}
    BY <1>1, BoundsAssumption
  <2>. QED  BY <1>1, EntrySet, Zenon DEF Types
<1>5. Slots' = Slots
  BY <1>1, <1>2, <1>3 DEF Slots
<1>6. Pending' = Pending \ {ifaces[call.i]}
  BY <1>1, <1>2, <1>4, <1>5 DEF Pending, Pointers
<1>7. /\ heap' = heap \ {ifaces[call.i]} /\ open' = open
      /\ ref' \in Nat /\ ref' > Cardinality(heap') /\ ref' = Cardinality(heap') + 1
  <2>1. CASE ifaces[call.i] = NULL
    <3>1. UNCHANGED <<heap, ref, open>> /\ NULL \notin heap
      BY <1>1, <2>1, HandlesAssumption DEF UnrefIf, Types
    <3>. QED  BY <1>1, <2>1, <3>1 DEF Types, Count
  <2>2. CASE ifaces[call.i] # NULL
    <3>1. ifaces[call.i] \in heap
      BY <1>2, <2>2 DEF Pointers
    <3>. QED  BY <1>1, <3>1, UnrefCounts
  <2>. QED  BY <2>1, <2>2
<1>8. ifaces[call.i] \notin held
  BY <1>2, HandlesAssumption DEF Pointers, Types
<1>9. Owned' /\ NothingLeaks'
  BY <1>1, <1>7, OpenKept
<1>10. Types' /\ Life'
  BY <1>1, <1>3, <1>4, <1>7, <1>8 DEF Types, Life
<1>11. Pointers'
  <2>1. \A j, k \in Slots : ifaces'[j] = ifaces'[k] => j = k \/ ifaces'[j] = NULL
    BY <1>1, <1>2, <1>4 DEF Pointers
  <2>2. \A j \in Slots :
          /\ ifaces'[j] # NULL => ifaces'[j] \in heap' \ held'
          /\ j < call.i + 1 => ifaces'[j] = NULL
    BY <1>1, <1>2, <1>4, <1>7 DEF Pointers
  <2>. QED  BY <1>1, <1>3, <1>5, <2>1, <2>2 DEF Pointers
<1>12. Count'
  BY <1>1, <1>6, <1>7, <1>8 DEF Count
<1>. QED  BY <1>9, <1>10, <1>11, <1>12

\* Everything is released: the call returns its error.
LEMMA FailStep ==
    ASSUME IInv, MacFail
    PROVE  IInv'
<1>. USE DEF IInv
<1>1. /\ kind = "redhat" /\ ncf /\ call \in Calls /\ call.at = "release" /\ call' = Idle
      /\ call.i > call.max /\ call.max \in 0..MaxIfaces /\ call.i \in 1..MaxIfaces + 1
      /\ UNCHANGED <<kind, ncf, driver, usable, open, ref, heap, held, ifaces>>
  BY DEF MacFail, Life, Pointers, Types, Idle, At, Calls, instance
<1>2. Pending = {}
  <2>1. \A j \in Slots : ifaces[j] = NULL
    BY <1>1 DEF Pointers, Slots
  <2>. QED  BY <2>1 DEF Pending
<1>3. Slots' = {} /\ Pending' = {}
  <2>1. Slots' = {}
    BY <1>1, BoundsAssumption DEF Slots, Idle, At
  <2>. QED  BY <2>1 DEF Pending
<1>4. Types' /\ Life'
  BY <1>1, BoundsAssumption DEF Types, Life, Idle, At, Calls, Places
<1>5. Pointers' /\ Count'
  BY <1>1, <1>2, <1>3 DEF Pointers, Count, Idle, At
<1>. QED  BY <1>1, <1>4, <1>5, OpenKept
\* A round of the FreeBSD driver's loop: it may lose handles and references, never takes
\* away any.
LEMMA WalkStepKeeps ==
    ASSUME IInv, WalkStep
    PROVE  IInv'
<1>. USE DEF IInv
<1>1. /\ kind = "freebsd" /\ ncf /\ call \in Calls /\ call.at = "walk" /\ call.total < call.i
      /\ call.i <= call.cnt /\ call.cnt \in 0..MaxIfaces /\ call.i \in 1..MaxIfaces + 1
      /\ call.total \in 0..MaxIfaces /\ call.max \in 0..MaxIfaces
      /\ UNCHANGED <<kind, ncf, driver, usable, open, held>>
  BY DEF WalkStep, Life, Pointers, Types, Idle, At, Calls, instance
<1>2. Owned' /\ NothingLeaks'
  BY <1>1, OpenKept
<1>3. Slots = 1..call.total
  BY <1>1 DEF Slots
<1>4. \A f \in {0, 1} : /\ Round(f) \in Calls /\ Round(f).at = "walk" /\ Round(f).i = call.i + 1
                         /\ Round(f).total = call.total + f /\ Round(f).cnt = call.cnt
  BY <1>1, BoundsAssumption DEF Round, Calls, Places
<1>5. ASSUME NEW f \in {0, 1}, call' = Round(f)
      PROVE  /\ call' \in Calls /\ call'.at = "walk" /\ call'.i = call.i + 1 /\ call'.cnt = call.cnt
             /\ Slots' = 1..call.total + f
             /\ call'.total < call'.i /\ call'.i <= call'.cnt + 1
  <2>1. /\ call' \in Calls /\ call'.at = "walk" /\ call'.i = call.i + 1 /\ call'.cnt = call.cnt
        /\ call'.total = call.total + f
    BY <1>4, <1>5, Zenon
  <2>2. call.total + f < call.i + 1 /\ call.i + 1 <= call.cnt + 1
    BY <1>1
  <2>. QED  BY <1>1, <2>1, <2>2, Zenon DEF Slots
<1>6. CASE /\ call' = Round(0) /\ UNCHANGED ifaces
           /\ heap \subseteq heap' /\ heap' \subseteq Handles
           /\ ref' \in Nat /\ ref' > Cardinality(heap')
  <2>1. /\ call' \in Calls /\ call'.at = "walk" /\ call'.total < call'.i /\ call'.i <= call'.cnt + 1
        /\ Slots' = Slots
    BY <1>1, <1>3, <1>5, <1>6
  <2>2. Types' /\ Life'
    BY <1>1, <1>6, <2>1 DEF Types, Life
  <2>3. Pointers' /\ Count'
    BY <1>1, <1>6, <2>1 DEF Pointers, Count
  <2>. QED  BY <1>2, <2>2, <2>3
<1>7. CASE WalkSkips
  <2>1. Cardinality(heap) < ref
    BY <1>1 DEF Count
  <2>. QED  BY <1>6, <1>7, <2>1 DEF WalkSkips, Types
<1>8. ASSUME NEW h \in Handles, WalkMakes(h)
      PROVE  IInv'
  <2>1. CASE MakeIf(h) /\ call' = Round(0) /\ UNCHANGED ifaces
    <3>1. heap \subseteq heap' /\ heap' \subseteq Handles /\ ref' \in Nat /\ ref' > Cardinality(heap')
      BY <1>1, <2>1, MakeCounts
    <3>. QED  BY <1>6, <2>1, <3>1
  <2>2. CASE ref' = ref + 1 /\ UNCHANGED <<heap, ifaces>> /\ call' = Round(0)
    <3>1. Cardinality(heap) \in Nat /\ ref \in Nat /\ ref > Cardinality(heap)
      BY <1>1, Counting DEF Types, Count
    <3>2. ref + 1 \in Nat /\ ref + 1 > Cardinality(heap)
      BY <3>1
    <3>. QED  BY <1>6, <2>2, <3>2 DEF Types
  <2>3. CASE MakeIf(h) /\ call' = Round(1) /\ ifaces' = [ifaces EXCEPT ![call.total + 1] = h]
    <3>1. /\ heap' = heap \cup {h} /\ heap' \subseteq Handles /\ h \notin heap
          /\ ref' \in Nat /\ ref' > Cardinality(heap')
      BY <1>1, <2>3, MakeCounts
    <3>2. /\ call' \in Calls /\ call'.at = "walk" /\ call'.total < call'.i /\ call'.i <= call'.cnt + 1
          /\ Slots' = 1..call.total + 1
      BY <1>5, <2>3
    <3>3. /\ ifaces' \in [1..MaxIfaces -> Handles \cup {NULL}] /\ ifaces'[call.total + 1] = h
          /\ \A j \in 1..MaxIfaces : j # call.total + 1 => ifaces'[j] = ifaces[j]
      <4>. call.total + 1 \in 1..MaxIfaces /\ h \in Handles \cup {NULL}
        BY <1>1, BoundsAssumption
      <4>. QED  BY <2>3, EntrySet, Zenon DEF Types
    <3>4. Types' /\ Life'
      BY <1>1, <3>1, <3>2, <3>3 DEF Types, Life
    <3>5. \A j \in 1..call.total + 1 : j = call.total + 1 \/ (j \in Slots /\ ifaces'[j] = ifaces[j])
      BY <1>1, <1>3, <3>3, BoundsAssumption
    <3>6. \A j \in Slots : ifaces[j] \in heap \ held /\ ifaces[j] # NULL
      BY <1>1 DEF Pointers
    <3>7. h # NULL /\ h \notin held /\ held \subseteq heap
      BY <3>1, HandlesAssumption DEF Types
    <3>8. \A j, k \in 1..call.total + 1 : ifaces'[j] = ifaces'[k] => j = k
      BY <3>1, <3>3, <3>5, <3>6 DEF Pointers
    <3>9. \A j \in 1..call.total + 1 : ifaces'[j] \in heap' \ held' /\ ifaces'[j] # NULL
      BY <1>1, <3>1, <3>3, <3>5, <3>6, <3>7
    <3>10. Pointers' /\ Count'
      BY <1>1, <3>1, <3>2, <3>8, <3>9 DEF Pointers, Count
    <3>. QED  BY <1>2, <3>4, <3>10
  <2>. QED  BY <1>8, <2>1, <2>2, <2>3 DEF WalkMakes
<1>. QED  BY <1>7, <1>8 DEF WalkStep

\* The FreeBSD driver's loop is over.
LEMMA WalkDoneKeeps ==
    ASSUME IInv, WalkDone
    PROVE  IInv'
<1>. USE DEF IInv
<1>1. /\ kind = "freebsd" /\ ncf /\ call.at = "walk" /\ call' = Idle
      /\ held' = held \cup {ifaces[j] : j \in 1..call.total}
      /\ UNCHANGED <<kind, ncf, driver, usable, open, ref, heap, ifaces>>
  BY DEF WalkDone, Life, Pointers, Types, Idle, At, instance
<1>2. held' \subseteq heap'
  BY <1>1 DEF Pointers, Slots, Types
<1>3. Slots' = {}
  BY <1>1, BoundsAssumption DEF Slots, Idle, At
<1>4. Types' /\ Life'
  BY <1>1, <1>2, BoundsAssumption DEF Types, Life, Idle, At, Calls, Places
<1>5. Pointers' /\ Count'
  BY <1>1, <1>3 DEF Pointers, Count, Idle, At
<1>. QED  BY <1>1, <1>4, <1>5, OpenKept

\* The invariant holds of every sequence of calls.
THEOREM Invariant == Spec => []IInv
<1>1. Init => IInv
  <2>. SUFFICES ASSUME Init PROVE IInv
    OBVIOUS
  <2>1. /\ ~ncf /\ ~driver /\ ~usable
        /\ ncf \in BOOLEAN /\ driver \in BOOLEAN /\ usable \in BOOLEAN
    BY Zenon DEF Init
  <2>2. /\ ref = 0 /\ heap = {} /\ held = {} /\ open = {} /\ kind \in Drivers /\ call = Idle
        /\ ifaces \in [1..MaxIfaces -> Handles \cup {NULL}]
    BY DEF Init
  <2>3. Slots = {} /\ Pending = {} /\ call.at = "idle" /\ call \in Calls
    BY <2>2, Quiet
  <2>4. Types /\ Life
    BY <2>1, <2>2, <2>3 DEF Types, Life
  <2>5. Pointers /\ Count
    BY <2>1, <2>2, <2>3 DEF Pointers, Count
  <2>. QED  BY <2>1, <2>2, <2>4, <2>5 DEF IInv, Owned, NothingLeaks
<1>2. IInv /\ [Next]_vars => IInv'
  <2>. SUFFICES ASSUME IInv, [Next]_vars PROVE IInv'
    OBVIOUS
  <2>1. CASE OtherCall
    <3>1. /\ ncf /\ driver /\ usable
          /\ UNCHANGED <<kind, ncf, driver, usable, ref, heap, held, ifaces, call>>
      BY <2>1 DEF OtherCall, MayCall, IInv, Life, instance
    <3>2. Owned' /\ NothingLeaks' /\ "netcf" \in open'
      BY <2>1, <3>1, AugeasStep DEF OtherCall
    <3>. QED  BY <3>1, <3>2 DEF IInv, Types, Life, Pointers, Count, Slots, Pending
  <2>2. CASE UNCHANGED vars
    BY <2>2 DEF vars, instance, IInv, Types, Life, Pointers, Count, Slots, Pending, Owned, NothingLeaks
  <2>. QED  BY <2>1, <2>2, InitStep, CloseStep, NewHandleStep, FreeStep, BeginStep, MakeStep,
               DoneStep, ReleaseStep, FailStep, WalkStepKeeps, WalkDoneKeeps DEF Next
<1>. QED  BY <1>1, <1>2, PTL DEF Spec

\* With the Red Hat driver, for any number of interfaces, entries of the array and handles,
\* every handle that exists between calls is one that the caller has, and the count of the
\* instance is exact: the loops of drv_lookup_by_mac_string neither lose a handle nor
\* release one that is not theirs.
THEOREM ReferencesExact == Spec => []RefExact
<1>1. IInv => RefExact
  <2>. SUFFICES ASSUME IInv, kind = "redhat", call = Idle
                PROVE  heap = held /\ ref = Cardinality(held) + (IF ncf THEN 1 ELSE 0)
    BY DEF RefExact
  <2>1. heap = held
    BY Quiet DEF IInv, Count
  <2>2. CASE ncf
    BY <2>1, <2>2 DEF IInv, Count
  <2>3. CASE ~ncf
    BY <2>1, <2>3, FS_EmptySet DEF IInv, Life
  <2>. QED  BY <2>1, <2>2, <2>3
<1>. QED  BY <1>1, Invariant, PTL

\* With either driver no sequence of calls frees a handle that the caller has, or an
\* instance that the caller or a handle points to.
THEOREM NothingDangles == Spec => []NoDangling
<1>1. IInv => NoDangling
  BY DEF IInv, Types, Life, NoDangling
<1>. QED  BY <1>1, Invariant, PTL

\* Whatever step of ncf_init fails, and after ncf_close, nothing stays acquired that no
\* pointer leads to any more.
THEOREM NoLeaks == Spec => []NothingLeaks
<1>1. IInv => NothingLeaks
  BY DEF IInv
<1>. QED  BY <1>1, Invariant, PTL
-----------------------------------------------------------------------------
\* The flags, the array and the handles are what IInv says; what it leaves open is that
\* the count stays within its bound and the codes within their sets.
LEMMA NextType ==
    ASSUME TypeOK, IInv, IInv', [Next]_vars
    PROVE  TypeOK'
<1>. USE BoundsAssumption
<1>1. /\ kind' \in Drivers /\ ncf' \in BOOLEAN /\ driver' \in BOOLEAN /\ usable' \in BOOLEAN
      /\ ref' \in Nat /\ heap' \subseteq Handles /\ held' \subseteq Handles
      /\ ifaces' \in [1..MaxIfaces -> Handles \cup {NULL}] /\ call' \in Calls
  BY Zenon DEF IInv, Types
<1>2. open' \subseteq Resources
  BY DEF IInv, Owned, Own, Resources
<1>3. ASSUME NEW r \in Nat, r <= MaxRefs PROVE r \in 0..MaxRefs
  BY <1>3
<1>4. ref' <= MaxRefs
  <2>1. ref \in 0..MaxRefs
    BY DEF TypeOK
  <2>2. \/ ref' = ref \/ ref' = 0 \/ ref' = 1 \/ ref' = ref - 1
        \/ ref' = ref + 1 /\ ref < MaxRefs
    <3>. USE Zenon DEF instance
    <3>1. CASE \E n \in 0..Len(Steps(kind)) : NcfInit(n)
      BY <3>1 DEF NcfInit
    <3>2. CASE NcfClose
      BY <3>2 DEF NcfClose
    <3>3. CASE NewHandle
      BY <3>3 DEF NewHandle, MakeIf
    <3>4. CASE \E h \in held : IfFree(h)
      BY <3>4 DEF IfFree, UnrefIf
    <3>5. CASE MacRelease
      BY <3>5 DEF MacRelease, UnrefIf
    <3>6. CASE WalkStep
      BY <3>6 DEF WalkStep, WalkSkips, WalkMakes, MakeIf
    <3>7. CASE MacMake
      BY <3>7 DEF MacMake, MakeIf
    <3>8. CASE \/ \E max \in 0..MaxIfaces : MacBegin(max) \/ WalkBegin(max)
               \/ MacDone \/ MacFail \/ WalkDone \/ OtherCall \/ UNCHANGED vars
      BY <3>8 DEF MacBegin, WalkBegin, MacDone, MacFail, WalkDone, OtherCall, vars
    <3>. QED  BY <3>1, <3>2, <3>3, <3>4, <3>5, <3>6, <3>7, <3>8 DEF Next
  <2>3. ref <= MaxRefs /\ 0 <= MaxRefs /\ 1 <= MaxRefs /\ ref - 1 <= MaxRefs
        /\ (ref < MaxRefs => ref + 1 <= MaxRefs)
    BY <2>1
  <2>. QED  BY <2>2, <2>3
<1>5. ret' \in -2..MaxIfaces /\ errcode' \in {"NOERROR", "EINTERNAL", "EOTHER", "ENOMEM", "EFILE", "EINUSE"}
  <2>. DEFINE Codes == {"NOERROR", "EINTERNAL", "EOTHER", "ENOMEM", "EFILE", "EINUSE"}
  <2>0. ret \in -2..MaxIfaces /\ errcode \in Codes /\ call.cnt \in 0..MaxIfaces /\ call.total \in 0..MaxIfaces
    BY DEF TypeOK, Calls
  <2>1. \/ ret' = ret \/ ret' \in {-2, -1, 0, 1} \/ ret' = call.cnt \/ ret' = call.total
    <3>. USE DEF instance
    <3>1. CASE \E n \in 0..Len(Steps(kind)) : NcfInit(n)
      BY <3>1 DEF NcfInit
    <3>2. CASE \/ NcfClose \/ NewHandle \/ OtherCall \/ MacRelease \/ MacFail \/ MacDone
               \/ WalkDone \/ UNCHANGED vars
      BY <3>2 DEF NcfClose, NewHandle, OtherCall, MacRelease, MacFail, MacDone, WalkDone, vars
    <3>3. CASE \/ \E max \in 0..MaxIfaces : MacBegin(max) \/ WalkBegin(max)
               \/ MacMake \/ WalkStep \/ \E h \in held : IfFree(h)
      BY <3>3 DEF MacBegin, WalkBegin, MacMake, WalkStep, IfFree
    <3>. QED  BY <3>1, <3>2, <3>3 DEF Next
  <2>2. ret' \in -2..MaxIfaces
    <3>1. {-2, -1, 0, 1} \subseteq -2..MaxIfaces /\ 0..MaxIfaces \subseteq -2..MaxIfaces
      OBVIOUS
    <3>. QED  BY <2>0, <2>1, <3>1, Zenon
  <2>3. errcode' = errcode \/ errcode' \in Codes
    <3>. USE DEF instance
    <3>1. CASE \E n \in 0..Len(Steps(kind)) : NcfInit(n)
      BY <3>1 DEF NcfInit, InitError
    <3>2. CASE \/ NcfClose \/ NewHandle \/ OtherCall \/ MacRelease \/ MacFail \/ MacDone
               \/ WalkDone \/ UNCHANGED vars
      BY <3>2 DEF NcfClose, NewHandle, OtherCall, MacRelease, MacFail, MacDone, WalkDone, vars
    <3>3. CASE \/ \E max \in 0..MaxIfaces : MacBegin(max) \/ WalkBegin(max)
               \/ MacMake \/ WalkStep \/ \E h \in held : IfFree(h)
      BY <3>3 DEF MacBegin, WalkBegin, MacMake, WalkStep, WalkSkips, WalkMakes, IfFree
    <3>. QED  BY <3>1, <3>2, <3>3 DEF Next
  <2>. QED  BY <2>0, <2>2, <2>3
<1>. QED  BY <1>1, <1>2, <1>3, <1>4, <1>5 DEF TypeOK

\* The count never runs over or below its range, and the loops over the caller's array never
\* leave it, whatever the calls and their failures.
THEOREM TypeCorrect == Spec => []TypeOK
<1>1. Init => TypeOK
  <2>. SUFFICES ASSUME Init PROVE TypeOK
    OBVIOUS
  <2>1. ncf \in BOOLEAN /\ driver \in BOOLEAN /\ usable \in BOOLEAN
    BY Zenon DEF Init
  <2>2. call \in Calls /\ ifaces \in [1..MaxIfaces -> Handles \cup {NULL}]
    BY Quiet DEF Init
  <2>. QED  BY <2>1, <2>2, BoundsAssumption DEF Init, TypeOK
<1>2. IInv /\ IInv' /\ TypeOK /\ [Next]_vars => TypeOK'
  BY NextType
<1>. QED  BY <1>1, <1>2, Invariant, PTL DEF Spec
=============================================================================
