-------------------------- MODULE DrvRedhatProofs --------------------------
(***************************************************************************)
(* Proofs about the Red Hat driver's configuration calls, for every set of *)
(* names, documents and initial configurations and any number of failures  *)
(* and of changes by other programs.                                       *)
(***************************************************************************)
EXTENDS DrvRedhat, FiniteSetTheorems, WellFoundedInduction, TLAPS

\* What stands above a file: its device, its bridge or bond, and the bridge of the bond.
Up(st, f) ==
    ({st[f].DEVICE, st[f].BRIDGE, st[f].MASTER}
       \cup {st[g].BRIDGE : g \in WithDevice(st, st[f].MASTER)}) \ {None}

\* The files under none of some devices, and a store with some of its files replaced.
Kept(st, N) ==
    [f \in Names |-> IF f \in FilesOf(st) /\ Up(st, f) \cap N = {} THEN st[f] ELSE None]
With(st, F, D) == [f \in Names |-> IF f \in D THEN F[f] ELSE st[f]]

\* What a define makes of a store.
Defined(st, d) == With(Kept(st, NamesToRemove(d)), Forest(d), DOMAIN Forest(d))

\* Every bond has its alias.
Aliased(st, A) == \A f \in FilesOf(st) : st[f].MASTER # None => st[f].MASTER \in A

\* The arguments of a call, and what is left to do.
Calls ==
    /\ pc = "idle" => doc = None /\ todo = {}
    /\ pc \in {"rm", "put", "bond"} => doc \in Docs
    /\ pc \in {"unbond", "rmone"} => doc = None /\ nif # None /\ todo = {}
    /\ pc = "put" => todo \subseteq DOMAIN Forest(doc)
    /\ pc = "save" => todo \subseteq dirty

TInv == TypeOK /\ Calls

\* What the tree and the files are in each phase of a call, unless a save was torn.
Between == pc = "idle" => Tidy(disk) /\ Aliased(disk, aliases)
During ==
    /\ pc # "idle" => Tidy(before) /\ \A f \in Names \ dirty : tree[f] = before[f]
    /\ pc \notin {"idle", "save"} => disk = before /\ Aliased(before, aliases)
Defining ==
    /\ pc \in {"rm", "put", "bond"} => Aliased(before, talias)
    /\ pc = "rm" => /\ todo \subseteq NamesToRemove(doc)
                    /\ tree = Kept(before, NamesToRemove(doc) \ todo)
    /\ pc = "put" => tree = With(Kept(before, NamesToRemove(doc)), Forest(doc),
                                 DOMAIN Forest(doc) \ todo)
    /\ pc = "bond" => tree = Defined(before, doc)
Undefining ==
    /\ pc \in {"unbond", "rmone"} => tree = before
    /\ pc = "unbond" => Aliased(before, talias)
    /\ pc = "rmone" => Aliased(Kept(before, {nif}), talias)
Saving ==
    pc = "save" =>
      /\ disk = With(tree, before, todo)
      /\ Tidy(tree) /\ Aliased(tree, talias)
      /\ doc # None => tree = Defined(before, doc)
      /\ doc = None => nif # None /\ tree = Kept(before, {nif})

Phases == Between /\ During /\ Defining /\ Undefining /\ Saving

RInv == TInv /\ (~torn => Phases)

-----------------------------------------------------------------------------
(***************************************************************************)
(* Documents                                                               *)
(***************************************************************************)
BridgeIn(d, x) == IF d.type = "bridge" /\ x \in d.subs THEN d.name ELSE None
MasterIn(d, x) ==
    IF d.type = "bond" /\ x \in d.subs THEN d.name
    ELSE IF \E s \in d.subs : x \in s.subs
         THEN (CHOOSE s \in d.subs : x \in s.subs).name
         ELSE None

\* The forest of a document has the tree of each of its interfaces under its device.
LEMMA ForestTree ==
    ASSUME NEW d \in Docs
    PROVE  /\ DOMAIN Forest(d) = {x.device : x \in InterfacesOf(d)}
           /\ Forest(d) = [f \in DOMAIN Forest(d) |-> Forest(d)[f]]
           /\ \A x \in InterfacesOf(d) :
                Forest(d)[x.device] = TreeOf(x, BridgeIn(d, x), MasterIn(d, x))
<1>1. DOMAIN Forest(d) = {x.device : x \in InterfacesOf(d)}
  BY DEF Forest
<1>3. Forest(d) = [f \in DOMAIN Forest(d) |-> Forest(d)[f]]
  <2> DEFINE i(f) == CHOOSE x \in InterfacesOf(d) : x.device = f
             G(f) == TreeOf(i(f), BridgeIn(d, i(f)), MasterIn(d, i(f)))
             I == {x.device : x \in InterfacesOf(d)}
  <2>1. Forest(d) = [f \in I |-> G(f)]
    BY DEF Forest, BridgeIn, MasterIn
  <2> HIDE DEF G, I
  <2> QED  BY <2>1
<1>2. ASSUME NEW x \in InterfacesOf(d)
      PROVE  Forest(d)[x.device] = TreeOf(x, BridgeIn(d, x), MasterIn(d, x))
  <2> DEFINE c == CHOOSE y \in InterfacesOf(d) : y.device = x.device
  <2>1. c \in InterfacesOf(d) /\ c.device = x.device
    OBVIOUS
  <2>2. c = x
    BY <2>1, DocsAssumption DEF Document
  <2>3. Forest(d)[x.device] = TreeOf(c, BridgeIn(d, c), MasterIn(d, c))
    BY DEF Forest, BridgeIn, MasterIn
  <2> QED  BY <2>2, <2>3
<1> QED  BY <1>1, <1>2, <1>3

\* The place of an interface in its document: the root, a port, a slave, or a slave of a
\* bond that is a port.
Placed(d, x, bridge, master) ==
    \/ x = d /\ bridge = None /\ master = None
    \/ /\ d.type = "bridge" /\ d.name = d.device /\ x \in d.subs /\ x.type # "bridge"
       /\ bridge = d.device /\ master = None
    \/ /\ d.type = "bond" /\ d.name = d.device /\ x \in d.subs /\ x.type = "ethernet"
       /\ bridge = None /\ master = d.device
    \/ /\ d.type = "bridge" /\ d.name = d.device
       /\ \E s \in d.subs : /\ x \in s.subs /\ s.type = "bond" /\ x.type = "ethernet"
                            /\ bridge = None /\ master = s.device

\* Every interface of a document has one of those places.
LEMMA Places ==
    ASSUME NEW d \in Docs, NEW x \in InterfacesOf(d)
    PROVE  Placed(d, x, BridgeIn(d, x), MasterIn(d, x))
<1>1. Document(d)
  BY DocsAssumption
<1>2. d \in InterfacesOf(d) /\ \A s \in d.subs : s \in InterfacesOf(d)
  BY DEF InterfacesOf
<1>3. d.type \in {"bridge", "bond"} \/ d.subs = {}
  BY <1>1, <1>2 DEF Document
<1>4. \A s \in d.subs : s.subs # {} => d.type = "bridge" /\ s.type = "bond" /\ s.name = s.device
  BY <1>1, <1>2, <1>3 DEF Document
<1>5. d.subs # {} => d.name = d.device
  BY <1>1, <1>2, <1>3 DEF Document
<1>6. CASE x = d
  <2>1. d.type = "bridge" => d \notin d.subs
    BY <1>1 DEF Document
  <2>2. d.type = "bond" => d \notin d.subs
    BY <1>1 DEF Document
  <2>3. ~ \E s \in d.subs : d \in s.subs
    BY <1>1, <1>4 DEF Document
  <2> QED  BY <1>6, <2>1, <2>2, <2>3 DEF Placed, BridgeIn, MasterIn
<1>7. CASE x \in d.subs /\ d.type = "bridge"
  <2>1. ~ \E s \in d.subs : x \in s.subs
    BY <1>1, <1>7 DEF Document
  <2>2. x.type # "bridge"
    BY <1>1, <1>7 DEF Document
  <2> QED  BY <1>5, <1>7, <2>1, <2>2 DEF Placed, BridgeIn, MasterIn
<1>8. CASE x \in d.subs /\ d.type = "bond"
  <2>1. x.type = "ethernet"
    BY <1>1, <1>8 DEF Document
  <2> QED  BY <1>5, <1>8, <2>1 DEF Placed, BridgeIn, MasterIn
<1>9. CASE \E s \in d.subs : x \in s.subs
  <2> DEFINE s == CHOOSE t \in d.subs : x \in t.subs
  <2>1. s \in d.subs /\ x \in s.subs
    BY <1>9
  <2>2. d.type = "bridge" /\ s.type = "bond" /\ s.name = s.device /\ d.name = d.device
    BY <1>4, <1>5, <2>1
  <2>3. x \notin d.subs /\ x.type = "ethernet"
    BY <1>1, <2>1, <2>2 DEF Document
  <2>4. BridgeIn(d, x) = None
    BY <2>3 DEF BridgeIn
  <2>5. MasterIn(d, x) = s.name
    BY <1>9, <2>3 DEF MasterIn
  <2> HIDE DEF s
  <2> QED  BY <2>1, <2>2, <2>3, <2>4, <2>5 DEF Placed
<1> QED  BY <1>3, <1>6, <1>7, <1>8, <1>9 DEF InterfacesOf

\* What the files of a document are to each other; n is the name of its interface.
Shaped(F, D, n) ==
    /\ F \in [D -> Entry] /\ D \subseteq Names \cap Managed /\ n \in D
    /\ \A f \in D :
         /\ F[f].DEVICE = f
         /\ F[f].BRIDGE = None \/ F[f].MASTER = None
         /\ F[f].BRIDGE # None =>
              /\ F[f].BRIDGE = n /\ n \notin Nameless
              /\ F[n].TYPE = "Bridge" /\ F[n].BRIDGE = None /\ F[n].MASTER = None
         /\ F[f].MASTER # None =>
              /\ F[f].MASTER \in D /\ F[f].MASTER \notin Nameless
              /\ F[F[f].MASTER].MASTER = None /\ F[F[f].MASTER].TYPE = None
              /\ F[f].MASTER = n \/ F[F[f].MASTER].BRIDGE = n
         /\ \/ f = n \/ F[f].BRIDGE = n \/ F[f].MASTER = n
            \/ F[f].MASTER # None /\ F[F[f].MASTER].BRIDGE = n
         /\ \A e \in Misnamed : F[f].HWADDR # None /\ F[f].HWADDR = MacOf[e] => f = e

\* The stylesheet's forest has that shape.
LEMMA ForestShape ==
    ASSUME NEW d \in Docs
    PROVE  Shaped(Forest(d), DOMAIN Forest(d), device_name_from_xml(d))
<1> DEFINE F == Forest(d)
           D == DOMAIN Forest(d)
           n == device_name_from_xml(d)
           I == InterfacesOf(d)
<1>1. Document(d) /\ I \subseteq AllInterfaces
  BY DocsAssumption DEF AllInterfaces
<1>2. D = {x.device : x \in I}
  BY ForestTree
<1>3. d \in I /\ (\A s \in d.subs : s \in I)
  BY DEF InterfacesOf
<1>4. n = d.device /\ n \in D
  BY <1>1, <1>2, <1>3 DEF device_name_from_xml, Document
<1>5. ASSUME NEW x \in I
      PROVE  /\ F[x.device].DEVICE = x.device
             /\ F[x.device].TYPE = IF x.type = "bridge" THEN "Bridge" ELSE None
             /\ F[x.device].HWADDR \in {x.mac, None}
             /\ Placed(d, x, F[x.device].BRIDGE, F[x.device].MASTER)
  <2>1. F[x.device] = TreeOf(x, BridgeIn(d, x), MasterIn(d, x))
    BY ForestTree
  <2>2. Placed(d, x, BridgeIn(d, x), MasterIn(d, x))
    BY Places
  <2> HIDE DEF F
  <2> QED  BY <2>1, <2>2 DEF TreeOf
<1>6. \A x \in I : x.device \in Names /\ x.mac \in Macs \cup {None}
  BY <1>1 DEF Document
<1>7. ASSUME NEW x \in I
      PROVE  F[x.device] \in Entry
  <2>1. F[x.device] = TreeOf(x, BridgeIn(d, x), MasterIn(d, x))
    BY ForestTree
  <2>2. BridgeIn(d, x) \in Names \cup {None} /\ MasterIn(d, x) \in Names \cup {None}
    BY Places, <1>3, <1>6 DEF Placed
  <2>3. TreeOf(x, BridgeIn(d, x), MasterIn(d, x)) \in Entry
    BY <1>6, <2>2 DEF TreeOf, Entry
  <2> QED  BY <2>1, <2>3
<1>8. F \in [D -> Entry] /\ D \subseteq Names \cap Managed
  <2>1. F = [f \in D |-> F[f]]
    BY ForestTree
  <2>2. D \subseteq Managed
    BY <1>1, <1>2 DEF Managed
  <2> HIDE DEF F, D
  <2> QED  BY <1>2, <1>6, <1>7, <2>1, <2>2
<1>9. \A x \in I : x.type \in {"bridge", "bond"} => x.device \notin Nameless
  BY <1>1, DocsAssumption
<1>10. \A x \in I : \A e \in Misnamed : x.mac # None /\ x.mac = MacOf[e] => x.device = e
  BY <1>1, DocsAssumption
<1>11. F[n].DEVICE = n /\ F[n].BRIDGE = None /\ F[n].MASTER = None
  <2>1. BridgeIn(d, d) = None /\ MasterIn(d, d) = None
    BY Places, <1>1, <1>3 DEF Placed, Document
  <2>2. F[d.device] = TreeOf(d, BridgeIn(d, d), MasterIn(d, d))
    BY ForestTree, <1>3
  <2> QED  BY <1>4, <2>1, <2>2 DEF TreeOf
<1>12. ASSUME NEW x \in I
       PROVE  LET f == x.device IN
              /\ F[f].DEVICE = f
              /\ F[f].BRIDGE = None \/ F[f].MASTER = None
              /\ F[f].BRIDGE # None =>
                   /\ F[f].BRIDGE = n /\ n \notin Nameless
                   /\ F[n].TYPE = "Bridge" /\ F[n].BRIDGE = None /\ F[n].MASTER = None
              /\ F[f].MASTER # None =>
                   /\ F[f].MASTER \in D /\ F[f].MASTER \notin Nameless
                   /\ F[F[f].MASTER].MASTER = None /\ F[F[f].MASTER].TYPE = None
                   /\ F[f].MASTER = n \/ F[F[f].MASTER].BRIDGE = n
              /\ \/ f = n \/ F[f].BRIDGE = n \/ F[f].MASTER = n
                 \/ F[f].MASTER # None /\ F[F[f].MASTER].BRIDGE = n
              /\ \A e \in Misnamed : F[f].HWADDR # None /\ F[f].HWADDR = MacOf[e] => f = e
  <2> DEFINE f == x.device
  <2>1. /\ F[f].DEVICE = f /\ F[f].HWADDR \in {x.mac, None}
        /\ Placed(d, x, F[f].BRIDGE, F[f].MASTER)
    BY <1>5
  <2>2. F[n].TYPE = IF d.type = "bridge" THEN "Bridge" ELSE None
    BY <1>3, <1>4, <1>5
  <2>3. \A e \in Misnamed : F[f].HWADDR # None /\ F[f].HWADDR = MacOf[e] => f = e
    BY <1>10, <2>1
  <2>4. n # None /\ d.type \in {"bridge", "bond"} => n \notin Nameless
    BY <1>3, <1>4, <1>9
  <2>5. n # None
    BY <1>4, <1>8, NoneAssumption
  <2> HIDE DEF F, D, n, f
  <2>6. CASE x = d /\ F[f].BRIDGE = None /\ F[f].MASTER = None
    BY <1>4, <2>1, <2>3, <2>6 DEF f
  <2>7. CASE /\ d.type = "bridge" /\ d.name = d.device /\ x \in d.subs /\ x.type # "bridge"
             /\ F[f].BRIDGE = d.device /\ F[f].MASTER = None
    BY <1>4, <1>11, <2>1, <2>2, <2>3, <2>4, <2>5, <2>7 DEF f
  <2>8. CASE /\ d.type = "bond" /\ d.name = d.device /\ x \in d.subs /\ x.type = "ethernet"
             /\ F[f].BRIDGE = None /\ F[f].MASTER = d.device
    BY <1>4, <1>11, <2>1, <2>2, <2>3, <2>4, <2>5, <2>8 DEF f
  <2>9. CASE /\ d.type = "bridge" /\ d.name = d.device
             /\ \E s \in d.subs : /\ x \in s.subs /\ s.type = "bond" /\ x.type = "ethernet"
                                  /\ F[f].BRIDGE = None /\ F[f].MASTER = s.device
    <3>1. PICK s \in d.subs : /\ x \in s.subs /\ s.type = "bond"
                              /\ F[f].BRIDGE = None /\ F[f].MASTER = s.device
      BY <2>9
    <3>2. s \in I /\ s.device \in D /\ s.device \notin Nameless
      BY <1>2, <1>3, <1>9, <3>1
    <3>3. F[s.device].TYPE = None /\ Placed(d, s, F[s.device].BRIDGE, F[s.device].MASTER)
      BY <1>5, <3>1, <3>2
    <3>4. F[s.device].BRIDGE = n /\ F[s.device].MASTER = None
      <4>1. s # d /\ s.type # "ethernet" /\ d.type # "bond"
        BY <2>9, <3>1
      <4> QED  BY <1>4, <3>3, <4>1 DEF Placed
    <3>5. s.device # None
      BY <1>8, <3>2, NoneAssumption
    <3> QED  BY <1>4, <2>1, <2>3, <3>1, <3>2, <3>3, <3>4, <3>5 DEF f
  <2> QED  BY <2>1, <2>6, <2>7, <2>8, <2>9 DEF Placed
<1> HIDE DEF F, D, n, I
<1>13. Shaped(F, D, n)
  BY <1>2, <1>4, <1>8, <1>12 DEF Shaped
<1> QED  BY <1>13 DEF F, D, n

\* rm_all_interfaces removes devices of the document, and all of them but the nameless.
LEMMA NamesRemoved ==
    ASSUME NEW d \in Docs
    PROVE  /\ NamesToRemove(d) \subseteq DOMAIN Forest(d) \cup {None, Empty}
           /\ DOMAIN Forest(d) \ NamesToRemove(d) \subseteq Nameless
           /\ NamesToRemove(d) \subseteq Names \cup {None, Empty}
<1>1. /\ DOMAIN Forest(d) = {x.device : x \in InterfacesOf(d)}
      /\ DOMAIN Forest(d) \subseteq Names
  BY ForestTree, ForestShape DEF Shaped
<1>2. \A x \in InterfacesOf(d) : x.name = x.device \/ x.name = None
  BY DocsAssumption DEF Document
<1>3. NamesToRemove(d) \subseteq DOMAIN Forest(d) \cup {None, Empty}
  BY <1>1, <1>2 DEF NamesToRemove, XmlName
<1>4. \A x \in InterfacesOf(d) : x \in AllInterfaces
  BY DEF AllInterfaces
<1>5. ASSUME NEW x \in InterfacesOf(d)
      PROVE  x.device \in NamesToRemove(d) \cup Nameless
  <2>1. CASE x.name = None
    BY <1>4, <2>1 DEF Nameless
  <2>2. CASE x.name # None
    BY <1>2, <2>2 DEF NamesToRemove, XmlName
  <2> QED  BY <2>1, <2>2
<1> QED  BY <1>1, <1>3, <1>5

-----------------------------------------------------------------------------
(***************************************************************************)
(* Configurations                                                          *)
(***************************************************************************)

\* The files of a store are entries, and Up is a set of names.
LEMMA FileEntries ==
    ASSUME NEW st \in Store, NEW f \in FilesOf(st)
    PROVE  f \in Names /\ st[f] \in Entry /\ st[f] # None /\ Up(st, f) \subseteq Names
<1>1. \A g \in FilesOf(st) : g \in Names /\ st[g] \in Entry /\ st[g] # None
  BY DEF Store, FilesOf
<1>2. \A g \in FilesOf(st) : {st[g].DEVICE, st[g].BRIDGE, st[g].MASTER} \subseteq Names \cup {None}
  BY <1>1 DEF Entry
<1> QED  BY <1>1, <1>2 DEF Up, WithDevice

\* In a tidy store what stands above a file is: its device; its bridge or its bond; and the
\* bridge of the bond.
LEMMA UpCases ==
    ASSUME NEW st \in Store, Tidy(st), NEW f \in FilesOf(st), NEW n
    PROVE  n \in Up(st, f) <=>
             /\ n # None
             /\ \/ n = st[f].DEVICE \/ n = st[f].BRIDGE \/ n = st[f].MASTER
                \/ /\ st[f].MASTER # None
                   /\ \E g \in FilesOf(st) : st[g].DEVICE = st[f].MASTER /\ st[g].BRIDGE = n
<1>1. \A g \in FilesOf(st) : st[g].DEVICE # None
  BY DEF Tidy
<1> QED  BY <1>1 DEF Up, WithDevice

\* rm_interface takes away the files above which the device stands.
LEMMA SubtreeUp ==
    ASSUME NEW st \in Store, Tidy(st), NEW n \in Names
    PROVE  Subtree(st, n) = {f \in FilesOf(st) : n \in Up(st, f)}
<1>1. n # None
  BY NoneAssumption
<1>2. ASSUME NEW f \in FilesOf(st)
      PROVE  f \in Subtree(st, n) <=> n \in Up(st, f)
  BY <1>1, UpCases DEF Subtree, WithDevice, WithBridge, WithMaster
<1> QED  BY <1>2 DEF Subtree, WithDevice, WithBridge, WithMaster

\* What stands above a device above a file stands above the file.
LEMMA UpMonotone ==
    ASSUME NEW st \in Store, Tidy(st), NEW f \in FilesOf(st), NEW g \in FilesOf(st),
           st[g].DEVICE \in Up(st, f)
    PROVE  Up(st, g) \subseteq Up(st, f)
<1> SUFFICES ASSUME NEW n, n \in Up(st, g) PROVE n \in Up(st, f)
  OBVIOUS
<1>1. /\ st[g].DEVICE # None
      /\ \/ st[g].DEVICE = st[f].DEVICE \/ st[g].DEVICE = st[f].BRIDGE
         \/ st[g].DEVICE = st[f].MASTER
         \/ /\ st[f].MASTER # None
            /\ \E h \in FilesOf(st) : st[h].DEVICE = st[f].MASTER /\ st[h].BRIDGE = st[g].DEVICE
  BY UpCases
<1>2. /\ n # None
      /\ \/ n = st[g].DEVICE \/ n = st[g].BRIDGE \/ n = st[g].MASTER
         \/ /\ st[g].MASTER # None
            /\ \E h \in FilesOf(st) : st[h].DEVICE = st[g].MASTER /\ st[h].BRIDGE = n
  BY UpCases
<1>3. \A h \in FilesOf(st) : st[h].BRIDGE # None /\ st[h].BRIDGE = st[g].DEVICE
                               => st[g].BRIDGE = None /\ st[g].MASTER = None
  BY DEF Tidy, WithDevice, is_slave
<1>4. CASE st[g].DEVICE = st[f].DEVICE
  <2>1. st[g].BRIDGE = st[f].BRIDGE /\ st[g].MASTER = st[f].MASTER
    BY <1>4 DEF Tidy, WithDevice
  <2> QED  BY <1>2, <1>4, <2>1, UpCases
<1>5. CASE st[g].DEVICE = st[f].BRIDGE
  BY <1>1, <1>2, <1>3, <1>5, UpCases
<1>6. CASE st[g].DEVICE = st[f].MASTER
  <2>1. st[g].MASTER = None
    BY <1>1, <1>6 DEF Tidy, WithDevice
  <2> QED  BY <1>1, <1>2, <1>6, <2>1, UpCases
<1>7. CASE /\ st[f].MASTER # None
           /\ \E h \in FilesOf(st) : st[h].DEVICE = st[f].MASTER /\ st[h].BRIDGE = st[g].DEVICE
  BY <1>1, <1>2, <1>3, <1>7, UpCases
<1> QED  BY <1>1, <1>4, <1>5, <1>6, <1>7

\* However far up the entries lead, they lead no further than that.
LEMMA AboveIsUp ==
    ASSUME NEW st \in Store, Tidy(st), NEW f \in FilesOf(st)
    PROVE  Above(st, f) = Up(st, f)
<1> DEFINE up(D) == {d \in Names : \E g \in FilesOf(st) :
                       st[g].DEVICE \in D /\ d \in {st[g].BRIDGE, st[g].MASTER}}
           d0 == {st[f].DEVICE}
           d1 == d0 \cup up(d0)
           d2 == d1 \cup up(d1)
<1>1. Above(st, f) = d2 \cup up(d2)
  BY DEF Above
<1>2. \A g \in FilesOf(st) :
        /\ g \in Names /\ st[g].DEVICE \in Names /\ st[g].DEVICE # None
        /\ {st[g].BRIDGE, st[g].MASTER} \subseteq Names \cup {None}
  BY FileEntries DEF Tidy, Entry
<1>3. d0 \subseteq Up(st, f)
  BY <1>2, UpCases
<1>4. ASSUME NEW D, D \subseteq Up(st, f)
      PROVE  up(D) \subseteq Up(st, f)
  <2> SUFFICES ASSUME NEW g \in FilesOf(st), st[g].DEVICE \in D,
                      NEW e \in Names, e \in {st[g].BRIDGE, st[g].MASTER}
               PROVE  e \in Up(st, f)
    OBVIOUS
  <2>1. Up(st, g) \subseteq Up(st, f)
    BY <1>4, UpMonotone
  <2>2. e \in Up(st, g)
    BY NoneAssumption, UpCases
  <2> QED  BY <2>1, <2>2
<1>5. {st[f].BRIDGE, st[f].MASTER} \ {None} \subseteq d1
  BY <1>2
<1>6. ASSUME NEW e \in Up(st, f) PROVE e \in d2
  <2>1. CASE e \in {st[f].DEVICE, st[f].BRIDGE, st[f].MASTER}
    <3>1. e # None
      BY UpCases
    <3> QED  BY <1>5, <2>1, <3>1
  <2>2. CASE /\ st[f].MASTER # None
             /\ \E g \in FilesOf(st) : st[g].DEVICE = st[f].MASTER /\ st[g].BRIDGE = e
    <3>1. e \in Names /\ st[f].MASTER \in d1
      BY <1>5, <2>2, FileEntries
    <3> HIDE DEF d1
    <3> QED  BY <2>2, <3>1
  <2> QED  BY <2>1, <2>2, UpCases
<1>7. d2 \cup up(d2) \subseteq Up(st, f)
  <2>1. d1 \subseteq Up(st, f)
    BY <1>3, <1>4
  <2>2. d2 \subseteq Up(st, f)
    BY <2>1, <1>4
  <2>3. up(d2) \subseteq Up(st, f)
    BY <2>2, <1>4
  <2> QED  BY <2>2, <2>3
<1> QED  BY <1>1, <1>6, <1>7

\* The files that are kept.
LEMMA KeptFiles ==
    ASSUME NEW st \in Store, NEW N
    PROVE  /\ Kept(st, N) \in Store
           /\ FilesOf(Kept(st, N)) = {f \in FilesOf(st) : Up(st, f) \cap N = {}}
           /\ \A f \in FilesOf(Kept(st, N)) : Kept(st, N)[f] = st[f]
<1>1. Kept(st, N) \in Store
  BY DEF Kept, Store
<1> QED  BY <1>1 DEF Kept, FilesOf

\* With a file, the files of everything above it are kept.
LEMMA KeptClosed ==
    ASSUME NEW st \in Store, Tidy(st), NEW N, NEW f \in FilesOf(Kept(st, N)),
           NEW g \in FilesOf(st), st[g].DEVICE \in Up(st, f)
    PROVE  g \in FilesOf(Kept(st, N))
<1>1. f \in FilesOf(st) /\ Up(st, f) \cap N = {}
  BY KeptFiles
<1>2. Up(st, g) \subseteq Up(st, f)
  BY <1>1, UpMonotone
<1> QED  BY <1>1, <1>2, KeptFiles

\* Removing an interface from what is left, and from the whole, comes to the same: the
\* files that lead from a file to what stands above it go not before the file.
LEMMA RemoveKept ==
    ASSUME NEW st \in Store, Tidy(st), NEW N, NEW n \in Names
    PROVE  rm_interface(Kept(st, N), n) = Kept(st, N \cup {n})
<1> DEFINE k == Kept(st, N)
<1>1. /\ k \in Store /\ FilesOf(k) = {f \in FilesOf(st) : Up(st, f) \cap N = {}}
      /\ \A f \in FilesOf(k) : k[f] = st[f]
  BY KeptFiles
<1>2. n # None /\ n # Empty
  BY NoneAssumption
<1>3. ASSUME NEW f \in FilesOf(k)
      PROVE  f \in Subtree(k, n) <=> n \in Up(st, f)
  <2>1. f \in FilesOf(st) /\ k[f] = st[f]
    BY <1>1
  <2>2. n \in Up(st, f) <=>
          \/ n = st[f].DEVICE \/ n = st[f].BRIDGE \/ n = st[f].MASTER
          \/ /\ st[f].MASTER # None
             /\ \E g \in FilesOf(st) : st[g].DEVICE = st[f].MASTER /\ st[g].BRIDGE = n
    BY <1>2, <2>1, UpCases
  <2>3. f \in Subtree(k, n) <=>
          \/ n = k[f].DEVICE \/ n = k[f].BRIDGE \/ n = k[f].MASTER
          \/ /\ k[f].MASTER # None
             /\ \E g \in FilesOf(k) : k[g].DEVICE = k[f].MASTER /\ k[g].BRIDGE = n
    BY <1>1 DEF Subtree, WithDevice, WithBridge, WithMaster
  <2>4. ASSUME st[f].MASTER # None, NEW g \in FilesOf(st), st[g].DEVICE = st[f].MASTER
        PROVE  g \in FilesOf(k)
    <3>1. st[g].DEVICE \in Up(st, f)
      BY <2>1, <2>4, UpCases
    <3> QED  BY <3>1, KeptClosed
  <2> HIDE DEF k
  <2> QED  BY <1>1, <2>1, <2>2, <2>3, <2>4
<1>4. Subtree(k, n) \subseteq FilesOf(k)
  BY DEF Subtree, WithDevice, WithBridge, WithMaster
<1>5. rm_interface(k, n) = [f \in Names |-> IF f \in Subtree(k, n) THEN None ELSE k[f]]
  BY <1>2 DEF rm_interface, Without
<1>6. ASSUME NEW f \in Names
      PROVE  (IF f \in Subtree(k, n) THEN None ELSE k[f])
               = IF f \in FilesOf(st) /\ Up(st, f) \cap (N \cup {n}) = {} THEN st[f] ELSE None
  <2>1. CASE f \in FilesOf(k)
    <3>1. f \in FilesOf(st) /\ Up(st, f) \cap N = {} /\ k[f] = st[f]
      BY <1>1, <2>1
    <3>2. f \in Subtree(k, n) <=> n \in Up(st, f)
      BY <1>3, <2>1
    <3> HIDE DEF k
    <3> QED  BY <3>1, <3>2
  <2>2. CASE f \notin FilesOf(k)
    <3>1. k[f] = None
      BY <2>2 DEF FilesOf
    <3>2. ~(f \in FilesOf(st) /\ Up(st, f) \cap (N \cup {n}) = {})
      BY <1>1, <2>2
    <3> HIDE DEF k
    <3> QED  BY <1>4, <2>2, <3>1, <3>2
  <2> QED  BY <2>1, <2>2
<1> HIDE DEF k
<1>7. rm_interface(k, n) = Kept(st, N \cup {n})
  BY <1>5, <1>6 DEF Kept
<1> QED  BY <1>7 DEF k

\* Without names nothing is removed.
LEMMA KeptAll ==
    ASSUME NEW st \in Store
    PROVE  Kept(st, {}) = st
<1>1. st = [f \in Names |-> st[f]]
  BY DEF Store
<1>2. \A f \in Names : st[f] = IF f \in FilesOf(st) /\ Up(st, f) \cap {} = {} THEN st[f] ELSE None
  BY DEF FilesOf
<1> QED  BY <1>1, <1>2 DEF Kept

\* The empty name, and no name, stand above no file.
LEMMA KeptNoName ==
    ASSUME NEW st \in Store, NEW N, NEW e \in {None, Empty}
    PROVE  Kept(st, N \cup {e}) = Kept(st, N)
<1>1. \A f \in FilesOf(st) : Up(st, f) \subseteq Names
  BY FileEntries
<1>2. \A f \in FilesOf(st) : Up(st, f) \cap (N \cup {e}) = {} <=> Up(st, f) \cap N = {}
  BY <1>1, NoneAssumption
<1> QED  BY <1>2 DEF Kept

\* What is left of a tidy store is tidy.
LEMMA KeptTidy ==
    ASSUME NEW st \in Store, Tidy(st), NEW N
    PROVE  Tidy(Kept(st, N))
<1> DEFINE k == Kept(st, N)
<1>1. /\ k \in Store /\ FilesOf(k) \subseteq FilesOf(st)
      /\ \A f \in FilesOf(k) : k[f] = st[f]
  BY KeptFiles
<1>2. \A f \in FilesOf(k), g \in FilesOf(st) : st[g].DEVICE \in Up(st, f) => g \in FilesOf(k)
  BY KeptClosed
<1>3. \A f \in FilesOf(st) : /\ st[f].DEVICE # None /\ st[f].DEVICE \in Up(st, f)
                             /\ st[f].BRIDGE # None => st[f].BRIDGE \in Up(st, f)
                             /\ st[f].MASTER # None => st[f].MASTER \in Up(st, f)
  BY UpCases DEF Tidy
<1> HIDE DEF k
<1>4. Devices(k) \subseteq Devices(st)
  BY <1>1 DEF Devices
<1>5. \A n : WithDevice(k, n) \subseteq WithDevice(st, n)
  BY <1>1 DEF WithDevice
<1>6. ASSUME NEW e \in Devices(k), e \in FilesOf(st) PROVE e \in FilesOf(k)
  <2>1. PICK f \in FilesOf(k) : k[f].DEVICE = e
    BY DEF Devices
  <2>2. st[e].DEVICE = e
    BY <1>4, <1>6 DEF Tidy
  <2> QED  BY <1>1, <1>2, <1>3, <1>6, <2>1, <2>2
<1>7. Devices(k) \ FilesOf(k) \subseteq Misnamed
  BY <1>4, <1>6 DEF Tidy
<1>8. ASSUME NEW f \in FilesOf(k), k[f].BRIDGE # None
      PROVE  /\ is_bridge(k, k[f].BRIDGE)
             /\ \A g \in WithDevice(k, k[f].BRIDGE) : ~is_slave(k, g)
  <2>1. k[f] = st[f] /\ f \in FilesOf(st)
    BY <1>1
  <2>2. PICK g \in WithDevice(st, st[f].BRIDGE) : st[g].TYPE = "Bridge"
    BY <1>8, <2>1 DEF Tidy, is_bridge
  <2>3. g \in FilesOf(k)
    BY <1>2, <1>3, <1>8, <2>1, <2>2 DEF WithDevice
  <2>4. is_bridge(k, k[f].BRIDGE)
    BY <1>1, <2>1, <2>2, <2>3 DEF is_bridge, WithDevice
  <2>5. \A h \in WithDevice(st, st[f].BRIDGE) : ~is_slave(st, h)
    BY <1>8, <2>1 DEF Tidy
  <2> QED  BY <1>1, <1>5, <2>1, <2>4, <2>5 DEF is_slave, WithDevice
<1>9. ASSUME NEW f \in FilesOf(k), k[f].MASTER # None
      PROVE  /\ k[f].MASTER \in Devices(k) /\ ~is_bridge(k, k[f].MASTER)
             /\ \A g \in WithDevice(k, k[f].MASTER) : k[g].MASTER = None
  <2>1. k[f] = st[f] /\ f \in FilesOf(st)
    BY <1>1
  <2>2. /\ st[f].MASTER \in Devices(st) /\ ~is_bridge(st, st[f].MASTER)
        /\ \A g \in WithDevice(st, st[f].MASTER) : st[g].MASTER = None
    BY <1>9, <2>1 DEF Tidy
  <2>3. PICK g \in FilesOf(st) : st[g].DEVICE = st[f].MASTER
    BY <2>2 DEF Devices
  <2>4. g \in FilesOf(k)
    BY <1>2, <1>3, <1>9, <2>1, <2>3
  <2>5. k[f].MASTER \in Devices(k)
    BY <1>1, <1>9, <2>1, <2>3, <2>4 DEF Devices
  <2>6. ~is_bridge(k, k[f].MASTER)
    BY <1>1, <1>5, <2>1, <2>2 DEF is_bridge, WithDevice
  <2>7. \A h \in WithDevice(k, k[f].MASTER) : k[h].MASTER = None
    BY <1>1, <1>5, <2>1, <2>2 DEF WithDevice
  <2> QED  BY <2>5, <2>6, <2>7
<1>10. ASSUME NEW f \in FilesOf(k)
       PROVE  /\ k[f].DEVICE # None
              /\ k[f].BRIDGE = None \/ k[f].MASTER = None
              /\ {k[f].BRIDGE, k[f].MASTER} \cap Nameless = {}
              /\ f \in Managed \cup Devices(k) \/ k[f].DEVICE \in Nameless => k[f].DEVICE = f
  BY <1>1, <1>4 DEF Tidy
<1>11. ASSUME NEW f \in FilesOf(k), NEW g \in WithDevice(k, k[f].DEVICE)
       PROVE  k[g].BRIDGE = k[f].BRIDGE /\ k[g].MASTER = k[f].MASTER
  <2>1. f \in FilesOf(st) /\ k[f] = st[f] /\ g \in WithDevice(st, st[f].DEVICE) /\ k[g] = st[g]
    BY <1>1 DEF WithDevice
  <2> QED  BY <2>1 DEF Tidy
<1>12. ASSUME NEW f \in FilesOf(k), NEW d \in Misnamed,
              k[f].HWADDR # None, k[f].HWADDR = MacOf[d], d \in Devices(k)
       PROVE  d \in FilesOf(k) \/ k[f].DEVICE = d
  <2>1. d \in FilesOf(st) \/ st[f].DEVICE = d
    BY <1>1, <1>4, <1>12 DEF Tidy
  <2> QED  BY <1>1, <1>6, <1>12, <2>1
<1>13. Tidy(k)
  BY <1>7, <1>8, <1>9, <1>10, <1>11, <1>12 DEF Tidy
<1> QED  BY <1>13 DEF k

\* drv_undefine takes the aliases only of bonds whose slaves it takes as well.
LEMMA UndefineAliases ==
    ASSUME NEW st \in Store, Tidy(st), NEW n \in Names, NEW A, Aliased(st, A)
    PROVE  Aliased(Kept(st, {n}), A \ bond_setup(st, n))
<1> DEFINE k == Kept(st, {n})
<1> SUFFICES ASSUME NEW f \in FilesOf(k), k[f].MASTER # None
             PROVE  k[f].MASTER \in A \ bond_setup(st, n)
  BY DEF Aliased
<1>1. f \in FilesOf(st) /\ k[f] = st[f] /\ n \notin Up(st, f)
  BY KeptFiles
<1> HIDE DEF k
<1>2. st[f].MASTER \in A
  BY <1>1 DEF Aliased
<1>3. st[f].MASTER # n
  BY <1>1, UpCases
<1>4. st[f].MASTER \notin bridge_slaves(st, n)
  <2> SUFFICES ASSUME NEW g \in FilesOf(st), st[g].BRIDGE = n, st[f].MASTER = st[g].DEVICE
               PROVE  FALSE
    BY DEF bridge_slaves, WithBridge
  <2> QED  BY <1>1, UpCases, NoneAssumption
<1> QED  BY <1>1, <1>2, <1>3, <1>4 DEF bond_setup

\* The files that a define leaves: those of the document, and those under no device of it.
LEMMA DefinedFiles ==
    ASSUME NEW st \in Store, Tidy(st), NEW d \in Docs
    PROVE  LET F == Forest(d)
               D == DOMAIN Forest(d)
               s == Defined(st, d)
           IN  /\ s \in Store
               /\ FilesOf(s) = D \cup {f \in FilesOf(st) : Up(st, f) \cap D = {}}
               /\ \A f \in D : s[f] = F[f] /\ (f \in FilesOf(st) => f \in Up(st, f))
               /\ \A f \in FilesOf(s) \ D : s[f] = st[f]
<1> DEFINE F == Forest(d)
           D == DOMAIN Forest(d)
           s == Defined(st, d)
           R == NamesToRemove(d)
<1>1. F \in [D -> Entry] /\ D \subseteq Names /\ D \subseteq Managed
  BY ForestShape DEF Shaped
<1>2. R \subseteq D \cup {None, Empty} /\ D \ R \subseteq Nameless
  BY NamesRemoved
<1>3. s = [f \in Names |-> IF f \in D THEN F[f]
                           ELSE IF f \in FilesOf(st) /\ Up(st, f) \cap R = {} THEN st[f] ELSE None]
  BY DEF Defined, With, Kept
<1>4. ASSUME NEW f \in FilesOf(st), f \in D PROVE f \in Up(st, f)
  <2>1. st[f].DEVICE = f /\ st[f].DEVICE # None
    BY <1>1, <1>4 DEF Tidy
  <2> QED  BY <2>1, UpCases
<1>5. ASSUME NEW f \in FilesOf(st), f \notin D
      PROVE  Up(st, f) \cap R = {} <=> Up(st, f) \cap D = {}
  <2>1. Up(st, f) \subseteq Names
    BY FileEntries
  <2>2. ASSUME NEW e \in Up(st, f), e \in D, e \notin R PROVE FALSE
    <3>1. e \in Nameless
      BY <1>2, <2>2
    <3>2. \A g \in FilesOf(st) : {st[g].BRIDGE, st[g].MASTER} \cap Nameless = {}
      BY DEF Tidy
    <3>3. e = st[f].DEVICE
      BY <3>1, <3>2, UpCases
    <3>4. st[f].DEVICE = f
      BY <3>1, <3>3 DEF Tidy
    <3> QED  BY <1>5, <2>2, <3>3, <3>4
  <2> HIDE DEF D, R
  <2> QED  BY <1>2, <2>1, <2>2, NoneAssumption
<1> HIDE DEF F, D, s, R
<1>6. s \in Store
  BY <1>1, <1>3 DEF Store
<1>7. \A f \in Names : s[f] = IF f \in D THEN F[f]
                              ELSE IF f \in FilesOf(st) /\ Up(st, f) \cap D = {} THEN st[f] ELSE None
  BY <1>3, <1>5
<1>8. \A f \in D : F[f] # None
  BY <1>1, EntryAssumption
<1>9. \A f \in FilesOf(st) : f \in Names /\ st[f] # None
  BY FileEntries
<1>10. FilesOf(s) = D \cup {f \in FilesOf(st) : Up(st, f) \cap D = {}}
  <2>1. ASSUME NEW f \in Names
        PROVE  f \in FilesOf(s) <=> f \in D \/ (f \in FilesOf(st) /\ Up(st, f) \cap D = {})
    BY <1>7, <1>8, <1>9 DEF FilesOf
  <2> QED  BY <2>1, <1>1, <1>9 DEF FilesOf
<1>11. /\ s \in Store
       /\ FilesOf(s) = D \cup {f \in FilesOf(st) : Up(st, f) \cap D = {}}
       /\ \A f \in D : s[f] = F[f] /\ (f \in FilesOf(st) => f \in Up(st, f))
       /\ \A f \in FilesOf(s) \ D : s[f] = st[f]
  BY <1>1, <1>4, <1>6, <1>7, <1>9, <1>10
<1> QED  BY <1>11 DEF F, D, s

\* The same, with the old files as the files of a tidy store that knows no device of the
\* document.
LEMMA DefinedParts ==
    ASSUME NEW st \in Store, Tidy(st), NEW d \in Docs
    PROVE  \E k \in Store :
             LET F == Forest(d)
                 D == DOMAIN Forest(d)
                 s == Defined(st, d)
             IN  /\ Tidy(k) /\ FilesOf(k) \cap D = {}
                 /\ FilesOf(s) = D \cup FilesOf(k)
                 /\ \A f \in D : s[f] = F[f]
                 /\ \A f \in FilesOf(k) :
                      /\ s[f] = k[f] /\ f \in FilesOf(st) /\ k[f] = st[f]
                      /\ {k[f].DEVICE, k[f].BRIDGE, k[f].MASTER} \cap D = {}
<1> DEFINE F == Forest(d)
           D == DOMAIN Forest(d)
           s == Defined(st, d)
           k == Kept(st, D)
<1>1. /\ FilesOf(s) = D \cup {f \in FilesOf(st) : Up(st, f) \cap D = {}}
      /\ \A f \in D : s[f] = F[f] /\ (f \in FilesOf(st) => f \in Up(st, f))
      /\ \A f \in FilesOf(s) \ D : s[f] = st[f]
  BY DefinedFiles
<1>2. /\ k \in Store /\ FilesOf(k) = {f \in FilesOf(st) : Up(st, f) \cap D = {}}
      /\ \A f \in FilesOf(k) : k[f] = st[f]
  BY KeptFiles
<1>3. Tidy(k)
  BY KeptTidy
<1>4. D \subseteq Names
  BY ForestShape DEF Shaped
<1>5. ASSUME NEW f \in FilesOf(k)
      PROVE  {st[f].DEVICE, st[f].BRIDGE, st[f].MASTER} \cap D = {}
  <2>1. f \in FilesOf(st) /\ Up(st, f) \cap D = {}
    BY <1>2
  <2>2. {st[f].DEVICE, st[f].BRIDGE, st[f].MASTER} \subseteq Up(st, f) \cup {None}
    BY <2>1, UpCases
  <2> HIDE DEF D
  <2> QED  BY <1>4, <2>1, <2>2, NoneAssumption
<1> HIDE DEF F, D, s, k
<1>6. FilesOf(k) \cap D = {}
  BY <1>1, <1>2
<1>7. /\ Tidy(k) /\ FilesOf(k) \cap D = {}
      /\ FilesOf(s) = D \cup FilesOf(k)
      /\ \A f \in D : s[f] = F[f]
      /\ \A f \in FilesOf(k) :
           /\ s[f] = k[f] /\ f \in FilesOf(st) /\ k[f] = st[f]
           /\ {k[f].DEVICE, k[f].BRIDGE, k[f].MASTER} \cap D = {}
  BY <1>1, <1>2, <1>3, <1>5, <1>6
<1>8. k \in Store
  BY <1>2
<1> QED  BY <1>7, <1>8, Zenon DEF F, D, s

\* A define makes a tidy store of a tidy store.
LEMMA DefinedTidy ==
    ASSUME NEW st \in Store, Tidy(st), NEW d \in Docs
    PROVE  Tidy(Defined(st, d))
<1> DEFINE F == Forest(d)
           D == DOMAIN Forest(d)
           s == Defined(st, d)
           n == device_name_from_xml(d)
<1>1. Shaped(F, D, n)
  BY ForestShape
<1>2. PICK k \in Store :
        /\ Tidy(k) /\ FilesOf(k) \cap D = {}
        /\ FilesOf(s) = D \cup FilesOf(k)
        /\ \A f \in D : s[f] = F[f]
        /\ \A f \in FilesOf(k) :
             /\ s[f] = k[f] /\ f \in FilesOf(st) /\ k[f] = st[f]
             /\ {k[f].DEVICE, k[f].BRIDGE, k[f].MASTER} \cap D = {}
  BY DefinedParts
<1> HIDE DEF F, D, s, n
<1>3. D \subseteq Names /\ D \subseteq Managed /\ None \notin D /\ n \in D
  BY <1>1, NoneAssumption DEF Shaped
<1>4. \A f \in D : s[f] = F[f] /\ f \in FilesOf(s) /\ s[f].DEVICE = f
  BY <1>1, <1>2 DEF Shaped
<1>5. \A e \in D : WithDevice(s, e) = {e}
  BY <1>2, <1>4 DEF WithDevice
<1>6. \A e : e \notin D => WithDevice(s, e) = WithDevice(k, e)
  BY <1>2, <1>4 DEF WithDevice
<1>7. Devices(s) = D \cup Devices(k)
  <2>1. ASSUME NEW e \in D PROVE e \in Devices(s)
    BY <1>3, <1>4 DEF Devices
  <2>2. ASSUME NEW e \in Devices(k) PROVE e \in Devices(s)
    BY <1>2 DEF Devices
  <2>3. ASSUME NEW e \in Devices(s) PROVE e \in D \cup Devices(k)
    BY <1>2, <1>4 DEF Devices
  <2> QED  BY <2>1, <2>2, <2>3
<1>8. Devices(s) \ FilesOf(s) \subseteq Misnamed
  BY <1>2, <1>7 DEF Tidy
<1>9. ASSUME NEW f \in D
      PROVE  /\ s[f].DEVICE # None
             /\ s[f].BRIDGE = None \/ s[f].MASTER = None
             /\ s[f].BRIDGE # None =>
                  /\ is_bridge(s, s[f].BRIDGE)
                  /\ \A g \in WithDevice(s, s[f].BRIDGE) : ~is_slave(s, g)
             /\ s[f].MASTER # None =>
                  /\ s[f].MASTER \in Devices(s) /\ ~is_bridge(s, s[f].MASTER)
                  /\ \A g \in WithDevice(s, s[f].MASTER) : s[g].MASTER = None
             /\ {s[f].BRIDGE, s[f].MASTER} \cap Nameless = {}
             /\ s[f].DEVICE = f
             /\ \A g \in WithDevice(s, s[f].DEVICE) :
                  s[g].BRIDGE = s[f].BRIDGE /\ s[g].MASTER = s[f].MASTER
             /\ \A e \in Misnamed : s[f].HWADDR # None /\ s[f].HWADDR = MacOf[e]
                                       => s[f].DEVICE = e
  <2>1. s[f] = F[f] /\ s[f].DEVICE = f /\ f # None
    BY <1>3, <1>4
  <2>2. ASSUME s[f].BRIDGE # None
        PROVE  /\ is_bridge(s, s[f].BRIDGE) /\ s[f].BRIDGE \notin Nameless
               /\ \A g \in WithDevice(s, s[f].BRIDGE) : ~is_slave(s, g)
    <3>1. /\ s[f].BRIDGE = n /\ n \notin Nameless
          /\ F[n].TYPE = "Bridge" /\ F[n].BRIDGE = None /\ F[n].MASTER = None
      BY <1>1, <2>1, <2>2 DEF Shaped
    <3>2. WithDevice(s, n) = {n} /\ s[n] = F[n]
      BY <1>3, <1>4, <1>5
    <3> QED  BY <3>1, <3>2 DEF is_bridge, is_slave
  <2>3. ASSUME s[f].MASTER # None
        PROVE  /\ s[f].MASTER \in Devices(s) /\ ~is_bridge(s, s[f].MASTER)
               /\ s[f].MASTER \notin Nameless
               /\ \A g \in WithDevice(s, s[f].MASTER) : s[g].MASTER = None
    <3> DEFINE m == s[f].MASTER
    <3>1. m \in D /\ m \notin Nameless /\ F[m].MASTER = None /\ F[m].TYPE = None
      BY <1>1, <2>1, <2>3 DEF Shaped
    <3>2. WithDevice(s, m) = {m} /\ s[m] = F[m]
      BY <1>4, <1>5, <3>1
    <3> QED  BY <1>7, <3>1, <3>2, EntryAssumption DEF is_bridge
  <2>4. None \notin Nameless
    BY DocsAssumption, NoneAssumption DEF Nameless, AllInterfaces, Document
  <2>5. \A e \in Misnamed : s[f].HWADDR # None /\ s[f].HWADDR = MacOf[e] => s[f].DEVICE = e
    BY <1>1, <2>1 DEF Shaped
  <2>6. s[f].BRIDGE = None \/ s[f].MASTER = None
    BY <1>1, <2>1 DEF Shaped
  <2> QED  BY <1>5, <2>1, <2>2, <2>3, <2>4, <2>5, <2>6
<1>10. ASSUME NEW f \in FilesOf(k)
       PROVE  /\ s[f].DEVICE # None
              /\ s[f].BRIDGE = None \/ s[f].MASTER = None
              /\ s[f].BRIDGE # None =>
                   /\ is_bridge(s, s[f].BRIDGE)
                   /\ \A g \in WithDevice(s, s[f].BRIDGE) : ~is_slave(s, g)
              /\ s[f].MASTER # None =>
                   /\ s[f].MASTER \in Devices(s) /\ ~is_bridge(s, s[f].MASTER)
                   /\ \A g \in WithDevice(s, s[f].MASTER) : s[g].MASTER = None
              /\ {s[f].BRIDGE, s[f].MASTER} \cap Nameless = {}
              /\ f \in Managed \cup Devices(s) \/ s[f].DEVICE \in Nameless => s[f].DEVICE = f
              /\ \A g \in WithDevice(s, s[f].DEVICE) :
                   s[g].BRIDGE = s[f].BRIDGE /\ s[g].MASTER = s[f].MASTER
              /\ \A e \in Misnamed : s[f].HWADDR # None /\ s[f].HWADDR = MacOf[e] /\ e \in Devices(s)
                                       => e \in FilesOf(s) \/ s[f].DEVICE = e
  <2>1. s[f] = k[f] /\ f \notin D /\ {k[f].DEVICE, k[f].BRIDGE, k[f].MASTER} \cap D = {}
    BY <1>2
  <2>2. /\ WithDevice(s, k[f].DEVICE) = WithDevice(k, k[f].DEVICE)
        /\ WithDevice(s, k[f].BRIDGE) = WithDevice(k, k[f].BRIDGE)
        /\ WithDevice(s, k[f].MASTER) = WithDevice(k, k[f].MASTER)
    BY <1>6, <2>1
  <2>3. \A e : \A g \in WithDevice(k, e) : s[g] = k[g]
    BY <1>2 DEF WithDevice
  <2>4. /\ is_bridge(k, k[f].BRIDGE) => is_bridge(s, k[f].BRIDGE)
        /\ is_bridge(s, k[f].MASTER) => is_bridge(k, k[f].MASTER)
    BY <2>2, <2>3 DEF is_bridge
  <2>5. ASSUME k[f].BRIDGE # None
        PROVE  /\ is_bridge(s, k[f].BRIDGE)
               /\ \A g \in WithDevice(s, k[f].BRIDGE) : ~is_slave(s, g)
    <3>1. is_bridge(k, k[f].BRIDGE) /\ \A g \in WithDevice(k, k[f].BRIDGE) : ~is_slave(k, g)
      BY <1>2, <2>5 DEF Tidy
    <3> QED  BY <2>2, <2>3, <2>4, <3>1 DEF is_slave
  <2>6. ASSUME k[f].MASTER # None
        PROVE  /\ k[f].MASTER \in Devices(s) /\ ~is_bridge(s, k[f].MASTER)
               /\ \A g \in WithDevice(s, k[f].MASTER) : s[g].MASTER = None
    <3>1. /\ k[f].MASTER \in Devices(k) /\ ~is_bridge(k, k[f].MASTER)
          /\ \A g \in WithDevice(k, k[f].MASTER) : k[g].MASTER = None
      BY <1>2, <2>6 DEF Tidy
    <3> QED  BY <1>7, <2>2, <2>3, <2>4, <3>1
  <2>7. \A g \in WithDevice(s, k[f].DEVICE) : s[g].BRIDGE = k[f].BRIDGE /\ s[g].MASTER = k[f].MASTER
    <3>1. \A g \in WithDevice(k, k[f].DEVICE) : k[g].BRIDGE = k[f].BRIDGE /\ k[g].MASTER = k[f].MASTER
      BY <1>2 DEF Tidy
    <3> QED  BY <2>2, <2>3, <3>1
  <2>8. f \in Managed \cup Devices(s) \/ k[f].DEVICE \in Nameless => k[f].DEVICE = f
    BY <1>2, <1>7, <2>1 DEF Tidy
  <2>9. \A e \in Misnamed : k[f].HWADDR # None /\ k[f].HWADDR = MacOf[e] /\ e \in Devices(s)
                              => e \in FilesOf(s) \/ k[f].DEVICE = e
    BY <1>2, <1>7 DEF Tidy
  <2>10. {k[f].BRIDGE, k[f].MASTER} \cap Nameless = {}
    BY <1>2 DEF Tidy
  <2>11. k[f].DEVICE # None
    BY <1>2 DEF Tidy
  <2>12. k[f].BRIDGE = None \/ k[f].MASTER = None
    BY <1>2 DEF Tidy
  <2> QED  BY <2>1, <2>5, <2>6, <2>7, <2>8, <2>9, <2>10, <2>11, <2>12
<1>11. Tidy(s)
  BY <1>2, <1>8, <1>9, <1>10 DEF Tidy
<1> QED  BY <1>11 DEF s

\* The aliases that drv_define adds are enough.
LEMMA DefinedAliases ==
    ASSUME NEW st \in Store, Tidy(st), NEW d \in Docs, NEW A, Aliased(st, A)
    PROVE  LET s == Defined(st, d)
           IN  Aliased(s, A \cup bond_setup(s, device_name_from_xml(d)))
<1> DEFINE F == Forest(d)
           D == DOMAIN Forest(d)
           s == Defined(st, d)
           n == device_name_from_xml(d)
<1>1. Shaped(F, D, n)
  BY ForestShape
<1>2. PICK k \in Store :
        /\ FilesOf(s) = D \cup FilesOf(k)
        /\ \A f \in D : s[f] = F[f]
        /\ \A f \in FilesOf(k) : s[f] = k[f] /\ f \in FilesOf(st) /\ k[f] = st[f]
  BY DefinedParts
<1> HIDE DEF F, D, s, n
<1> SUFFICES ASSUME NEW f \in FilesOf(s), s[f].MASTER # None
             PROVE  s[f].MASTER \in A \cup bond_setup(s, n)
  BY DEF Aliased, s, n
<1>3. CASE f \in FilesOf(k)
  BY <1>2, <1>3 DEF Aliased
<1>4. CASE f \in D
  <2> DEFINE m == s[f].MASTER
  <2>1. m \in D /\ (m = n \/ F[m].BRIDGE = n) /\ F[m].DEVICE = m
    BY <1>1, <1>2, <1>4 DEF Shaped
  <2>2. is_bond(s, m)
    BY DEF is_bond, WithMaster
  <2>3. CASE m = n
    BY <2>2, <2>3 DEF bond_setup
  <2>4. CASE F[m].BRIDGE = n
    <3>1. n # None /\ n \in D /\ m # None
      BY <1>1, <2>1, NoneAssumption DEF Shaped
    <3>2. F[n].TYPE = "Bridge" /\ F[n].DEVICE = n
      BY <1>1, <2>1, <2>4, <3>1 DEF Shaped
    <3>3. is_bridge(s, n)
      BY <1>2, <3>1, <3>2 DEF is_bridge, WithDevice
    <3>4. m \in bridge_slaves(s, n)
      BY <1>2, <2>1, <2>4, <3>1 DEF bridge_slaves, WithBridge
    <3> HIDE DEF m
    <3>5. m \in bond_setup(s, n)
      BY <2>2, <3>3, <3>4 DEF bond_setup
    <3> QED  BY <3>5 DEF m
  <2> QED  BY <2>1, <2>3, <2>4
<1> QED  BY <1>2, <1>3, <1>4

\* drv_xml_desc after a define describes the document's files.
LEMMA DefinedDescribes ==
    ASSUME NEW st \in Store, Tidy(st), NEW d \in Docs
    PROVE  aug_get_xml_for_nif(Defined(st, d), device_name_from_xml(d)) = Forest(d)
<1> DEFINE F == Forest(d)
           D == DOMAIN Forest(d)
           s == Defined(st, d)
           n == device_name_from_xml(d)
<1>1. Shaped(F, D, n)
  BY ForestShape
<1>2. PICK k \in Store :
        /\ Tidy(k) /\ FilesOf(k) \cap D = {}
        /\ FilesOf(s) = D \cup FilesOf(k)
        /\ \A f \in D : s[f] = F[f]
        /\ \A f \in FilesOf(k) :
             /\ s[f] = k[f] /\ f \in FilesOf(st) /\ k[f] = st[f]
             /\ {k[f].DEVICE, k[f].BRIDGE, k[f].MASTER} \cap D = {}
  BY DefinedParts
<1> HIDE DEF F, D, s, n
<1>3. n \in D /\ None \notin D /\ \A f \in D : s[f] = F[f] /\ s[f].DEVICE = f
  BY <1>1, <1>2, NoneAssumption DEF Shaped
<1>4. Subtree(s, n) = D
  <2>1. ASSUME NEW f \in D PROVE f \in Subtree(s, n)
    <3>1. \/ f = n \/ F[f].BRIDGE = n \/ F[f].MASTER = n
          \/ /\ F[f].MASTER # None /\ F[f].MASTER \in D
             /\ F[F[f].MASTER].BRIDGE = n /\ F[F[f].MASTER].DEVICE = F[f].MASTER
      BY <1>1 DEF Shaped
    <3>2. f \in FilesOf(s) /\ s[f] = F[f] /\ s[f].DEVICE = f
      BY <1>2, <1>3
    <3>3. CASE f = n \/ F[f].BRIDGE = n \/ F[f].MASTER = n
      BY <3>2, <3>3 DEF Subtree, WithDevice, WithBridge, WithMaster
    <3>4. CASE /\ F[f].MASTER # None /\ F[f].MASTER \in D
               /\ F[F[f].MASTER].BRIDGE = n /\ F[F[f].MASTER].DEVICE = F[f].MASTER
      BY <1>2, <1>3, <3>2, <3>4 DEF Subtree, WithBridge
    <3> QED  BY <3>1, <3>3, <3>4
  <2>2. ASSUME NEW f \in FilesOf(k) PROVE f \notin Subtree(s, n)
    <3>1. s[f] = k[f] /\ k[f].DEVICE # n /\ k[f].BRIDGE # n /\ k[f].MASTER # n /\ k[f].MASTER \notin D
      BY <1>2, <1>3
    <3>2. \A g \in WithBridge(s, n) : s[g].DEVICE \in D
      BY <1>2, <1>3 DEF WithBridge
    <3> QED  BY <3>1, <3>2 DEF Subtree, WithDevice, WithBridge, WithMaster
  <2>3. Subtree(s, n) \subseteq FilesOf(s)
    BY DEF Subtree, WithDevice, WithBridge, WithMaster
  <2> QED  BY <1>2, <2>1, <2>2, <2>3
<1>5. {s[f].DEVICE : f \in Subtree(s, n)} \ {None} = D
  BY <1>3, <1>4
<1>6. \A f \in D : uniq_ifcfg_paths(s, D)[f] = f
  BY <1>2 DEF uniq_ifcfg_paths, find_ifcfg_path
<1>7. {uniq_ifcfg_paths(s, D)[f] : f \in D} = D
  BY <1>6
<1>8. aug_get_xml_for_nif(s, n) = [p \in D |-> s[p]]
  BY <1>5, <1>7 DEF aug_get_xml_for_nif
<1>9. F = [p \in D |-> F[p]]
  BY <1>1 DEF Shaped
<1>10. aug_get_xml_for_nif(s, n) = F
  BY <1>3, <1>8, <1>9
<1> QED  BY <1>10 DEF F, s, n

\* Some names have a last one in the order of strcmp.
LEMMA LastExists ==
    ASSUME NEW S, S \subseteq Names, S # {}
    PROVE  LastOf(S) \in S
<1> DEFINE HasLast(T) == \E p \in T : \A q \in T : q <= p
           Bad == {T \in SUBSET Names : T # {} /\ ~HasLast(T)}
           Sizes == {Cardinality(T) : T \in Bad}
<1>1. Names \subseteq Nat /\ IsFiniteSet(Names)
  BY NamesAssumption
<1>2. \A T \in SUBSET Names : IsFiniteSet(T) /\ Cardinality(T) \in Nat
  BY <1>1, FS_Subset, FS_CardinalityType
<1>3. Bad = {}
  <2> SUFFICES ASSUME Bad # {} PROVE FALSE
    OBVIOUS
  <2>1. Sizes \subseteq Nat /\ Sizes # {}
    BY <1>2
  <2>2. PICK c \in Sizes : \A e \in Sizes : ~(e < c)
    <3>1. IsWellFoundedOn(OpToRel(<, Nat), Nat)
      BY NatLessThanWellFounded
    <3>2. \E c \in Sizes : \A e \in Sizes : ~(<<e, c>> \in OpToRel(<, Nat))
      BY <2>1, <3>1, WFMin
    <3> QED  BY <2>1, <3>2 DEF OpToRel
  <2>3. PICK T \in Bad : c = Cardinality(T)
    OBVIOUS
  <2>4. T \in SUBSET Names /\ T # {} /\ ~HasLast(T)
    BY <2>3
  <2>5. PICK x \in T : TRUE
    BY <2>4
  <2>6. /\ IsFiniteSet(T \ {x}) /\ Cardinality(T \ {x}) = Cardinality(T) - 1
        /\ T \ {x} \in SUBSET Names
    BY <1>2, <2>4, FS_RemoveElement
  <2>7. T \ {x} \notin Bad
    <3>1. Cardinality(T) \in Nat /\ Cardinality(T \ {x}) < Cardinality(T)
      BY <1>2, <2>4, <2>6
    <3> QED  BY <2>2, <2>3, <3>1
  <2>8. CASE T \ {x} = {}
    <3>1. T = {x} /\ x \in Nat
      BY <1>1, <2>4, <2>8
    <3> QED  BY <2>4, <3>1
  <2>9. CASE HasLast(T \ {x})
    <3>1. PICK y \in T \ {x} : \A q \in T \ {x} : q <= y
      BY <2>9
    <3>2. x \in Nat /\ y \in Nat /\ \A q \in T : q \in Nat
      BY <1>1, <2>4
    <3>3. CASE x <= y
      <4>1. \A q \in T : q <= y
        BY <3>1, <3>3
      <4> QED  BY <2>4, <4>1
    <3>4. CASE y <= x
      <4>1. \A q \in T : q <= x
        BY <3>1, <3>2, <3>4
      <4> QED  BY <2>4, <4>1
    <3> QED  BY <3>2, <3>3, <3>4
  <2> QED  BY <2>6, <2>7, <2>8, <2>9
<1>4. HasLast(S)
  BY <1>3
<1> QED  BY <1>4 DEF LastOf

\* In a tidy store the canonical file of a device is a file of the device.
LEMMA PathOfDevice ==
    ASSUME NEW st \in Store, Tidy(st), NEW d \in Devices(st)
    PROVE  find_ifcfg_path(st, d) \in WithDevice(st, d)
<1>1. WithDevice(st, d) # {} /\ WithDevice(st, d) \subseteq Names
  BY DEF Devices, WithDevice, FilesOf
<1>2. CASE d \in FilesOf(st)
  <2>1. st[d].DEVICE = d
    BY <1>2 DEF Tidy
  <2> QED  BY <1>2, <2>1 DEF find_ifcfg_path, WithDevice
<1>3. CASE d \notin FilesOf(st) /\ MacOf[d] # None /\ WithHwaddr(st, MacOf[d]) # {}
  <2> DEFINE p == LastOf(WithHwaddr(st, MacOf[d]))
  <2>1. WithHwaddr(st, MacOf[d]) \subseteq Names
    BY DEF WithHwaddr, FilesOf
  <2>2. p \in WithHwaddr(st, MacOf[d])
    BY <1>3, <2>1, LastExists
  <2>3. find_ifcfg_path(st, d) = p
    BY <1>3 DEF find_ifcfg_path, find_ifcfg_path_by_hwaddr
  <2> HIDE DEF p
  <2>4. p \in FilesOf(st) /\ st[p].HWADDR = MacOf[d]
    BY <2>2 DEF WithHwaddr
  <2>5. d \in Misnamed
    BY <1>3 DEF Tidy
  <2>6. st[p].DEVICE = d
    BY <1>3, <2>4, <2>5 DEF Tidy
  <2> QED  BY <2>3, <2>4, <2>6 DEF WithDevice
<1>4. CASE d \notin FilesOf(st) /\ ~(MacOf[d] # None /\ WithHwaddr(st, MacOf[d]) # {})
  BY <1>1, <1>4, LastExists DEF find_ifcfg_path, find_ifcfg_path_by_device
<1> QED  BY <1>2, <1>3, <1>4

\* The listing of a tidy store.
LEMMA TidyLists ==
    ASSUME NEW st \in Store, Tidy(st)
    PROVE  LET list == list_interfaces(st)
               top == {d \in Devices(st) : \A f \in WithDevice(st, d) :
                         st[f].BRIDGE = None /\ st[f].MASTER = None}
           IN  /\ DOMAIN list = top
               /\ \A d \in top : st[list[d]].DEVICE = d
               /\ top = {d \in Devices(st) : lookup_by_name(st, d)}
<1> DEFINE top == {d \in Devices(st) : \A f \in WithDevice(st, d) :
                     st[f].BRIDGE = None /\ st[f].MASTER = None}
           path(d) == find_ifcfg_path(st, d)
           listed == {d \in Devices(st) : ~is_slave(st, path(d))}
<1>1. \A d \in Devices(st) : /\ path(d) \in WithDevice(st, d) /\ path(d) \in FilesOf(st)
                             /\ st[path(d)].DEVICE = d
  BY PathOfDevice DEF WithDevice
<1>2. \A d \in Devices(st) : \A f \in WithDevice(st, d) :
        st[f].BRIDGE = st[path(d)].BRIDGE /\ st[f].MASTER = st[path(d)].MASTER
  BY <1>1 DEF Tidy
<1>3. list_interfaces(st) = [d \in listed |-> path(d)]
  BY DEF list_interfaces, uniq_ifcfg_paths
<1>4. \A d \in Devices(st) : path(d) # None
  BY <1>1, NoneAssumption DEF FilesOf
<1>5. \A d \in Devices(st) : lookup_by_name(st, d) <=> ~is_slave(st, path(d))
  BY <1>4 DEF lookup_by_name
<1> HIDE DEF path
<1>6. top = listed
  BY <1>1, <1>2 DEF is_slave
<1>7. top = {d \in Devices(st) : lookup_by_name(st, d)}
  BY <1>5, <1>6
<1> HIDE DEF top, listed
<1>8. DOMAIN list_interfaces(st) = top /\ \A d \in top : list_interfaces(st)[d] = path(d)
  BY <1>3, <1>6
<1>9. \A d \in top : d \in Devices(st)
  BY DEF top
<1> QED  BY <1>1, <1>7, <1>8, <1>9 DEF top

-----------------------------------------------------------------------------
(***************************************************************************)
(* Types                                                                   *)
(***************************************************************************)

\* The driver's functions lead from stores to stores and from names to names.
LEMMA NoStoreType == NoStore \in Store
BY DEF NoStore, Store

\* Removing files leaves a store.
LEMMA RemoveType ==
    ASSUME NEW st \in Store, NEW n
    PROVE  rm_interface(st, n) \in Store
BY DEF rm_interface, Without, Store

\* The stylesheet's trees are files of the store.
LEMMA PutType ==
    ASSUME NEW st \in Store, NEW d \in Docs, NEW f \in DOMAIN Forest(d)
    PROVE  f \in Names /\ aug_put_xml(st, f, Forest(d)[f]) \in Store
<1>1. f \in Names /\ Forest(d)[f] \in Entry
  BY ForestShape DEF Shaped
<1> QED  BY <1>1 DEF aug_put_xml, Store

\* Aliases are names.
LEMMA BondSetupType ==
    ASSUME NEW st \in Store, NEW n \in Names
    PROVE  bond_setup(st, n) \subseteq Names
<1>1. \A f \in FilesOf(st) : st[f].DEVICE \in Names \cup {None}
  BY FileEntries DEF Entry
<1>2. bridge_slaves(st, n) \subseteq Names
  BY <1>1 DEF bridge_slaves, WithBridge
<1> QED  BY <1>2 DEF bond_setup

\* A document's interface has a name.
LEMMA NameType ==
    ASSUME NEW d \in Docs
    PROVE  device_name_from_xml(d) \in Names /\ device_name_from_xml(d) # None
BY ForestShape, NoneAssumption DEF Shaped

\* A failed step is counted.
LEMMA FailsType ==
    ASSUME failures \in 0..MaxFailures, Fails
    PROVE  failures' \in 0..MaxFailures
BY BoundsAssumption DEF Fails

\* get_augeas gives a tree that is the files.
LEMMA GetAugeasLoads ==
    ASSUME GetAugeas
    PROVE  /\ tree' = disk /\ talias' = aliases /\ dirty' = {} /\ ~corrupt
           /\ aug' = TRUE /\ xfm' = FALSE /\ load' = FALSE
BY DEF GetAugeas, drv_entry

\* After drv_init the types are right.
LEMMA TInit == Init => TInv
<1> SUFFICES ASSUME Init PROVE TInv
  OBVIOUS
<1>1. disk \in Store
  BY StoresAssumption DEF Init
<1>2. 0 \in 0..MaxFailures /\ 0 \in 0..MaxForeign
  BY BoundsAssumption
<1> QED  BY <1>1, <1>2, NoStoreType DEF Init, TInv, TypeOK, Calls

\* Every step keeps the types.
LEMMA TNext == TInv /\ [Next]_vars => TInv'
<1> SUFFICES ASSUME TInv, [Next]_vars PROVE TInv'
  OBVIOUS
<1>1. CASE NoAugeas
  <2>1. failures' \in 0..MaxFailures
    BY <1>1, FailsType DEF NoAugeas, GetAugeasFails, TInv, TypeOK
  <2>2. aug' \in BOOLEAN /\ xfm' \in BOOLEAN /\ load' \in BOOLEAN
    BY <1>1, Zenon DEF NoAugeas, GetAugeasFails, TInv, TypeOK, drv_entry
  <2> QED
    BY <1>1, <2>1, <2>2, NoStoreType
       DEF NoAugeas, GetAugeasFails, TInv, TypeOK, Calls, files, history
<1>2. ASSUME NEW n \in Names, LookupByName(n) PROVE TInv'
  BY <1>2, GetAugeasLoads DEF LookupByName, TInv, TypeOK, Calls, files, history
<1>3. ASSUME NEW d \in Docs, Define(d) PROVE TInv'
  <2>1. NamesToRemove(d) \subseteq Names \cup {None, Empty}
    BY NamesRemoved
  <2> QED
    BY <1>3, <2>1, GetAugeasLoads DEF Define, TInv, TypeOK, Calls, files
<1>4. CASE Undefine
  BY <1>4, GetAugeasLoads DEF Undefine, TInv, TypeOK, Calls, files
<1>5. ASSUME NEW n \in todo, RemoveOne(n) PROVE TInv'
  <2>1. rm_interface(tree, n) \in Store
    BY RemoveType DEF TInv, TypeOK
  <2> QED
    BY <1>5, <2>1 DEF RemoveOne, TInv, TypeOK, Calls, files, history
<1>6. ASSUME NEW d \in todo, PutTree(d) PROVE TInv'
  <2>1. doc \in Docs /\ d \in DOMAIN Forest(doc)
    BY <1>6 DEF PutTree, TInv, Calls
  <2>2. d \in Names /\ aug_put_xml(tree, d, Forest(doc)[d]) \in Store
    BY <2>1, PutType DEF TInv, TypeOK
  <2> QED
    BY <1>6, <2>2 DEF PutTree, TInv, TypeOK, Calls, files, history
<1>7. ASSUME NEW f \in todo, SaveFile(f) PROVE TInv'
  <2>1. f \in Names
    BY <1>7 DEF SaveFile, TInv, TypeOK, Calls
  <2>2. [disk EXCEPT ![f] = tree[f]] \in Store
    BY <2>1 DEF TInv, TypeOK, Store
  <2>3. failures' \in 0..MaxFailures /\ disk' \in Store
    BY <1>7, <2>2, FailsType DEF SaveFile, TInv, TypeOK
  <2>4. saved' \in BOOLEAN /\ torn' \in BOOLEAN
    BY <1>7 DEF SaveFile, TInv, TypeOK
  <2> QED
    BY <1>7, <2>3, <2>4 DEF SaveFile, TInv, TypeOK, Calls, driver
<1>8. CASE ApplyStylesheet
  <2>1. doc \in Docs /\ DOMAIN Forest(doc) \subseteq Names
    BY <1>8, ForestShape DEF ApplyStylesheet, TInv, Calls, Shaped
  <2> QED
    BY <1>8, <2>1 DEF ApplyStylesheet, TInv, TypeOK, Calls, files, driver, history
<1>9. CASE PutDone
  BY <1>9 DEF PutDone, TInv, TypeOK, Calls, files, driver, history
<1>10. CASE AliasBonds
  <2>1. doc \in Docs
    BY <1>10 DEF AliasBonds, TInv, Calls
  <2>2. bond_setup(tree, device_name_from_xml(doc)) \subseteq Names
    BY <2>1, NameType, BondSetupType DEF TInv, TypeOK
  <2> QED
    BY <1>10, <2>1, <2>2 DEF AliasBonds, StartSave, TInv, TypeOK, Calls, files, history
<1>11. CASE UnaliasBonds
  BY <1>11 DEF UnaliasBonds, TInv, TypeOK, Calls, files, history
<1>12. CASE RemoveInterface
  <2>1. rm_interface(tree, nif) \in Store
    BY RemoveType DEF TInv, TypeOK
  <2> QED
    BY <1>12, <2>1 DEF RemoveInterface, StartSave, TInv, TypeOK, Calls, files, history
<1>13. CASE SaveDone
  <2>1. failures' \in 0..MaxFailures
    BY <1>13, FailsType DEF SaveDone, TInv, TypeOK
  <2>2. nif' \in Names \cup {None}
    BY <1>13, NameType DEF SaveDone, TInv, TypeOK
  <2>3. torn' \in BOOLEAN /\ aliases' \subseteq Names
    BY <1>13 DEF SaveDone, TInv, TypeOK
  <2> QED
    BY <1>13, <2>1, <2>2, <2>3, NoStoreType
       DEF SaveDone, Return, TInv, TypeOK, Calls, driver
<1>14. CASE Fail
  <2>1. failures' \in 0..MaxFailures
    BY <1>14, FailsType DEF Fail, TInv, TypeOK
  <2> QED
    BY <1>14, <2>1, NoStoreType DEF Fail, Return, TInv, TypeOK, Calls, files, driver
<1>15. CASE ForeignChange
  <2>1. foreign' \in 0..MaxForeign
    BY <1>15, BoundsAssumption DEF ForeignChange, TInv, TypeOK
  <2>2. disk' \in Store /\ aliases' \subseteq Names
    BY <1>15, StoresAssumption DEF ForeignChange, TInv, TypeOK
  <2>3. corrupt' \in BOOLEAN /\ torn' \in BOOLEAN
    BY <1>15 DEF ForeignChange, TInv, TypeOK
  <2> QED
    BY <1>15, <2>1, <2>2, <2>3 DEF ForeignChange, TInv, TypeOK, Calls, driver
<1>16. CASE UNCHANGED vars
  BY <1>16 DEF vars, TInv, TypeOK, Calls
<1> QED
  BY <1>1, <1>2, <1>3, <1>4, <1>5, <1>6, <1>7, <1>8, <1>9, <1>10, <1>11, <1>12, <1>13,
     <1>14, <1>15, <1>16 DEF Next, Call, Step

\* drv_define, drv_undefine, the lookup and get_augeas keep every variable in its type: the
\* tree and the files hold files, and a loop runs over names.
THEOREM TypeCorrect == Spec => []TypeOK
<1>1. TInv => TypeOK
  BY DEF TInv
<1> QED  BY TInit, TNext, <1>1, PTL DEF Spec

-----------------------------------------------------------------------------
(***************************************************************************)
(* The phases of a call                                                    *)
(***************************************************************************)

\* The aliases of the bonds of a configuration.
LEMMA BondsAliased ==
    ASSUME NEW st \in Store, NEW A, {n \in Names : is_bond(st, n)} \subseteq A
    PROVE  Aliased(st, A)
<1> SUFFICES ASSUME NEW f \in FilesOf(st), st[f].MASTER # None PROVE st[f].MASTER \in A
  BY DEF Aliased
<1>1. st[f].MASTER \in Names
  BY FileEntries DEF Entry
<1>2. is_bond(st, st[f].MASTER)
  BY DEF is_bond, WithMaster
<1> QED  BY <1>1, <1>2

\* A store in which nothing is replaced.
LEMMA WithNothing ==
    ASSUME NEW st \in Store, NEW F
    PROVE  With(st, F, {}) = st
BY DEF With, Store

\* Putting one tree more.
LEMMA WithOne ==
    ASSUME NEW st \in Store, NEW F, NEW D, NEW f \in Names
    PROVE  [With(st, F, D) EXCEPT ![f] = F[f]] = With(st, F, D \cup {f})
BY DEF With

\* Saving one file more of what is to be saved.
LEMMA WithoutOne ==
    ASSUME NEW st \in Store, NEW F, NEW D, NEW f \in Names
    PROVE  [With(st, F, D) EXCEPT ![f] = st[f]] = With(st, F, D \ {f})
BY DEF With

\* A store that differs only in some files.
LEMMA WithUnchanged ==
    ASSUME NEW st \in Store, NEW F \in Store, NEW D, \A f \in Names \ D : st[f] = F[f]
    PROVE  F = With(st, F, D)
BY DEF With, Store

\* The files that the driver finds are tidy and have the aliases of their bonds.
LEMMA PInit == Init => Phases
<1> SUFFICES ASSUME Init PROVE Phases
  OBVIOUS
<1>1. disk \in Store /\ Tidy(disk)
  BY StoresAssumption DEF Init
<1>2. Aliased(disk, aliases)
  BY <1>1, BondsAliased DEF Init
<1> QED
  BY <1>1, <1>2 DEF Init, Phases, Between, During, Defining, Undefining, Saving

\* A lookup and a failed get_augeas leave the files as they are.
LEMMA IdlePhases ==
    ASSUME Phases, NoAugeas \/ \E n \in Names : LookupByName(n)
    PROVE  Phases'
<1>1. pc = "idle" /\ pc' = "idle" /\ disk' = disk /\ aliases' = aliases
  BY DEF NoAugeas, LookupByName, files
<1> QED  BY <1>1 DEF Phases, Between, During, Defining, Undefining, Saving

\* drv_define starts from a tree that is the files: nothing has been removed.
LEMMA DefinePhases ==
    ASSUME TInv, Phases, NEW d \in Docs, Define(d)
    PROVE  Phases'
<1>1. /\ pc = "idle" /\ pc' = "rm" /\ doc' = d /\ todo' = NamesToRemove(d) /\ before' = disk
      /\ disk' = disk /\ aliases' = aliases /\ tree' = disk /\ talias' = aliases /\ dirty' = {}
  BY GetAugeasLoads DEF Define, files
<1>2. Tidy(disk) /\ Aliased(disk, aliases) /\ disk \in Store
  BY <1>1 DEF Phases, Between, TInv, TypeOK
<1>3. Kept(disk, NamesToRemove(d) \ NamesToRemove(d)) = disk
  <2>1. NamesToRemove(d) \ NamesToRemove(d) = {}
    OBVIOUS
  <2> QED  BY <1>2, <2>1, KeptAll
<1> QED
  BY <1>1, <1>2, <1>3 DEF Phases, Between, During, Defining, Undefining, Saving

\* So does drv_undefine.
LEMMA UndefinePhases ==
    ASSUME TInv, Phases, Undefine
    PROVE  Phases'
<1>1. /\ pc = "idle" /\ pc' = "unbond" /\ before' = disk
      /\ disk' = disk /\ aliases' = aliases /\ tree' = disk /\ talias' = aliases /\ dirty' = {}
  BY GetAugeasLoads DEF Undefine, files
<1>2. Tidy(disk) /\ Aliased(disk, aliases)
  BY <1>1 DEF Phases, Between
<1> QED
  BY <1>1, <1>2 DEF Phases, Between, During, Defining, Undefining, Saving

\* rm_all_interfaces: what is left is what stands under none of the names so far.
LEMMA RemoveOnePhases ==
    ASSUME TInv, Phases, NEW n \in todo, RemoveOne(n)
    PROVE  Phases'
<1> DEFINE R == NamesToRemove(doc)
<1>1. /\ pc = "rm" /\ pc' = "rm" /\ n # None /\ tree' = rm_interface(tree, n)
      /\ dirty' = dirty \cup {f \in Names : tree'[f] # tree[f]} /\ todo' = todo \ {n}
      /\ UNCHANGED <<disk, aliases, talias, doc, before>>
  BY DEF RemoveOne, files, history
<1>2. /\ Tidy(before) /\ before \in Store /\ tree \in Store /\ n \in Names \cup {Empty}
      /\ (\A f \in Names \ dirty : tree[f] = before[f])
      /\ disk = before /\ Aliased(before, aliases) /\ Aliased(before, talias)
      /\ todo \subseteq R /\ tree = Kept(before, R \ todo)
  BY <1>1 DEF Phases, During, Defining, TInv, TypeOK
<1> HIDE DEF R
<1>3. (R \ todo) \cup {n} = R \ todo'
  BY <1>1, <1>2
<1>4. rm_interface(tree, n) = Kept(before, (R \ todo) \cup {n})
  <2>1. CASE n \in Names
    BY <1>2, <2>1, RemoveKept
  <2>2. CASE n = Empty
    BY <1>2, <2>2, KeptNoName DEF rm_interface
  <2> QED  BY <1>2, <2>1, <2>2
<1>5. tree' = Kept(before, R \ todo')
  BY <1>1, <1>3, <1>4
<1>6. \A f \in Names \ dirty' : tree'[f] = before[f]
  BY <1>1, <1>2
<1>7. todo' \subseteq R
  BY <1>1, <1>2
<1> QED
  BY <1>1, <1>2, <1>5, <1>6, <1>7
     DEF Phases, Between, During, Defining, Undefining, Saving, R

\* Nothing has been put when everything has been removed.
LEMMA ApplyPhases ==
    ASSUME TInv, Phases, ApplyStylesheet
    PROVE  Phases'
<1> DEFINE R == NamesToRemove(doc)
           F == Forest(doc)
           D == DOMAIN Forest(doc)
<1>1. /\ pc = "rm" /\ pc' = "put" /\ todo = {} /\ todo' = D
      /\ UNCHANGED <<disk, aliases, tree, talias, dirty, doc, before>>
  BY DEF ApplyStylesheet, files, driver, history
<1>2. /\ Tidy(before) /\ before \in Store
      /\ (\A f \in Names \ dirty : tree[f] = before[f])
      /\ disk = before /\ Aliased(before, aliases) /\ Aliased(before, talias)
      /\ tree = Kept(before, R \ todo)
  BY <1>1 DEF Phases, During, Defining, TInv, TypeOK
<1>3. tree = With(Kept(before, R), F, D \ D)
  <2>1. R \ todo = R /\ D \ D = {}
    BY <1>1
  <2>2. Kept(before, R) \in Store
    BY <1>2, KeptFiles
  <2> QED  BY <1>2, <2>1, <2>2, WithNothing
<1> QED
  BY <1>1, <1>2, <1>3 DEF Phases, Between, During, Defining, Undefining, Saving

\* Each tree that is put is one file more of the document.
LEMMA PutPhases ==
    ASSUME TInv, Phases, NEW d \in todo, PutTree(d)
    PROVE  Phases'
<1> DEFINE k == Kept(before, NamesToRemove(doc))
           F == Forest(doc)
           D == DOMAIN Forest(doc)
<1>1. /\ pc = "put" /\ pc' = "put" /\ tree' = [tree EXCEPT ![d] = F[d]]
      /\ dirty' = dirty \cup {d} /\ todo' = todo \ {d}
      /\ UNCHANGED <<disk, aliases, talias, doc, before>>
  BY DEF PutTree, aug_put_xml, files, history
<1>2. /\ Tidy(before) /\ before \in Store /\ tree \in Store
      /\ (\A f \in Names \ dirty : tree[f] = before[f])
      /\ disk = before /\ Aliased(before, aliases) /\ Aliased(before, talias)
      /\ tree = With(k, F, D \ todo) /\ todo \subseteq D /\ doc \in Docs
  BY <1>1 DEF Phases, During, Defining, TInv, TypeOK, Calls
<1>3. d \in Names /\ k \in Store
  BY <1>2, PutType, KeptFiles
<1> HIDE DEF k, F, D
<1>4. D \ todo' = (D \ todo) \cup {d}
  BY <1>1, <1>2
<1>5. tree' = With(k, F, D \ todo')
  <2>1. [With(k, F, D \ todo) EXCEPT ![d] = F[d]] = With(k, F, (D \ todo) \cup {d})
    BY <1>3, WithOne
  <2>2. tree' = [With(k, F, D \ todo) EXCEPT ![d] = F[d]]
    BY <1>1, <1>2, Zenon
  <2> QED  BY <1>4, <2>1, <2>2, Zenon
<1>6. \A f \in Names \ dirty' : tree'[f] = before[f]
  BY <1>1, <1>2 DEF Store
<1> QED
  BY <1>1, <1>2, <1>5, <1>6
     DEF Phases, Between, During, Defining, Undefining, Saving, k, F, D

\* All trees put: the tree is what the define makes of the files.
LEMMA PutDonePhases ==
    ASSUME TInv, Phases, PutDone
    PROVE  Phases'
<1>1. /\ pc = "put" /\ pc' = "bond" /\ todo = {}
      /\ UNCHANGED <<disk, aliases, tree, talias, dirty, doc, before>>
  BY DEF PutDone, files, driver, history
<1>2. /\ Tidy(before)
      /\ (\A f \in Names \ dirty : tree[f] = before[f])
      /\ disk = before /\ Aliased(before, aliases) /\ Aliased(before, talias)
      /\ tree = With(Kept(before, NamesToRemove(doc)), Forest(doc), DOMAIN Forest(doc) \ todo)
  BY <1>1 DEF Phases, During, Defining
<1>3. tree = Defined(before, doc)
  BY <1>1, <1>2 DEF Defined
<1> QED
  BY <1>1, <1>2, <1>3 DEF Phases, Between, During, Defining, Undefining, Saving

\* With the aliases added, the tree is fit to be saved.
LEMMA AliasPhases ==
    ASSUME TInv, Phases, AliasBonds
    PROVE  Phases'
<1>1. /\ pc = "bond" /\ pc' = "save" /\ todo' = dirty'
      /\ talias' = talias \cup bond_setup(tree, device_name_from_xml(doc))
      /\ UNCHANGED <<disk, aliases, tree, dirty, doc, before>>
  BY DEF AliasBonds, StartSave, files, history
<1>2. /\ Tidy(before) /\ before \in Store /\ tree \in Store
      /\ (\A f \in Names \ dirty : tree[f] = before[f])
      /\ disk = before /\ Aliased(before, talias)
      /\ tree = Defined(before, doc) /\ doc \in Docs /\ doc # None
  BY <1>1, DocsAssumption DEF Phases, During, Defining, TInv, TypeOK, Calls
<1>3. Tidy(tree) /\ Aliased(tree, talias')
  BY <1>1, <1>2, DefinedTidy, DefinedAliases
<1>4. disk = With(tree, before, dirty)
  BY <1>2, WithUnchanged
<1> QED
  BY <1>1, <1>2, <1>3, <1>4 DEF Phases, Between, During, Defining, Undefining, Saving

\* The aliases that drv_undefine takes are not needed by what will be left.
LEMMA UnaliasPhases ==
    ASSUME TInv, Phases, UnaliasBonds
    PROVE  Phases'
<1>1. /\ pc = "unbond" /\ pc' = "rmone" /\ talias' = talias \ bond_setup(tree, nif)
      /\ UNCHANGED <<disk, aliases, tree, dirty, nif, before>>
  BY DEF UnaliasBonds, files, history
<1>2. /\ Tidy(before) /\ before \in Store
      /\ (\A f \in Names \ dirty : tree[f] = before[f])
      /\ disk = before /\ Aliased(before, aliases) /\ Aliased(before, talias)
      /\ tree = before /\ nif \in Names
  BY <1>1 DEF Phases, During, Undefining, TInv, TypeOK, Calls
<1>3. Aliased(Kept(before, {nif}), talias')
  BY <1>1, <1>2, UndefineAliases
<1> QED
  BY <1>1, <1>2, <1>3 DEF Phases, Between, During, Defining, Undefining, Saving

\* rm_interface of drv_undefine: the tree is fit to be saved.
LEMMA RemoveInterfacePhases ==
    ASSUME TInv, Phases, RemoveInterface
    PROVE  Phases'
<1>1. /\ pc = "rmone" /\ pc' = "save" /\ todo' = dirty' /\ tree' = rm_interface(tree, nif)
      /\ dirty' = dirty \cup {f \in Names : tree'[f] # tree[f]}
      /\ UNCHANGED <<disk, talias, doc, nif, before>>
  BY DEF RemoveInterface, StartSave, files, history
<1>2. /\ Tidy(before) /\ before \in Store
      /\ (\A f \in Names \ dirty : tree[f] = before[f])
      /\ disk = before /\ Aliased(Kept(before, {nif}), talias)
      /\ tree = before /\ nif \in Names /\ nif # None /\ doc = None
  BY <1>1 DEF Phases, During, Undefining, TInv, TypeOK, Calls
<1>3. tree' = Kept(before, {nif})
  <2>1. tree = Kept(before, {}) /\ {} \cup {nif} = {nif}
    BY <1>2, KeptAll
  <2> QED  BY <1>1, <1>2, <2>1, RemoveKept
<1>4. tree' \in Store /\ Tidy(tree')
  BY <1>2, <1>3, KeptFiles, KeptTidy
<1>5. \A f \in Names \ dirty' : tree'[f] = before[f]
  BY <1>1, <1>2
<1>6. disk = With(tree', before, dirty')
  BY <1>2, <1>4, <1>5, WithUnchanged
<1> QED
  BY <1>1, <1>2, <1>3, <1>4, <1>5, <1>6
     DEF Phases, Between, During, Defining, Undefining, Saving

\* aug_save: the files are the tree but for those still to be written.
LEMMA SaveFilePhases ==
    ASSUME TInv, Phases, NEW f \in todo, SaveFile(f), ~torn'
    PROVE  Phases'
<1>1. /\ pc = "save" /\ pc' = "save" /\ disk' = [disk EXCEPT ![f] = tree[f]] /\ todo' = todo \ {f}
      /\ UNCHANGED <<tree, talias, dirty, doc, nif, before>>
  BY DEF SaveFile, driver
<1>2. disk = With(tree, before, todo) /\ tree \in Store /\ f \in Names
  BY <1>1 DEF Phases, Saving, TInv, TypeOK, Calls
<1>3. disk' = With(tree, before, todo')
  <2>1. [With(tree, before, todo) EXCEPT ![f] = tree[f]] = With(tree, before, todo \ {f})
    BY <1>2, WithoutOne
  <2>2. disk' = [With(tree, before, todo) EXCEPT ![f] = tree[f]]
    BY <1>1, <1>2, Zenon
  <2> QED  BY <1>1, <2>1, <2>2, Zenon
<1> QED
  BY <1>1, <1>3 DEF Phases, Between, During, Defining, Undefining, Saving

\* After the last file the files are the tree.
LEMMA SaveDonePhases ==
    ASSUME TInv, Phases, SaveDone, ~torn'
    PROVE  Phases'
<1>1. pc = "save" /\ pc' = "idle" /\ disk' = disk /\ todo = {} /\ aliases' = talias
  BY DEF SaveDone, Return
<1>2. disk = tree /\ Tidy(tree) /\ Aliased(tree, talias)
  BY <1>1, WithNothing DEF Phases, Saving, TInv, TypeOK
<1> QED
  BY <1>1, <1>2 DEF Phases, Between, During, Defining, Undefining, Saving

\* A call that fails before the save leaves the files as they were.
LEMMA FailPhases ==
    ASSUME Phases, Fail
    PROVE  Phases'
<1>1. /\ pc \notin {"idle", "save"} /\ pc' = "idle"
      /\ disk' = disk /\ aliases' = aliases
  BY DEF Fail, Return, files
<1>2. Tidy(disk) /\ Aliased(disk, aliases)
  BY <1>1 DEF Phases, During
<1> QED
  BY <1>1, <1>2 DEF Phases, Between, During, Defining, Undefining, Saving

\* Other programs leave tidy files; during a call their change tears it.
LEMMA ForeignPhases ==
    ASSUME TInv, ~torn => Phases, ForeignChange, ~torn'
    PROVE  Phases'
<1>1. CASE disk' \in Stores /\ aliases' = aliases \cup {n \in Names : is_bond(disk', n)}
           /\ pc = "idle" /\ pc' = "idle"
  <2>1. disk' \in Store /\ Tidy(disk')
    BY <1>1, StoresAssumption
  <2>2. Aliased(disk', aliases')
    BY <1>1, <2>1, BondsAliased
  <2> QED
    BY <1>1, <2>1, <2>2 DEF Phases, Between, During, Defining, Undefining, Saving
<1>2. CASE UNCHANGED <<disk, aliases, torn, driver, pc, doc, nif, todo, before>>
  BY <1>2 DEF driver, Phases, Between, During, Defining, Undefining, Saving
<1> QED  BY <1>1, <1>2 DEF ForeignChange

\* Every step leads from one phase into one that it may lead into.
LEMMA RNext == RInv /\ [Next]_vars => RInv'
<1> SUFFICES ASSUME RInv, [Next]_vars, ~torn' PROVE TInv' /\ Phases'
  BY TNext DEF RInv
<1>1. TInv /\ TInv' /\ (~torn => Phases)
  BY TNext DEF RInv
<1>2. CASE ForeignChange
  BY <1>1, <1>2, ForeignPhases
<1>3. CASE UNCHANGED vars
  BY <1>1, <1>3 DEF vars, Phases, Between, During, Defining, Undefining, Saving
<1>4. CASE Call
  <2>1. ~torn
    BY <1>4 DEF Call, LookupByName, Define, Undefine, NoAugeas, history
  <2> QED  BY <1>1, <1>4, <2>1, IdlePhases, DefinePhases, UndefinePhases DEF Call
<1>5. CASE Step
  <2>1. ~torn
    BY <1>5 DEF Step, RemoveOne, PutTree, SaveFile, ApplyStylesheet, PutDone, AliasBonds,
                UnaliasBonds, RemoveInterface, SaveDone, Fail, history
  <2> QED
    BY <1>1, <1>5, <2>1, RemoveOnePhases, PutPhases, SaveFilePhases, ApplyPhases, PutDonePhases,
       AliasPhases, UnaliasPhases, RemoveInterfacePhases, SaveDonePhases, FailPhases DEF Step
<1> QED  BY <1>2, <1>3, <1>4, <1>5 DEF Next

\* The invariant holds always.
LEMMA RSpec == Spec => []RInv
<1>1. Init => RInv
  BY TInit, PInit DEF RInv
<1> QED  BY <1>1, RNext, PTL DEF Spec

-----------------------------------------------------------------------------
(***************************************************************************)
(* What the calls promise                                                  *)
(***************************************************************************)

\* Between calls the files that the driver leaves fit together: whatever was defined and
\* undefined before and wherever calls failed, a port's bridge and a slave's bond are
\* configured, and bond_setup of drv_define and drv_undefine has left every bond its alias.
THEOREM FilesFit == Spec => []Fit
<1>1. RInv => Fit
  <2> SUFFICES ASSUME RInv, pc = "idle", ~torn, NEW f \in FilesOf(disk)
               PROVE  /\ disk[f].BRIDGE # None => is_bridge(disk, disk[f].BRIDGE)
                      /\ disk[f].MASTER # None =>
                           /\ disk[f].MASTER \in Devices(disk) /\ ~is_bridge(disk, disk[f].MASTER)
                           /\ disk[f].MASTER \in aliases
    BY DEF Fit
  <2>1. Tidy(disk) /\ Aliased(disk, aliases)
    BY DEF RInv, Phases, Between
  <2> QED  BY <2>1 DEF Tidy, Aliased
<1> QED  BY RSpec, <1>1, PTL

\* Between calls list_interfaces lists, and lookup_by_name finds, exactly the devices that
\* are nobody's slave, each once and with a file of its own.
THEOREM ListsTop == Spec => []ListsTopLevel
<1>1. RInv => ListsTopLevel
  <2> SUFFICES ASSUME RInv, pc = "idle", ~torn PROVE ListsTopLevel
    BY DEF ListsTopLevel
  <2>1. Tidy(disk) /\ disk \in Store
    BY DEF RInv, Phases, Between, TInv, TypeOK
  <2> QED  BY <2>1, TidyLists DEF ListsTopLevel
<1> QED  BY RSpec, <1>1, PTL

\* A call that succeeds has the tree on disk in its last step.
LEMMA SuccessSaved ==
    ASSUME RInv, [Next]_vars, Succeeds
    PROVE  /\ disk' = tree /\ before \in Store /\ Tidy(before)
           /\ doc # None => doc \in Docs /\ tree = Defined(before, doc)
           /\ doc = None => nif \in Names /\ tree = Kept(before, {nif})
<1>1. TInv /\ Phases /\ pc = "save" /\ pc' = "idle"
  BY DEF RInv, Succeeds
<1>2. SaveDone
  BY <1>1 DEF Next, Call, Step, vars, LookupByName, Define, Undefine, NoAugeas, RemoveOne,
              PutTree, SaveFile, ApplyStylesheet, PutDone, AliasBonds, UnaliasBonds,
              RemoveInterface, Fail, ForeignChange
<1>3. todo = {} /\ disk' = disk
  BY <1>2 DEF SaveDone
<1>4. disk = With(tree, before, {}) /\ tree \in Store
  BY <1>1, <1>3 DEF Phases, Saving, TInv, TypeOK
<1>5. disk' = tree
  BY <1>3, <1>4, WithNothing
<1> QED
  BY <1>1, <1>5 DEF Phases, During, Saving, TInv, TypeOK

\* drv_undefine that succeeds removes the files of the interface and of everything under
\* it, however deep, and no other: rm_interface walks as far down as the entries lead up.
THEOREM UndefineRemoves == Spec => UndefineEffect
<1>1. ASSUME RInv, [Next]_vars, Succeeds, doc = None, NEW f \in Names
      PROVE  disk'[f] = IF before[f] # None /\ nif \notin Above(before, f)
                        THEN before[f] ELSE None
  <2>1. disk' = Kept(before, {nif}) /\ before \in Store /\ Tidy(before)
    BY <1>1, SuccessSaved
  <2>2. f \in FilesOf(before) => Above(before, f) = Up(before, f)
    BY <2>1, AboveIsUp
  <2>3. f \in FilesOf(before) <=> before[f] # None
    BY DEF FilesOf
  <2>4. disk'[f] = IF f \in FilesOf(before) /\ Up(before, f) \cap {nif} = {} THEN before[f] ELSE None
    BY <2>1 DEF Kept
  <2> QED  BY <2>2, <2>3, <2>4
<1>2. RInv /\ [Next]_vars =>
        [Succeeds /\ doc = None =>
           \A f \in Names : disk'[f] = IF before[f] # None /\ nif \notin Above(before, f)
                                       THEN before[f] ELSE None]_vars
  BY <1>1
<1> QED  BY RSpec, <1>2, PTL DEF Spec, UndefineEffect

\* drv_define that succeeds leaves the files of its document and, of the files that were
\* there when it was called, exactly those under none of the document's devices: no step
\* of the removal spoils a later one, and nothing of a failed call is left in the tree.
THEOREM DefineReplaces == Spec => DefineEffect
<1>1. ASSUME RInv, [Next]_vars, Succeeds, doc # None, NEW f \in Names
      PROVE  disk'[f] = IF f \in DOMAIN Forest(doc) THEN Forest(doc)[f]
                        ELSE IF before[f] # None
                                /\ Above(before, f) \cap DOMAIN Forest(doc) = {}
                             THEN before[f] ELSE None
  <2> DEFINE D == DOMAIN Forest(doc)
             s == Defined(before, doc)
  <2>1. disk' = s /\ before \in Store /\ Tidy(before) /\ doc \in Docs
    BY <1>1, SuccessSaved
  <2>2. /\ FilesOf(s) = D \cup {g \in FilesOf(before) : Up(before, g) \cap D = {}}
        /\ \A g \in D : s[g] = Forest(doc)[g]
        /\ \A g \in FilesOf(s) \ D : s[g] = before[g]
    BY <2>1, DefinedFiles
  <2>3. f \in FilesOf(before) => Above(before, f) = Up(before, f)
    BY <2>1, AboveIsUp
  <2>4. f \in FilesOf(before) <=> before[f] # None
    BY DEF FilesOf
  <2>5. f \notin FilesOf(s) => s[f] = None
    BY DEF FilesOf
  <2> HIDE DEF D, s
  <2>6. disk'[f] = IF f \in D THEN Forest(doc)[f]
                   ELSE IF before[f] # None /\ Above(before, f) \cap D = {}
                        THEN before[f] ELSE None
    BY <2>1, <2>2, <2>3, <2>4, <2>5
  <2> QED  BY <2>6 DEF D
<1>2. RInv /\ [Next]_vars =>
        [Succeeds /\ doc # None =>
           \A f \in Names :
              disk'[f] = IF f \in DOMAIN Forest(doc) THEN Forest(doc)[f]
                         ELSE IF before[f] # None
                                 /\ Above(before, f) \cap DOMAIN Forest(doc) = {}
                              THEN before[f] ELSE None]_vars
  BY <1>1
<1> QED  BY RSpec, <1>2, PTL DEF Spec, DefineEffect

\* drv_xml_desc after a drv_define that succeeds describes what was defined, no more and
\* no less, whatever other files the configuration has.
THEOREM DescribesWhatWasDefined == Spec => DescribesDefined
<1>1. RInv /\ [Next]_vars =>
        [Succeeds /\ doc # None =>
           aug_get_xml_for_nif(disk', device_name_from_xml(doc)) = Forest(doc)]_vars
  BY SuccessSaved, DefinedDescribes
<1> QED  BY RSpec, <1>1, PTL DEF Spec, DescribesDefined
=============================================================================
