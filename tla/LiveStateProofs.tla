-------------------------- MODULE LiveStateProofs --------------------------
(***************************************************************************)
(* Theorems about LiveState, for every set of links, names and addresses,  *)
(* every initial network and every number of changes and calls.            *)
(***************************************************************************)
EXTENDS LiveState, FiniteSetTheorems, SequenceTheorems, WellFoundedInduction, TLAPS

\* The kernel keeps its links well formed and gives out an index once.
KernelOK == WellFormed(net) /\ \A i \in LinksOf(net) : i < next

\* What a call has read, it read from a state of the kernel since the call began.
Read ==
    /\ pc # "idle" => root \in Names /\ <<net, addr>> \in was
    /\ pc \notin {"idle", "links"} => \E w \in was : w[1] = link_cache
    /\ pc \notin {"idle", "links", "addrs"} => \E w \in was : w[2] = addr_cache
    /\ IsFiniteSet(was)

\* The document grows while the call walks down, and only then.
Phases ==
    /\ pc \notin {"walk", "overflow"} => todo = {} /\ cur = None
    /\ pc \notin {"walk", "overflow", "done"} => doc = {}
    /\ pc # "done" => ips = {}

\* Each name of a path was a part of the one before it.
Chain(p) == \A k \in 2..Len(p) : \E w \in was : p[k] \in Parts(w[1], p[k - 1])

NodeOK(node) ==
    /\ node.path # <<>> /\ node.path[1] = root
    /\ node.id # 0 => link_cache[node.id] # None /\ link_cache[node.id].name = NameOf(node)
    /\ Chain(node.path)

\* n was of type t at a moment of the call.
WasType(n, t) == \E w \in was : TypeIn(w[1], n) = t

\* What an element says was so.
ElementOK(e) ==
    /\ e.path # <<>> /\ Chain(e.path)
    /\ WasType(NameOf(e), e.type)
    /\ e.mac # None => \E w \in was : e.mac \in Macs(w[1], NameOf(e))

\* What if_type has found out about the node that is being filled in: it is not of a type
\* that was looked for, or there was a moment at which it was none of them.
StatOK(n) ==
    /\ stat = "brif" => WasType(n, "bridge")
    /\ stat = "bridge" => WasType(n, "ethernet") \/ TypeIn(net, n) # "vlan"
    /\ stat = "bond" => WasType(n, "ethernet") \/ TypeIn(net, n) \notin {"vlan", "bridge"}

Walk ==
    /\ \A node \in todo : NodeOK(node)
    /\ cur # None => NodeOK(cur) /\ StatOK(NameOf(cur))
    /\ \A e \in doc : ElementOK(e)
    /\ \A a \in ips : \E i \in Ids, w, x \in was :
         w[1][i] # None /\ w[1][i].name = root /\ a \in x[2][i]
    /\ pc = "overflow" => \E node \in todo : Len(node.path) > Cardinality(Names)

LInv == TypeOK /\ KernelOK /\ Read /\ Phases /\ Walk

-----------------------------------------------------------------------------
(***************************************************************************)
(* The kernel                                                              *)
(***************************************************************************)
\* Where links and parts only go, no circle comes.
LEMMA FewerParts ==
  ASSUME NEW c, NEW d, Acyclic(c), LinksOf(d) \subseteq LinksOf(c),
         \A i \in LinksOf(d) : PartsOf(d, i) \subseteq PartsOf(c, i)
  PROVE  Acyclic(d)
<1> SUFFICES ASSUME NEW S \in SUBSET LinksOf(d), S # {}
             PROVE  \E i \in S : PartsOf(d, i) \cap S = {}
  BY DEF Acyclic
<1>1. PICK i \in S : PartsOf(c, i) \cap S = {}
  BY DEF Acyclic
<1> QED BY <1>1

\* A link that is there is a record.
LEMMA LinkType ==
  ASSUME NEW c \in [Ids -> Link \cup {None}]
  PROVE  /\ LinksOf(c) \subseteq Ids
         /\ \A i \in LinksOf(c) :
              /\ c[i] \in Link /\ c[i].name \in Names /\ c[i].type \in Types
              /\ c[i].master \in Ids \cup {None} /\ c[i].lower \in Ids \cup {None}
         /\ \A i \in Ids \ LinksOf(c) : c[i] = None
         /\ None \notin LinksOf(c)
  BY LiveNone DEF LinksOf, Link

\* From c to d no name passes from one link to another, and no link changes its type.
Evolves(c, d) ==
    \A j \in LinksOf(d) :
        \/ d[j].name \notin NamesOf(c)
        \/ j \in LinksOf(c) /\ c[j].name = d[j].name /\ c[j].type = d[j].type

\* A new link: it has no parts but the link below it, and is none itself.
LEMMA CreateKernel ==
  ASSUME TypeOK, KernelOK, NEW n \in Names, NEW t \in Types, NEW l \in Ids \cup {None},
         Create(n, t, l)
  PROVE  KernelOK' /\ Evolves(net, net') /\ next' \in Nat
<1> DEFINE x == [name |-> n, type |-> t, master |-> None, lower |-> l]
<1>1. /\ next \in Ids /\ next \notin LinksOf(net) /\ n \notin NamesOf(net) /\ next' = next + 1
      /\ net' = [net EXCEPT ![next] = x] /\ net \in [Ids -> Link \cup {None}] /\ x \in Link
  BY DEF Create, KernelOK, TypeOK, Link
<1>2. \/ t = "vlan" /\ l \in LinksOf(net)
      \/ t # "vlan" /\ l = None
  BY DEF Create
<1>3. /\ LinksOf(net') = LinksOf(net) \cup {next}
      /\ net'[next] = x /\ \A i \in LinksOf(net) : net'[i] = net[i]
  BY <1>1, LinkAssumption DEF LinksOf
<1>4. WellFormed(net)
  BY DEF KernelOK
<1>5. x.name = n /\ x.type = t /\ x.master = None /\ x.lower = l
  OBVIOUS
<1> HIDE DEF x
<1>6. net' \in [Ids -> Link \cup {None}]
  BY <1>1
<1>7. \A i, j \in LinksOf(net') : net'[i].name = net'[j].name => i = j
  BY <1>1, <1>3, <1>4, <1>5 DEF WellFormed, NamesOf
<1>8. ASSUME NEW i \in LinksOf(net')
      PROVE  /\ net'[i].master # None =>
                  net'[i].master \in LinksOf(net') /\ net'[net'[i].master].type \in {"bridge", "bond"}
             /\ net'[i].lower # None => net'[i].type = "vlan" /\ net'[i].lower \in LinksOf(net')
  <2>1. CASE i = next
    BY <1>2, <1>3, <1>5, <2>1
  <2>2. CASE i \in LinksOf(net)
    BY <1>3, <1>4, <2>2 DEF WellFormed
  <2> QED BY <1>3, <2>1, <2>2
<1>9. Acyclic(net')
  <2> SUFFICES ASSUME NEW S \in SUBSET LinksOf(net'), S # {}
               PROVE  \E i \in S : PartsOf(net', i) \cap S = {}
    BY DEF Acyclic
  <2>1. \A i \in LinksOf(net) : next \notin PartsOf(net', i)
    <3> SUFFICES ASSUME NEW i \in LinksOf(net), next \in PartsOf(net', i) PROVE FALSE
      OBVIOUS
    <3>1. net[i].lower # next /\ i # None
      BY <1>1, <1>4, LinkType, LiveNone DEF WellFormed
    <3> QED BY <1>3, <1>5, <3>1 DEF PartsOf
  <2>2. \A i \in LinksOf(net) : PartsOf(net', i) \subseteq PartsOf(net, i)
    BY <1>3, <2>1 DEF PartsOf
  <2>3. CASE S = {next}
    <3>1. next \notin PartsOf(net', next)
      BY <1>1, <1>2, <1>3, <1>5, LiveNone DEF PartsOf
    <3> QED BY <2>3, <3>1
  <2>4. CASE S \ {next} # {}
    <3>1. PICK i \in S \ {next} : PartsOf(net, i) \cap (S \ {next}) = {}
      BY <1>3, <1>4, <2>4 DEF WellFormed, Acyclic
    <3> QED BY <1>3, <2>1, <2>2, <3>1
  <2> QED BY <2>3, <2>4
<1>10. WellFormed(net')
  BY <1>6, <1>7, <1>8, <1>9 DEF WellFormed
<1>11. next' \in Nat /\ \A i \in LinksOf(net') : i < next'
  <2>1. next \in Nat /\ \A i \in LinksOf(net) : i \in Nat /\ i < next
    BY IdsAssumption, <1>1, LinkType DEF KernelOK, TypeOK
  <2>2. next + 1 \in Nat /\ \A i \in LinksOf(net) \cup {next} : i < next + 1
    BY <2>1
  <2> QED BY Zenon, <1>1, <1>3, <2>2
<1>12. Evolves(net, net')
  BY <1>1, <1>3, <1>5 DEF Evolves
<1>13. KernelOK'
  BY <1>10, <1>11 DEF KernelOK, WellFormed, Acyclic, LinksOf, PartsOf
<1> QED BY <1>11, <1>12, <1>13

\* A change that keeps every link where it was, or takes it away, and a link's type, its
\* master or none, and the link below it.
LEMMA Shrink ==
  ASSUME TypeOK, KernelOK, net' \in [Ids -> Link \cup {None}], next' = next,
         LinksOf(net') \subseteq LinksOf(net),
         \A i \in LinksOf(net') :
            /\ net'[i].type = net[i].type /\ net'[i].lower = net[i].lower
            /\ net'[i].master \in {net[i].master, None}
            /\ net'[i].master # None => net'[i].master \in LinksOf(net')
            /\ net'[i].lower # None => net'[i].lower \in LinksOf(net')
            /\ net'[i].name = net[i].name \/ net'[i].name \notin NamesOf(net),
         \A i, j \in LinksOf(net') : net'[i].name = net'[j].name => i = j
  PROVE  KernelOK' /\ Evolves(net, net') /\ next' \in Nat
<1>1. WellFormed(net) /\ next \in Nat
  BY DEF KernelOK, TypeOK
<1>2. None \notin LinksOf(net)
  BY <1>1, LinkType DEF WellFormed
<1>3. \A i \in LinksOf(net') : PartsOf(net', i) \subseteq PartsOf(net, i)
  BY <1>2 DEF PartsOf
<1>4. Acyclic(net')
  BY <1>1, <1>3, FewerParts DEF WellFormed
<1>5. ASSUME NEW i \in LinksOf(net')
      PROVE  /\ net'[i].master # None =>
                  net'[i].master \in LinksOf(net') /\ net'[net'[i].master].type \in {"bridge", "bond"}
             /\ net'[i].lower # None => net'[i].type = "vlan" /\ net'[i].lower \in LinksOf(net')
  BY <1>1 DEF WellFormed
<1>6. WellFormed(net')
  BY <1>4, <1>5 DEF WellFormed
<1>7. Evolves(net, net')
  BY DEF Evolves
<1>8. \A i \in LinksOf(net') : i < next'
  BY DEF KernelOK
<1>9. KernelOK'
  BY <1>6, <1>8 DEF KernelOK, WellFormed, Acyclic, LinksOf, PartsOf
<1> QED BY <1>1, <1>7, <1>9

\* A link goes with the VLANs above it.
LEMMA DeleteKernel ==
  ASSUME TypeOK, KernelOK, NEW i \in Ids, Delete(i)
  PROVE  KernelOK' /\ Evolves(net, net') /\ next' \in Nat
<1> DEFINE gone == WithVlans(net, i)
<1>1. /\ net' = [j \in Ids |-> IF j \in gone \/ net[j] = None THEN None
                              ELSE IF net[j].master \in gone THEN [net[j] EXCEPT !.master = None]
                              ELSE net[j]]
      /\ next' = next /\ i \in LinksOf(net)
  BY DEF Delete
<1>2. WellFormed(net) /\ net \in [Ids -> Link \cup {None}]
  BY DEF KernelOK, TypeOK
<1>3. \A j \in LinksOf(net) : net[j].lower \in gone => j \in gone
  BY Zenon DEF WithVlans
<1> HIDE DEF gone
<1>4. \A j \in LinksOf(net) : /\ [net[j] EXCEPT !.master = None] \in Link
                              /\ [net[j] EXCEPT !.master = None].name = net[j].name
                              /\ [net[j] EXCEPT !.master = None].type = net[j].type
                              /\ [net[j] EXCEPT !.master = None].lower = net[j].lower
                              /\ [net[j] EXCEPT !.master = None].master = None
  BY <1>2, LinkType DEF Link
<1>5. /\ LinksOf(net') = LinksOf(net) \ gone
      /\ \A j \in LinksOf(net') :
           net'[j] = IF net[j].master \in gone THEN [net[j] EXCEPT !.master = None] ELSE net[j]
  <2>1. LinksOf(net') \subseteq LinksOf(net) \ gone
    BY <1>1 DEF LinksOf
  <2>2. LinksOf(net) \ gone \subseteq LinksOf(net')
    BY <1>1, <1>2, <1>4, LinkType, LinkAssumption DEF LinksOf
  <2>3. \A j \in LinksOf(net) \ gone :
           net'[j] = IF net[j].master \in gone THEN [net[j] EXCEPT !.master = None] ELSE net[j]
    BY <1>1, <1>2, LinkType DEF LinksOf
  <2> QED BY <2>1, <2>2, <2>3
<1>6. net' \in [Ids -> Link \cup {None}]
  <2>1. \A j \in Ids : net'[j] \in Link \cup {None}
    BY <1>1, <1>2, <1>4 DEF LinksOf
  <2>2. net' = [j \in Ids |-> net'[j]]
    BY <1>1
  <2> QED BY <2>1, <2>2
<1>7. ASSUME NEW j \in LinksOf(net')
      PROVE  /\ net'[j].type = net[j].type /\ net'[j].lower = net[j].lower
             /\ net'[j].master \in {net[j].master, None}
             /\ net'[j].master # None => net'[j].master \in LinksOf(net')
             /\ net'[j].lower # None => net'[j].lower \in LinksOf(net')
             /\ net'[j].name = net[j].name
  <2>1. j \in LinksOf(net) /\ j \notin gone
    BY <1>5
  <2>2. /\ net[j].master # None => net[j].master \in LinksOf(net)
        /\ net[j].lower # None => net[j].lower \in LinksOf(net) /\ net[j].lower \notin gone
    BY <1>2, <1>3, <2>1 DEF WellFormed
  <2>3. CASE net[j].master \in gone
    <3>1. net'[j] = [net[j] EXCEPT !.master = None]
      BY <1>5, <2>3
    <3>2. /\ net'[j].type = net[j].type /\ net'[j].lower = net[j].lower
          /\ net'[j].master = None /\ net'[j].name = net[j].name
      BY <1>4, <2>1, <3>1
    <3> QED BY <1>5, <2>2, <3>2
  <2>4. CASE net[j].master \notin gone
    <3>1. net'[j] = net[j]
      BY <1>5, <2>4
    <3> QED BY <1>5, <2>2, <2>4, <3>1
  <2> QED BY <2>3, <2>4
<1>8. \A j, k \in LinksOf(net') : net'[j].name = net'[k].name => j = k
  BY <1>2, <1>5, <1>7 DEF WellFormed
<1> QED BY <1>1, <1>5, <1>6, <1>7, <1>8, Shrink

\* A link gets a name that no link has.
LEMMA RenameKernel ==
  ASSUME TypeOK, KernelOK, NEW i \in Ids, NEW n \in Names, Rename(i, n)
  PROVE  KernelOK' /\ Evolves(net, net') /\ next' \in Nat
<1> DEFINE x == [net[i] EXCEPT !.name = n]
<1>1. /\ net' = [net EXCEPT ![i] = x] /\ next' = next /\ i \in LinksOf(net)
      /\ n \notin NamesOf(net) /\ net \in [Ids -> Link \cup {None}] /\ WellFormed(net)
  BY DEF Rename, TypeOK, KernelOK
<1>2. /\ x \in Link /\ x.name = n /\ x.type = net[i].type /\ x.lower = net[i].lower
      /\ x.master = net[i].master
  BY <1>1, LinkType DEF Link
<1> HIDE DEF x
<1>3. LinksOf(net') = LinksOf(net) /\ net'[i] = x /\ \A j \in LinksOf(net) \ {i} : net'[j] = net[j]
  BY <1>1, <1>2, LinkAssumption DEF LinksOf
<1>4. net' \in [Ids -> Link \cup {None}]
  BY <1>1, <1>2
<1>5. ASSUME NEW j \in LinksOf(net')
      PROVE  /\ net'[j].type = net[j].type /\ net'[j].lower = net[j].lower
             /\ net'[j].master \in {net[j].master, None}
             /\ net'[j].master # None => net'[j].master \in LinksOf(net')
             /\ net'[j].lower # None => net'[j].lower \in LinksOf(net')
             /\ net'[j].name = net[j].name \/ net'[j].name \notin NamesOf(net)
  <2>1. CASE j = i
    BY <1>1, <1>2, <1>3, <2>1 DEF WellFormed
  <2>2. CASE j # i
    BY <1>1, <1>3, <2>2 DEF WellFormed
  <2> QED BY <2>1, <2>2
<1>6. \A j \in LinksOf(net) : net[j].name # n
  BY <1>1 DEF NamesOf
<1>7. \A j, k \in LinksOf(net') : net'[j].name = net'[k].name => j = k
  BY <1>1, <1>2, <1>3, <1>6 DEF WellFormed
<1> QED BY <1>1, <1>3, <1>4, <1>5, <1>7, Shrink

\* A port is released.
LEMMA ReleaseKernel ==
  ASSUME TypeOK, KernelOK, NEW i \in Ids, Release(i)
  PROVE  KernelOK' /\ Evolves(net, net') /\ next' \in Nat
<1> DEFINE x == [net[i] EXCEPT !.master = None]
<1>1. /\ net' = [net EXCEPT ![i] = x] /\ next' = next /\ i \in LinksOf(net)
      /\ net \in [Ids -> Link \cup {None}] /\ WellFormed(net)
  BY DEF Release, TypeOK, KernelOK
<1>2. /\ x \in Link /\ x.name = net[i].name /\ x.type = net[i].type /\ x.lower = net[i].lower
      /\ x.master = None
  BY <1>1, LinkType DEF Link
<1> HIDE DEF x
<1>3. LinksOf(net') = LinksOf(net) /\ net'[i] = x /\ \A j \in LinksOf(net) \ {i} : net'[j] = net[j]
  BY <1>1, <1>2, LinkAssumption DEF LinksOf
<1>4. net' \in [Ids -> Link \cup {None}]
  BY <1>1, <1>2
<1>5. ASSUME NEW j \in LinksOf(net')
      PROVE  /\ net'[j].type = net[j].type /\ net'[j].lower = net[j].lower
             /\ net'[j].master \in {net[j].master, None}
             /\ net'[j].master # None => net'[j].master \in LinksOf(net')
             /\ net'[j].lower # None => net'[j].lower \in LinksOf(net')
             /\ net'[j].name = net[j].name
  <2>1. CASE j = i
    BY <1>1, <1>2, <1>3, <2>1 DEF WellFormed
  <2>2. CASE j # i
    BY <1>1, <1>3, <2>2 DEF WellFormed
  <2> QED BY <2>1, <2>2
<1>6. \A j \in LinksOf(net) : net'[j].name = net[j].name
  BY <1>3, <1>5
<1>7. \A j, k \in LinksOf(net') : net'[j].name = net'[k].name => j = k
  BY <1>1, <1>3, <1>6 DEF WellFormed
<1> QED BY <1>1, <1>3, <1>4, <1>5, <1>7, Shrink

\* A port is added, where that makes no circle.
LEMMA EnslaveKernel ==
  ASSUME TypeOK, KernelOK, NEW i \in Ids, NEW m \in Ids, Enslave(i, m)
  PROVE  KernelOK' /\ Evolves(net, net') /\ next' \in Nat
<1> DEFINE x == [net[i] EXCEPT !.master = m]
<1>1. /\ net' = [net EXCEPT ![i] = x] /\ next' = next /\ i \in LinksOf(net) /\ m \in LinksOf(net)
      /\ net \in [Ids -> Link \cup {None}] /\ WellFormed(net) /\ next \in Nat
      /\ net[m].type \in {"bridge", "bond"} /\ Acyclic(net')
  BY DEF Enslave, TypeOK, KernelOK
<1>2. /\ x \in Link /\ x.name = net[i].name /\ x.type = net[i].type /\ x.lower = net[i].lower
      /\ x.master = m
  BY <1>1, LinkType DEF Link
<1> HIDE DEF x
<1>3. LinksOf(net') = LinksOf(net) /\ net'[i] = x /\ \A j \in LinksOf(net) \ {i} : net'[j] = net[j]
  BY <1>1, <1>2, LinkAssumption DEF LinksOf
<1>4. net' \in [Ids -> Link \cup {None}]
  BY <1>1, <1>2
<1>5. \A j \in LinksOf(net) :
        /\ net'[j].name = net[j].name /\ net'[j].type = net[j].type
        /\ net'[j].lower = net[j].lower
        /\ net'[j].master = IF j = i THEN m ELSE net[j].master
  BY <1>2, <1>3
<1>6. ASSUME NEW j \in LinksOf(net')
      PROVE  /\ net'[j].master # None =>
                  net'[j].master \in LinksOf(net') /\ net'[net'[j].master].type \in {"bridge", "bond"}
             /\ net'[j].lower # None => net'[j].type = "vlan" /\ net'[j].lower \in LinksOf(net')
  BY <1>1, <1>3, <1>5 DEF WellFormed
<1>7. \A j, k \in LinksOf(net') : net'[j].name = net'[k].name => j = k
  BY <1>1, <1>3, <1>5 DEF WellFormed
<1>8. WellFormed(net')
  BY <1>1, <1>4, <1>6, <1>7 DEF WellFormed
<1>9. Evolves(net, net')
  BY <1>3, <1>5 DEF Evolves
<1>10. KernelOK'
  BY <1>1, <1>3, <1>8 DEF KernelOK, WellFormed, Acyclic, LinksOf, PartsOf
<1> QED BY <1>1, <1>9, <1>10

\* However the kernel changes, its links stay well formed.
LEMMA KernelStep ==
  ASSUME TypeOK, KernelOK, Kernel
  PROVE  /\ KernelOK' /\ Evolves(net, net') /\ next' \in Nat /\ addr' \in [Ids -> SUBSET Addrs]
         /\ MayChange /\ Change
<1>1. MayChange /\ Change
  BY DEF Kernel, Create, Delete, Rename, Enslave, Release, SetAddr
<1>2. CASE \E i \in Ids, a \in Addrs : SetAddr(i, a)
  <2>1. UNCHANGED <<net, next>> /\ addr' \in [Ids -> SUBSET Addrs]
    BY <1>2 DEF SetAddr, TypeOK
  <2>2. KernelOK'
    BY <2>1 DEF KernelOK, WellFormed, Acyclic, LinksOf, PartsOf
  <2>3. Evolves(net, net')
    BY <2>1 DEF Evolves
  <2> QED BY <1>1, <2>1, <2>2, <2>3 DEF TypeOK
<1>3. CASE \E i \in Ids : Delete(i)
  <2>1. PICK i \in Ids : Delete(i)
    BY <1>3
  <2>2. addr' \in [Ids -> SUBSET Addrs]
    BY <2>1 DEF Delete, TypeOK
  <2> QED BY <1>1, <2>1, <2>2, DeleteKernel
<1>4. CASE \E n \in Names, t \in Types, l \in Ids \cup {None} : Create(n, t, l)
  BY <1>1, <1>4, CreateKernel DEF Create, TypeOK
<1>5. CASE \E i \in Ids, n \in Names : Rename(i, n)
  BY <1>1, <1>5, RenameKernel DEF Rename, TypeOK
<1>6. CASE \E i, m \in Ids : Enslave(i, m)
  BY <1>1, <1>6, EnslaveKernel DEF Enslave, TypeOK
<1>7. CASE \E i \in Ids : Release(i)
  BY <1>1, <1>7, ReleaseKernel DEF Release, TypeOK
<1> QED BY <1>2, <1>3, <1>4, <1>5, <1>6, <1>7 DEF Kernel

-----------------------------------------------------------------------------
(***************************************************************************)
(* What if_type can find                                                   *)
(***************************************************************************)
\* A name that a link has is of the link's type, and of no other.
LEMMA TypeOfLink ==
  ASSUME NEW c, WellFormed(c), NEW i \in LinksOf(c), NEW n, c[i].name = n
  PROVE  TypeIn(c, n) = c[i].type /\ \A t : HasFile(c, n, t) <=> t = c[i].type
<1>1. c[i].type \in Types
  BY LinkType DEF WellFormed
<1>2. \A t : HasFile(c, n, t) <=> t = c[i].type
  BY DEF WellFormed, HasFile
<1>3. TypeIn(c, n) = CHOOSE t \in Types : HasFile(c, n, t)
  BY <1>1, <1>2 DEF TypeIn
<1>4. (CHOOSE t \in Types : HasFile(c, n, t)) \in {t \in Types : HasFile(c, n, t)}
  BY <1>1, <1>2
<1> QED BY <1>2, <1>3, <1>4

\* A name that no link has counts as Ethernet.
LEMMA TypeOfNone ==
  ASSUME NEW c, NEW n, n \notin NamesOf(c)
  PROVE  TypeIn(c, n) = "ethernet" /\ \A t : ~HasFile(c, n, t)
<1>1. \A t : ~HasFile(c, n, t)
  BY DEF HasFile, NamesOf
<1> QED BY <1>1 DEF TypeIn

\* What one look at a file says of the type.
LEMMA TypeFound ==
  ASSUME NEW c, WellFormed(c), NEW n, NEW t
  PROVE  /\ HasFile(c, n, t) => TypeIn(c, n) = t
         /\ ~HasFile(c, n, t) /\ t # "ethernet" => TypeIn(c, n) # t
<1>1. CASE n \in NamesOf(c)
  <2>1. PICK i \in LinksOf(c) : c[i].name = n
    BY <1>1 DEF NamesOf
  <2> QED BY <2>1, TypeOfLink
<1>2. CASE n \notin NamesOf(c)
  BY <1>2, TypeOfNone
<1> QED BY <1>1, <1>2

\* A name does not turn from one type into another without having been no link's.
LEMMA TypeEvolves ==
  ASSUME NEW c, NEW d, WellFormed(c), WellFormed(d), Evolves(c, d), NEW n
  PROVE  TypeIn(d, n) = TypeIn(c, n) \/ TypeIn(c, n) = "ethernet" \/ TypeIn(d, n) = "ethernet"
<1>1. CASE n \in NamesOf(c) /\ n \in NamesOf(d)
  <2>1. PICK j \in LinksOf(d) : d[j].name = n
    BY <1>1 DEF NamesOf
  <2>2. j \in LinksOf(c) /\ c[j].name = n /\ c[j].type = d[j].type
    BY <1>1, <2>1 DEF Evolves
  <2> QED BY <2>1, <2>2, TypeOfLink
<1>2. CASE n \notin NamesOf(c) \/ n \notin NamesOf(d)
  BY <1>2, TypeOfNone
<1> QED BY <1>1, <1>2

\* The index of a name in a cache.
LEMMA NameToIndex ==
  ASSUME NEW c \in [Ids -> Link \cup {None}], NEW n
  PROVE  /\ name2i(c, n) \in Ids \cup {0}
         /\ name2i(c, n) # 0 => c[name2i(c, n)] # None /\ c[name2i(c, n)].name = n
         /\ n \in NamesOf(c) => name2i(c, n) # 0
<1>1. CASE n \in NamesOf(c)
  <2>1. \E i \in LinksOf(c) : c[i].name = n
    BY <1>1 DEF NamesOf
  <2>2. name2i(c, n) = CHOOSE i \in LinksOf(c) : c[i].name = n
    BY <1>1 DEF name2i
  <2>3. name2i(c, n) \in LinksOf(c) /\ c[name2i(c, n)].name = n
    BY <2>1, <2>2
  <2> QED BY <2>3, IdsAssumption DEF LinksOf
<1>2. CASE n \notin NamesOf(c)
  BY <1>2 DEF name2i
<1> QED BY <1>1, <1>2

\* A path with one more name.
LEMMA LongerPath ==
  ASSUME NEW p \in Seq(Names), p # <<>>, NEW n \in Names
  PROVE  /\ Append(p, n) \in Seq(Names) /\ Append(p, n) # <<>>
         /\ Len(p) \in Nat \ {0} /\ Len(Append(p, n)) = Len(p) + 1
         /\ Append(p, n)[1] = p[1] /\ Append(p, n)[Len(p) + 1] = n
         /\ \A k \in 1..Len(p) : Append(p, n)[k] = p[k]
<1>1. Len(p) \in Nat \ {0}
  BY EmptySeq
<1>2. /\ Append(p, n) \in Seq(Names) /\ Append(p, n) # <<>> /\ Len(Append(p, n)) = Len(p) + 1
      /\ \A k \in 1..Len(p) : Append(p, n)[k] = p[k]
      /\ Append(p, n)[Len(p) + 1] = n
  BY AppendProperties
<1>3. 1 \in 1..Len(p)
  BY <1>1
<1> QED BY <1>1, <1>2, <1>3

-----------------------------------------------------------------------------
(***************************************************************************)
(* The call                                                                *)
(***************************************************************************)
\* What was so at a moment of the call stays so.
LEMMA MoreMoments ==
  ASSUME was \subseteq was', UNCHANGED <<root, link_cache>>
  PROVE  /\ \A node : NodeOK(node) => NodeOK(node)'
         /\ \A e : ElementOK(e) => ElementOK(e)'
         /\ \A n, t : WasType(n, t) => WasType(n, t)'
<1>1. \A p : Chain(p) => Chain(p)'
  BY DEF Chain
<1>2. \A n, t : WasType(n, t) => WasType(n, t)'
  BY DEF WasType
<1>3. \A node : NodeOK(node) => NodeOK(node)'
  BY <1>1 DEF NodeOK
<1>4. \A e : ElementOK(e) => ElementOK(e)'
  BY <1>1, <1>2 DEF ElementOK
<1> QED BY <1>2, <1>3, <1>4

\* Without a call there is no document.
LEMMA Empty ==
  ASSUME todo' = {}, cur' = None, doc' = {}, ips' = {}, pc' # "overflow"
  PROVE  Walk' /\ Phases'
  BY DEF Walk, Phases

\* The kernel changes, between two calls or during one.
LEMMA KernelInv ==
  ASSUME LInv, Kernel
  PROVE  LInv'
<1>1. TypeOK /\ KernelOK /\ Read /\ Phases /\ Walk
  BY DEF LInv
<1>2. /\ KernelOK' /\ Evolves(net, net') /\ next' \in Nat /\ addr' \in [Ids -> SUBSET Addrs]
      /\ MayChange /\ Change
  BY <1>1, KernelStep
<1>3. /\ UNCHANGED <<link_cache, addr_cache, pc, root, todo, cur, stat, doc, ips, calls>>
      /\ changes' = changes + 1 /\ changes < MaxChanges
      /\ was' = IF pc = "idle" THEN {} ELSE was \cup {<<net', addr'>>}
  BY <1>2 DEF Change, MayChange, query
<1>4. changes' \in 0..MaxChanges
  <2>1. changes + 1 \in 0..MaxChanges
    BY <1>1, <1>3, LiveBounds DEF TypeOK
  <2> QED BY <1>3, <2>1
<1>5. TypeOK'
  BY <1>1, <1>2, <1>3, <1>4 DEF TypeOK, KernelOK, WellFormed
<1>6. CASE pc = "idle"
  <2>1. Walk' /\ Phases'
    BY <1>1, <1>3, <1>6, Empty DEF Phases
  <2>2. Read'
    BY <1>3, <1>6, FS_EmptySet DEF Read
  <2> QED BY <1>2, <1>5, <2>1, <2>2 DEF LInv
<1>7. CASE pc # "idle"
  <2>1. was \subseteq was' /\ <<net', addr'>> \in was' /\ <<net, addr>> \in was
    BY <1>1, <1>3, <1>7 DEF Read
  <2>2. IsFiniteSet(was')
    BY <1>1, <1>3, <1>7, FS_AddElement DEF Read
  <2>3. Read'
    BY <1>1, <1>3, <1>7, <2>1, <2>2 DEF Read
  <2>4. Phases'
    BY <1>1, <1>3 DEF Phases
  <2>5. /\ \A node : NodeOK(node) => NodeOK(node)'
        /\ \A e : ElementOK(e) => ElementOK(e)'
        /\ \A n, t : WasType(n, t) => WasType(n, t)'
    BY <1>3, <2>1, MoreMoments
  <2>6. ASSUME NEW n, StatOK(n) PROVE StatOK(n)'
    <3>1. \/ TypeIn(net', n) = TypeIn(net, n) \/ TypeIn(net, n) = "ethernet"
          \/ TypeIn(net', n) = "ethernet"
      BY <1>1, <1>2, TypeEvolves DEF KernelOK, WellFormed, Acyclic, LinksOf, PartsOf
    <3>2. TypeIn(net, n) = "ethernet" => WasType(n, "ethernet")'
      BY <2>1 DEF WasType
    <3>3. TypeIn(net, n)' = TypeIn(net', n)
      BY DEF TypeIn, HasFile, LinksOf
    <3> QED BY <1>3, <2>5, <2>6, <3>1, <3>2, <3>3 DEF StatOK
  <2>7. \A a \in ips' : \E i \in Ids, w, x \in was' :
           w[1][i] # None /\ w[1][i].name = root' /\ a \in x[2][i]
    BY <1>1, <1>3, <2>1 DEF Walk
  <2>8. Walk'
    BY <1>1, <1>3, <2>5, <2>6, <2>7 DEF Walk
  <2> QED BY <1>2, <1>5, <2>3, <2>4, <2>8 DEF LInv
<1> QED BY <1>6, <1>7

\* A call begins, and a call ends.
LEMMA CallInv ==
  ASSUME LInv, (\E n \in Names : drv_xml_state(n)) \/ Deliver
  PROVE  LInv'
<1>1. TypeOK /\ KernelOK /\ Read
  BY DEF LInv
<1>2. CASE Deliver
  <2>1. /\ UNCHANGED <<net, addr, next, link_cache, addr_cache, changes, calls>> /\ Return
    BY <1>2 DEF Deliver, kernel
  <2>2. TypeOK'
    BY <1>1, <2>1 DEF Return, TypeOK
  <2>3. KernelOK'
    BY <1>1, <2>1 DEF KernelOK, WellFormed, Acyclic, LinksOf, PartsOf
  <2>4. Read'
    BY <2>1, FS_EmptySet DEF Return, Read
  <2>5. Walk' /\ Phases'
    BY <2>1, Empty DEF Return
  <2> QED BY <2>2, <2>3, <2>4, <2>5 DEF LInv
<1>3. ASSUME NEW n \in Names, drv_xml_state(n) PROVE LInv'
  <2>1. calls' \in 0..MaxCalls
    <3>1. calls < MaxCalls => calls + 1 \in 0..MaxCalls
      BY <1>1, LiveBounds DEF TypeOK
    <3> QED BY <1>3, <3>1 DEF drv_xml_state
  <2>2. TypeOK'
    BY <1>1, <1>3, <2>1 DEF drv_xml_state, kernel, TypeOK
  <2>3. KernelOK'
    BY <1>1, <1>3 DEF drv_xml_state, kernel, KernelOK, WellFormed, Acyclic, LinksOf, PartsOf
  <2>4. IsFiniteSet(was')
    BY <1>3, FS_Singleton DEF drv_xml_state
  <2>5. Read'
    BY <1>3, <2>4 DEF drv_xml_state, kernel, Read
  <2>6. Walk' /\ Phases'
    BY <1>3, Empty DEF drv_xml_state
  <2> QED BY <2>2, <2>3, <2>5, <2>6 DEF LInv
<1> QED BY <1>2, <1>3

\* The caches are refilled, or that fails and the call ends.
LEMMA RefillInv ==
  ASSUME LInv, refill_links \/ refill_addrs
  PROVE  LInv'
<1>1. TypeOK /\ KernelOK /\ Read /\ Phases
  BY DEF LInv
<1>2. UNCHANGED <<net, addr, next, changes, calls>>
  BY DEF refill_links, refill_addrs, kernel
<1>3. KernelOK'
  BY <1>1, <1>2 DEF KernelOK, WellFormed, Acyclic, LinksOf, PartsOf
<1>4. link_cache' \in [Ids -> Link \cup {None}] /\ addr_cache' \in [Ids -> SUBSET Addrs]
  BY <1>1 DEF refill_links, refill_addrs, TypeOK
<1>5. CASE Return
  <2>1. TypeOK'
    BY <1>1, <1>2, <1>4, <1>5 DEF Return, TypeOK
  <2>2. Read'
    BY <1>5, FS_EmptySet DEF Return, Read
  <2>3. Walk' /\ Phases'
    BY <1>5, Empty DEF Return
  <2> QED BY <1>3, <2>1, <2>2, <2>3 DEF LInv
<1>6. CASE UNCHANGED <<root, todo, cur, stat, doc, ips, was>>
  <2>1. (pc \in {"links", "addrs"} /\ pc' \in {"addrs", "start"}) \/ Return
    BY DEF refill_links, refill_addrs
  <2>2. CASE ~Return
    <3>1. TypeOK'
      BY <1>1, <1>2, <1>4, <1>6, <2>1, <2>2 DEF TypeOK
    <3>2. Read'
      <4>1. CASE refill_links
        <5>1. pc = "links" /\ pc' = "addrs" /\ link_cache' = net
          BY <2>2, <4>1 DEF refill_links
        <5> QED BY <1>1, <1>2, <1>6, <5>1 DEF Read
      <4>2. CASE refill_addrs
        <5>1. pc = "addrs" /\ pc' = "start" /\ addr_cache' = addr /\ link_cache' = link_cache
          BY <2>2, <4>2 DEF refill_addrs
        <5> QED BY <1>1, <1>2, <1>6, <5>1 DEF Read
      <4> QED BY <4>1, <4>2
    <3>3. Walk' /\ Phases'
      BY <1>1, <1>6, <2>1, <2>2, Empty DEF Phases
    <3> QED BY <1>3, <3>1, <3>2, <3>3 DEF LInv
  <2> QED BY <1>5, <2>2
<1> QED BY <1>5, <1>6 DEF refill_links, refill_addrs

\* What the steps of the walk leave alone.
Calm == UNCHANGED <<net, addr, next, link_cache, addr_cache, root, was, changes, calls>>

\* While the kernel and the caches stay, what was established about the walk stays.
LEMMA CalmInv ==
  ASSUME LInv, Calm
  PROVE  /\ KernelOK'
         /\ pc \notin {"idle", "links", "addrs"} /\ pc' # "idle" => Read'
         /\ \A node : NodeOK(node) => NodeOK(node)'
         /\ \A e : ElementOK(e) => ElementOK(e)'
         /\ \A n, t : WasType(n, t) => WasType(n, t)'
<1>1. KernelOK'
  BY DEF LInv, Calm, KernelOK, WellFormed, Acyclic, LinksOf, PartsOf
<1>2. pc \notin {"idle", "links", "addrs"} /\ pc' # "idle" => Read'
  BY DEF LInv, Calm, Read
<1> QED BY <1>1, <1>2, MoreMoments DEF Calm

\* The walk starts at the root.
LEMMA StartInv ==
  ASSUME LInv, add_state_to_xml_doc
  PROVE  LInv'
<1> DEFINE node == [path |-> <<root>>, id |-> name2i(link_cache, root)]
<1>1. TypeOK /\ KernelOK /\ Read /\ Phases
  BY DEF LInv
<1>2. /\ Calm /\ pc = "start" /\ pc' = "walk" /\ todo' = {node} /\ UNCHANGED <<cur, stat, doc, ips>>
      /\ cur = None /\ doc = {} /\ ips = {} /\ root \in Names
  BY <1>1 DEF add_state_to_xml_doc, Calm, kernel, Phases, Read
<1>3. KernelOK' /\ Read'
  BY <1>2, CalmInv
<1>4. /\ name2i(link_cache, root) \in Ids \cup {0}
      /\ name2i(link_cache, root) # 0 =>
           /\ link_cache[name2i(link_cache, root)] # None
           /\ link_cache[name2i(link_cache, root)].name = root
  BY <1>1, NameToIndex DEF TypeOK
<1>5. <<root>> \in Seq(Names) /\ Len(<<root>>) = 1 /\ <<root>>[1] = root /\ <<root>> # <<>>
  BY <1>2
<1>6. node \in Node /\ NameOf(node) = root
  BY <1>4, <1>5 DEF Node, NameOf
<1>7. TypeOK'
  BY <1>1, <1>2, <1>6 DEF TypeOK, Calm
<1>8. NodeOK(node)
  <2>1. Chain(<<root>>)
    BY <1>5 DEF Chain
  <2> QED BY <1>4, <1>5, <1>6, <2>1 DEF NodeOK
<1> HIDE DEF node
<1>9. NodeOK(node)'
  BY <1>2, <1>8 DEF NodeOK, Calm, Chain, node
<1>10. Walk' /\ Phases'
  <2>1. \A x \in todo' : NodeOK(x)'
    BY <1>2, <1>8, CalmInv
  <2> QED BY <1>2, <2>1 DEF Walk, Phases
<1> QED BY <1>3, <1>7, <1>10 DEF LInv

\* The next node, or the end of the stack.
LEMMA PickInv ==
  ASSUME LInv, add_type_specific_info
  PROVE  LInv'
<1>1. TypeOK /\ KernelOK /\ Read /\ Phases /\ Walk
  BY DEF LInv
<1>2. /\ Calm /\ pc = "walk" /\ cur = None /\ UNCHANGED <<doc, ips>> /\ stat' = "vlan"
  BY DEF add_type_specific_info, Calm, kernel
<1>3. PICK node \in todo :
        IF Len(node.path) > Cardinality(Names)
        THEN pc' = "overflow" /\ UNCHANGED <<todo, cur>>
        ELSE cur' = node /\ todo' = todo \ {node} /\ UNCHANGED pc
  BY DEF add_type_specific_info
<1>4. pc' \in {"walk", "overflow"} /\ todo' \subseteq todo /\ cur' \in {None, node}
  BY <1>2, <1>3
<1>5. /\ KernelOK' /\ Read'
      /\ \A x : NodeOK(x) => NodeOK(x)'
      /\ \A e : ElementOK(e) => ElementOK(e)'
  BY <1>2, <1>4, CalmInv
<1>6. TypeOK'
  BY <1>1, <1>2, <1>4 DEF TypeOK, Calm
<1>7. Phases'
  BY <1>1, <1>2, <1>4 DEF Phases
<1>8. pc' = "overflow" => \E x \in todo' : Len(x.path) > Cardinality(Names)
  BY <1>2, <1>3
<1>9. cur' # None => NodeOK(cur') /\ stat' = "vlan"
  BY <1>1, <1>2, <1>4 DEF Walk
<1>10. \A a \in ips' : \E i \in Ids, w, x \in was' :
           w[1][i] # None /\ w[1][i].name = root' /\ a \in x[2][i]
  BY <1>1, <1>2 DEF Walk, Calm
<1>11. cur' # None => NodeOK(cur)' /\ StatOK(NameOf(cur))'
  <2> SUFFICES ASSUME cur' # None PROVE NodeOK(cur)' /\ StatOK(NameOf(cur))'
    OBVIOUS
  <2>1. cur' = node /\ NodeOK(node)
    BY <1>1, <1>4 DEF Walk
  <2>2. NodeOK(cur)'
    BY <1>2, <2>1 DEF NodeOK, Chain, Calm
  <2>3. StatOK(NameOf(cur))'
    BY <1>2 DEF StatOK
  <2> QED BY <2>2, <2>3
<1>12. Walk'
  <2>1. (\A x \in todo' : NodeOK(x)') /\ (\A e \in doc' : ElementOK(e)')
    BY <1>1, <1>2, <1>4, <1>5 DEF Walk
  <2> QED BY <1>8, <1>10, <1>11, <2>1 DEF Walk
<1> QED BY <1>5, <1>6, <1>7, <1>12 DEF LInv

\* The addresses, at last.
LEMMA AddressInv ==
  ASSUME LInv, add_ip_info
  PROVE  LInv'
<1>1. TypeOK /\ KernelOK /\ Read /\ Phases /\ Walk
  BY DEF LInv
<1>2. /\ Calm /\ pc = "walk" /\ pc' = "done" /\ cur = None /\ todo = {} /\ UNCHANGED <<doc, todo, cur, stat>>
  BY DEF add_ip_info, Calm, kernel
<1>3. KernelOK' /\ Read' /\ \A e : ElementOK(e) => ElementOK(e)'
  BY <1>2, CalmInv
<1> DEFINE i == name2i(link_cache, root)
<1>4. ips' = IF i = 0 THEN {} ELSE addr_cache[i]
  BY DEF add_ip_info
<1>5. i \in Ids \cup {0} /\ (i # 0 => link_cache[i] # None /\ link_cache[i].name = root)
  BY <1>1, NameToIndex DEF TypeOK
<1> HIDE DEF i
<1>6. ips' \subseteq Addrs
  BY <1>1, <1>4, <1>5 DEF TypeOK
<1>7. TypeOK'
  BY <1>1, <1>2, <1>6 DEF TypeOK, Calm
<1>8. Phases'
  BY <1>2 DEF Phases
<1>9. PICK w \in was : w[1] = link_cache
  BY <1>1, <1>2 DEF Read
<1>10. PICK x \in was : x[2] = addr_cache
  BY <1>1, <1>2 DEF Read
<1>11. \A a \in ips' : i \in Ids /\ w[1][i] # None /\ w[1][i].name = root /\ a \in x[2][i]
  BY <1>4, <1>5, <1>9, <1>10
<1>12. Walk'
  <2>1. \A a \in ips' : \E j \in Ids, y, z \in was' :
           y[1][j] # None /\ y[1][j].name = root' /\ a \in z[2][j]
    BY <1>2, <1>11 DEF Calm
  <2> QED BY <1>1, <1>2, <1>3, <2>1 DEF Walk
<1> QED BY <1>3, <1>7, <1>8, <1>12 DEF LInv

\* An element is filled in and its parts wait.
LEMMA FillInv ==
  ASSUME LInv, pc = "walk", cur # None, NEW type \in Types, NEW mac \in Ids \cup {None},
         NEW parts, Fill(type, mac, parts),
         WasType(NameOf(cur), type),
         mac # None => \E w \in was : mac \in Macs(w[1], NameOf(cur)),
         \A p \in parts :
            /\ p[1] \in Names /\ p[2] \in Ids \cup {0}
            /\ p[2] # 0 => link_cache[p[2]] # None /\ link_cache[p[2]].name = p[1]
            /\ \E w \in was : p[1] \in Parts(w[1], NameOf(cur))
  PROVE  LInv'
<1>1. TypeOK /\ KernelOK /\ Read /\ Phases /\ Walk
  BY DEF LInv
<1> DEFINE e == [path |-> cur.path, type |-> type, mac |-> mac]
           new == {[path |-> Append(cur.path, p[1]), id |-> p[2]] : p \in parts}
<1>2. /\ Calm /\ pc' = pc /\ UNCHANGED ips /\ doc' = doc \cup {e} /\ todo' = todo \cup new
      /\ cur' = None
  BY DEF Fill, Calm, kernel
<1>3. /\ KernelOK' /\ Read'
      /\ \A x : NodeOK(x) => NodeOK(x)'
      /\ \A x : ElementOK(x) => ElementOK(x)'
  BY <1>2, CalmInv
<1>4. cur \in Node /\ cur.path \in Seq(Names) /\ NodeOK(cur)
  BY <1>1 DEF TypeOK, Node, Walk
<1>5. cur.path # <<>> /\ cur.path[1] = root /\ Chain(cur.path)
  BY <1>4 DEF NodeOK
<1>6. e \in Element /\ ElementOK(e)
  <2>1. e \in Element
    BY <1>4 DEF Element
  <2>2. NameOf(e) = NameOf(cur) /\ e.path = cur.path /\ e.type = type /\ e.mac = mac
    BY DEF NameOf
  <2> QED BY <1>5, <2>1, <2>2 DEF ElementOK
<1>7. ASSUME NEW x \in new PROVE x \in Node /\ NodeOK(x)
  <2>1. PICK p \in parts : x = [path |-> Append(cur.path, p[1]), id |-> p[2]]
    BY <1>7
  <2> DEFINE q == cur.path
  <2>2. /\ Append(q, p[1]) \in Seq(Names) /\ Append(q, p[1]) # <<>>
        /\ Len(q) \in Nat \ {0} /\ Len(Append(q, p[1])) = Len(q) + 1
        /\ Append(q, p[1])[1] = q[1] /\ Append(q, p[1])[Len(q) + 1] = p[1]
        /\ \A k \in 1..Len(q) : Append(q, p[1])[k] = q[k]
    BY <1>4, <1>5, LongerPath
  <2>3. x.path = Append(q, p[1]) /\ x.id = p[2] /\ NameOf(cur) = q[Len(q)]
    BY <2>1 DEF NameOf
  <2>4. x \in Node
    BY <2>1, <2>2 DEF Node
  <2>5. NameOf(x) = p[1]
    BY <2>2, <2>3 DEF NameOf
  <2> HIDE DEF q
  <2>6. Chain(x.path)
    <3> SUFFICES ASSUME NEW k \in 2..Len(q) + 1
                 PROVE  \E w \in was : x.path[k] \in Parts(w[1], x.path[k - 1])
      BY <2>2, <2>3 DEF Chain
    <3>0. Len(q) \in Nat
      BY <2>2
    <3>1. k - 1 \in 1..Len(q) /\ (k = Len(q) + 1 \/ (k \in 2..Len(q) /\ k \in 1..Len(q)))
      BY <3>0
    <3>2. x.path[k - 1] = q[k - 1]
      BY <2>2, <2>3, <3>1
    <3>3. CASE k = Len(q) + 1
      <4>1. x.path[k] = p[1] /\ k - 1 = Len(q)
        BY <2>2, <2>3, <3>3
      <4> QED BY <2>3, <3>2, <4>1
    <3>4. CASE k \in 2..Len(q) /\ k \in 1..Len(q)
      <4>1. x.path[k] = q[k]
        BY <2>2, <2>3, <3>4
      <4>2. \E w \in was : q[k] \in Parts(w[1], q[k - 1])
        BY <1>5, <3>4 DEF Chain, q
      <4> QED BY <3>2, <4>1, <4>2
    <3> QED BY <3>1, <3>3, <3>4
  <2> QED BY <1>5, <2>2, <2>3, <2>4, <2>5, <2>6 DEF NodeOK, q
<1> HIDE DEF e, new
<1>8. TypeOK'
  <2>1. todo' \subseteq Node /\ doc' \subseteq Element
    BY <1>1, <1>2, <1>6, <1>7 DEF TypeOK
  <2>2. stat' = "vlan"
    BY DEF Fill
  <2> QED BY <1>1, <1>2, <2>1, <2>2 DEF TypeOK, Calm
<1>9. Phases'
  BY <1>1, <1>2 DEF Phases
<1>10. Walk'
  <2>1. \A x \in todo' : NodeOK(x)'
    BY <1>1, <1>2, <1>3, <1>7 DEF Walk
  <2>2. \A x \in doc' : ElementOK(x)'
    BY <1>1, <1>2, <1>3, <1>6 DEF Walk
  <2>3. ips' = {}
    BY <1>1, <1>2 DEF Phases
  <2> QED BY <1>2, <2>1, <2>2, <2>3 DEF Walk
<1> QED BY <1>3, <1>8, <1>9, <1>10 DEF LInv
\* A part that is found in one state of the kernel was a part at a moment of the call.
LEMMA PartOf ==
  ASSUME NEW c, NEW i \in LinksOf(c), NEW j \in LinksOf(c), c[j].master = i \/ c[i].lower = j
  PROVE  c[j].name \in Parts(c, c[i].name)
  BY DEF Parts, PartsOf

\* The cached link of a node's index, at the moment at which the links were read.
LEMMA CachedLink ==
  ASSUME LInv, pc = "walk", cur # None
  PROVE  /\ cur.id \in Ids \cup {0} /\ link_cache \in [Ids -> Link \cup {None}]
         /\ cur.id # 0 => cur.id \in LinksOf(link_cache) /\ link_cache[cur.id].name = NameOf(cur)
         /\ \E w \in was : w[1] = link_cache
<1>1. TypeOK /\ Read /\ Walk
  BY DEF LInv
<1>2. cur \in Node /\ NodeOK(cur) /\ link_cache \in [Ids -> Link \cup {None}]
  BY <1>1 DEF TypeOK, Walk
<1>3. \E w \in was : w[1] = link_cache
  BY <1>1 DEF Read
<1>4. cur.id \in Ids \cup {0}
  BY <1>2 DEF Node
<1> QED BY <1>2, <1>3, <1>4 DEF NodeOK, LinksOf

\* The next file is looked at.
LEMMA NextStatInv ==
  ASSUME LInv, pc = "walk", cur # None, NEW s \in {"bridge", "brif", "bond"}, NextStat(s),
         s = "brif" => WasType(NameOf(cur), "bridge"),
         s = "bridge" => WasType(NameOf(cur), "ethernet") \/ TypeIn(net, NameOf(cur)) # "vlan",
         s = "bond" => \/ WasType(NameOf(cur), "ethernet")
                       \/ TypeIn(net, NameOf(cur)) \notin {"vlan", "bridge"}
  PROVE  LInv'
<1>1. TypeOK /\ KernelOK /\ Read /\ Phases /\ Walk
  BY DEF LInv
<1>2. Calm /\ UNCHANGED <<pc, todo, cur, doc, ips>> /\ stat' = s
  BY DEF NextStat, Calm, kernel
<1>3. /\ KernelOK' /\ Read'
      /\ \A x : NodeOK(x) => NodeOK(x)'
      /\ \A e : ElementOK(e) => ElementOK(e)'
  BY <1>2, CalmInv
<1>4. TypeOK'
  BY <1>1, <1>2 DEF TypeOK, Calm
<1>5. Phases'
  BY <1>1, <1>2 DEF Phases
<1>6. StatOK(NameOf(cur))'
  BY <1>2 DEF StatOK, WasType, TypeIn, HasFile, LinksOf, NameOf, Calm
<1>7. NodeOK(cur)'
  BY <1>1, <1>2 DEF Walk, NodeOK, NameOf, Chain, Calm
<1>8. \A a \in ips' : \E i \in Ids, w, x \in was' :
           w[1][i] # None /\ w[1][i].name = root' /\ a \in x[2][i]
  BY <1>1, <1>2 DEF Walk, Calm
<1>9. Walk'
  <2>1. (\A x \in todo' : NodeOK(x)') /\ (\A e \in doc' : ElementOK(e)')
    BY <1>1, <1>2, <1>3 DEF Walk
  <2> QED BY <1>1, <1>2, <1>6, <1>7, <1>8, <2>1 DEF Walk
<1> QED BY <1>3, <1>4, <1>5, <1>9 DEF LInv

\* The content of a VLAN: the link below it.
LEMMA VlanInv ==
  ASSUME LInv, pc = "walk", cur # None, WasType(NameOf(cur), "vlan"), add_vlan_info
  PROVE  LInv'
<1> DEFINE i == cur.id
           low == {j \in LinksOf(link_cache) :
                     i # 0 /\ link_cache[i].type = "vlan" /\ link_cache[i].lower = j}
           parts == {<<link_cache[j].name, j>> : j \in low}
<1>1. /\ i \in Ids \cup {0} /\ link_cache \in [Ids -> Link \cup {None}]
      /\ i # 0 => i \in LinksOf(link_cache) /\ link_cache[i].name = NameOf(cur)
      /\ \E w \in was : w[1] = link_cache
  BY CachedLink
<1>2. PICK w \in was : w[1] = link_cache
  BY <1>1
<1>3. ASSUME NEW p \in parts
      PROVE  /\ p[1] \in Names /\ p[2] \in Ids \cup {0}
             /\ p[2] # 0 => link_cache[p[2]] # None /\ link_cache[p[2]].name = p[1]
             /\ \E x \in was : p[1] \in Parts(x[1], NameOf(cur))
  <2>1. PICK j \in low : p = <<link_cache[j].name, j>>
    OBVIOUS
  <2>2. p[1] = link_cache[j].name /\ p[2] = j
    BY <2>1
  <2>3. j \in LinksOf(link_cache) /\ i # 0 /\ link_cache[i].lower = j
    OBVIOUS
  <2>4. link_cache[j].name \in Parts(link_cache, link_cache[i].name)
    BY <1>1, <2>3, PartOf
  <2>5. link_cache[j] # None /\ link_cache[j].name \in Names /\ j \in Ids
    BY <1>1, <2>3, LinkType DEF LinksOf
  <2> QED BY <1>1, <1>2, <2>2, <2>3, <2>4, <2>5
<1>4. Fill("vlan", None, parts)
  BY DEF add_vlan_info
<1> HIDE DEF parts
<1>5. "vlan" \in Types /\ None \in Ids \cup {None}
  BY DEF Types
<1> QED BY <1>3, <1>4, <1>5, FillInv

\* The content of a bond: its slaves.
LEMMA BondInv ==
  ASSUME LInv, pc = "walk", cur # None, WasType(NameOf(cur), "bond"), add_bond_info
  PROVE  LInv'
<1> DEFINE i == cur.id
           parts == {<<link_cache[j].name, j>> : j \in SlavesOf(link_cache, i)}
<1>1. /\ i \in Ids \cup {0} /\ link_cache \in [Ids -> Link \cup {None}]
      /\ i # 0 => i \in LinksOf(link_cache) /\ link_cache[i].name = NameOf(cur)
      /\ \E w \in was : w[1] = link_cache
  BY CachedLink
<1>2. PICK w \in was : w[1] = link_cache
  BY <1>1
<1>3. ASSUME NEW p \in parts
      PROVE  /\ p[1] \in Names /\ p[2] \in Ids \cup {0}
             /\ p[2] # 0 => link_cache[p[2]] # None /\ link_cache[p[2]].name = p[1]
             /\ \E x \in was : p[1] \in Parts(x[1], NameOf(cur))
  <2>1. PICK j \in SlavesOf(link_cache, i) : p = <<link_cache[j].name, j>>
    OBVIOUS
  <2>2. p[1] = link_cache[j].name /\ p[2] = j
    BY <2>1
  <2>3. j \in LinksOf(link_cache) /\ link_cache[j].master # None /\ link_cache[j].master = i
    BY DEF SlavesOf
  <2>4. link_cache[j] # None /\ link_cache[j].name \in Names /\ j \in Ids /\ i \in Ids
    BY <1>1, <2>3, LinkType DEF LinksOf
  <2>5. i # 0
    BY <2>4, IdsAssumption
  <2>6. link_cache[j].name \in Parts(link_cache, link_cache[i].name)
    BY <1>1, <2>3, <2>5, PartOf
  <2> QED BY <1>1, <1>2, <2>2, <2>4, <2>5, <2>6
<1>4. Fill("bond", None, parts)
  BY DEF add_bond_info
<1> HIDE DEF parts
<1>5. "bond" \in Types /\ None \in Ids \cup {None}
  BY DEF Types
<1> QED BY <1>3, <1>4, <1>5, FillInv

\* The content of a bridge: the ports that /sys has now.
LEMMA BridgeInv ==
  ASSUME LInv, pc = "walk", cur # None, WasType(NameOf(cur), "bridge"), add_bridge_info
  PROVE  LInv'
<1> DEFINE parts == {<<n, name2i(link_cache, n)>> : n \in brif(net, NameOf(cur))}
<1>1. /\ link_cache \in [Ids -> Link \cup {None}] /\ net \in [Ids -> Link \cup {None}]
      /\ WellFormed(net) /\ <<net, addr>> \in was
  BY DEF LInv, TypeOK, KernelOK, Read
<1>2. ASSUME NEW p \in parts
      PROVE  /\ p[1] \in Names /\ p[2] \in Ids \cup {0}
             /\ p[2] # 0 => link_cache[p[2]] # None /\ link_cache[p[2]].name = p[1]
             /\ \E x \in was : p[1] \in Parts(x[1], NameOf(cur))
  <2>1. PICK n \in brif(net, NameOf(cur)) : p = <<n, name2i(link_cache, n)>>
    OBVIOUS
  <2>2. PICK j \in LinksOf(net) : /\ net[j].master # None /\ net[net[j].master].name = NameOf(cur)
                                  /\ n = net[j].name
    BY DEF brif
  <2>3. net[j].master \in LinksOf(net) /\ n \in Names
    BY <1>1, <2>2, LinkType DEF WellFormed
  <2>4. n \in Parts(net, NameOf(cur))
    BY <2>2, <2>3, PartOf
  <2>5. /\ name2i(link_cache, n) \in Ids \cup {0}
        /\ name2i(link_cache, n) # 0 =>
             link_cache[name2i(link_cache, n)] # None /\ link_cache[name2i(link_cache, n)].name = n
    BY <1>1, NameToIndex
  <2>6. p[1] = n /\ p[2] = name2i(link_cache, n)
    BY <2>1
  <2>7. \E x \in was : n \in Parts(x[1], NameOf(cur))
    BY <1>1, <2>4
  <2> QED BY <2>3, <2>5, <2>6, <2>7
<1>3. Fill("bridge", None, parts)
  BY DEF add_bridge_info
<1> HIDE DEF parts
<1>4. "bridge" \in Types /\ None \in Ids \cup {None}
  BY DEF Types
<1> QED BY <1>2, <1>3, <1>4, FillInv

\* The content of an Ethernet interface: its hardware address.
LEMMA EthernetInv ==
  ASSUME LInv, pc = "walk", cur # None, WasType(NameOf(cur), "ethernet"), add_ethernet_info
  PROVE  LInv'
<1> DEFINE mac == IF cur.id = 0 \/ cur.id \in Zero THEN None ELSE cur.id
<1>1. /\ cur.id \in Ids \cup {0}
      /\ cur.id # 0 => cur.id \in LinksOf(link_cache) /\ link_cache[cur.id].name = NameOf(cur)
      /\ \E w \in was : w[1] = link_cache
  BY CachedLink
<1>2. mac \in Ids \cup {None}
  BY <1>1
<1>3. mac # None => mac = cur.id /\ cur.id # 0 /\ cur.id \notin Zero
  OBVIOUS
<1>4. Fill("ethernet", mac, {})
  BY DEF add_ethernet_info
<1> HIDE DEF mac
<1>5. mac # None => \E w \in was : mac \in Macs(w[1], NameOf(cur))
  BY <1>1, <1>3 DEF Macs
<1>6. "ethernet" \in Types
  BY DEF Types
<1> QED BY <1>2, <1>4, <1>5, <1>6, FillInv

\* The type of a node is looked up, and what follows from it.
LEMMA IfTypeInv ==
  ASSUME LInv, if_type
  PROVE  LInv'
<1> DEFINE n == NameOf(cur)
<1>1. pc = "walk" /\ cur # None
  BY DEF if_type
<1>2. WellFormed(net) /\ <<net, addr>> \in was /\ StatOK(n)
  BY <1>1 DEF LInv, KernelOK, Read, Walk
<1>3. \A t : TypeIn(net, n) = t => WasType(n, t)
  BY <1>2 DEF WasType
<1>4. TypeIn(net, n) \in Types
  <2>1. "ethernet" \in Types
    BY DEF Types
  <2> QED BY <2>1 DEF TypeIn
<1>5. /\ HasFile(net, n, stat) => TypeIn(net, n) = stat
      /\ ~HasFile(net, n, stat) /\ stat # "ethernet" => TypeIn(net, n) # stat
  BY <1>2, TypeFound
<1>6. CASE stat = "brif" /\ add_bridge_info
  BY <1>1, <1>2, <1>6, BridgeInv DEF StatOK
<1>7. CASE HasFile(net, n, stat) /\ stat = "vlan" /\ add_vlan_info
  BY <1>1, <1>3, <1>5, <1>7, VlanInv
<1>8. CASE HasFile(net, n, stat) /\ stat = "bridge" /\ NextStat("brif")
  <2>1. WasType(n, "bridge")
    BY <1>3, <1>5, <1>8
  <2> QED BY <1>1, <1>8, <2>1, NextStatInv
<1>9. CASE HasFile(net, n, stat) /\ stat = "bond" /\ add_bond_info
  BY <1>1, <1>3, <1>5, <1>9, BondInv
<1>10. CASE ~HasFile(net, n, stat) /\ stat = "vlan" /\ NextStat("bridge")
  <2>1. TypeIn(net, n) # "vlan"
    BY <1>5, <1>10
  <2> QED BY <1>1, <1>10, <2>1, NextStatInv
<1>11. CASE ~HasFile(net, n, stat) /\ stat = "bridge" /\ NextStat("bond")
  <2>1. TypeIn(net, n) # "bridge"
    BY <1>5, <1>11
  <2>2. WasType(n, "ethernet") \/ TypeIn(net, n) \notin {"vlan", "bridge"}
    BY <1>2, <1>11, <2>1 DEF StatOK
  <2> QED BY <1>1, <1>11, <2>2, NextStatInv
<1>12. CASE ~HasFile(net, n, stat) /\ stat = "bond" /\ add_ethernet_info
  <2>1. TypeIn(net, n) # "bond"
    BY <1>5, <1>12
  <2>2. WasType(n, "ethernet") \/ TypeIn(net, n) = "ethernet"
    BY <1>2, <1>4, <1>12, <2>1 DEF StatOK, Types
  <2> QED BY <1>1, <1>3, <1>12, <2>2, EthernetInv
<1> QED BY <1>6, <1>7, <1>8, <1>9, <1>10, <1>11, <1>12 DEF if_type

-----------------------------------------------------------------------------
(***************************************************************************)
(* The theorems                                                            *)
(***************************************************************************)
\* The invariant holds when the instance is opened.
LEMMA InitLInv == Init => LInv
<1> SUFFICES ASSUME Init PROVE LInv
  OBVIOUS
<1>1. WellFormed(net) /\ \A i \in LinksOf(net) : i <= Cardinality(LinksOf(net))
  BY NetsAssumption DEF Init
<1>2. Cardinality(LinksOf(net)) \in Nat
  <2>1. IsFiniteSet(LinksOf(net))
    BY IdsAssumption, FS_Subset DEF LinksOf
  <2> QED BY <2>1, FS_CardinalityType
<1>3. next \in Nat /\ \A i \in LinksOf(net) : i < next
  <2>1. \A i \in LinksOf(net) : i \in Nat
    BY IdsAssumption DEF LinksOf
  <2>2. next = 1 + Cardinality(LinksOf(net))
    BY DEF Init
  <2> QED BY <1>1, <1>2, <2>1, <2>2
<1>4. TypeOK
  <2>1. 0 \in 0..MaxChanges /\ 0 \in 0..MaxCalls
    BY LiveBounds
  <2>2. net \in [Ids -> Link \cup {None}] /\ addr \in [Ids -> SUBSET Addrs]
    BY <1>1 DEF Init, WellFormed
  <2> QED BY <1>3, <2>1, <2>2 DEF Init, TypeOK
<1>5. Read
  BY FS_EmptySet DEF Init, Read
<1>6. Phases /\ Walk
  BY DEF Init, Phases, Walk
<1> QED BY <1>1, <1>3, <1>4, <1>5, <1>6 DEF LInv, KernelOK

\* Every step keeps the invariant.
LEMMA NextLInv == LInv /\ [Next]_vars => LInv'
<1> SUFFICES ASSUME LInv, [Next]_vars PROVE LInv'
  OBVIOUS
<1>1. CASE UNCHANGED vars
  <2>1. /\ UNCHANGED <<net, addr, next, link_cache, addr_cache, pc, root, todo, cur, stat, doc,
                       ips, was, changes, calls>>
    BY <1>1 DEF vars, kernel, query
  <2>2. TypeOK' /\ Read' /\ Phases'
    BY <2>1 DEF LInv, TypeOK, Read, Phases
  <2>3. /\ KernelOK'
        /\ \A x : NodeOK(x) => NodeOK(x)'
        /\ \A e : ElementOK(e) => ElementOK(e)'
    BY <2>1, CalmInv DEF Calm
  <2>4. cur # None => NodeOK(cur)' /\ StatOK(NameOf(cur))'
    BY <2>1 DEF LInv, Walk, NodeOK, StatOK, NameOf, Chain, WasType, TypeIn, HasFile, LinksOf
  <2>5. Walk'
    BY <2>1, <2>3, <2>4 DEF LInv, Walk
  <2> QED BY <2>2, <2>3, <2>5 DEF LInv
<1> QED BY <1>1, KernelInv, CallInv, RefillInv, StartInv, PickInv, IfTypeInv, AddressInv
        DEF Next, Query

\* The values of the variables are what the module's comments say they are, whatever the
\* kernel does between two reads of a call.
THEOREM TypeCorrect == Spec => []TypeOK
<1>1. LInv => TypeOK
  BY DEF LInv
<1> QED BY <1>1, InitLInv, NextLInv, PTL DEF Spec

\* What add_state_to_xml_doc puts into the document was so at a moment of the call: the type
\* that if_type puts together from three reads, the index that came from the link cache, the
\* ports that /sys lists, and the addresses, however the kernel changes between the reads.
THEOREM DocumentFresh == Spec => []Fresh
<1>1. LInv => Fresh
  <2> SUFFICES ASSUME LInv, pc = "done" PROVE Fresh
    BY DEF Fresh
  <2>1. Walk /\ TypeOK
    BY DEF LInv
  <2>2. ASSUME NEW e \in doc
        PROVE  LET n == e.path[Len(e.path)]
               IN  /\ \E w \in was : TypeIn(w[1], n) = e.type
                   /\ e.mac # None => \E w \in was : e.mac \in Macs(w[1], n)
                   /\ Len(e.path) > 1 =>
                        \E w \in was : n \in Parts(w[1], e.path[Len(e.path) - 1])
    <3>1. ElementOK(e) /\ e \in Element
      BY <2>1 DEF Walk, TypeOK
    <3>2. Len(e.path) \in Nat
      BY <3>1 DEF Element
    <3>3. Len(e.path) > 1 => Len(e.path) \in 2..Len(e.path)
      BY <3>2
    <3> QED BY <3>1, <3>3 DEF ElementOK, Chain, WasType, NameOf
  <2>3. \A a \in ips : \E i \in Ids, w, x \in was :
           w[1][i] # None /\ w[1][i].name = root /\ a \in x[2][i]
    BY <2>1 DEF Walk
  <2> QED BY <2>2, <2>3 DEF Fresh
<1> QED BY <1>1, InitLInv, NextLInv, PTL DEF Spec
\* A call that saw one state of the kernel has seen the present one.
LEMMA OneMoment ==
  ASSUME LInv, pc # "idle", ~(Cardinality(was) > 1)
  PROVE  was = {<<net, addr>>}
<1>1. IsFiniteSet(was) /\ <<net, addr>> \in was
  BY DEF LInv, Read
<1>2. Cardinality(was) \in Nat /\ Cardinality({<<net, addr>>}) = 1 /\ {<<net, addr>>} \subseteq was
  BY <1>1, FS_CardinalityType, FS_Singleton
<1>3. Cardinality({<<net, addr>>}) <= Cardinality(was)
  BY <1>1, <1>2, FS_Subset
<1>4. Cardinality({<<net, addr>>}) = Cardinality(was)
  BY <1>2, <1>3
<1> QED BY <1>1, <1>2, <1>4, FS_Subset

\* A path that goes down from part to part has no name twice, because no link is made of itself.
LEMMA NoCircle ==
  ASSUME NEW c, WellFormed(c), NEW p \in Seq(Names),
         \A k \in 2..Len(p) : p[k] \in Parts(c, p[k - 1]),
         NEW a \in 1..Len(p), NEW b \in 1..Len(p), a < b
  PROVE  p[a] # p[b]
<1> SUFFICES ASSUME p[a] = p[b] PROVE FALSE
  OBVIOUS
<1>1. Len(p) \in Nat /\ a \in Nat /\ b \in Nat
  OBVIOUS
<1> DEFINE S == {i \in LinksOf(c) : \E k \in (a + 1)..b : c[i].name = p[k]}
<1>2. ASSUME NEW k \in 1..Len(p) - 1, NEW i \in LinksOf(c), c[i].name = p[k]
      PROVE  \E j \in PartsOf(c, i) : j \in LinksOf(c) /\ c[j].name = p[k + 1]
  <2>1. k + 1 \in 2..Len(p) /\ (k + 1) - 1 = k
    BY <1>1
  <2>2. p[k + 1] \in Parts(c, p[k])
    BY <2>1
  <2>3. PICK m \in LinksOf(c), j \in LinksOf(c) :
          j \in PartsOf(c, m) /\ c[m].name = p[k] /\ c[j].name = p[k + 1]
    BY <2>2 DEF Parts, PartsOf
  <2>4. m = i /\ j \in LinksOf(c)
    BY <1>2, <2>3 DEF WellFormed, PartsOf
  <2> QED BY <2>3, <2>4
<1>3. /\ a \in 1..Len(p) - 1 /\ a + 1 \in (a + 1)..b
      /\ \A k \in (a + 1)..b : k = b \/ (k \in 1..Len(p) - 1 /\ k + 1 \in (a + 1)..b)
  BY <1>1
<1>4. S # {}
  <2>1. a + 1 \in 2..Len(p) /\ (a + 1) - 1 = a
    BY <1>1
  <2>2. p[a + 1] \in Parts(c, p[a])
    BY <2>1
  <2>3. \E j \in LinksOf(c) : c[j].name = p[a + 1]
    BY <2>2 DEF Parts, PartsOf
  <2> QED BY <1>3, <2>3
<1>5. S \subseteq LinksOf(c)
  OBVIOUS
<1>6. PICK i \in S : PartsOf(c, i) \cap S = {}
  BY <1>4, <1>5 DEF WellFormed, Acyclic
<1>7. PICK k \in (a + 1)..b : c[i].name = p[k]
  OBVIOUS
<1>8. CASE k = b
  <2>1. c[i].name = p[a]
    BY <1>7, <1>8
  <2>2. \E j \in PartsOf(c, i) : j \in LinksOf(c) /\ c[j].name = p[a + 1]
    BY <1>2, <1>3, <1>5, <2>1
  <2> QED BY <1>3, <1>6, <2>2
<1>9. CASE k \in 1..Len(p) - 1 /\ k + 1 \in (a + 1)..b
  <2>1. \E j \in PartsOf(c, i) : j \in LinksOf(c) /\ c[j].name = p[k + 1]
    BY <1>2, <1>5, <1>7, <1>9
  <2> QED BY <1>6, <1>9, <2>1
<1> QED BY <1>3, <1>8, <1>9

\* So it is no longer than there are names.
LEMMA ShortPath ==
  ASSUME NEW c, WellFormed(c), NEW p \in Seq(Names),
         \A k \in 2..Len(p) : p[k] \in Parts(c, p[k - 1])
  PROVE  Len(p) <= Cardinality(Names)
<1>1. Len(p) \in Nat /\ p \in [1..Len(p) -> Names]
  BY LenProperties
<1>2. IsFiniteSet(1..Len(p)) /\ Cardinality(1..Len(p)) = Len(p)
  BY <1>1, FS_Interval
<1>3. Cardinality(Names) \in Nat
  BY NamesAssumption, FS_CardinalityType
<1> SUFFICES ASSUME Len(p) > Cardinality(Names) PROVE FALSE
  BY <1>1, <1>3
<1>4. PICK a \in 1..Len(p), b \in 1..Len(p) : a # b /\ p[a] = p[b]
  BY <1>1, <1>2, NamesAssumption, FS_PigeonHole
<1>5. a < b \/ b < a
  BY <1>1, <1>4
<1> QED BY <1>4, <1>5, NoCircle

\* The recursion of add_type_specific_info ends unless the kernel changed during the call.
THEOREM OnlyChangesOverflow == Spec => []OverflowNeedsChange
<1>1. LInv => OverflowNeedsChange
  <2> SUFFICES ASSUME LInv, pc = "overflow", ~(Cardinality(was) > 1) PROVE FALSE
    BY DEF OverflowNeedsChange
  <2>1. was = {<<net, addr>>}
    BY OneMoment
  <2>2. PICK node \in todo : Len(node.path) > Cardinality(Names)
    BY DEF LInv, Walk
  <2>3. Chain(node.path) /\ node.path \in Seq(Names) /\ WellFormed(net)
    BY DEF LInv, Walk, NodeOK, TypeOK, Node, KernelOK
  <2>4. \A k \in 2..Len(node.path) : node.path[k] \in Parts(net, node.path[k - 1])
    BY <2>1, <2>3 DEF Chain
  <2>5. Len(node.path) <= Cardinality(Names)
    BY <2>3, <2>4, ShortPath
  <2>6. Len(node.path) \in Nat /\ Cardinality(Names) \in Nat
    BY <2>3, NamesAssumption, FS_CardinalityType
  <2> QED BY <2>2, <2>5, <2>6
<1> QED BY <1>1, InitLInv, NextLInv, PTL DEF Spec
-----------------------------------------------------------------------------
(***************************************************************************)
(* A call during which the kernel did not change                           *)
(***************************************************************************)
Single == was = {<<net, addr>>}

\* The hardware address that the element of a name has.
MacOf(n) ==
    IF TypeIn(net, n) = "ethernet" /\ n \in NamesOf(net)
    THEN CHOOSE m \in Macs(net, n) : TRUE ELSE None

\* The nodes that are not filled in yet, and the paths that the walk has met.
Pending == todo \cup ({cur} \ {None})
Known == {x.path : x \in Pending} \cup {e.path : e \in doc}

\* The index of a node is that of its name; an element has the hardware address of its name;
\* the walk has met the root, and with an element it has met all of its parts.
Indexed == \A x \in Pending : x.id = name2i(net, NameOf(x))
Elements == \A e \in doc : e.mac = MacOf(NameOf(e)) /\ e.path[1] = root
Covered ==
    /\ pc \in {"walk", "done"} => <<root>> \in Known
    /\ \A e \in doc : \A n \in Parts(net, NameOf(e)) : Append(e.path, n) \in Known
RootAddrs == UNION {addr[i] : i \in {j \in LinksOf(net) : net[j].name = root}}
Full == Indexed /\ Elements /\ Covered /\ (pc = "done" => ips = RootAddrs)
FullInv == Single => Full

\* The caches are the kernel's state then.
LEMMA CachesExact ==
  ASSUME LInv, Single, pc \in {"start", "walk"}
  PROVE  link_cache = net /\ addr_cache = addr /\ WellFormed(net)
<1>1. WellFormed(net) /\ (\E w \in was : w[1] = link_cache) /\ (\E w \in was : w[2] = addr_cache)
  BY DEF LInv, KernelOK, Read
<1>2. \A w \in was : w[1] = net /\ w[2] = addr
  BY DEF Single
<1> QED BY <1>1, <1>2

\* A name has one index.
LEMMA UniqueIndex ==
  ASSUME NEW c, WellFormed(c), NEW i \in LinksOf(c)
  PROVE  name2i(c, c[i].name) = i /\ i # 0 /\ i # None
<1>1. c[i].name \in NamesOf(c) /\ c \in [Ids -> Link \cup {None}] /\ i \in Ids
  BY DEF NamesOf, WellFormed, LinksOf
<1>2. /\ name2i(c, c[i].name) # 0 /\ name2i(c, c[i].name) \in Ids \cup {0}
      /\ c[name2i(c, c[i].name)] # None /\ c[name2i(c, c[i].name)].name = c[i].name
  BY <1>1, NameToIndex
<1>3. name2i(c, c[i].name) \in LinksOf(c)
  BY <1>2 DEF LinksOf
<1>4. i # 0 /\ i # None
  BY <1>1, IdsAssumption, LiveNone
<1> QED BY <1>2, <1>3, <1>4 DEF WellFormed

\* The parts of a name are the parts of its link.
LEMMA PartsOfName ==
  ASSUME NEW c, WellFormed(c), NEW n
  PROVE  /\ n \notin NamesOf(c) => Parts(c, n) = {}
         /\ \A i \in LinksOf(c) : c[i].name = n =>
              \A m \in Parts(c, n) : \E j \in LinksOf(c) :
                 c[j].name = m /\ (c[j].master = i \/ c[i].lower = j)
<1>1. n \notin NamesOf(c) => Parts(c, n) = {}
  BY DEF Parts, NamesOf
<1>2. ASSUME NEW i \in LinksOf(c), c[i].name = n, NEW m \in Parts(c, n)
      PROVE  \E j \in LinksOf(c) : c[j].name = m /\ (c[j].master = i \/ c[i].lower = j)
  <2>1. PICK k \in LinksOf(c), j \in LinksOf(c) :
          c[k].name = n /\ j \in PartsOf(c, k) /\ c[j].name = m
    BY DEF Parts, PartsOf
  <2>2. k = i
    BY <1>2, <2>1 DEF WellFormed
  <2> QED BY <2>1, <2>2 DEF PartsOf
<1> QED BY <1>1, <1>2

\* What is said of the kernel's links stays so while they stay.
LEMMA NetSame ==
  ASSUME net' = net
  PROVE  \A n : /\ name2i(net, n)' = name2i(net, n) /\ MacOf(n)' = MacOf(n)
                /\ Parts(net, n)' = Parts(net, n)
<1>1. LinksOf(net)' = LinksOf(net) /\ NamesOf(net)' = NamesOf(net)
  BY DEF LinksOf, NamesOf
<1>2. \A n : name2i(net, n)' = name2i(net, n)
  BY <1>1 DEF name2i, LinksOf, NamesOf
<1>3. \A n : MacOf(n)' = MacOf(n)
  BY DEF MacOf, Macs, TypeIn, HasFile, LinksOf, NamesOf
<1>4. \A n : Parts(net, n)' = Parts(net, n)
  BY DEF Parts, PartsOf, LinksOf
<1> QED BY <1>2, <1>3, <1>4

\* A step that only looks.
LEMMA FullSame ==
  ASSUME Full, UNCHANGED <<net, addr, root, todo, cur, doc>>,
         pc' \notin {"walk", "done"} \/ (pc' = pc /\ ips' = ips)
  PROVE  Full'
<1>1. Pending' = Pending /\ Known' = Known
  BY DEF Pending, Known
<1>2. Indexed'
  BY <1>1, NetSame DEF Full, Indexed, NameOf
<1>3. Elements'
  BY NetSame DEF Full, Elements, NameOf
<1>4. Covered'
  BY <1>1, NetSame DEF Full, Covered, NameOf
<1>5. RootAddrs' = RootAddrs
  BY DEF RootAddrs, LinksOf
<1>6. pc' = "done" => ips' = RootAddrs'
  BY <1>5 DEF Full
<1> QED BY <1>2, <1>3, <1>4, <1>6 DEF Full

\* Nothing is in the document before the walk, so nothing is claimed of it.
LEMMA FullEarly ==
  ASSUME LInv', pc' \notin {"walk", "overflow", "done"}
  PROVE  Full'
<1>1. todo' = {} /\ cur' = None /\ doc' = {}
  BY DEF LInv, Phases
<1> QED BY <1>1 DEF Full, Indexed, Elements, Covered, Pending

\* When the kernel is after a change as it was, it has not changed.
LEMMA KernelFull ==
  ASSUME LInv, FullInv, Kernel, LInv'
  PROVE  FullInv'
<1> SUFFICES ASSUME Single' PROVE Full'
  BY DEF FullInv
<1>1. MayChange /\ Change
  BY KernelStep DEF LInv
<1>2. UNCHANGED <<pc, root, todo, cur, doc, ips>> /\ pc \notin {"done", "overflow"}
  BY <1>1 DEF MayChange, Change, query
<1>3. CASE pc = "idle"
  BY <1>2, <1>3, FullEarly
<1>4. CASE pc # "idle"
  <2>1. <<net, addr>> \in was /\ was' = was \cup {<<net', addr'>>} /\ was' = {<<net', addr'>>}
    BY <1>1, <1>4 DEF LInv, Read, Change, Single
  <2>2. <<net, addr>> = <<net', addr'>> /\ was = {<<net, addr>>}
    BY <2>1
  <2>3. net' = net /\ addr' = addr
    BY <2>2
  <2> QED BY <1>2, <2>2, <2>3, FullSame DEF FullInv, Single
<1> QED BY <1>3, <1>4

\* The walk starts at the root.
LEMMA StartFull ==
  ASSUME LInv, Single, add_state_to_xml_doc
  PROVE  Full'
<1>1. link_cache = net
  BY CachesExact DEF add_state_to_xml_doc
<1> DEFINE node == [path |-> <<root>>, id |-> name2i(net, root)]
<1>2. /\ UNCHANGED <<net, root>> /\ todo' = {node} /\ cur' = None /\ doc' = {} /\ pc' = "walk"
  BY <1>1 DEF LInv, Phases, add_state_to_xml_doc, kernel
<1>3. node.path = <<root>> /\ NameOf(node) = root /\ node.id = name2i(net, root)
  BY DEF NameOf
<1> HIDE DEF node
<1>4. Pending' = {node} /\ Known' = {<<root>>}
  BY <1>2, <1>3 DEF Pending, Known
<1>5. Indexed'
  BY <1>2, <1>3, <1>4, NetSame DEF Indexed, NameOf
<1>6. Elements' /\ Covered'
  BY <1>2, <1>4 DEF Elements, Covered
<1> QED BY <1>2, <1>5, <1>6 DEF Full

\* A node is taken from those that wait.
LEMMA PickFull ==
  ASSUME LInv, Full, add_type_specific_info
  PROVE  Full'
<1>1. PICK node \in todo :
        IF Len(node.path) > Cardinality(Names)
        THEN pc' = "overflow" /\ UNCHANGED <<todo, cur>>
        ELSE cur' = node /\ todo' = todo \ {node} /\ UNCHANGED pc
  BY DEF add_type_specific_info
<1>2. UNCHANGED <<net, addr, root, doc, ips>> /\ pc = "walk" /\ cur = None
  BY DEF add_type_specific_info, kernel
<1>3. CASE pc' = "overflow"
  <2>1. UNCHANGED <<todo, cur>>
    BY <1>1, <1>2, <1>3
  <2> QED BY <1>2, <1>3, <2>1, FullSame
<1>4. CASE pc' # "overflow"
  <2>1. cur' = node /\ todo' = todo \ {node} /\ pc' = pc /\ node # None
    BY <1>1, <1>4, LinkAssumption DEF LInv, TypeOK
  <2>2. Pending' = Pending
    BY <1>2, <2>1 DEF Pending
  <2>3. Known' = Known
    BY <1>2, <2>2 DEF Known
  <2>4. Indexed'
    BY <1>2, <2>2, NetSame DEF Full, Indexed, NameOf
  <2>5. Elements'
    BY <1>2, NetSame DEF Full, Elements, NameOf
  <2>6. Covered'
    BY <1>2, <2>1, <2>3, NetSame DEF Full, Covered, NameOf
  <2> QED BY <1>2, <2>1, <2>4, <2>5, <2>6 DEF Full
<1> QED BY <1>3, <1>4

\* An element is filled in with its hardware address and all of its parts.
LEMMA FillFull ==
  ASSUME LInv, Full, pc = "walk", cur # None, NEW type, NEW mac, NEW parts,
         Fill(type, mac, parts), mac = MacOf(NameOf(cur)),
         \A p \in parts : p[1] \in Names /\ p[2] = name2i(net, p[1]),
         \A n \in Parts(net, NameOf(cur)) : \E p \in parts : p[1] = n
  PROVE  Full'
<1> DEFINE e == [path |-> cur.path, type |-> type, mac |-> mac]
           new == {[path |-> Append(cur.path, p[1]), id |-> p[2]] : p \in parts}
<1>1. /\ UNCHANGED <<net, addr, root, ips, pc>> /\ doc' = doc \cup {e} /\ todo' = todo \cup new
      /\ cur' = None
  BY DEF Fill, kernel
<1>2. /\ cur.path \in Seq(Names) /\ cur.path # <<>> /\ cur.path[1] = root
  BY DEF LInv, TypeOK, Node, Walk, NodeOK
<1>3. e.path = cur.path /\ NameOf(e) = NameOf(cur) /\ e.mac = mac
  BY DEF NameOf
<1>4. ASSUME NEW x \in new PROVE x.id = name2i(net, NameOf(x))
  <2>1. PICK p \in parts : x = [path |-> Append(cur.path, p[1]), id |-> p[2]]
    BY <1>4
  <2>2. x.path = Append(cur.path, p[1]) /\ x.id = p[2] /\ p[1] \in Names
    BY <2>1
  <2>3. /\ Len(Append(cur.path, p[1])) = Len(cur.path) + 1
        /\ Append(cur.path, p[1])[Len(cur.path) + 1] = p[1]
    BY <1>2, <2>2, LongerPath
  <2>4. NameOf(x) = p[1]
    BY <2>2, <2>3 DEF NameOf
  <2> QED BY <2>2, <2>4
<1>5. ASSUME NEW n \in Parts(net, NameOf(cur)) PROVE \E x \in new : x.path = Append(cur.path, n)
  <2>1. PICK p \in parts : p[1] = n
    OBVIOUS
  <2>2. [path |-> Append(cur.path, p[1]), id |-> p[2]] \in new
    OBVIOUS
  <2> QED BY <2>1, <2>2
<1> HIDE DEF e, new
<1>6. Pending' = todo \cup new /\ Pending = todo \cup {cur}
  BY <1>1 DEF Pending
<1>7. Known \subseteq Known' /\ \A x \in new : x.path \in Known'
  BY <1>1, <1>3, <1>6 DEF Known
<1>8. Indexed'
  BY <1>1, <1>4, <1>6, NetSame DEF Full, Indexed, NameOf
<1>9. Elements'
  BY <1>1, <1>2, <1>3, NetSame DEF Full, Elements, NameOf
<1>10. ASSUME NEW d \in doc', NEW n \in Parts(net, NameOf(d)) PROVE Append(d.path, n) \in Known'
  <2>1. CASE d = e
    BY <1>3, <1>5, <1>7, <2>1
  <2>2. CASE d \in doc
    BY <1>7, <2>2 DEF Full, Covered
  <2> QED BY <1>1, <2>1, <2>2
<1>11. Covered'
  <2>1. pc' \in {"walk", "done"} => <<root>> \in Known'
    BY <1>1, <1>7 DEF Full, Covered
  <2> QED BY <1>1, <1>10, <2>1, NetSame DEF Covered, NameOf
<1> QED BY <1>1, <1>8, <1>9, <1>11 DEF Full
\* The link of a node, when its name has a type other than Ethernet.
LEMMA LinkOfNode ==
  ASSUME LInv, Single, Full, pc = "walk", cur # None, TypeIn(net, NameOf(cur)) # "ethernet"
  PROVE  /\ cur.id \in LinksOf(net) /\ net[cur.id].name = NameOf(cur)
         /\ net[cur.id].type = TypeIn(net, NameOf(cur)) /\ cur.id # 0 /\ cur.id # None
         /\ MacOf(NameOf(cur)) = None /\ link_cache = net /\ WellFormed(net)
<1>1. link_cache = net /\ WellFormed(net)
  BY CachesExact
<1>2. NameOf(cur) \in NamesOf(net)
  BY TypeOfNone
<1>3. PICK i \in LinksOf(net) : net[i].name = NameOf(cur)
  BY <1>2 DEF NamesOf
<1>4. cur.id = name2i(net, NameOf(cur))
  BY DEF Full, Indexed, Pending
<1>5. cur.id = i /\ i # 0 /\ i # None
  BY <1>1, <1>3, <1>4, UniqueIndex
<1>6. net[i].type = TypeIn(net, NameOf(cur))
  BY <1>1, <1>3, TypeOfLink
<1>7. MacOf(NameOf(cur)) = None
  BY DEF MacOf
<1> QED BY <1>1, <1>3, <1>5, <1>6, <1>7

\* A VLAN has one part, the link below it.
LEMMA VlanFull ==
  ASSUME LInv, Single, Full, pc = "walk", cur # None, TypeIn(net, NameOf(cur)) = "vlan",
         add_vlan_info
  PROVE  Full'
<1> DEFINE i == cur.id
           low == {j \in LinksOf(net) : i # 0 /\ net[i].type = "vlan" /\ net[i].lower = j}
           parts == {<<net[j].name, j>> : j \in low}
<1>1. /\ i \in LinksOf(net) /\ net[i].name = NameOf(cur) /\ net[i].type = "vlan"
      /\ i # 0 /\ i # None
      /\ MacOf(NameOf(cur)) = None /\ link_cache = net /\ WellFormed(net)
  BY LinkOfNode
<1>2. Fill("vlan", None, parts)
  BY <1>1 DEF add_vlan_info
<1>3. ASSUME NEW p \in parts PROVE p[1] \in Names /\ p[2] = name2i(net, p[1])
  <2>1. PICK j \in low : p = <<net[j].name, j>>
    OBVIOUS
  <2>2. net[j].name \in Names
    BY <1>1, LinkType DEF WellFormed
  <2>3. name2i(net, net[j].name) = j
    BY <1>1, UniqueIndex
  <2> QED BY <2>1, <2>2, <2>3
<1>4. ASSUME NEW n \in Parts(net, NameOf(cur)) PROVE \E p \in parts : p[1] = n
  <2>1. PICK j \in LinksOf(net) : net[j].name = n /\ (net[j].master = i \/ net[i].lower = j)
    BY <1>1, PartsOfName
  <2>2. net[j].master # i
    BY <1>1 DEF WellFormed
  <2>3. <<net[j].name, j>> \in parts
    BY <1>1, <2>1, <2>2
  <2> QED BY <2>1, <2>3
<1> HIDE DEF parts, i
<1> QED BY <1>1, <1>2, <1>3, <1>4, FillFull

\* A bond has its slaves as parts.
LEMMA BondFull ==
  ASSUME LInv, Single, Full, pc = "walk", cur # None, TypeIn(net, NameOf(cur)) = "bond",
         add_bond_info
  PROVE  Full'
<1> DEFINE i == cur.id
           parts == {<<net[j].name, j>> : j \in SlavesOf(net, i)}
<1>1. /\ i \in LinksOf(net) /\ net[i].name = NameOf(cur) /\ net[i].type = "bond"
      /\ i # 0 /\ i # None
      /\ MacOf(NameOf(cur)) = None /\ link_cache = net /\ WellFormed(net)
  BY LinkOfNode
<1>2. Fill("bond", None, parts)
  BY <1>1 DEF add_bond_info
<1>3. ASSUME NEW p \in parts PROVE p[1] \in Names /\ p[2] = name2i(net, p[1])
  <2>1. PICK j \in SlavesOf(net, i) : p = <<net[j].name, j>>
    OBVIOUS
  <2>2. j \in LinksOf(net)
    BY DEF SlavesOf
  <2>3. net[j].name \in Names
    BY <1>1, <2>2, LinkType DEF WellFormed
  <2>4. name2i(net, net[j].name) = j
    BY <1>1, <2>2, UniqueIndex
  <2> QED BY <2>1, <2>3, <2>4
<1>4. ASSUME NEW n \in Parts(net, NameOf(cur)) PROVE \E p \in parts : p[1] = n
  <2>1. PICK j \in LinksOf(net) : net[j].name = n /\ (net[j].master = i \/ net[i].lower = j)
    BY <1>1, PartsOfName
  <2>2. net[i].lower # j
    BY <1>1, <2>1, LinkType DEF WellFormed
  <2>3. net[i] # None
    BY <1>1 DEF LinksOf
  <2>4. j \in SlavesOf(net, i)
    BY <1>1, <2>1, <2>2, <2>3 DEF SlavesOf
  <2>5. <<net[j].name, j>> \in parts
    BY <2>4
  <2> QED BY <2>1, <2>5
<1> HIDE DEF parts, i
<1> QED BY <1>1, <1>2, <1>3, <1>4, FillFull

\* A bridge has the ports that /sys lists as parts.
LEMMA BridgeFull ==
  ASSUME LInv, Single, Full, pc = "walk", cur # None, TypeIn(net, NameOf(cur)) = "bridge",
         add_bridge_info
  PROVE  Full'
<1> DEFINE i == cur.id
           parts == {<<n, name2i(net, n)>> : n \in brif(net, NameOf(cur))}
<1>1. /\ i \in LinksOf(net) /\ net[i].name = NameOf(cur) /\ net[i].type = "bridge"
      /\ i # 0 /\ i # None
      /\ MacOf(NameOf(cur)) = None /\ link_cache = net /\ WellFormed(net)
  BY LinkOfNode
<1>2. Fill("bridge", None, parts)
  BY <1>1 DEF add_bridge_info
<1>3. ASSUME NEW p \in parts PROVE p[1] \in Names /\ p[2] = name2i(net, p[1])
  <2>1. PICK n \in brif(net, NameOf(cur)) : p = <<n, name2i(net, n)>>
    OBVIOUS
  <2>2. PICK j \in LinksOf(net) : n = net[j].name
    BY DEF brif
  <2>3. n \in Names
    BY <1>1, <2>2, LinkType DEF WellFormed
  <2> QED BY <2>1, <2>3
<1>4. ASSUME NEW n \in Parts(net, NameOf(cur)) PROVE \E p \in parts : p[1] = n
  <2>1. PICK j \in LinksOf(net) : net[j].name = n /\ (net[j].master = i \/ net[i].lower = j)
    BY <1>1, PartsOfName
  <2>2. net[i].lower # j
    BY <1>1, <2>1, LinkType DEF WellFormed
  <2>3. n \in brif(net, NameOf(cur))
    BY <1>1, <2>1, <2>2 DEF brif
  <2>4. <<n, name2i(net, n)>> \in parts
    BY <2>3
  <2> QED BY <2>4
<1> HIDE DEF parts, i
<1> QED BY <1>1, <1>2, <1>3, <1>4, FillFull

\* An Ethernet interface has a hardware address and no parts.
LEMMA EthernetFull ==
  ASSUME LInv, Single, Full, pc = "walk", cur # None, TypeIn(net, NameOf(cur)) = "ethernet",
         add_ethernet_info
  PROVE  Full'
<1> DEFINE n == NameOf(cur)
           mac == IF cur.id = 0 \/ cur.id \in Zero THEN None ELSE cur.id
<1>1. WellFormed(net)
  BY CachesExact
<1>2. cur.id = name2i(net, n)
  BY DEF Full, Indexed, Pending
<1>3. Fill("ethernet", mac, {})
  BY DEF add_ethernet_info
<1>4. CASE n \notin NamesOf(net)
  <2>1. Parts(net, n) = {}
    BY <1>1, <1>4, PartsOfName
  <2>2. mac = None /\ MacOf(n) = None
    BY <1>2, <1>4 DEF name2i, MacOf
  <2> HIDE DEF mac, n
  <2> QED BY <1>3, <2>1, <2>2, FillFull DEF n
<1>5. CASE n \in NamesOf(net)
  <2>1. PICK i \in LinksOf(net) : net[i].name = n
    BY <1>5 DEF NamesOf
  <2>2. cur.id = i /\ i # 0 /\ i # None /\ net[i].type = "ethernet"
    BY <1>1, <1>2, <2>1, UniqueIndex, TypeOfLink
  <2>3. Macs(net, n) = {mac}
    BY <1>1, <2>1, <2>2 DEF Macs, WellFormed
  <2>4. MacOf(n) = mac
    BY <1>5, <2>3 DEF MacOf
  <2>5. ASSUME NEW m \in Parts(net, n) PROVE FALSE
    <3>1. PICK j \in LinksOf(net) : net[j].master = i \/ net[i].lower = j
      BY <1>1, <2>1, PartsOfName
    <3>2. net[i].lower # j
      BY <1>1, <2>2, <3>1, LinkType DEF WellFormed
    <3>3. net[j].master # i
      BY <1>1, <2>2, <3>1 DEF WellFormed
    <3> QED BY <3>1, <3>2, <3>3
  <2> HIDE DEF mac, n
  <2> QED BY <1>3, <2>4, <2>5, FillFull DEF n
<1> QED BY <1>4, <1>5

\* The type that three reads find is the type.
LEMMA IfTypeFull ==
  ASSUME LInv, Single, Full, if_type
  PROVE  Full'
<1> DEFINE n == NameOf(cur)
<1>1. pc = "walk" /\ cur # None
  BY DEF if_type
<1>2. WellFormed(net) /\ StatOK(n)
  BY <1>1 DEF LInv, KernelOK, Walk
<1>3. \A t : WasType(n, t) <=> TypeIn(net, n) = t
  BY DEF WasType, Single
<1>4. TypeIn(net, n) \in Types
  <2>1. "ethernet" \in Types
    BY DEF Types
  <2> QED BY <2>1 DEF TypeIn
<1>5. /\ HasFile(net, n, stat) => TypeIn(net, n) = stat
      /\ ~HasFile(net, n, stat) /\ stat # "ethernet" => TypeIn(net, n) # stat
  BY <1>2, TypeFound
<1>6. CASE stat = "brif" /\ add_bridge_info
  BY <1>1, <1>2, <1>3, <1>6, BridgeFull DEF StatOK
<1>7. CASE HasFile(net, n, stat) /\ stat = "vlan" /\ add_vlan_info
  BY <1>1, <1>5, <1>7, VlanFull
<1>8. CASE HasFile(net, n, stat) /\ stat = "bond" /\ add_bond_info
  BY <1>1, <1>5, <1>8, BondFull
<1>9. CASE ~HasFile(net, n, stat) /\ stat = "bond" /\ add_ethernet_info
  <2>1. TypeIn(net, n) \notin {"vlan", "bridge", "bond"}
    BY <1>2, <1>3, <1>5, <1>9 DEF StatOK
  <2>2. TypeIn(net, n) = "ethernet"
    BY <1>4, <2>1 DEF Types
  <2> QED BY <1>1, <1>9, <2>2, EthernetFull
<1>10. CASE \E s \in {"brif", "bridge", "bond"} : NextStat(s)
  BY <1>10, FullSame DEF NextStat, kernel
<1> QED BY <1>6, <1>7, <1>8, <1>9, <1>10 DEF if_type

\* The addresses are those of the link of the root's name.
LEMMA AddressFull ==
  ASSUME LInv, Single, Full, add_ip_info
  PROVE  Full'
<1>1. /\ pc = "walk" /\ pc' = "done" /\ cur = None /\ todo = {}
      /\ UNCHANGED <<net, addr, root, doc, todo, cur>>
  BY DEF add_ip_info, kernel
<1>2. link_cache = net /\ addr_cache = addr /\ WellFormed(net)
  BY <1>1, CachesExact
<1> DEFINE i == name2i(net, root)
<1>3. ips' = IF i = 0 THEN {} ELSE addr[i]
  BY <1>2 DEF add_ip_info
<1>4. ips' = RootAddrs
  <2>1. CASE root \in NamesOf(net)
    <3>1. PICK j \in LinksOf(net) : net[j].name = root
      BY <2>1 DEF NamesOf
    <3>2. i = j /\ j # 0
      BY <1>2, <3>1, UniqueIndex
    <3>3. {k \in LinksOf(net) : net[k].name = root} = {j}
      BY <1>2, <3>1 DEF WellFormed
    <3>4. RootAddrs = addr[j]
      BY <3>3 DEF RootAddrs
    <3> QED BY <1>3, <3>2, <3>4
  <2>2. CASE root \notin NamesOf(net)
    <3>1. i = 0
      BY <2>2 DEF name2i
    <3>2. {k \in LinksOf(net) : net[k].name = root} = {}
      BY <2>2 DEF NamesOf
    <3> QED BY <1>3, <3>1, <3>2 DEF RootAddrs
  <2> QED BY <2>1, <2>2
<1>5. RootAddrs' = RootAddrs
  BY <1>1 DEF RootAddrs, LinksOf
<1>6. Pending' = Pending /\ Known' = Known
  BY <1>1 DEF Pending, Known
<1>7. Indexed'
  BY <1>1, <1>6, NetSame DEF Full, Indexed, NameOf
<1>8. Elements'
  BY <1>1, NetSame DEF Full, Elements, NameOf
<1>9. Covered'
  BY <1>1, <1>6, NetSame DEF Full, Covered, NameOf
<1> QED BY <1>4, <1>5, <1>7, <1>8, <1>9 DEF Full

\* Every step keeps what is said of a call that saw one state.
LEMMA NextFull ==
  ASSUME LInv, LInv', FullInv, [Next]_vars
  PROVE  FullInv'
<1>1. CASE Kernel
  BY <1>1, KernelFull
<1>2. CASE pc' \notin {"walk", "overflow", "done"}
  BY <1>2, FullEarly DEF FullInv
<1>3. CASE UNCHANGED vars
  <2>1. UNCHANGED <<net, addr, root, todo, cur, doc, pc, ips, was>>
    BY <1>3 DEF vars, kernel, query
  <2> QED BY <2>1, FullSame DEF FullInv, Single
<1>4. CASE add_state_to_xml_doc \/ add_type_specific_info \/ if_type \/ add_ip_info
  <2>1. UNCHANGED <<net, addr, was>>
    BY <1>4 DEF add_state_to_xml_doc, add_type_specific_info, if_type, add_ip_info, NextStat,
                add_bridge_info, add_vlan_info, add_bond_info, add_ethernet_info, Fill, kernel
  <2>2. Single' => Single
    BY <2>1 DEF Single
  <2> QED BY <1>4, <2>2, StartFull, PickFull, IfTypeFull, AddressFull DEF FullInv
<1>5. CASE (\E n \in Names : drv_xml_state(n)) \/ refill_links \/ refill_addrs \/ Deliver
  <2>1. pc' \notin {"walk", "overflow", "done"}
    BY <1>5 DEF drv_xml_state, refill_links, refill_addrs, Deliver, Return
  <2> QED BY <1>2, <2>1
<1> QED BY <1>1, <1>3, <1>4, <1>5 DEF Next, Query
\* A set of natural numbers that is not empty has a least element.
LEMMA Least ==
  ASSUME NEW T, T \subseteq Nat, T # {}
  PROVE  \E x \in T : \A y \in T : ~(y < x)
<1>1. PICK x \in T : \A y \in T : ~(<<y, x>> \in OpToRel(<, Nat))
  BY NatLessThanWellFounded, WFMin
<1> QED BY <1>1 DEF OpToRel

\* The path of an element is a path of the interface.
LEMMA OnlyPaths ==
  ASSUME LInv, Single, Full, NEW e \in doc
  PROVE  e.path \in Paths(net, root)
<1> DEFINE p == e.path
<1>1. ElementOK(e) /\ p \in Seq(Names) /\ WellFormed(net) /\ p[1] = root
  BY DEF LInv, Walk, TypeOK, Element, KernelOK, Full, Elements
<1>2. p # <<>> /\ \A k \in 2..Len(p) : p[k] \in Parts(net, p[k - 1])
  BY <1>1 DEF ElementOK, Chain, Single
<1> HIDE DEF p
<1>3. Len(p) <= Cardinality(Names)
  BY <1>1, <1>2, ShortPath
<1>4. Len(p) \in Nat \ {0} /\ Cardinality(Names) \in Nat
  BY <1>1, <1>2, EmptySeq, NamesAssumption, FS_CardinalityType
<1>5. Len(p) \in 1..Cardinality(Names)
  BY <1>3, <1>4
<1>6. p \in [1..Len(p) -> Names]
  BY <1>1, LenProperties
<1> QED BY <1>1, <1>2, <1>5, <1>6 DEF Paths, p

\* Every path of the interface has an element: the walk met the root, and after every name
\* of the path the next one.
LEMMA AllPaths ==
  ASSUME LInv, Single, Full, pc = "done", NEW p \in Paths(net, root)
  PROVE  \E e \in doc : e.path = p
<1>1. Known = {e.path : e \in doc} /\ <<root>> \in Known
  BY DEF LInv, Phases, Full, Covered, Known, Pending
<1>2. PICK l \in 1..Cardinality(Names) : p \in [1..l -> Names]
  BY DEF Paths
<1>3. l \in Nat \ {0}
  BY NamesAssumption, FS_CardinalityType
<1>4. p \in Seq(Names) /\ Len(p) = l
  BY <1>2, <1>3
<1>5. p[1] = root /\ \A k \in 2..l : p[k] \in Parts(net, p[k - 1])
  BY <1>4 DEF Paths
<1>6. \A k \in 1..l : /\ SubSeq(p, 1, k) \in Seq(Names) /\ Len(SubSeq(p, 1, k)) = k
                      /\ \A i \in 1..k : SubSeq(p, 1, k)[i] = p[i]
  <2> SUFFICES ASSUME NEW k \in 1..l
               PROVE  /\ SubSeq(p, 1, k) \in Seq(Names) /\ Len(SubSeq(p, 1, k)) = k
                      /\ \A i \in 1..k : SubSeq(p, 1, k)[i] = p[i]
    OBVIOUS
  <2>1. k \in Int /\ 1 \in Int /\ 1 <= k /\ k - 1 + 1 = k /\ \A i \in 1..k : 1 + i - 1 = i
    BY <1>3
  <2>2. \A i \in 1..k : p[i] \in Names
    BY <1>2, <1>3
  <2>3. /\ SubSeq(p, 1, k) \in Seq(Names)
        /\ Len(SubSeq(p, 1, k)) = IF 1 <= k THEN k - 1 + 1 ELSE 0
        /\ \A i \in 1..k - 1 + 1 : SubSeq(p, 1, k)[i] = p[1 + i - 1]
    BY <2>1, <2>2, SubSeqProperties
  <2> QED BY <2>1, <2>3
<1> DEFINE T == {k \in 1..l : SubSeq(p, 1, k) \notin Known}
<1>7. T = {}
  <2> SUFFICES ASSUME T # {} PROVE FALSE
    OBVIOUS
  <2>1. T \subseteq Nat
    BY <1>3
  <2>2. PICK k \in T : \A j \in T : ~(j < k)
    BY <2>1, Least
  <2>3. k \in 1..l /\ SubSeq(p, 1, k) \notin Known
    OBVIOUS
  <2>4. CASE k = 1
    <3>1. <<root>> \in Seq(Names) /\ Len(<<root>>) = 1 /\ <<root>>[1] = root
      BY DEF LInv, Read
    <3>2. /\ SubSeq(p, 1, 1) \in Seq(Names) /\ Len(SubSeq(p, 1, 1)) = 1
          /\ SubSeq(p, 1, 1)[1] = p[1]
      BY <1>6, <2>3, <2>4
    <3>3. SubSeq(p, 1, 1) = <<root>>
      <4> DEFINE r == <<root>>
                 q == SubSeq(p, 1, 1)
      <4>1. r \in Seq(Names) /\ q \in Seq(Names) /\ Len(q) = Len(r) /\ Len(q) = 1 /\ q[1] = r[1]
        BY <1>5, <3>1, <3>2
      <4> HIDE DEF r, q
      <4>2. \A i \in 1..Len(q) : q[i] = r[i]
        BY <4>1
      <4>3. q = r
        BY <4>1, <4>2, SeqEqual
      <4> QED BY <4>3 DEF q, r
    <3> QED BY <1>1, <2>3, <2>4, <3>3
  <2>5. CASE k # 1
    <3>1. /\ k \in 2..l /\ k - 1 \in 1..l /\ k - 1 < k /\ k \in Nat /\ k - 1 + 1 = k
          /\ k - 1 \in 1..(k - 1)
      BY <1>3, <2>3, <2>5
    <3>2. k - 1 \notin T
      BY <2>2, <3>1
    <3>3. PICK e \in doc : e.path = SubSeq(p, 1, k - 1)
      BY <1>1, <3>1, <3>2
    <3> DEFINE q == SubSeq(p, 1, k - 1)
    <3>4. q \in Seq(Names) /\ Len(q) = k - 1 /\ \A i \in 1..(k - 1) : q[i] = p[i]
      BY <1>6, <3>1
    <3>5. NameOf(e) = p[k - 1]
      BY <3>1, <3>3, <3>4 DEF NameOf
    <3> HIDE DEF q
    <3>6. Append(q, p[k]) \in Known
      BY <1>5, <3>1, <3>3, <3>5 DEF Full, Covered, q
    <3>7. p[k] \in Names
      BY <1>2, <2>3
    <3>8. /\ Append(q, p[k]) \in Seq(Names) /\ Len(Append(q, p[k])) = k
          /\ \A i \in 1..k : Append(q, p[k])[i] = p[i]
      <4>1. /\ Append(q, p[k]) \in Seq(Names) /\ Len(Append(q, p[k])) = Len(q) + 1
            /\ \A i \in 1..Len(q) : Append(q, p[k])[i] = q[i]
            /\ Append(q, p[k])[Len(q) + 1] = p[k]
        BY <3>4, <3>7, AppendProperties
      <4>2. Len(q) + 1 = k /\ \A i \in 1..k : i \in 1..(k - 1) \/ i = k
        BY <3>1, <3>4
      <4> QED BY <3>4, <4>1, <4>2
    <3>9. Append(q, p[k]) = SubSeq(p, 1, k)
      <4>1. /\ SubSeq(p, 1, k) \in Seq(Names) /\ Len(SubSeq(p, 1, k)) = k
            /\ \A i \in 1..k : SubSeq(p, 1, k)[i] = p[i]
        BY <1>6, <2>3
      <4> QED BY <3>8, <4>1, SeqEqual
    <3> QED BY <2>3, <3>6, <3>9
  <2> QED BY <2>4, <2>5
<1>8. l \in 1..l
  BY <1>3
<1>9. SubSeq(p, 1, l) = p
  <2>1. /\ SubSeq(p, 1, l) \in Seq(Names) /\ Len(SubSeq(p, 1, l)) = l
        /\ \A i \in 1..l : SubSeq(p, 1, l)[i] = p[i]
    BY <1>6, <1>8
  <2> QED BY <1>4, <2>1, SeqEqual
<1> QED BY <1>1, <1>7, <1>8, <1>9

\* A call during which the kernel did not change describes the interface exactly: the
\* recursion of add_type_specific_info reaches every part of every part and nothing else,
\* with the type from if_type, the hardware address from the link cache and the addresses
\* that add_ip_info filters from the address cache.
THEOREM CallFaithful == Spec => []Faithful
<1>1. Init => LInv /\ FullInv
  <2>1. Init => Full
    BY DEF Init, Full, Indexed, Elements, Covered, Pending
  <2> QED BY <2>1, InitLInv DEF FullInv
<1>2. LInv /\ FullInv /\ [Next]_vars => LInv' /\ FullInv'
  BY NextLInv, NextFull
<1>3. LInv /\ FullInv => Faithful
  <2> DEFINE el(p) == [path |-> p, type |-> TypeIn(net, p[Len(p)]),
                       mac |-> IF TypeIn(net, p[Len(p)]) = "ethernet"
                                    /\ p[Len(p)] \in NamesOf(net)
                               THEN CHOOSE m \in Macs(net, p[Len(p)]) : TRUE ELSE None]
  <2> SUFFICES ASSUME LInv, FullInv, pc = "done", Cardinality(was) = 1
               PROVE  /\ doc = {el(p) : p \in Paths(net, root)}
                      /\ ips = UNION {addr[i] : i \in {j \in LinksOf(net) : net[j].name = root}}
    BY DEF Faithful
  <2>1. Single /\ Full
    BY OneMoment DEF Single, FullInv
  <2>2. ASSUME NEW e \in doc PROVE e = el(e.path)
    <3>1. e \in Element /\ WasType(NameOf(e), e.type) /\ e.mac = MacOf(NameOf(e))
      BY <2>1 DEF LInv, TypeOK, Walk, ElementOK, Full, Elements
    <3>2. e.type = TypeIn(net, NameOf(e))
      BY <2>1, <3>1 DEF WasType, Single
    <3>3. e = [path |-> e.path, type |-> e.type, mac |-> e.mac]
      BY <3>1 DEF Element
    <3> QED BY <3>1, <3>2, <3>3 DEF MacOf, NameOf
  <2> HIDE DEF el
  <2>3. doc \subseteq {el(p) : p \in Paths(net, root)}
    BY <2>1, <2>2, OnlyPaths
  <2>4. {el(p) : p \in Paths(net, root)} \subseteq doc
    <3> SUFFICES ASSUME NEW p \in Paths(net, root) PROVE el(p) \in doc
      OBVIOUS
    <3>1. PICK e \in doc : e.path = p
      BY <2>1, AllPaths
    <3> QED BY <2>2, <3>1
  <2>5. ips = RootAddrs
    BY <2>1 DEF Full
  <2> QED BY <2>3, <2>4, <2>5 DEF RootAddrs
<1> QED BY <1>1, <1>2, <1>3, PTL DEF Spec
=============================================================================
