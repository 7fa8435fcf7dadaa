----------------------------- MODULE LiveState -----------------------------
(***************************************************************************)
(* The live state of an interface: ncf_if_xml_state through drv_xml_state  *)
(* and add_state_to_xml_doc (dutil_linux.c).                               *)
(*                                                                         *)
(* The kernel's links are an external part: a link has an index that is    *)
(* never used again, a name, a type, the bridge or bond it belongs to      *)
(* (master) and, for a VLAN, the link below it.  A hardware address is     *)
(* identified with the index.  The library keeps two caches of the kernel, *)
(* the links and the addresses, that a call refills one after the other;   *)
(* the types of the links and the ports of a bridge it reads from /proc    *)
(* and /sys while it walks down from the interface.  The kernel changes    *)
(* between any two of these reads.                                         *)
(*                                                                         *)
(* The document is a set of nodes, one per interface element, told apart   *)
(* by the path of names from the root.                                     *)
(***************************************************************************)
EXTENDS Integers, FiniteSets, Sequences

CONSTANTS
    Ids,        \* interface indices, in the order in which the kernel gives them out
    Names,      \* names of links
    Addrs,      \* addresses with their prefix
    Zero,       \* the indices of links whose hardware address is all zeros
    None,       \* no such link, master or address
    InitNets,   \* the links at the start
    MaxChanges, \* bound: changes of the kernel's state
    MaxCalls    \* bound: calls

ASSUME IdsAssumption == IsFiniteSet(Ids) /\ Ids \subseteq Nat \ {0} /\ Zero \subseteq Ids
ASSUME NamesAssumption == IsFiniteSet(Names)
ASSUME LiveNone == None \notin Ids \cup Names \cup {0}
ASSUME LiveBounds == MaxChanges \in Nat /\ MaxCalls \in Nat

VARIABLES
    net,        \* the kernel's links, by index
    addr,       \* their addresses
    next,       \* the index that the next new link gets
    link_cache, \* the cached links
    addr_cache, \* the cached addresses
    pc,         \* where the call is
    root,       \* the name of its interface
    todo,       \* nodes whose element exists and whose content is missing
    cur,        \* the node that is being filled in, None between two
    stat,       \* which of if_type's three files, or of a bridge's ports, is read next
    doc,        \* the nodes that are filled in
    ips,        \* the addresses in the document
    was,        \* history: the kernel's states since the call began
    changes,    \* number of changes of the kernel so far
    calls       \* number of calls so far

kernel == <<net, addr, next>>
query == <<pc, root, todo, cur, stat, doc, ips>>
vars == <<kernel, link_cache, addr_cache, query, was, changes, calls>>

Types == {"ethernet", "bridge", "bond", "vlan"}
Link == [name : Names, type : Types, master : Ids \cup {None}, lower : Ids \cup {None}]
Node == [path : Seq(Names), id : Ids \cup {0}]
Element == [path : Seq(Names), type : Types, mac : Ids \cup {None}]

\* A link is there or not, and a node is being filled in or not.
ASSUME LinkAssumption == None \notin Link /\ None \notin Node

TypeOK ==
    /\ net \in [Ids -> Link \cup {None}] /\ addr \in [Ids -> SUBSET Addrs]
    /\ next \in Nat
    /\ link_cache \in [Ids -> Link \cup {None}] /\ addr_cache \in [Ids -> SUBSET Addrs]
    /\ pc \in {"idle", "links", "addrs", "start", "walk", "done", "overflow"}
    /\ root \in Names \cup {None} /\ cur \in Node \cup {None} /\ todo \subseteq Node
    /\ stat \in {"vlan", "bridge", "brif", "bond"}
    /\ doc \subseteq Element /\ ips \subseteq Addrs
    /\ changes \in 0..MaxChanges /\ calls \in 0..MaxCalls

-----------------------------------------------------------------------------
(***************************************************************************)
(* Links                                                                   *)
(***************************************************************************)
LinksOf(c) == {i \in Ids : c[i] # None}
NamesOf(c) == {c[i].name : i \in LinksOf(c)}

\* rtnl_link_name2i: the index of a name, 0 (RTNL_LINK_NOT_FOUND) without one.
name2i(c, n) ==
    IF n \in NamesOf(c) THEN CHOOSE i \in LinksOf(c) : c[i].name = n ELSE 0

\* The files /proc/net/vlan/<n>, /sys/class/net/<n>/bridge, /sys/class/net/<n>/bonding.
HasFile(c, n, type) == \E i \in LinksOf(c) : c[i].name = n /\ c[i].type = type

\* The type that if_type finds in one unchanging state: ethernet unless it is another.
TypeIn(c, n) ==
    IF \E t \in Types : HasFile(c, n, t) THEN CHOOSE t \in Types : HasFile(c, n, t)
                                         ELSE "ethernet"

\* /sys/class/net/<n>/brif: the names of the ports of a bridge.
brif(c, n) ==
    {c[i].name : i \in {j \in LinksOf(c) :
        c[j].master # None /\ c[c[j].master].type = "bridge" /\ c[c[j].master].name = n}}

\* The links that are slaves (IFF_SLAVE) of the bond with an index.
SlavesOf(c, m) ==
    {i \in LinksOf(c) : /\ c[i].master # None /\ c[c[i].master] # None
                        /\ c[c[i].master].type = "bond" /\ c[i].master = m}

\* The links that an interface is made of, and no link is made of itself.
PartsOf(c, i) ==
    {j \in LinksOf(c) : c[j].master = i \/ c[i].lower = j}

Acyclic(c) ==
    \A S \in SUBSET LinksOf(c) : S # {} => \E i \in S : PartsOf(c, i) \cap S = {}

\* What the kernel guarantees of its links: a name has one link, a master is a bridge or a
\* bond, only a VLAN has a link below it, which may be a VLAN itself, and there is no circle.
WellFormed(c) ==
    /\ c \in [Ids -> Link \cup {None}]
    /\ \A i, j \in LinksOf(c) : c[i].name = c[j].name => i = j
    /\ \A i \in LinksOf(c) :
         /\ c[i].master # None =>
              c[i].master \in LinksOf(c) /\ c[c[i].master].type \in {"bridge", "bond"}
         /\ c[i].lower # None => c[i].type = "vlan" /\ c[i].lower \in LinksOf(c)
    /\ Acyclic(c)

ASSUME NetsAssumption ==
    \A c \in InitNets : WellFormed(c) /\ \A i \in LinksOf(c) : i <= Cardinality(LinksOf(c))

-----------------------------------------------------------------------------
(***************************************************************************)
(* The kernel                                                              *)
(***************************************************************************)
\* The kernel may change; a call returns its document in one step.
MayChange == changes < MaxChanges /\ pc \notin {"done", "overflow"}

\* What a change of the kernel's state leaves alone.
Change ==
    /\ changes' = changes + 1
    /\ was' = IF pc = "idle" THEN {} ELSE was \cup {<<net', addr'>>}
    /\ UNCHANGED <<link_cache, addr_cache, query, calls>>

Create(n, type, lower) ==
    /\ MayChange
    /\ next \in Ids /\ n \notin NamesOf(net)
    /\ \/ type = "vlan" /\ lower \in LinksOf(net)
       \/ type # "vlan" /\ lower = None
    /\ net' = [net EXCEPT ![next] =
                 [name |-> n, type |-> type, master |-> None, lower |-> lower]]
    /\ next' = next + 1
    /\ UNCHANGED addr
    /\ Change

\* A link and the VLANs above it, the VLANs of those included.
WithVlans(c, i) ==
    {j \in LinksOf(c) :
        \A S \in SUBSET LinksOf(c) :
            i \in S /\ (\A k \in LinksOf(c) : c[k].lower \in S => k \in S) => j \in S}

\* A link goes, and with it the VLANs above it; the ports and slaves of what goes are
\* released.
Delete(i) ==
    LET gone == WithVlans(net, i)
    IN  /\ MayChange /\ i \in LinksOf(net)
        /\ net' = [j \in Ids |->
                     IF j \in gone \/ net[j] = None THEN None
                     ELSE IF net[j].master \in gone THEN [net[j] EXCEPT !.master = None]
                     ELSE net[j]]
        /\ addr' = [j \in Ids |-> IF j \in gone THEN {} ELSE addr[j]]
        /\ UNCHANGED next
        /\ Change

Rename(i, n) ==
    /\ MayChange
    /\ i \in LinksOf(net) /\ n \notin NamesOf(net)
    /\ net' = [net EXCEPT ![i].name = n]
    /\ UNCHANGED <<addr, next>>
    /\ Change

Enslave(i, m) ==
    /\ MayChange
    /\ {i, m} \subseteq LinksOf(net) /\ net[i].master = None
    /\ \/ net[m].type = "bridge" /\ net[i].type # "bridge"
       \/ net[m].type = "bond" /\ net[i].type = "ethernet"
    /\ net' = [net EXCEPT ![i].master = m]
    /\ Acyclic(net')
    /\ UNCHANGED <<addr, next>>
    /\ Change

Release(i) ==
    /\ MayChange
    /\ i \in LinksOf(net) /\ net[i].master # None
    /\ net' = [net EXCEPT ![i].master = None]
    /\ UNCHANGED <<addr, next>>
    /\ Change

\* An address is added or removed.
SetAddr(i, a) ==
    /\ MayChange
    /\ i \in LinksOf(net)
    /\ addr' = [addr EXCEPT ![i] = (@ \cup {a}) \ (@ \cap {a})]
    /\ UNCHANGED <<net, next>>
    /\ Change

Kernel ==
    \/ \E n \in Names, t \in Types, l \in Ids \cup {None} : Create(n, t, l)
    \/ \E i \in Ids : Delete(i) \/ Release(i)
    \/ \E i \in Ids, n \in Names : Rename(i, n)
    \/ \E i, m \in Ids : Enslave(i, m)
    \/ \E i \in Ids, a \in Addrs : SetAddr(i, a)

-----------------------------------------------------------------------------
(***************************************************************************)
(* A call                                                                  *)
(***************************************************************************)
\* drv_xml_state starts with an empty document.
drv_xml_state(n) ==
    /\ pc = "idle" /\ calls < MaxCalls
    /\ pc' = "links" /\ root' = n /\ calls' = calls + 1
    /\ todo' = {} /\ cur' = None /\ stat' = "vlan" /\ doc' = {} /\ ips' = {}
    /\ was' = {<<net, addr>>}
    /\ UNCHANGED <<kernel, link_cache, addr_cache, changes>>

\* The call is over; without a document it returns NULL.
Return ==
    /\ pc' = "idle" /\ root' = None /\ cur' = None /\ stat' = "vlan"
    /\ todo' = {} /\ doc' = {} /\ ips' = {} /\ was' = {}

\* Mutant of refill_links: the links read before are good enough.
RefillLinksOnce ==
    /\ pc = "links" /\ pc' = "addrs"
    /\ UNCHANGED <<kernel, link_cache, addr_cache, root, todo, cur, stat, doc, ips, was,
                   changes, calls>>

\* nl_cache_refill of the links.  When it fails, with ENETLINK, the cache is as it was or empty.
refill_links ==
    /\ pc = "links"
    /\ \/ /\ link_cache' = net /\ pc' = "addrs"
          /\ UNCHANGED <<root, todo, cur, stat, doc, ips, was>>
       \/ /\ link_cache' \in {link_cache, [i \in Ids |-> None]}
          /\ Return
    /\ UNCHANGED <<kernel, addr_cache, changes, calls>>

\* nl_cache_refill of the addresses.
refill_addrs ==
    /\ pc = "addrs"
    /\ \/ /\ addr_cache' = addr /\ pc' = "start"
          /\ UNCHANGED <<root, todo, cur, stat, doc, ips, was>>
       \/ /\ addr_cache' \in {addr_cache, [i \in Ids |-> {}]}
          /\ Return
    /\ UNCHANGED <<kernel, link_cache, changes, calls>>

\* The root's index comes from the cache; it is 0 for an interface that is not there.
add_state_to_xml_doc ==
    /\ pc = "start" /\ pc' = "walk"
    /\ todo' = {[path |-> <<root>>, id |-> name2i(link_cache, root)]}
    /\ UNCHANGED <<kernel, link_cache, addr_cache, root, cur, stat, doc, ips, was, changes, calls>>

NameOf(node) == node.path[Len(node.path)]

\* Mutant of add_type_specific_info: the loop over the parts does not advance.
StayOnPart ==
    /\ pc = "walk" /\ cur = None /\ todo # {} /\ stat' = "vlan"
    /\ \E node \in {t \in todo : \A u \in todo : Len(u.path) <= Len(t.path)} : cur' = node
    /\ UNCHANGED <<kernel, link_cache, addr_cache, pc, root, todo, doc, ips, was, changes, calls>>

\* The recursion goes down before it goes on: a deepest node is next, in any order among
\* the parts of one interface.  A path longer than there are names repeats one, and the
\* recursion that follows it ends only by exhausting the stack.
add_type_specific_info ==
    /\ pc = "walk" /\ cur = None /\ todo # {}
    /\ \E node \in {t \in todo : \A u \in todo : Len(u.path) <= Len(t.path)} :
         IF Len(node.path) > Cardinality(Names)
         THEN pc' = "overflow" /\ UNCHANGED <<todo, cur>>
         ELSE cur' = node /\ todo' = todo \ {node} /\ UNCHANGED pc
    /\ stat' = "vlan"
    /\ UNCHANGED <<kernel, link_cache, addr_cache, root, doc, ips, was, changes, calls>>

\* The content of cur: its element, and the parts below it.
Fill(type, mac, parts) ==
    /\ doc' = doc \cup {[path |-> cur.path, type |-> type, mac |-> mac]}
    /\ todo' = todo \cup {[path |-> Append(cur.path, p[1]), id |-> p[2]] : p \in parts}
    /\ cur' = None /\ stat' = "vlan"
    /\ UNCHANGED <<kernel, link_cache, addr_cache, pc, root, ips, was, changes, calls>>

\* Mutant of add_ethernet_info: the index is not compared with RTNL_LINK_NOT_FOUND.
AddEthernetInfoAny == Fill("ethernet", IF cur.id \in Zero THEN None ELSE cur.id, {})

\* The hardware address of the cached link, unless there is no link or it is zero.
add_ethernet_info ==
    LET mac == IF cur.id = 0 \/ cur.id \in Zero THEN None ELSE cur.id
    IN  Fill("ethernet", mac, {})

\* The link below, when the cached link of the index is a VLAN and that link is cached.
add_vlan_info ==
    LET i   == cur.id
        low == {j \in LinksOf(link_cache) :
                  i # 0 /\ link_cache[i].type = "vlan" /\ link_cache[i].lower = j}
    IN  Fill("vlan", None, {<<link_cache[j].name, j>> : j \in low})

\* The cached slaves of the index.
add_bond_info ==
    Fill("bond", None, {<<link_cache[j].name, j>> : j \in SlavesOf(link_cache, cur.id)})

\* Mutant of add_bridge_info: every part is described with the name of the bridge.
AddBridgeInfoSelf ==
    Fill("bridge", None, {<<NameOf(cur), name2i(link_cache, n)>> : n \in brif(net, NameOf(cur))})

\* The ports as /sys has them now, if it still has the bridge, their indices from the cache.
add_bridge_info ==
    Fill("bridge", None, {<<n, name2i(link_cache, n)>> : n \in brif(net, NameOf(cur))})

\* The next file is looked at.
NextStat(s) ==
    /\ stat' = s
    /\ UNCHANGED <<kernel, link_cache, addr_cache, pc, root, todo, cur, doc, ips, was,
                   changes, calls>>

\* if_type looks for one file after another, by name; the type decides what follows.
if_type ==
    /\ pc = "walk" /\ cur # None
    /\ \/ stat = "brif" /\ add_bridge_info
       \/ /\ stat # "brif" /\ HasFile(net, NameOf(cur), stat)
          /\ \/ stat = "vlan" /\ add_vlan_info
             \/ stat = "bridge" /\ NextStat("brif")
             \/ stat = "bond" /\ add_bond_info
       \/ /\ stat # "brif" /\ ~HasFile(net, NameOf(cur), stat)
          /\ \/ stat = "vlan" /\ NextStat("bridge")
             \/ stat = "bridge" /\ NextStat("bond")
             \/ stat = "bond" /\ add_ethernet_info

\* Mutant of add_ip_info: the filter has no interface index.
AddIpInfoAll ==
    /\ pc = "walk" /\ cur = None /\ todo = {} /\ pc' = "done"
    /\ ips' = UNION {addr_cache[i] : i \in Ids}
    /\ UNCHANGED <<kernel, link_cache, addr_cache, root, todo, cur, stat, doc, was, changes, calls>>

\* At last the cached addresses of the root's index.
add_ip_info ==
    /\ pc = "walk" /\ cur = None /\ todo = {} /\ pc' = "done"
    /\ ips' = LET i == name2i(link_cache, root) IN IF i = 0 THEN {} ELSE addr_cache[i]
    /\ UNCHANGED <<kernel, link_cache, addr_cache, root, todo, cur, stat, doc, was, changes, calls>>

Deliver ==
    /\ pc = "done" /\ Return
    /\ UNCHANGED <<kernel, link_cache, addr_cache, changes, calls>>

Query ==
    \/ refill_links \/ refill_addrs \/ add_state_to_xml_doc
    \/ add_type_specific_info \/ if_type \/ add_ip_info \/ Deliver

\* netlink_init fills both caches when the instance is opened.
Init ==
    /\ net \in InitNets /\ addr = [i \in Ids |-> {}]
    /\ next = 1 + Cardinality(LinksOf(net))
    /\ link_cache = net /\ addr_cache = addr
    /\ pc = "idle" /\ root = None /\ todo = {} /\ cur = None /\ stat = "vlan"
    /\ doc = {} /\ ips = {} /\ was = {} /\ changes = 0 /\ calls = 0

Next == Kernel \/ (\E n \in Names : drv_xml_state(n)) \/ Query

\* A call goes on by itself; nothing is assumed of the kernel.
Spec == Init /\ [][Next]_vars /\ WF_vars(Query)

-----------------------------------------------------------------------------
(***************************************************************************)
(* Properties                                                              *)
(***************************************************************************)
\* What the kernel says of an interface in one state: the names of its parts.
Parts(c, n) == {c[j].name : j \in UNION {PartsOf(c, i) : i \in {k \in LinksOf(c) : c[k].name = n}}}

Paths(c, n) ==
    {p \in UNION {[1..k -> Names] : k \in 1..Cardinality(Names)} :
        p[1] = n /\ \A k \in 2..Len(p) : p[k] \in Parts(c, p[k - 1])}

Macs(c, n) == {IF i \in Zero THEN None ELSE i : i \in {j \in LinksOf(c) : c[j].name = n}}

\* A call during which the kernel did not change returns the interface as it is: every
\* interface below it and no other, each with its type, an Ethernet interface with its
\* hardware address, and the addresses of the interface itself.  drv_xml_state is to
\* "add all info we can gather from the kernel/sysfs/procfs", from two caches and three
\* directories.
Faithful ==
    pc = "done" /\ Cardinality(was) = 1 =>
      LET el(p) == [path |-> p, type |-> TypeIn(net, p[Len(p)]),
                    mac |-> IF TypeIn(net, p[Len(p)]) = "ethernet"
                                 /\ p[Len(p)] \in NamesOf(net)
                            THEN CHOOSE m \in Macs(net, p[Len(p)]) : TRUE ELSE None]
      IN  /\ doc = {el(p) : p \in Paths(net, root)}
          /\ ips = UNION {addr[i] : i \in {j \in LinksOf(net) : net[j].name = root}}

\* However the kernel changes during a call, each thing the document says was so at some
\* moment of the call and not before it: the type of each interface, its hardware address,
\* that it is a part of the one above; and each address belonged to a link that had the
\* interface's name.  add_state_to_xml_doc refills both caches "with any recent changes".
Fresh ==
    pc = "done" =>
      /\ \A e \in doc :
           LET n == e.path[Len(e.path)]
           IN  /\ \E w \in was : TypeIn(w[1], n) = e.type
               /\ e.mac # None => \E w \in was : e.mac \in Macs(w[1], n)
               /\ Len(e.path) > 1 =>
                    \E w \in was : n \in Parts(w[1], e.path[Len(e.path) - 1])
      /\ \A a \in ips : \E i \in Ids, w, x \in was :
           w[1][i] # None /\ w[1][i].name = root /\ a \in x[2][i]

\* add_type_specific_info calls itself for every part, without a bound.  It can only go
\* round in a circle when the kernel changed during the call: the cached links and the
\* ports read from /sys are then of different states.
OverflowNeedsChange == pc = "overflow" => Cardinality(was) > 1

\* A call returns, or it overflowed the stack.
CallReturns == pc # "idle" ~> pc \in {"idle", "overflow"}
=============================================================================
