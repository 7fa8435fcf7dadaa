----------------------------- MODULE Interfaces -----------------------------
(***************************************************************************)
(* /etc/network/interfaces as the Debian driver (drv_debian.c) sees it in  *)
(* its Augeas tree, and the driver's functions on it, with the stylesheets *)
(* debian-get.xsl and debian-put.xsl that turn an interface document into  *)
(* stanzas and back.                                                       *)
(*                                                                         *)
(* A file is a record of two sequences: auto stanzas, each a sequence of   *)
(* names, and iface stanzas.  A stanza keeps its name, its address family, *)
(* whether its method is manual, its kind (what bridge_ports, bond_slaves  *)
(* or vlan_raw_device makes it), the names in bridge_ports or bond_slaves  *)
(* and the raw device.                                                     *)
(*                                                                         *)
(* A document is [type, name, device, start, protos, raw, subs]: device is *)
(* the name that the interface goes by, which for a VLAN is <raw>.<tag>,   *)
(* where the attribute @name is optional (None); protos are the families   *)
(* of its protocol elements, in their order.                               *)
(***************************************************************************)
EXTENDS Integers, Sequences, SequencesExt

CONSTANTS
    Names,      \* interface names
    None,       \* no such attribute or entry
    Empty,      \* the empty string
    MacOf       \* /sys/class/net/<name>/address, None for a name without a NIC

ASSUME DebianNames == None \notin Names /\ Empty \notin Names /\ Empty # None

Kinds == {"ethernet", "bridge", "bond", "vlan"}
Families == {"inet", "inet6"}
AutoLine == Seq(Names \cup {Empty}) \ {<<>>}
Stanza == {s \in [name : Names \cup {Empty}, family : Families, manual : BOOLEAN, kind : Kinds,
                  deps : Seq(Names), raw : Names \cup {None}] :
             s.kind \notin {"bridge", "bond"} => s.deps = <<>>}
File == [auto : Seq(AutoLine), iface : Seq(Stanza)]

\* The elements of a sequence that are in T, in their order: SelectSeq by a set, because
\* the provers cannot reason about SelectSeq, which takes an operator.
Select(s, T) ==
    LET sel[i \in 0..Len(s)] ==
          IF i = 0 THEN <<>>
          ELSE IF s[i] \in T THEN Append(sel[i - 1], s[i]) ELSE sel[i - 1]
    IN  sel[Len(s)]

\* The auto stanzas in which one of some names comes first, and the iface stanzas of some.
Led(N) == {a \in AutoLine : a[1] \in N}
Named(N) == {s \in Stanza : s.name \in N}

StanzasOf(f, n) == Select(f.iface, Named({n}))

\* The names that the driver starts at boot.
AutoNames(f) == UNION {ToSet(a) : a \in ToSet(f.auto)}

-----------------------------------------------------------------------------
(***************************************************************************)
(* Reading                                                                 *)
(***************************************************************************)
is_bond(f, n) == \E s \in ToSet(f.iface) : s.name = n /\ s.kind = "bond"
is_bridge(f, n) == \E s \in ToSet(f.iface) : s.name = n /\ s.kind = "bridge"

\* interface_deps: the names in some stanzas' bridge_ports or bond_slaves.
bridge_ports(f, n) ==
    UNION {ToSet(s.deps) : s \in {t \in ToSet(f.iface) : t.name = n /\ t.kind = "bridge"}}
bond_slaves(f, n) ==
    UNION {ToSet(s.deps) : s \in {t \in ToSet(f.iface) : t.name = n /\ t.kind = "bond"}}

all_slaves(f) == UNION {bridge_ports(f, s.name) \cup bond_slaves(f, s.name) : s \in ToSet(f.iface)}

is_slave(f, n) == n \in all_slaves(f)

uniq_device_names(f) == {s.name : s \in ToSet(f.iface)}

has_config(f, n) == n \in uniq_device_names(f) /\ ~is_slave(f, n)

list_interfaces(f) == {n \in uniq_device_names(f) : ~is_slave(f, n)}

lookup_by_name(f, n) == n \in list_interfaces(f)

lookup_by_mac_string(f, m) == {n \in Names : MacOf[n] = m /\ has_config(f, n)}

\* aug_get_xml: the stanzas of the interface, of its slaves or of its ports and their
\* slaves; and the name as an auto stanza when the file has any auto stanza.  The parts are
\* in the order of the file and once each: the code goes through the ports and takes one
\* that is named twice twice, which makes no difference in a file that a define wrote.
aug_get_xml(f, n) ==
    LET parts == IF is_bond(f, n) THEN bond_slaves(f, n)
                 ELSE IF is_bridge(f, n)
                      THEN bridge_ports(f, n) \cup UNION {bond_slaves(f, p) : p \in bridge_ports(f, n)}
                      ELSE {}
    IN  [auto  |-> IF f.auto = <<>> THEN <<>> ELSE <<<<n>>>>,
         iface |-> StanzasOf(f, n) \o Select(f.iface, Named(parts \ {n}))]

\* A part as debian-put.xsl describes it: from its stanza, an Ethernet interface without.
\* A part that a define wrote has one stanza; of several only the first is taken here.
PutPart(f, n) ==
    LET own == StanzasOf(f, n)
    IN  IF own = <<>> THEN [name |-> n, type |-> "ethernet", raw |-> None, subs |-> <<>>]
        ELSE [name |-> n, type |-> own[1].kind, raw |-> own[1].raw,
              subs |-> IF own[1].kind # "bond" THEN <<>>
                       ELSE [i \in DOMAIN own[1].deps |->
                              [name |-> own[1].deps[i], type |-> "ethernet", raw |-> None,
                               subs |-> <<>>]]]

\* The families that mode="protocol" reads, none from a manual inet stanza: when the first
\* stanza is of family inet6, the other one is looked for under the name inet4.
PutProtos(stanzas) ==
    LET fams == [i \in DOMAIN stanzas |-> stanzas[i].family]
    IN  IF fams[1] = "inet6" THEN <<"inet6">>
        ELSE (IF stanzas[1].manual THEN <<>> ELSE <<"inet">>)
               \o Select(fams, {"inet6"})

\* drv_xml_desc: aug_get_xml and debian-put.xsl, which starts from the first stanza.
drv_xml_desc(f, n) ==
    LET x   == aug_get_xml(f, n)
        top == x.iface[1]
    IN  [name |-> n, type |-> top.kind, raw |-> top.raw,
         start |-> IF n \in AutoNames(x) THEN "onboot" ELSE "none",
         protos |-> PutProtos(x.iface),
         subs |-> [i \in DOMAIN top.deps |->
                     IF top.kind = "bridge" THEN PutPart(x, top.deps[i])
                     ELSE [name |-> top.deps[i], type |-> "ethernet", raw |-> None,
                           subs |-> <<>>]]]

-----------------------------------------------------------------------------
(***************************************************************************)
(* Changing                                                                *)
(***************************************************************************)
\* Mutant of rm_interface: the auto stanza stays.
RmInterfaceKeepAuto(f, n) == [f EXCEPT !.iface = Select(@, Stanza \ Named({n}))]

\* The iface stanzas of a name, and the auto stanzas in which it is the first name, with
\* all names that follow in them.
rm_interface(f, n) ==
    [auto  |-> Select(f.auto, AutoLine \ Led({n})), iface |-> Select(f.iface, Stanza \ Named({n}))]

device_name_from_xml(d) == IF d.name = None THEN d.device ELSE d.name

\* @name of the root after device_name_from_xml, which sets a missing one to a string
\* that it has not made yet: the attribute is there and empty.
RootName(d) == IF d.name = None THEN Empty ELSE d.name

\* The names of all interfaces of a document but the one that a vlan element names, in
\* the order of the document.
NamesToRemove(d) ==
    <<RootName(d)>> \o FlattenSeq([i \in DOMAIN d.subs |->
        <<d.subs[i].name>> \o [j \in DOMAIN d.subs[i].subs |-> d.subs[i].subs[j].name]])

NamesIn(d) == [i \in DOMAIN d.subs |-> d.subs[i].name]

StanzaOf(n, family, manual, d) ==
    [name |-> n, family |-> family, manual |-> manual, kind |-> d.type, deps |-> NamesIn(d), raw |-> d.raw]

\* debian-get.xsl: one stanza per protocol, the first with what makes the interface a
\* bridge, bond or VLAN; one stanza without a protocol; stanzas for the ports that are
\* bonds or VLANs.
GetIface(d) ==
    LET n     == RootName(d)
        plain == [type |-> "ethernet", subs |-> <<>>, raw |-> None]
        own   == IF d.protos = <<>> THEN <<StanzaOf(n, "inet", TRUE, d)>>
                 ELSE [i \in DOMAIN d.protos |->
                         StanzaOf(n, d.protos[i], FALSE, IF i = 1 THEN d ELSE plain)]
        ports == Select(d.subs, {s \in ToSet(d.subs) : d.type = "bridge" /\ s.type \in {"bond", "vlan"}})
    IN  own \o [i \in DOMAIN ports |-> StanzaOf(ports[i].name, "inet", TRUE, ports[i])]

GetAuto(d) == IF d.start = "onboot" THEN <<<<RootName(d)>>>> ELSE <<>>

\* Mutant of aug_put_xml: the elements overwrite the first stanzas of the file.
AugPutXmlFromOne(f, d) ==
    [auto |-> f.auto \o GetAuto(d),
     iface |-> GetIface(d) \o SubSeq(f.iface, Len(GetIface(d)) + 1, Len(f.iface))]

\* aug_put_xml appends the elements of each array after the last stanza of its label.
aug_put_xml(f, d) ==
    [auto |-> f.auto \o GetAuto(d), iface |-> f.iface \o GetIface(d)]

\* Mutant of bond_setup: the ports of a bridge are not looked at.
BondSetupSelf(f, n) == {b \in {n} : is_bond(f, b)}

\* The bonds that bond_setup finds for a name: itself and its ports.
bond_setup(f, n) ==
    {b \in {n} \cup (IF is_bridge(f, n) THEN bridge_ports(f, n) ELSE {}) : is_bond(f, b)}
=============================================================================
