------------------------------- MODULE Ifcfg -------------------------------
(***************************************************************************)
(* The interface configuration as the Red Hat driver (drv_redhat.c) sees   *)
(* it in its Augeas tree, and the driver's functions on it.                *)
(*                                                                         *)
(* A store maps a name to the file ifcfg-<name>, None when there is none.  *)
(* A file keeps the entries the driver looks at.  Device names and file    *)
(* suffixes are numbers, in the order of strcmp.  An interface document    *)
(* (the XML that ncf_define takes) is a record                             *)
(*    [type, name, device, mac, subs]                                      *)
(* where device is the name that the stylesheet gives the interface: @name,*)
(* and for a VLAN <device>.<tag>, where @name is optional (None).          *)
(***************************************************************************)
EXTENDS Integers, FiniteSets

CONSTANTS
    Names,      \* device names and suffixes of ifcfg files
    None,       \* no such file, entry or attribute
    Empty,      \* the empty string
    Macs,       \* hardware addresses, case folded
    MacOf       \* /sys/class/net/<name>/address, None for a name without a NIC

ASSUME NamesAssumption == Names \subseteq Nat /\ IsFiniteSet(Names)
ASSUME NoneAssumption == None \notin Names /\ Empty \notin Names /\ Empty # None
ASSUME MacsAssumption == None \notin Macs /\ MacOf \in [Names -> Macs \cup {None}]

Entry == [DEVICE : Names \cup {None}, BRIDGE : Names \cup {None},
          MASTER : Names \cup {None}, TYPE : {"Bridge", None},
          HWADDR : Macs \cup {None}]
Store == [Names -> Entry \cup {None}]

ASSUME EntryAssumption == None \notin Entry /\ None # "Bridge"

NoStore == [f \in Names |-> None]
FilesOf(st) == {f \in Names : st[f] # None}

\* The files with an entry of a value, as a path expression selects them.
WithDevice(st, n) == {f \in FilesOf(st) : st[f].DEVICE = n}
WithBridge(st, n) == {f \in FilesOf(st) : st[f].BRIDGE = n}
WithMaster(st, n) == {f \in FilesOf(st) : st[f].MASTER = n}
WithHwaddr(st, m) == {f \in FilesOf(st) : st[f].HWADDR = m}

Devices(st) == {st[f].DEVICE : f \in FilesOf(st)} \ {None}

\* The last path after qsort, None when nothing matched.
LastOf(paths) ==
    IF paths = {} THEN None ELSE CHOOSE p \in paths : \A q \in paths : q <= p

-----------------------------------------------------------------------------
(***************************************************************************)
(* Finding the file of a device                                            *)
(***************************************************************************)
\* Mutant of is_slave: the first entry of subif_paths alone.
IsSlaveOfBond(st, f) == st[f].MASTER # None

is_slave(st, f) == st[f].MASTER # None \/ st[f].BRIDGE # None

find_ifcfg_path_by_hwaddr(st, mac) == LastOf(WithHwaddr(st, mac))

find_ifcfg_path_by_device(st, n) == LastOf(WithDevice(st, n))

\* Mutant of find_ifcfg_path: the address comes before the name of the file.
FindByAddressFirst(st, n) ==
    IF MacOf[n] # None /\ WithHwaddr(st, MacOf[n]) # {}
    THEN find_ifcfg_path_by_hwaddr(st, MacOf[n])
    ELSE IF n \in FilesOf(st) THEN n
         ELSE find_ifcfg_path_by_device(st, n)

\* ifcfg-<name> if there is one, else by the NIC's address, else by DEVICE.
find_ifcfg_path(st, n) ==
    IF n \in FilesOf(st) THEN n
    ELSE IF MacOf[n] # None /\ WithHwaddr(st, MacOf[n]) # {}
         THEN find_ifcfg_path_by_hwaddr(st, MacOf[n])
         ELSE find_ifcfg_path_by_device(st, n)

\* The canonical file of each of some devices.
uniq_ifcfg_paths(st, devs) == [d \in devs |-> find_ifcfg_path(st, d)]

\* The devices whose canonical file is not a slave's, with that file.
list_interfaces(st) ==
    LET paths == uniq_ifcfg_paths(st, Devices(st))
    IN  [d \in {e \in Devices(st) : ~is_slave(st, paths[e])} |-> paths[d]]

\* drv_lookup_by_name gives a handle for a name.
lookup_by_name(st, n) ==
    LET path == find_ifcfg_path(st, n)
    IN  path # None /\ ~is_slave(st, path)

\* Mutant of Subtree: without the slaves of bonds that are ports.
SubtreeShallow(st, n) == WithDevice(st, n) \cup WithBridge(st, n) \cup WithMaster(st, n)

\* The file of a device, the files of its slaves and, when it is a bridge, of the
\* slaves of the bonds that are its ports.
Subtree(st, n) ==
    WithDevice(st, n) \cup WithBridge(st, n) \cup WithMaster(st, n)
      \cup {f \in FilesOf(st) :
              \E g \in WithBridge(st, n) :
                  st[f].MASTER # None /\ st[f].MASTER = st[g].DEVICE}

\* What drv_xml_desc describes: the canonical files of the devices in the subtree.
aug_get_xml_for_nif(st, n) ==
    LET devs  == {st[f].DEVICE : f \in Subtree(st, n)} \ {None}
        paths == uniq_ifcfg_paths(st, devs)
    IN  [p \in {paths[d] : d \in devs} |-> st[p]]

\* A device is a bond when it is some file's MASTER.
is_bond(st, n) == WithMaster(st, n) # {}

is_bridge(st, n) == \E f \in WithDevice(st, n) : st[f].TYPE = "Bridge"

bridge_slaves(st, n) == {st[f].DEVICE : f \in WithBridge(st, n)} \ {None}

-----------------------------------------------------------------------------
(***************************************************************************)
(* Changing it                                                             *)
(***************************************************************************)
Without(st, files) == [f \in Names |-> IF f \in files THEN None ELSE st[f]]

\* No file has an empty DEVICE, BRIDGE or MASTER: the empty name removes nothing.
rm_interface(st, n) == IF n = Empty THEN st ELSE Without(st, Subtree(st, n))

\* All interfaces of a document but the ones that a vlan element names.
InterfacesOf(doc) == {doc} \cup doc.subs \cup UNION {s.subs : s \in doc.subs}

\* The name that drv_define goes on with.
device_name_from_xml(doc) == IF doc.name = None THEN doc.device ELSE doc.name

\* @name of an interface of the document after device_name_from_xml, which sets it
\* in the root element when it was missing: to result, which is NULL at that point,
\* so that the attribute is there and empty.
XmlName(doc, i) == IF i = doc /\ i.name = None THEN Empty ELSE i.name

\* The names that rm_all_interfaces removes one by one.
NamesToRemove(doc) == {XmlName(doc, i) : i \in InterfacesOf(doc)}

\* Mutant of TreeOf: an interface of its own gets an empty BRIDGE entry.
TreeOfEmptyBridge(i, bridge, master) ==
    [DEVICE |-> i.device, BRIDGE |-> IF bridge = None THEN Empty ELSE bridge,
     MASTER |-> master, TYPE |-> IF i.type = "bridge" THEN "Bridge" ELSE None,
     HWADDR |-> IF i.type = "ethernet" THEN i.mac ELSE None]

\* The tree that the stylesheet redhat-get.xsl makes of an interface, under a bridge
\* or a bond.
TreeOf(i, bridge, master) ==
    [DEVICE |-> i.device, BRIDGE |-> bridge, MASTER |-> master,
     TYPE |-> IF i.type = "bridge" THEN "Bridge" ELSE None,
     HWADDR |-> IF i.type = "ethernet" THEN i.mac ELSE None]

\* The forest: the interface itself, its ports or slaves, the slaves of bonds that are
\* ports.  Each tree is the file ifcfg-<device>.
Forest(doc) ==
    LET i(d) == CHOOSE x \in InterfacesOf(doc) : x.device = d
        bridge(x) == IF doc.type = "bridge" /\ x \in doc.subs THEN doc.name ELSE None
        master(x) == IF doc.type = "bond" /\ x \in doc.subs THEN doc.name
                     ELSE IF \E s \in doc.subs : x \in s.subs
                          THEN (CHOOSE s \in doc.subs : x \in s.subs).name
                          ELSE None
    IN  [d \in {x.device : x \in InterfacesOf(doc)} |->
            TreeOf(i(d), bridge(i(d)), master(i(d)))]

\* Write a tree: it replaces its file entirely.
aug_put_xml(st, f, entry) == [st EXCEPT ![f] = entry]

\* Mutant of bond_setup: the ports of a bridge are not looked at.
BondSetupShallow(st, n) == {b \in {n} : is_bond(st, b)}

\* The bonds that bond_setup finds for a name: itself and its ports.
bond_setup(st, n) ==
    {b \in {n} \cup (IF is_bridge(st, n) THEN bridge_slaves(st, n) ELSE {}) : is_bond(st, b)}
=============================================================================
