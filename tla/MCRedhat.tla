----------------------------- MODULE MCRedhat ------------------------------
(***************************************************************************)
(* DrvRedhat on a machine with two NICs, for TLC: the documents of every   *)
(* type that the schema has, and configurations like that of the driver's  *)
(* tests, where some files are not named after their device.               *)
(***************************************************************************)
EXTENDS DrvRedhat

\* In the order of strcmp.
bond0 == 1
br0 == 2
byhwaddr == 3
decoy == 4
eth0 == 5
vlan5 == 6
eth1 == 7
AllNames == 1..7

\* The bridge has the address of its port, as the kernel gives it.
NicMacs == [n \in AllNames |-> CASE n \in {eth0, br0} -> "m0" [] n = eth1 -> "m1" [] OTHER -> None]

Ethernet(n, mac) == [type |-> "ethernet", name |-> n, device |-> n, mac |-> mac, subs |-> {}]
Vlan(name) == [type |-> "vlan", name |-> name, device |-> vlan5, mac |-> None, subs |-> {}]
Bond(n, slaves) == [type |-> "bond", name |-> n, device |-> n, mac |-> None, subs |-> slaves]
Bridge(n, ports) == [type |-> "bridge", name |-> n, device |-> n, mac |-> None, subs |-> ports]

E0 == Ethernet(eth0, "m0")
E1 == Ethernet(eth1, None)

\* The schema makes the name of a VLAN optional.
NamedDocs == {
    E0, Vlan(None), Bridge(br0, {Vlan(None), E1}), Ethernet(br0, None), Vlan(vlan5), Bond(bond0, {E0, E1}),
    Bridge(br0, {Vlan(vlan5), E1}), Bridge(br0, {Bond(bond0, {E0, E1})})}

File(d, bridge, master, type, mac) ==
    [DEVICE |-> d, BRIDGE |-> bridge, MASTER |-> master, TYPE |-> type, HWADDR |-> mac]

\* A bridge with a port; eth1 in a file found by its address, and a decoy.
TestRoot == [NoStore EXCEPT
    ![br0] = File(br0, None, None, "Bridge", None),
    ![eth0] = File(eth0, br0, None, None, "m0"),
    ![byhwaddr] = File(eth1, None, None, None, "m1"),
    ![decoy] = File(eth1, None, None, None, "m2")]

\* A bond as the port of a bridge, in files with other names.
Nested == [NoStore EXCEPT
    ![br0] = File(br0, None, None, "Bridge", None),
    ![decoy] = File(bond0, br0, None, None, None),
    ![eth0] = File(eth0, None, bond0, None, None),
    ![byhwaddr] = File(eth1, None, bond0, None, "m1")]

TestStores == {NoStore, TestRoot, Nested}
=============================================================================
