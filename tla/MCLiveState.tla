---------------------------- MODULE MCLiveState ----------------------------
(***************************************************************************)
(* Instance of LiveState: three initial configurations of up to four       *)
(* links.                                                                  *)
(***************************************************************************)
EXTENDS LiveState

CONSTANTS n1, n2, n3, n4

L(n, t, m, l) == [name |-> n, type |-> t, master |-> m, lower |-> l]

Links(ls) == [i \in Ids |-> IF i \in DOMAIN ls THEN ls[i] ELSE None]

\* A bridge n2 with the VLAN n3 of the NIC n1 as its port, and the VLAN n4 of the bridge.
VlanNet == Links(<<L(n1, "ethernet", None, None), L(n2, "bridge", None, None),
                   L(n3, "vlan", 2, 1), L(n4, "vlan", None, 2)>>)

\* A bridge n3 with the bond n2 of the NIC n1 as its port; n4 is not used.
BondNet == Links(<<L(n1, "ethernet", 2, None), L(n2, "bond", 3, None),
                   L(n3, "bridge", None, None)>>)

\* The VLAN n3 of the VLAN n2 of the NIC n1, and the bridge n4 with n3 as its port.
StackedNet == Links(<<L(n1, "ethernet", None, None), L(n2, "vlan", None, 1),
                      L(n3, "vlan", 4, 2), L(n4, "bridge", None, None)>>)

MCInitNets == {VlanNet, BondNet, StackedNet}
=============================================================================
