----------------------------- MODULE MCNcftool -----------------------------
(***************************************************************************)
(* Ncftool with a bridge and two NICs: both are ports of the bridge, one   *)
(* of them is, or there is no bridge.                                      *)
(***************************************************************************)
EXTENDS Ncftool

AllNames == {"br", "e0", "e1"}

Conf(br) == [n \in AllNames |-> IF n = "br" THEN br ELSE {}]

AllConfs == {Conf({"e0", "e1"}), Conf({"e0"}), Conf(None)}
=============================================================================
