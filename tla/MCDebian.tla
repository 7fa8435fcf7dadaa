----------------------------- MODULE MCDebian ------------------------------
(***************************************************************************)
(* DrvDebian on a machine with two NICs, for TLC: documents of every type  *)
(* that the schema has, and files with and without auto stanzas, with a    *)
(* stanza for two names, and with ports and slaves.                        *)
(***************************************************************************)
EXTENDS DrvDebian

AllNames == {"e0", "e1", "b0", "br0", "v5"}
NicMacs == [n \in AllNames |-> CASE n \in {"e0", "b0"} -> "m0" [] n = "e1" -> "m1" [] OTHER -> None]

Doc(type, name, device, start, protos, raw, subs) ==
    [type |-> type, name |-> name, device |-> device, start |-> start, protos |-> protos,
     raw |-> raw, subs |-> subs]
Part(type, name, raw, subs) == Doc(type, name, name, None, <<>>, raw, subs)

E0 == Part("ethernet", "e0", None, <<>>)
E1 == Part("ethernet", "e1", None, <<>>)
B0 == Part("bond", "b0", None, <<E1>>)
V5 == Part("vlan", "v5", "e1", <<>>)

AllDocs == {
    Doc("ethernet", "e0", "e0", "onboot", <<"inet">>, None, <<>>),
    Doc("ethernet", "e0", "e0", "none", <<"inet6", "inet">>, None, <<>>),
    Doc("bond", "b0", "b0", "onboot", <<"inet", "inet6">>, None, <<E1, E0>>),
    Doc("bridge", "br0", "br0", "none", <<>>, None, <<B0, E0>>),
    Doc("bridge", "br0", "br0", "onboot", <<"inet">>, None, <<E0, V5>>),
    Doc("vlan", "v5", "v5", "none", <<"inet">>, "e1", <<>>),
    Doc("vlan", None, "v5", "onboot", <<"inet">>, "e1", <<>>),
    Doc("bridge", "br0", "br0", "none", <<>>, None, <<E0, [V5 EXCEPT !.name = None]>>)}

S(n, family, kind, deps) ==
    [name |-> n, family |-> family, manual |-> FALSE, kind |-> kind, deps |-> deps, raw |-> None]

AllFiles == {
    [auto |-> <<<<"e0">>, <<"e1">>>>,
     iface |-> <<S("e0", "inet", "ethernet", <<>>), S("e1", "inet", "ethernet", <<>>)>>],
    [auto |-> <<<<"e0", "e1">>>>,
     iface |-> <<S("e0", "inet", "ethernet", <<>>), S("e0", "inet6", "ethernet", <<>>),
                 S("e1", "inet", "ethernet", <<>>)>>],
    [auto |-> <<<<"br0">>>>,
     iface |-> <<S("br0", "inet", "bridge", <<"b0", "e1">>), S("b0", "inet", "bond", <<"e0">>)>>],
    [auto |-> <<>>,
     iface |-> <<S("br0", "inet", "bridge", <<"e0">>), S("e0", "inet", "ethernet", <<>>)>>]}
=============================================================================
