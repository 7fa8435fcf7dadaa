----------------------------- MODULE MCFreebsd -----------------------------
(***************************************************************************)
(* Two processes, three interfaces, and rc.conf with lines for each and a    *)
(* comment.  The name em1 is part of the name em10.                        *)
(***************************************************************************)
EXTENDS DrvFreebsd, TLC

CONSTANTS em0, em1, em10, p1, p2

MCProcs == {p1, p2}
MCNames == {em0, em1, em10}
MCSubstrings == (em0 :> {em0}) @@ (em1 :> {em1}) @@ (em10 :> {em1, em10})

\* IFF_MULTICAST (0x8000), the sign bit of ifr_flags, with IFF_MONITOR (0x40000) and IFF_UP
\* and with the highest bit of the word
MCWords == {294913, -2147450880}

Setting(n) == [comment |-> FALSE, names |-> {n}]
Comment(n) == [comment |-> TRUE, names |-> {n}]

MCFiles == {<<Setting(em1), Comment(em10), Setting(em10)>>, <<Setting(em0), Setting(em10)>>}

Symmetry == Permutations({p1, p2})
=============================================================================
