-------------------------- MODULE DrvDebianProofs --------------------------
(***************************************************************************)
(* Proofs about the Debian driver's configuration calls, for every set of  *)
(* names, documents and files and any number of failures and of changes by *)
(* other programs.                                                         *)
(***************************************************************************)
EXTENDS DrvDebian, SequenceTheorems, WellFoundedInduction, TLAPS

\* The names that a define removes.
Removed(d) == ToSet(NamesToRemove(d))

\* A file without the stanzas of some names, and what a define makes of a file.
Kept(f, N) ==
    [auto |-> Select(f.auto, AutoLine \ Led(N)), iface |-> Select(f.iface, Stanza \ Named(N))]
Defined(f, d) == aug_put_xml(Kept(f, Removed(d)), d)

\* The arguments of a call, and what it loaded.
Calls ==
    /\ before \in [file : File, aliases : SUBSET Names]
    /\ pc = "idle" => doc = None
    /\ pc \in {"rm", "put", "bond"} => doc \in Docs
    /\ pc \in {"unbond", "rmone"} => doc = None /\ nif # None
    /\ pc \in {"put", "bond", "save"} /\ doc # None => Removed(doc) \subseteq Names \cup {Empty}

\* Every file that the driver loads could be written.
Loads == Writable(disk) /\ Writable(before.file)

\* What the tree is in each phase of a call, from what the call loaded.
Defining ==
    /\ pc = "rm" => \E N \in SUBSET (Names \cup {Empty}) :
         N \cup ToSet(todo) = Removed(doc) /\ tree = Kept(before.file, N)
    /\ pc = "put" => tree = Kept(before.file, Removed(doc))
    /\ pc = "bond" => tree = Defined(before.file, doc)
    /\ pc \in {"rm", "put", "bond"} => talias = before.aliases
Undefining ==
    /\ pc \in {"unbond", "rmone"} => tree = before.file
    /\ pc = "unbond" => talias = before.aliases
    /\ pc = "rmone" => talias = before.aliases \ bond_setup(before.file, nif)
Saving ==
    pc = "save" =>
      /\ doc # None => /\ tree = Defined(before.file, doc)
                       /\ talias = before.aliases
                                     \cup bond_setup(tree, device_name_from_xml(doc))
      /\ doc = None => /\ nif # None /\ tree = Kept(before.file, {nif})
                       /\ talias = before.aliases \ bond_setup(before.file, nif)

\* What the files are, unless another program changed them during the call.
Untouched == pc \notin {"idle", "save"} /\ ~met => disk = before.file /\ aliases = before.aliases
Written ==
    pc = "save" /\ saved /\ ~met =>
      ("interfaces" \in left \/ disk = tree) /\ ("modprobe" \in left \/ aliases = talias)

DInv == TypeOK /\ Calls /\ Loads /\ Defining /\ Undefining /\ Saving /\ Untouched /\ Written

-----------------------------------------------------------------------------
(***************************************************************************)
(* Selecting from a sequence                                               *)
(***************************************************************************)
\* Induction over the naturals, for a set.
LEMMA NatSet ==
    ASSUME NEW P \in SUBSET Nat, 0 \in P, \A n \in P : n + 1 \in P
    PROVE  P = Nat
<1>1. SUFFICES ASSUME Nat \ P # {} PROVE FALSE
  OBVIOUS
<1>2. PICK m \in Nat \ P : \A y \in Nat \ P : ~(<<y, m>> \in OpToRel(<, Nat))
  BY <1>1, NatLessThanWellFounded, WFMin
<1>0. m \in Nat /\ m \notin P
  OBVIOUS
<1>3. m # 0 /\ m - 1 \in Nat /\ m - 1 < m
  BY <1>0
<1>4. m - 1 \in P
  BY <1>2, <1>3 DEF OpToRel
<1>5. (m - 1) + 1 = m
  BY <1>0
<1> QED  BY <1>0, <1>4, <1>5

\* Induction over the sequences of a set, for a set.
LEMMA SeqSet ==
    ASSUME NEW S, NEW P \in SUBSET Seq(S), <<>> \in P,
           \A s \in P, e \in S : Append(s, e) \in P
    PROVE  P = Seq(S)
<1> DEFINE Q == {n \in Nat : \A s \in Seq(S) : Len(s) = n => s \in P}
<1>1. 0 \in Q
  BY EmptySeq
<1>2. ASSUME NEW n \in Q PROVE n + 1 \in Q
  <2>1. SUFFICES ASSUME NEW s \in Seq(S), Len(s) = n + 1 PROVE s \in P
    OBVIOUS
  <2> DEFINE t == SubSeq(s, 1, n)
  <2>2. t \in Seq(S) /\ Len(t) = n /\ s = Append(t, s[n + 1]) /\ s[n + 1] \in S
    <3>1. n \in Nat
      OBVIOUS
    <3>2. \A i \in 1..n : s[i] \in S
      BY <2>1, <3>1, ElementOfSeq
    <3>3. t \in Seq(S) /\ Len(t) = n /\ \A i \in 1..n : t[i] = s[i]
      BY <3>1, <3>2, SubSeqProperties
    <3>4. s[n + 1] \in S
      BY <2>1, <3>1, ElementOfSeq
    <3> HIDE DEF t, Q
    <3>5. Append(t, s[n + 1]) \in Seq(S) /\ Len(Append(t, s[n + 1])) = n + 1
      BY <3>1, <3>3, <3>4, AppendProperties
    <3>6. \A i \in 1..(n + 1) : s[i] = Append(t, s[n + 1])[i]
      <4>1. Append(t, s[n + 1])[n + 1] = s[n + 1]
        BY <3>1, <3>3, <3>4, AppendProperties
      <4>2. \A i \in 1..n : Append(t, s[n + 1])[i] = t[i]
        BY <3>1, <3>3, <3>4, AppendProperties
      <4>3. \A i \in 1..(n + 1) : i = n + 1 \/ i \in 1..n
        BY <3>1
      <4> QED  BY <3>3, <4>1, <4>2, <4>3
    <3>7. s = Append(t, s[n + 1])
      BY <2>1, <3>5, <3>6, SeqEqual
    <3> QED  BY <3>3, <3>4, <3>7
  <2> HIDE DEF t
  <2>3. t \in P
    BY <2>2
  <2> QED  BY <2>2, <2>3
<1>3. Q = Nat
  <2> HIDE DEF Q
  <2>1. Q \in SUBSET Nat
    BY DEF Q
  <2> QED  BY <1>1, <1>2, <2>1, NatSet
<1> QED  BY <1>3, LenProperties

\* A function on 0..n can be defined by recursion: some f starts with c and takes the
\* steps that G has.
LEMMA RecursionExists ==
    ASSUME NEW V, NEW c \in V, NEW n \in Nat, NEW G \in [1..n -> [V -> V]]
    PROVE  \E f \in [0..n -> V] : f[0] = c /\ \A i \in 1..n : f[i] = G[i][f[i - 1]]
<1> DEFINE Good(m, f) == f[0] = c /\ \A i \in 1..m : f[i] = G[i][f[i - 1]]
           Q == {m \in Nat : m <= n => \E f \in [0..m -> V] : Good(m, f)}
<1>1. 0 \in Q
  <2>1. [i \in 0..0 |-> c] \in [0..0 -> V] /\ [i \in 0..0 |-> c][0] = c
    OBVIOUS
  <2>2. Good(0, [i \in 0..0 |-> c])
    BY <2>1
  <2> HIDE DEF Good
  <2> QED  BY <2>1, <2>2
<1>2. ASSUME NEW m \in Q PROVE m + 1 \in Q
  <2>0. m \in Nat /\ m + 1 \in Nat
    OBVIOUS
  <2>1. SUFFICES ASSUME m + 1 <= n PROVE \E f \in [0..(m + 1) -> V] : Good(m + 1, f)
    <3> HIDE DEF Good
    <3> QED  BY <2>0
  <2>2. m \in Nat /\ m <= n
    BY <2>1
  <2>3. PICK f \in [0..m -> V] : Good(m, f)
    BY <2>2
  <2> DEFINE g == [i \in 0..(m + 1) |-> IF i = m + 1 THEN G[m + 1][f[m]] ELSE f[i]]
  <2>4. G[m + 1][f[m]] \in V
    BY <2>1, <2>2
  <2>5. g \in [0..(m + 1) -> V]
    BY <2>2, <2>4
  <2>6. g[0] = c
    BY <2>2, <2>3
  <2>7. ASSUME NEW i \in 1..(m + 1) PROVE g[i] = G[i][g[i - 1]]
    <3>1. i - 1 \in 0..m /\ i \in 0..(m + 1) /\ g[i - 1] = f[i - 1]
      BY <2>2
    <3>2. CASE i = m + 1
      BY <2>2, <3>1, <3>2
    <3>3. CASE i # m + 1
      <4>1. i \in 1..m
        BY <2>2, <3>3
      <4>2. f[i] = G[i][f[i - 1]]
        BY <2>3, <4>1
      <4> QED  BY <3>1, <3>3, <4>2
    <3> QED  BY <3>2, <3>3
  <2> HIDE DEF g
  <2> QED  BY <2>5, <2>6, <2>7
<1>3. Q = Nat
  <2> HIDE DEF Q
  <2>1. Q \in SUBSET Nat
    BY DEF Q
  <2> QED  BY <1>1, <1>2, <2>1, NatSet
<1> QED  BY <1>3

\* What selects from the first elements of a sequence.
Selector(s, T, f) ==
    /\ f[0] = <<>>
    /\ \A i \in 1..Len(s) : f[i] = IF s[i] \in T THEN Append(f[i - 1], s[i]) ELSE f[i - 1]

\* Select is the last value of such a function.
LEMMA SelectDef ==
    ASSUME NEW S, NEW s \in Seq(S), NEW T
    PROVE  \E f \in [0..Len(s) -> Seq(S)] : Selector(s, T, f) /\ Select(s, T) = f[Len(s)]
<1> DEFINE n == Len(s)
           V == Seq(S)
           G == [i \in 1..n |-> [v \in V |-> IF s[i] \in T THEN Append(v, s[i]) ELSE v]]
           Rec(f) == [i \in 0..n |-> IF i = 0 THEN <<>>
                                     ELSE IF s[i] \in T THEN Append(f[i - 1], s[i]) ELSE f[i - 1]]
           F == CHOOSE f : f = Rec(f)
<1>1. n \in Nat /\ <<>> \in V /\ \A i \in 1..n : s[i] \in S
  BY LenProperties, EmptySeq, ElementOfSeq
<1>2. \A v \in V : \A i \in 1..n : Append(v, s[i]) \in V
  BY <1>1, AppendProperties
<1>3. G \in [1..n -> [V -> V]]
  BY <1>1, <1>2
<1>4. PICK f \in [0..n -> V] : f[0] = <<>> /\ \A i \in 1..n : f[i] = G[i][f[i - 1]]
  <2> DEFINE c == <<>>
  <2>1. c \in V /\ n \in Nat
    BY <1>1
  <2> HIDE DEF G, V, n, c
  <2>3. G \in [1..n -> [V -> V]]
    BY <1>3
  <2>4. c \in V
    BY <2>1
  <2>5. n \in Nat
    BY <2>1
  <2>2. \E f \in [0..n -> V] : f[0] = c /\ \A i \in 1..n : f[i] = G[i][f[i - 1]]
    BY ONLY <2>3, <2>4, <2>5, RecursionExists, SMTT(60)
  <2> QED  BY <2>2 DEF c
<1>5. ASSUME NEW i \in 1..n
      PROVE  f[i] = IF s[i] \in T THEN Append(f[i - 1], s[i]) ELSE f[i - 1]
  <2>1. i - 1 \in 0..n
    BY <1>1
  <2> QED  BY <1>4, <2>1
<1>6. f = Rec(f)
  <2>1. f = [i \in 0..n |-> f[i]]
    OBVIOUS
  <2>2. ASSUME NEW i \in 0..n PROVE f[i] = Rec(f)[i]
    <3>1. CASE i = 0
      BY <1>1, <1>4, <3>1
    <3>2. CASE i # 0
      <4>1. i \in 1..n
        BY <1>1, <3>2
      <4> QED  BY <1>5, <3>2, <4>1
    <3> QED  BY <3>1, <3>2
  <2>3. Rec(f) = [i \in 0..n |-> Rec(f)[i]]
    OBVIOUS
  <2> HIDE DEF Rec
  <2> QED  BY <2>1, <2>2, <2>3
<1>7. F = Rec(F)
  BY <1>6
<1>8. Select(s, T) = F[n]
  BY DEF Select
<1>9. F[0] = <<>>
  <2>1. 0 \in 0..n
    BY <1>1
  <2>2. Rec(F)[0] = <<>>
    BY <2>1
  <2> HIDE DEF F, Rec
  <2> QED  BY <1>7, <2>2
<1>10. ASSUME NEW i \in 1..n
       PROVE  F[i] = IF s[i] \in T THEN Append(F[i - 1], s[i]) ELSE F[i - 1]
  <2>1. i \in 0..n /\ i # 0
    BY <1>1
  <2>2. Rec(F)[i] = IF s[i] \in T THEN Append(F[i - 1], s[i]) ELSE F[i - 1]
    BY <2>1
  <2> HIDE DEF F, Rec
  <2> QED  BY <1>7, <2>2
<1>11. \A i \in 0..n : F[i] \in V
  <2> HIDE DEF F, V
  <2> DEFINE Q == {m \in Nat : m <= n => F[m] \in V}
  <2>1. 0 \in Q
    BY <1>1, <1>9
  <2>2. ASSUME NEW m \in Q PROVE m + 1 \in Q
    <3>1. SUFFICES ASSUME m + 1 <= n PROVE F[m + 1] \in V
      OBVIOUS
    <3>2. m + 1 \in 1..n /\ (m + 1) - 1 = m /\ F[m] \in V
      BY <1>1, <3>1
    <3> QED  BY <1>2, <1>10, <3>2
  <2>3. Q = Nat
    <3> HIDE DEF Q
    <3>1. Q \in SUBSET Nat
      BY DEF Q
    <3> QED  BY <2>1, <2>2, <3>1, NatSet
  <2> QED  BY <1>1, <2>3
<1>12. F = [i \in 0..n |-> F[i]]
  <2>1. Rec(F) = [i \in 0..n |-> Rec(F)[i]]
    OBVIOUS
  <2> HIDE DEF Rec, F
  <2> QED  BY <1>7, <2>1
<1> HIDE DEF F
<1> QED  BY <1>8, <1>9, <1>10, <1>11, <1>12 DEF Selector

\* A longer sequence, element by element.
LEMMA ToSetSteps ==
    ASSUME NEW S, NEW s \in Seq(S), NEW e \in S
    PROVE  /\ Append(s, e) \in Seq(S) /\ Append(s, e) # <<>>
           /\ ToSet(Append(s, e)) = ToSet(s) \cup {e}
           /\ \A t \in Seq(S) : t \o Append(s, e) = Append(t \o s, e)
<1>1. /\ Len(s) \in Nat /\ DOMAIN s = 1..Len(s)
      /\ Append(s, e) \in Seq(S) /\ DOMAIN Append(s, e) = 1..(Len(s) + 1)
      /\ Len(Append(s, e)) = Len(s) + 1
  BY AppendProperties, LenProperties
<1>2. /\ Append(s, e)[Len(s) + 1] = e
      /\ \A i \in 1..Len(s) : Append(s, e)[i] = s[i]
  BY <1>1, AppendProperties
<1>3. \A i \in 1..(Len(s) + 1) : i \in 1..Len(s) \/ i = Len(s) + 1
  BY <1>1
<1>4. \A i \in 1..Len(s) : i \in 1..(Len(s) + 1)
  BY <1>1
<1>5. Len(s) + 1 \in 1..(Len(s) + 1)
  BY <1>1
<1>6. ToSet(Append(s, e)) = ToSet(s) \cup {e}
  BY <1>1, <1>2, <1>3, <1>4, <1>5 DEF ToSet
<1>7. ASSUME NEW t \in Seq(S) PROVE t \o Append(s, e) = Append(t \o s, e)
  OBVIOUS
<1>8. Append(s, e) # <<>>
  BY <1>1, EmptySeq
<1> QED  BY <1>1, <1>6, <1>7, <1>8

\* The set of a concatenation, and when a sequence has no elements.
LEMMA ToSetConcat ==
    ASSUME NEW S, NEW s \in Seq(S), NEW t \in Seq(S)
    PROVE  /\ s \o t \in Seq(S) /\ ToSet(s \o t) = ToSet(s) \cup ToSet(t)
           /\ ToSet(s) \subseteq S
           /\ s = <<>> <=> ToSet(s) = {}
           /\ s # <<>> => s[1] \in ToSet(s)
<1>1. /\ Len(s) \in Nat /\ DOMAIN s = 1..Len(s) /\ Len(t) \in Nat /\ DOMAIN t = 1..Len(t)
      /\ s \o t \in Seq(S) /\ DOMAIN (s \o t) = 1..(Len(s) + Len(t))
  BY ConcatProperties, LenProperties
<1>2. \A i \in 1..Len(s) : i \in 1..(Len(s) + Len(t)) /\ (s \o t)[i] = s[i]
  BY <1>1, ConcatProperties
<1>3. \A i \in 1..Len(t) : Len(s) + i \in 1..(Len(s) + Len(t)) /\ (s \o t)[Len(s) + i] = t[i]
  BY <1>1, ConcatProperties
<1>4. \A i \in 1..(Len(s) + Len(t)) :
        \/ i \in 1..Len(s) /\ (s \o t)[i] = s[i]
        \/ i - Len(s) \in 1..Len(t) /\ (s \o t)[i] = t[i - Len(s)]
  BY <1>1, ConcatProperties
<1>5. ToSet(s \o t) = ToSet(s) \cup ToSet(t)
  <2>1. \A x \in ToSet(s \o t) : x \in ToSet(s) \cup ToSet(t)
    BY <1>1, <1>4 DEF ToSet
  <2>2. \A x \in ToSet(s) \cup ToSet(t) : x \in ToSet(s \o t)
    BY <1>1, <1>2, <1>3 DEF ToSet
  <2> QED  BY <2>1, <2>2
<1>6. ToSet(s) \subseteq S
  BY <1>1, ElementOfSeq DEF ToSet
<1>7. s # <<>> => 1 \in 1..Len(s)
  BY <1>1, EmptySeq
<1>8. s = <<>> => ToSet(s) = {}
  BY <1>1, EmptySeq DEF ToSet
<1> QED  BY <1>1, <1>5, <1>6, <1>7, <1>8 DEF ToSet

\* The first element and the others.
LEMMA ToSetTail ==
    ASSUME NEW S, NEW s \in Seq(S), s # <<>>
    PROVE  Tail(s) \in Seq(S) /\ s[1] \in S /\ ToSet(s) = {s[1]} \cup ToSet(Tail(s))
<1> DEFINE n == Len(s)
<1>1. /\ n \in Nat /\ n # 0 /\ DOMAIN s = 1..n
      /\ Tail(s) \in Seq(S) /\ Len(Tail(s)) = n - 1
      /\ \A i \in 1..(n - 1) : Tail(s)[i] = s[i + 1]
  BY HeadTailProperties, LenProperties, EmptySeq
<1>2. DOMAIN Tail(s) = 1..(n - 1)
  BY <1>1, LenProperties
<1>3. 1 \in 1..n /\ s[1] \in S
  BY <1>1, ElementOfSeq
<1>4. \A i \in 1..n : i = 1 \/ (i - 1 \in 1..(n - 1) /\ (i - 1) + 1 = i)
  BY <1>1
<1>5. \A i \in 1..(n - 1) : i + 1 \in 1..n
  BY <1>1
<1>6. ToSet(s) = {s[i] : i \in 1..n}
  BY <1>1 DEF ToSet
<1>7. ToSet(Tail(s)) = {Tail(s)[i] : i \in 1..(n - 1)}
  BY <1>2 DEF ToSet
<1>8. \A i \in 1..n : i = 1 \/ \E j \in 1..(n - 1) : s[i] = Tail(s)[j]
  BY <1>1, <1>4
<1>9. \A j \in 1..(n - 1) : \E i \in 1..n : Tail(s)[j] = s[i]
  BY <1>1, <1>5
<1>10. ToSet(s) = {s[1]} \cup ToSet(Tail(s))
  <2> DEFINE t == Tail(s)
             A == 1..n
             B == 1..(n - 1)
  <2>1. /\ ToSet(s) = {s[i] : i \in A} /\ ToSet(t) = {t[i] : i \in B} /\ 1 \in A
        /\ \A i \in A : i = 1 \/ \E j \in B : s[i] = t[j]
        /\ \A j \in B : \E i \in A : t[j] = s[i]
    BY <1>3, <1>6, <1>7, <1>8, <1>9
  <2> HIDE DEF t, A, B
  <2>2. ToSet(s) = {s[1]} \cup ToSet(t)
    BY ONLY <2>1
  <2> QED  BY <2>2 DEF t
<1> QED  BY <1>1, <1>3, <1>10

\* What Select does at the empty sequence and at one more element.
LEMMA SelectEmpty ==
    ASSUME NEW T
    PROVE  Select(<<>>, T) = <<>>
<1>1. <<>> \in Seq({}) /\ Len(<<>>) = 0
  BY EmptySeq
<1>2. PICK f \in [0..Len(<<>>) -> Seq({})] :
        Selector(<<>>, T, f) /\ Select(<<>>, T) = f[Len(<<>>)]
  BY <1>1, SelectDef
<1> QED  BY <1>1, <1>2 DEF Selector

\* One more element is kept or not.
LEMMA SelectAppend ==
    ASSUME NEW S, NEW s \in Seq(S), NEW e \in S, NEW T
    PROVE  /\ Select(s, T) \in Seq(S)
           /\ e \in T => Select(Append(s, e), T) = Append(Select(s, T), e)
           /\ e \notin T => Select(Append(s, e), T) = Select(s, T)
<1> DEFINE u == Append(s, e)
           n == Len(s)
<1>1. /\ n \in Nat /\ u \in Seq(S) /\ Len(u) = n + 1 /\ u[n + 1] = e
      /\ \A i \in 1..n : u[i] = s[i]
  BY AppendProperties, LenProperties
<1>2. PICK f \in [0..n -> Seq(S)] : Selector(s, T, f) /\ Select(s, T) = f[n]
  BY SelectDef
<1> HIDE DEF u, n
<1>3. PICK g \in [0..Len(u) -> Seq(S)] : Selector(u, T, g) /\ Select(u, T) = g[Len(u)]
  BY <1>1, SelectDef
<1> DEFINE Q == {m \in Nat : m <= n => f[m] = g[m]}
<1>4. 0 \in Q
  BY <1>2, <1>3 DEF Selector
<1>5. ASSUME NEW m \in Q PROVE m + 1 \in Q
  <2>1. SUFFICES ASSUME m + 1 <= n PROVE f[m + 1] = g[m + 1]
    OBVIOUS
  <2>2. f[m] = g[m] /\ m + 1 \in 1..n /\ m + 1 \in 1..Len(u) /\ (m + 1) - 1 = m
    BY <1>1, <2>1
  <2>3. u[m + 1] = s[m + 1]
    BY <1>1, <2>2
  <2>4. f[m + 1] = IF s[m + 1] \in T THEN Append(f[m], s[m + 1]) ELSE f[m]
    BY <1>2, <2>2 DEF Selector, n
  <2>5. g[m + 1] = IF u[m + 1] \in T THEN Append(g[m], u[m + 1]) ELSE g[m]
    BY <1>3, <2>2 DEF Selector
  <2> QED  BY <2>2, <2>3, <2>4, <2>5
<1>6. Q = Nat
  <2> HIDE DEF Q
  <2>1. Q \in SUBSET Nat
    BY DEF Q
  <2> QED  BY <1>4, <1>5, <2>1, NatSet
<1>7. f[n] = g[n]
  <2>1. n \in Q /\ n <= n
    <3> HIDE DEF Q
    <3> QED  BY <1>1, <1>6
  <2> QED  BY <2>1
<1>8. n + 1 \in 1..Len(u) /\ (n + 1) - 1 = n
  BY <1>1
<1>9. g[n + 1] = IF u[n + 1] \in T THEN Append(g[n], u[n + 1]) ELSE g[n]
  BY <1>3, <1>8 DEF Selector
<1>10. Select(s, T) \in Seq(S)
  BY <1>1, <1>2
<1> QED  BY <1>1, <1>2, <1>3, <1>7, <1>9, <1>10 DEF u

\* An element of the set is kept.
LEMMA SelectKeeps ==
    ASSUME NEW S, NEW s \in Seq(S), NEW e \in S, NEW T, e \in T
    PROVE  Select(Append(s, e), T) = Append(Select(s, T), e)
BY SelectAppend

\* Another element is not.
LEMMA SelectDrops ==
    ASSUME NEW S, NEW s \in Seq(S), NEW e \in S, NEW T, e \notin T
    PROVE  Select(Append(s, e), T) = Select(s, T)
BY SelectAppend

\* What is selected are the elements that are in the set.
LEMMA SelectSet ==
    ASSUME NEW S, NEW s \in Seq(S), NEW T
    PROVE  Select(s, T) \in Seq(S) /\ ToSet(Select(s, T)) = ToSet(s) \cap T
<1> DEFINE P == {t \in Seq(S) : Select(t, T) \in Seq(S) /\ ToSet(Select(t, T)) = ToSet(t) \cap T}
<1>1. <<>> \in P
  <2>1. <<>> \in Seq(S) /\ ToSet(<<>>) = {}
    BY EmptySeq, ToSetConcat
  <2> QED  BY <2>1, SelectEmpty
<1>2. ASSUME NEW t \in P, NEW e \in S PROVE Append(t, e) \in P
  <2>1. /\ t \in Seq(S) /\ Append(t, e) \in Seq(S) /\ ToSet(Append(t, e)) = ToSet(t) \cup {e}
        /\ Select(t, T) \in Seq(S) /\ ToSet(Select(t, T)) = ToSet(t) \cap T
    BY ToSetSteps
  <2>2. CASE e \in T
    <3>1. Select(Append(t, e), T) = Append(Select(t, T), e)
      BY <2>1, <2>2, SelectAppend
    <3>2. /\ Append(Select(t, T), e) \in Seq(S)
          /\ ToSet(Append(Select(t, T), e)) = ToSet(Select(t, T)) \cup {e}
      BY <2>1, ToSetSteps
    <3> QED  BY <2>1, <2>2, <3>1, <3>2
  <2>3. CASE e \notin T
    <3>1. Select(Append(t, e), T) = Select(t, T)
      BY <2>1, <2>3, SelectAppend
    <3> QED  BY <2>1, <2>3, <3>1
  <2> QED  BY <2>2, <2>3
<1>3. P = Seq(S)
  <2> HIDE DEF P
  <2>1. P \in SUBSET Seq(S)
    BY DEF P
  <2> QED  BY <1>1, <1>2, <2>1, SeqSet
<1> QED  BY <1>3

\* Selecting from a concatenation.
LEMMA SelectConcat ==
    ASSUME NEW S, NEW s \in Seq(S), NEW t \in Seq(S), NEW T
    PROVE  Select(s \o t, T) = Select(s, T) \o Select(t, T)
<1> DEFINE P == {u \in Seq(S) : Select(s \o u, T) = Select(s, T) \o Select(u, T)}
<1>0. Select(s, T) \in Seq(S)
  BY SelectSet
<1>1. <<>> \in P
  <2>1. <<>> \in Seq(S) /\ s \o <<>> = s /\ Select(s, T) \o <<>> = Select(s, T)
    BY <1>0, EmptySeq, ConcatEmptySeq
  <2> QED  BY <2>1, SelectEmpty
<1>2. ASSUME NEW u \in P, NEW e \in S PROVE Append(u, e) \in P
  <2>1. /\ u \in Seq(S) /\ Append(u, e) \in Seq(S)
        /\ Select(s \o u, T) = Select(s, T) \o Select(u, T)
        /\ s \o Append(u, e) = Append(s \o u, e)
    BY ToSetSteps
  <2>0. SUFFICES Select(s \o Append(u, e), T) = Select(s, T) \o Select(Append(u, e), T)
    BY <2>1
  <2> HIDE DEF P
  <2>2. s \o u \in Seq(S) /\ Select(u, T) \in Seq(S)
    BY <2>1, ToSetConcat, SelectSet
  <2>3. CASE e \in T
    <3>1. Select(Append(u, e), T) = Append(Select(u, T), e)
      BY <2>1, <2>3, SelectKeeps
    <3>2. Select(Append(s \o u, e), T) = Append(Select(s \o u, T), e)
      BY <2>2, <2>3, SelectKeeps
    <3>3. Select(s, T) \o Append(Select(u, T), e) = Append(Select(s, T) \o Select(u, T), e)
      BY <1>0, <2>2, ToSetSteps
    <3> QED  BY <2>1, <3>1, <3>2, <3>3, Zenon
  <2>4. CASE e \notin T
    <3>1. Select(Append(u, e), T) = Select(u, T)
      BY <2>1, <2>4, SelectDrops
    <3>2. Select(Append(s \o u, e), T) = Select(s \o u, T)
      BY <2>2, <2>4, SelectDrops
    <3> QED  BY <2>1, <3>1, <3>2, Zenon
  <2> QED  BY <2>3, <2>4
<1>3. P = Seq(S)
  <2> HIDE DEF P
  <2>1. P \in SUBSET Seq(S)
    BY DEF P
  <2> QED  BY <1>1, <1>2, <2>1, SeqSet
<1> QED  BY <1>3

\* Selecting twice.
LEMMA SelectTwice ==
    ASSUME NEW S, NEW s \in Seq(S), NEW A, NEW B
    PROVE  Select(Select(s, A), B) = Select(s, A \cap B)
<1> DEFINE P == {u \in Seq(S) : Select(Select(u, A), B) = Select(u, A \cap B)}
<1>1. <<>> \in P
  <2>1. <<>> \in Seq(S)
    BY EmptySeq
  <2> QED  BY <2>1, SelectEmpty
<1>2. ASSUME NEW u \in P, NEW e \in S PROVE Append(u, e) \in P
  <2>1. /\ u \in Seq(S) /\ Append(u, e) \in Seq(S)
        /\ Select(Select(u, A), B) = Select(u, A \cap B)
    BY ToSetSteps
  <2>0. SUFFICES Select(Select(Append(u, e), A), B) = Select(Append(u, e), A \cap B)
    BY <2>1
  <2> HIDE DEF P
  <2>2. Select(u, A) \in Seq(S)
    BY <2>1, SelectSet
  <2>3. CASE e \notin A
    <3>1. Select(Append(u, e), A) = Select(u, A)
      BY <2>1, <2>3, SelectDrops
    <3>2. Select(Append(u, e), A \cap B) = Select(u, A \cap B)
      BY <2>1, <2>3, SelectDrops
    <3> QED  BY <2>1, <3>1, <3>2, Zenon
  <2>4. CASE e \in A /\ e \notin B
    <3>1. Select(Append(u, e), A) = Append(Select(u, A), e)
      BY <2>1, <2>4, SelectKeeps
    <3>2. Select(Append(u, e), A \cap B) = Select(u, A \cap B)
      BY <2>1, <2>4, SelectDrops
    <3>3. Select(Append(Select(u, A), e), B) = Select(Select(u, A), B)
      BY <2>2, <2>4, SelectDrops
    <3> QED  BY <2>1, <3>1, <3>2, <3>3, Zenon
  <2>5. CASE e \in A /\ e \in B
    <3>1. Select(Append(u, e), A) = Append(Select(u, A), e)
      BY <2>1, <2>5, SelectKeeps
    <3>2. Select(Append(u, e), A \cap B) = Append(Select(u, A \cap B), e)
      BY <2>1, <2>5, SelectKeeps
    <3>3. Select(Append(Select(u, A), e), B) = Append(Select(Select(u, A), B), e)
      BY <2>2, <2>5, SelectKeeps
    <3> QED  BY <2>1, <3>1, <3>2, <3>3, Zenon
  <2> QED  BY <2>3, <2>4, <2>5
<1>3. P = Seq(S)
  <2> HIDE DEF P
  <2>1. P \in SUBSET Seq(S)
    BY DEF P
  <2> QED  BY <1>1, <1>2, <2>1, SeqSet
<1> QED  BY <1>3

\* All elements or none are selected.
LEMMA SelectAll ==
    ASSUME NEW S, NEW s \in Seq(S), NEW T
    PROVE  /\ ToSet(s) \subseteq T => Select(s, T) = s
           /\ ToSet(s) \cap T = {} => Select(s, T) = <<>>
<1> DEFINE P == {u \in Seq(S) : ToSet(u) \subseteq T => Select(u, T) = u}
<1>1. <<>> \in P
  <2>1. <<>> \in Seq(S)
    BY EmptySeq
  <2> QED  BY <2>1, SelectEmpty
<1>2. ASSUME NEW u \in P, NEW e \in S PROVE Append(u, e) \in P
  <2>1. /\ u \in Seq(S) /\ Append(u, e) \in Seq(S) /\ ToSet(Append(u, e)) = ToSet(u) \cup {e}
        /\ ToSet(u) \subseteq T => Select(u, T) = u
    BY ToSetSteps
  <2>2. SUFFICES ASSUME ToSet(u) \subseteq T, e \in T PROVE Select(Append(u, e), T) = Append(u, e)
    BY <2>1
  <2> HIDE DEF P
  <2> QED  BY <2>1, <2>2, SelectKeeps
<1>3. P = Seq(S)
  <2> HIDE DEF P
  <2>1. P \in SUBSET Seq(S)
    BY DEF P
  <2> QED  BY <1>1, <1>2, <2>1, SeqSet
<1>4. ToSet(s) \subseteq T => Select(s, T) = s
  BY <1>3
<1>5. ToSet(s) \cap T = {} => Select(s, T) = <<>>
  BY SelectSet, ToSetConcat
<1> QED  BY <1>4, <1>5

\* FlattenSeq concatenates: its elements are those of the sequences.
LEMMA Flattened ==
    ASSUME NEW S, NEW q \in Seq(Seq(S))
    PROVE  /\ FlattenSeq(q) \in Seq(S)
           /\ ToSet(FlattenSeq(q)) = UNION {ToSet(x) : x \in ToSet(q)}
<1> DEFINE n == Len(q)
           V == Seq(S)
           G == [i \in 1..n |-> [v \in V |-> v \o q[i]]]
           Rec(f) == [i \in 1..n |-> IF i = 1 THEN q[i] ELSE f[i - 1] \o q[i]]
           F == CHOOSE f : f = Rec(f)
<1>1. n \in Nat /\ DOMAIN q = 1..n /\ \A i \in 1..n : q[i] \in V
  BY LenProperties, ElementOfSeq
<1>2. CASE n = 0
  <2>1. q = <<>>
    BY <1>2, EmptySeq
  <2>2. FlattenSeq(q) = q
    BY <1>2 DEF FlattenSeq
  <2>3. <<>> \in Seq(S) /\ ToSet(<<>>) = {}
    BY EmptySeq, ToSetConcat
  <2> QED  BY <2>1, <2>2, <2>3
<1>3. CASE n # 0
  <2>1. G \in [1..n -> [V -> V]]
    BY <1>1, ToSetConcat
  <2>2. PICK h \in [0..n -> V] : h[0] = <<>> /\ \A i \in 1..n : h[i] = G[i][h[i - 1]]
    <3> DEFINE c == <<>>
    <3>1. c \in V
      BY EmptySeq
    <3>2. n \in Nat
      BY <1>1
    <3> HIDE DEF G, V, n, c
    <3>4. G \in [1..n -> [V -> V]]
      BY <2>1
    <3>5. c \in V
      BY <3>1
    <3>6. n \in Nat
      BY <3>2
    <3>3. \E f \in [0..n -> V] : f[0] = c /\ \A i \in 1..n : f[i] = G[i][f[i - 1]]
      BY ONLY <3>4, <3>5, <3>6, RecursionExists, SMTT(60)
    <3> QED  BY <3>3 DEF c
  <2> DEFINE f == [i \in 1..n |-> h[i]]
  <2>3. ASSUME NEW i \in 1..n PROVE f[i] = Rec(f)[i]
    <3>0. i - 1 \in 0..n
      BY <1>1
    <3>1. h[i - 1] \in V
      BY <3>0
    <3>2. h[i] = h[i - 1] \o q[i]
      BY <2>2, <3>1
    <3>3. CASE i = 1
      <4>0. q[i] \in Seq(S)
        BY <1>1
      <4>1. <<>> \o q[i] = q[i]
        BY <4>0, ConcatEmptySeq
      <4>2. h[i - 1] = <<>>
        BY <2>2, <3>3
      <4>3. h[i] = q[i]
        BY <3>2, <4>1, <4>2, Zenon
      <4> QED  BY <3>3, <4>3
    <3>4. CASE i # 1
      <4>1. i - 1 \in 1..n
        BY <1>1, <3>4
      <4> QED  BY <3>2, <3>4, <4>1
    <3> QED  BY <3>3, <3>4
  <2>4. f = Rec(f)
    <3>1. f = [i \in 1..n |-> f[i]] /\ Rec(f) = [i \in 1..n |-> Rec(f)[i]]
      OBVIOUS
    <3> HIDE DEF f, Rec
    <3> QED  BY <2>3, <3>1
  <2>5. F = Rec(F)
    BY <2>4
  <2>6. FlattenSeq(q) = F[n]
    BY <1>3 DEF FlattenSeq
  <2>7. ASSUME NEW i \in 1..n PROVE F[i] = IF i = 1 THEN q[i] ELSE F[i - 1] \o q[i]
    <3>1. Rec(F)[i] = IF i = 1 THEN q[i] ELSE F[i - 1] \o q[i]
      OBVIOUS
    <3> HIDE DEF F, Rec
    <3> QED  BY <2>5, <3>1
  <2> HIDE DEF F, V
  <2> DEFINE U(m) == UNION {ToSet(q[i]) : i \in 1..m}
             Q == {m \in Nat : m + 1 <= n => F[m + 1] \in V /\ ToSet(F[m + 1]) = U(m + 1)}
  <2>8. 0 \in Q
    <3>1. F[1] = q[1] /\ q[1] \in V
      BY <1>1, <1>3, <2>7
    <3>2. U(1) = ToSet(q[1])
      OBVIOUS
    <3> HIDE DEF U
    <3> QED  BY <3>1, <3>2
  <2>9. ASSUME NEW m \in Q PROVE m + 1 \in Q
    <3>1. m \in Nat /\ (m + 1) + 1 = m + 2
      OBVIOUS
    <3>2. SUFFICES ASSUME m + 2 <= n PROVE F[m + 2] \in V /\ ToSet(F[m + 2]) = U(m + 2)
      <4> HIDE DEF U
      <4> QED  BY <3>1
    <3>3. m + 1 <= n /\ m + 2 \in 1..n /\ m + 2 # 1 /\ (m + 2) - 1 = m + 1
      BY <1>1, <3>1, <3>2
    <3>4. F[m + 1] \in V /\ ToSet(F[m + 1]) = U(m + 1)
      <4> HIDE DEF U
      <4> QED  BY <3>3
    <3>5. F[m + 2] = F[m + 1] \o q[m + 2] /\ q[m + 2] \in V
      BY <1>1, <2>7, <3>3
    <3>6. F[m + 2] \in V /\ ToSet(F[m + 2]) = ToSet(F[m + 1]) \cup ToSet(q[m + 2])
      BY <3>4, <3>5, ToSetConcat DEF V
    <3>7. \A i : i \in 1..(m + 2) <=> i \in 1..(m + 1) \/ i = m + 2
      BY <3>1
    <3>8. U(m + 2) = U(m + 1) \cup ToSet(q[m + 2])
      BY <3>7
    <3> HIDE DEF U
    <3> QED  BY <3>4, <3>6, <3>8
  <2>10. Q = Nat
    <3> HIDE DEF Q
    <3>1. Q \in SUBSET Nat
      BY DEF Q
    <3> QED  BY <2>8, <2>9, <3>1, NatSet
  <2>11. F[n] \in V /\ ToSet(F[n]) = U(n)
    <3>1. n - 1 \in Nat /\ (n - 1) + 1 = n /\ n <= n
      BY <1>1, <1>3
    <3> HIDE DEF U, n
    <3>2. n - 1 \in Q
      <4> HIDE DEF Q
      <4> QED  BY <2>10, <3>1
    <3> QED  BY <3>1, <3>2
  <2>12. U(n) = UNION {ToSet(x) : x \in ToSet(q)}
    <3>1. ToSet(q) = {q[i] : i \in 1..n}
      BY <1>1 DEF ToSet
    <3> QED  BY <3>1
  <2> HIDE DEF U
  <2> QED  BY <2>6, <2>11, <2>12 DEF V
<1> QED  BY <1>2, <1>3

-----------------------------------------------------------------------------
(***************************************************************************)
(* Files                                                                   *)
(***************************************************************************)
\* What is kept of a file.
LEMMA KeptFile ==
    ASSUME NEW f \in File, NEW N
    PROVE  /\ Kept(f, N) \in File
           /\ ToSet(Kept(f, N).iface) = {s \in ToSet(f.iface) : s.name \notin N}
           /\ ToSet(Kept(f, N).auto) = {a \in ToSet(f.auto) : a[1] \notin N}
<1>1. f.auto \in Seq(AutoLine) /\ f.iface \in Seq(Stanza)
  BY DEF File
<1>2. ToSet(f.auto) \subseteq AutoLine /\ ToSet(f.iface) \subseteq Stanza
  BY <1>1, ToSetConcat
<1>3. /\ Kept(f, N).auto = Select(f.auto, AutoLine \ Led(N))
      /\ Kept(f, N).iface = Select(f.iface, Stanza \ Named(N))
  BY DEF Kept
<1>4. /\ Kept(f, N).auto \in Seq(AutoLine)
      /\ ToSet(Kept(f, N).auto) = ToSet(f.auto) \cap (AutoLine \ Led(N))
  BY <1>1, <1>3, SelectSet
<1>5. /\ Kept(f, N).iface \in Seq(Stanza)
      /\ ToSet(Kept(f, N).iface) = ToSet(f.iface) \cap (Stanza \ Named(N))
  BY <1>1, <1>3, SelectSet
<1>6. Kept(f, N) \in File
  BY <1>3, <1>4, <1>5 DEF Kept, File
<1>7. ToSet(f.auto) \cap (AutoLine \ Led(N)) = {a \in ToSet(f.auto) : a[1] \notin N}
  BY <1>2 DEF Led
<1>8. ToSet(f.iface) \cap (Stanza \ Named(N)) = {s \in ToSet(f.iface) : s.name \notin N}
  BY <1>2 DEF Named
<1> QED  BY <1>4, <1>5, <1>6, <1>7, <1>8

\* Removing one more interface.
LEMMA RmMore ==
    ASSUME NEW f \in File, NEW N, NEW n
    PROVE  rm_interface(Kept(f, N), n) = Kept(f, N \cup {n})
<1>1. f.auto \in Seq(AutoLine) /\ f.iface \in Seq(Stanza)
  BY DEF File
<1>2. /\ Kept(f, N).auto = Select(f.auto, AutoLine \ Led(N))
      /\ Kept(f, N).iface = Select(f.iface, Stanza \ Named(N))
  BY DEF Kept
<1>3. /\ (AutoLine \ Led(N)) \cap (AutoLine \ Led({n})) = AutoLine \ Led(N \cup {n})
      /\ (Stanza \ Named(N)) \cap (Stanza \ Named({n})) = Stanza \ Named(N \cup {n})
  BY DEF Led, Named
<1>4. Select(Kept(f, N).auto, AutoLine \ Led({n})) = Select(f.auto, AutoLine \ Led(N \cup {n}))
  <2>1. \A A, B : Select(Select(f.auto, A), B) = Select(f.auto, A \cap B)
    BY <1>1, SelectTwice
  <2>2. Select(Select(f.auto, AutoLine \ Led(N)), AutoLine \ Led({n}))
          = Select(f.auto, (AutoLine \ Led(N)) \cap (AutoLine \ Led({n})))
    BY <2>1, Zenon
  <2> QED  BY <1>2, <1>3, <2>2, Zenon
<1>5. Select(Kept(f, N).iface, Stanza \ Named({n})) = Select(f.iface, Stanza \ Named(N \cup {n}))
  <2>1. \A A, B : Select(Select(f.iface, A), B) = Select(f.iface, A \cap B)
    BY <1>1, SelectTwice
  <2>2. Select(Select(f.iface, Stanza \ Named(N)), Stanza \ Named({n}))
          = Select(f.iface, (Stanza \ Named(N)) \cap (Stanza \ Named({n})))
    BY <2>1, Zenon
  <2> QED  BY <1>2, <1>3, <2>2, Zenon
<1> QED  BY <1>4, <1>5, Zenon DEF rm_interface, Kept

\* Removing one; removing none.
LEMMA RmKept ==
    ASSUME NEW f \in File, NEW n
    PROVE  rm_interface(f, n) = Kept(f, {n}) /\ Kept(f, {}) = f
<1>1. f.auto \in Seq(AutoLine) /\ f.iface \in Seq(Stanza)
  BY DEF File
<1>2. rm_interface(f, n) = Kept(f, {n})
  BY DEF rm_interface, Kept
<1>3. ToSet(f.auto) \subseteq AutoLine /\ ToSet(f.iface) \subseteq Stanza
  BY <1>1, ToSetConcat
<1>4. Led({}) = {} /\ Named({}) = {}
  BY DEF Led, Named
<1>5. Select(f.auto, AutoLine \ Led({})) = f.auto
  BY <1>1, <1>3, <1>4, SelectAll
<1>6. Select(f.iface, Stanza \ Named({})) = f.iface
  BY <1>1, <1>3, <1>4, SelectAll
<1>7. f = [auto |-> f.auto, iface |-> f.iface]
  BY DEF File
<1>8. Kept(f, {}) = f
  BY <1>5, <1>6, <1>7, Zenon DEF Kept
<1> QED  BY <1>2, <1>8

\* Selecting the stanzas of a name from what is kept of a file.
LEMMA StanzasKept ==
    ASSUME NEW f \in File, NEW N, NEW n
    PROVE  StanzasOf(Kept(f, N), n) = IF n \in N THEN <<>> ELSE StanzasOf(f, n)
<1>1. f.iface \in Seq(Stanza) /\ Kept(f, N).iface = Select(f.iface, Stanza \ Named(N))
  BY DEF File, Kept
<1>2. StanzasOf(Kept(f, N), n) = Select(f.iface, (Stanza \ Named(N)) \cap Named({n}))
  <2>1. \A A, B : Select(Select(f.iface, A), B) = Select(f.iface, A \cap B)
    BY <1>1, SelectTwice
  <2> QED  BY <1>1, <2>1, Zenon DEF StanzasOf
<1>3. CASE n \in N
  <2>1. (Stanza \ Named(N)) \cap Named({n}) = {}
    BY <1>3 DEF Named
  <2>2. Select(f.iface, {}) = <<>>
    BY <1>1, SelectAll
  <2> QED  BY <1>2, <1>3, <2>1, <2>2
<1>4. CASE n \notin N
  <2>1. (Stanza \ Named(N)) \cap Named({n}) = Named({n})
    BY <1>4 DEF Named
  <2> QED  BY <1>2, <1>4, <2>1 DEF StanzasOf
<1> QED  BY <1>3, <1>4

-----------------------------------------------------------------------------
(***************************************************************************)
(* Documents                                                               *)
(***************************************************************************)
Sub == BareEthernet \cup BareBond \cup BareVlan

\* The parts of a document.
LEMMA DocParts ==
    ASSUME NEW d \in Docs
    PROVE  /\ d.type \in Kinds /\ d.device \in Names /\ d.raw \in Names \cup {None}
           /\ d.name = d.device \/ (d.name = None /\ d.type = "vlan")
           /\ d.start \in {"onboot", "hotplug", "none"}
           /\ d.protos \in {<<>>, <<"inet">>, <<"inet6">>, <<"inet", "inet6">>, <<"inet6", "inet">>}
           /\ d.subs \in Seq(Sub) /\ ToSet(d.subs) \subseteq Sub
           /\ d.type \notin {"bridge", "bond"} => d.subs = <<>>
<1>1. Document(d) /\ d \in Schema
  BY DocsAssumption DEF Document
<1>2. d.subs \in Seq(Sub)
  BY <1>1 DEF Schema, Sub
<1>3. ToSet(d.subs) \subseteq Sub
  BY <1>2, ToSetConcat
<1>4. d \in InterfacesOf(d)
  BY DEF InterfacesOf
<1>5. d.name = d.device \/ (d.name = None /\ d.type = "vlan")
  BY <1>1, <1>4 DEF Document
<1>6. d.type \notin {"bridge", "bond"} => d.subs = <<>>
  BY <1>1 DEF Document
<1> QED  BY <1>1, <1>2, <1>3, <1>5, <1>6 DEF Schema

\* The parts of a port or slave.
LEMMA SubParts ==
    ASSUME NEW s \in Sub
    PROVE  /\ s.type \in {"ethernet", "bond", "vlan"} /\ s.name \in Names \cup {None}
           /\ s.raw \in Names \cup {None} /\ s.start = None
           /\ s.subs \in Seq(BareEthernet) /\ ToSet(s.subs) \subseteq BareEthernet
           /\ s.type # "bond" => s.subs = <<>>
           /\ s.type = "ethernet" => s \in BareEthernet
<1>1. <<>> \in Seq(BareEthernet)
  BY EmptySeq
<1>2. /\ s.type \in {"ethernet", "bond", "vlan"} /\ s.name \in Names \cup {None}
      /\ s.raw \in Names \cup {None} /\ s.start = None
      /\ s.subs \in {<<>>} \cup Seq(BareEthernet)
      /\ s.type # "bond" => s.subs = <<>>
      /\ s.type = "ethernet" => s \in BareEthernet
  BY DEF Sub, BareEthernet, BareBond, BareVlan, Bare
<1>3. s.subs \in Seq(BareEthernet)
  BY <1>1, <1>2
<1> QED  BY <1>2, <1>3, ToSetConcat

\* A slave is a bare Ethernet interface.
LEMMA SlaveParts ==
    ASSUME NEW x \in BareEthernet
    PROVE  x.type = "ethernet" /\ x.name \in Names /\ x.raw = None /\ x.subs = <<>> /\ x.start = None
BY DEF BareEthernet, Bare

\* A function on 1..n is a sequence.
LEMMA FunctionSeq ==
    ASSUME NEW S, NEW n \in Nat, NEW q \in [1..n -> S]
    PROVE  q \in Seq(S) /\ Len(q) = n /\ DOMAIN q = 1..n /\ ToSet(q) = {q[i] : i \in 1..n}
<1>1. q \in Seq(S)
  OBVIOUS
<1>2. DOMAIN q = 1..n
  OBVIOUS
<1>3. Len(q) = n
  BY <1>1, <1>2, LenProperties
<1> QED  BY <1>1, <1>2, <1>3 DEF ToSet

\* A sequence of one element.
LEMMA OneElement ==
    ASSUME NEW S, NEW e \in S
    PROVE  <<e>> \in Seq(S) /\ <<e>> # <<>> /\ ToSet(<<e>>) = {e}
<1>1. <<e>> = [i \in 1..1 |-> e]
  OBVIOUS
<1>2. [i \in 1..1 |-> e] \in [1..1 -> S]
  OBVIOUS
<1>3. <<e>> \in Seq(S) /\ ToSet(<<e>>) = {<<e>>[i] : i \in 1..1}
  <2> DEFINE q == <<e>>
             n == 1
  <2>1. q \in [1..n -> S] /\ n \in Nat
    BY <1>1, <1>2
  <2> HIDE DEF q, n
  <2>2. q \in Seq(S) /\ ToSet(q) = {q[i] : i \in 1..n}
    BY <2>1, FunctionSeq
  <2> QED  BY <2>2 DEF q, n
<1>4. {<<e>>[i] : i \in 1..1} = {e}
  <2>1. 1..1 = {1} /\ <<e>>[1] = e
    OBVIOUS
  <2> QED  BY <2>1
<1> QED  BY <1>3, <1>4, ToSetConcat

\* The names of some interfaces, in their order.
LEMMA NamesOf ==
    ASSUME NEW S, NEW M, \A x \in S : x.name \in M, NEW t \in Seq(S),
           NEW q, q = [j \in DOMAIN t |-> t[j].name]
    PROVE  q \in Seq(M) /\ DOMAIN q = DOMAIN t /\ ToSet(q) = {x.name : x \in ToSet(t)}
<1>1. Len(t) \in Nat /\ DOMAIN t = 1..Len(t) /\ \A j \in 1..Len(t) : t[j] \in S
  BY LenProperties, ElementOfSeq
<1>2. q \in [1..Len(t) -> M]
  BY <1>1
<1>3. q \in Seq(M) /\ ToSet(q) = {q[j] : j \in 1..Len(t)}
  <2> DEFINE n == Len(t)
  <2>1. n \in Nat
    BY <1>1
  <2>2. q \in [1..n -> M]
    BY <1>2
  <2> HIDE DEF n
  <2>3. q \in Seq(M) /\ ToSet(q) = {q[j] : j \in 1..n}
    BY ONLY <2>1, <2>2, FunctionSeq
  <2> QED  BY <2>3 DEF n
<1>4. \A j \in 1..Len(t) : q[j] = t[j].name
  <2>1. \A j \in DOMAIN t : q[j] = t[j].name
    OBVIOUS
  <2> QED  BY <1>1, <2>1
<1>5. ToSet(t) = {t[j] : j \in 1..Len(t)}
  BY <1>1 DEF ToSet
<1>6. \A v : v \in ToSet(q) <=> v \in {x.name : x \in ToSet(t)}
  BY <1>3, <1>4, <1>5
<1>7. DOMAIN q = DOMAIN t
  OBVIOUS
<1> QED  BY <1>3, <1>6, <1>7

\* The names that a define removes: the root's, those of its ports and slaves, and those
\* of the slaves of its ports.
LEMMA RemovedNames ==
    ASSUME NEW d \in Docs
    PROVE  /\ NamesToRemove(d) \in Seq(Names \cup {None, Empty})
           /\ Removed(d) = {RootName(d)} \cup {s.name : s \in ToSet(d.subs)}
                             \cup UNION {{x.name : x \in ToSet(s.subs)} : s \in ToSet(d.subs)}
<1> DEFINE M == Names \cup {None, Empty}
           below(s) == <<s.name>> \o [j \in DOMAIN s.subs |-> s.subs[j].name]
           q == [i \in DOMAIN d.subs |-> below(d.subs[i])]
<1>1. d.subs \in Seq(Sub) /\ ToSet(d.subs) \subseteq Sub
  BY DocParts
<1>2. ASSUME NEW s \in Sub
      PROVE  below(s) \in Seq(M) /\ ToSet(below(s)) = {s.name} \cup {x.name : x \in ToSet(s.subs)}
  <2> DEFINE t == [j \in DOMAIN s.subs |-> s.subs[j].name]
  <2>1. s.name \in M /\ s.subs \in Seq(BareEthernet)
    BY SubParts
  <2>2. \A x \in BareEthernet : x.name \in M
    BY SlaveParts
  <2>3. t \in Seq(M) /\ ToSet(t) = {x.name : x \in ToSet(s.subs)}
    <3> HIDE DEF M
    <3> QED  BY <2>1, <2>2, NamesOf
  <2> HIDE DEF t, M
  <2>4. <<s.name>> \in Seq(M) /\ ToSet(<<s.name>>) = {s.name}
    BY <2>1, OneElement
  <2>5. <<s.name>> \o t \in Seq(M) /\ ToSet(<<s.name>> \o t) = {s.name} \cup ToSet(t)
    <3> DEFINE r == <<s.name>>
    <3>1. r \in Seq(M) /\ ToSet(r) = {s.name}
      BY <2>4
    <3> HIDE DEF r
    <3>2. r \o t \in Seq(M) /\ ToSet(r \o t) = {s.name} \cup ToSet(t)
      BY <2>3, <3>1, ToSetConcat
    <3> QED  BY <3>2 DEF r
  <2> QED  BY <2>3, <2>5 DEF t
<1> HIDE DEF below, M
<1>3. Len(d.subs) \in Nat /\ DOMAIN d.subs = 1..Len(d.subs)
  BY <1>1, LenProperties
<1>4. \A i \in 1..Len(d.subs) : d.subs[i] \in Sub
  BY <1>1, ElementOfSeq
<1>5. q \in [1..Len(d.subs) -> Seq(M)]
  BY <1>2, <1>3, <1>4
<1>6. q \in Seq(Seq(M)) /\ ToSet(q) = {q[i] : i \in 1..Len(d.subs)}
  BY <1>3, <1>5, FunctionSeq
<1>7. ToSet(q) = {below(s) : s \in ToSet(d.subs)}
  BY <1>3, <1>6 DEF ToSet
<1>8. /\ FlattenSeq(q) \in Seq(M)
      /\ ToSet(FlattenSeq(q)) = UNION {ToSet(x) : x \in ToSet(q)}
  <2> HIDE DEF q
  <2> QED  BY <1>6, Flattened
<1>9. NamesToRemove(d) = <<RootName(d)>> \o FlattenSeq(q)
  BY Zenon DEF NamesToRemove, below
<1>10. RootName(d) \in M
  BY DocParts DEF RootName, M
<1> HIDE DEF q
<1>11. <<RootName(d)>> \in Seq(M) /\ ToSet(<<RootName(d)>>) = {RootName(d)}
  BY <1>10, OneElement
<1>12. /\ NamesToRemove(d) \in Seq(M)
       /\ Removed(d) = {RootName(d)} \cup ToSet(FlattenSeq(q))
  <2> DEFINE r == <<RootName(d)>>
  <2>1. r \in Seq(M) /\ ToSet(r) = {RootName(d)} /\ NamesToRemove(d) = r \o FlattenSeq(q)
    BY <1>9, <1>11
  <2> HIDE DEF r
  <2> QED  BY <1>8, <2>1, ToSetConcat DEF Removed
<1>13. UNION {ToSet(x) : x \in ToSet(q)}
         = {s.name : s \in ToSet(d.subs)}
             \cup UNION {{x.name : x \in ToSet(s.subs)} : s \in ToSet(d.subs)}
  <2>1. UNION {ToSet(x) : x \in ToSet(q)} = UNION {ToSet(below(s)) : s \in ToSet(d.subs)}
    BY <1>7
  <2>2. \A s \in ToSet(d.subs) : ToSet(below(s)) = {s.name} \cup {x.name : x \in ToSet(s.subs)}
    BY <1>1, <1>2
  <2> QED  BY <2>1, <2>2
<1> QED  BY <1>8, <1>12, <1>13 DEF M

\* A sequence is one of the elements that it has.
LEMMA SeqOfSet ==
    ASSUME NEW S, NEW t \in Seq(S), NEW U, ToSet(t) \subseteq U
    PROVE  t \in Seq(U)
<1> DEFINE n == Len(t)
<1>1. n \in Nat /\ t \in [1..n -> S] /\ DOMAIN t = 1..n
  BY LenProperties
<1>2. \A i \in 1..n : t[i] \in U
  BY <1>1 DEF ToSet
<1>3. t \in [1..n -> U]
  BY <1>1, <1>2
<1> HIDE DEF n
<1>4. n \in Nat /\ t \in [1..n -> U]
  BY <1>1, <1>3
<1> QED  BY <1>4, FunctionSeq

\* The names of the ports or slaves of an interface.
LEMMA NamesInSeq ==
    ASSUME NEW x, x.subs \in Seq(Sub), \A s \in ToSet(x.subs) : s.name \in Names
    PROVE  /\ NamesIn(x) \in Seq(Names) /\ DOMAIN NamesIn(x) = DOMAIN x.subs
           /\ ToSet(NamesIn(x)) = {s.name : s \in ToSet(x.subs)}
           /\ x.subs = <<>> => NamesIn(x) = <<>>
<1> DEFINE S == {s \in Sub : s.name \in Names}
           t == x.subs
           q == NamesIn(x)
<1>1. t \in Seq(S)
  <2>1. ToSet(t) \subseteq Sub
    BY ToSetConcat
  <2>2. ToSet(t) \subseteq S
    BY <2>1
  <2> HIDE DEF S
  <2> QED  BY <2>2, SeqOfSet
<1>2. \A s \in S : s.name \in Names
  OBVIOUS
<1>3. q = [j \in DOMAIN t |-> t[j].name]
  BY DEF NamesIn
<1> HIDE DEF S, t, q
<1>4. q \in Seq(Names) /\ DOMAIN q = DOMAIN t /\ ToSet(q) = {s.name : s \in ToSet(t)}
  BY ONLY <1>1, <1>2, <1>3, NamesOf
<1>5. ASSUME t = <<>> PROVE q = <<>>
  <2>1. ToSet(t) = {}
    BY <1>1, <1>5, ToSetConcat
  <2>2. ToSet(q) = {}
    BY <1>4, <2>1
  <2> QED  BY <1>4, <2>2, ToSetConcat
<1> QED  BY <1>4, <1>5 DEF t, q

\* A stanza that the stylesheet makes.
LEMMA StanzaType ==
    ASSUME NEW n \in Names \cup {Empty}, NEW fam \in Families, NEW m \in BOOLEAN, NEW x,
           x.type \in Kinds, x.raw \in Names \cup {None}, NamesIn(x) \in Seq(Names),
           x.type \notin {"bridge", "bond"} => NamesIn(x) = <<>>
    PROVE  StanzaOf(n, fam, m, x) \in Stanza
BY DEF StanzaOf, Stanza

\* The stanzas of the root and those of its ports, in the stylesheet.
Plain == [type |-> "ethernet", subs |-> <<>>, raw |-> None]
First(d) == StanzaOf(RootName(d), IF d.protos = <<>> THEN "inet" ELSE d.protos[1], d.protos = <<>>, d)
Own(d) ==
    IF d.protos = <<>> THEN <<StanzaOf(RootName(d), "inet", TRUE, d)>>
    ELSE [i \in DOMAIN d.protos |->
            StanzaOf(RootName(d), d.protos[i], FALSE, IF i = 1 THEN d ELSE Plain)]
Ported(d) == {s \in ToSet(d.subs) : d.type = "bridge" /\ s.type \in {"bond", "vlan"}}
PortStanza(s) == StanzaOf(s.name, "inet", TRUE, s)
PortStanzas(d) == [i \in DOMAIN Select(d.subs, Ported(d)) |-> PortStanza(Select(d.subs, Ported(d))[i])]

\* Together they are all that the stylesheet makes.
LEMMA GetIfaceParts ==
    ASSUME NEW d
    PROVE  GetIface(d) = Own(d) \o PortStanzas(d)
BY Zenon DEF GetIface, Own, PortStanzas, Ported, PortStanza, Plain

\* The stanzas of the ports: one for each port that is a bond or a VLAN.
LEMMA PortStanzasSeq ==
    ASSUME NEW d \in Docs, Removed(d) \subseteq Names \cup {Empty}
    PROVE  /\ PortStanzas(d) \in Seq(Stanza)
           /\ ToSet(PortStanzas(d)) = {PortStanza(s) : s \in Ported(d)}
           /\ \A s \in ToSet(d.subs) : /\ s.name \in Names /\ s.name \in Removed(d)
                                       /\ \A x \in ToSet(s.subs) : x.name \in Removed(d)
                                       /\ NamesIn(s) \in Seq(Names)
                                       /\ ToSet(NamesIn(s)) = {x.name : x \in ToSet(s.subs)}
                                       /\ s.subs = <<>> => NamesIn(s) = <<>>
<1> DEFINE q == Select(d.subs, Ported(d))
<1>1. d.subs \in Seq(Sub) /\ ToSet(d.subs) \subseteq Sub
  BY DocParts
<1>2. q \in Seq(Sub) /\ ToSet(q) = Ported(d)
  <2>1. Ported(d) \subseteq ToSet(d.subs)
    BY DEF Ported
  <2>2. q \in Seq(Sub) /\ ToSet(q) = ToSet(d.subs) \cap Ported(d)
    BY <1>1, SelectSet
  <2> HIDE DEF q
  <2> QED  BY <2>1, <2>2
<1>3. ASSUME NEW s \in ToSet(d.subs)
      PROVE  /\ s.name \in Names /\ s.name \in Removed(d)
             /\ \A x \in ToSet(s.subs) : x.name \in Removed(d)
             /\ NamesIn(s) \in Seq(Names)
             /\ ToSet(NamesIn(s)) = {x.name : x \in ToSet(s.subs)}
             /\ s.subs = <<>> => NamesIn(s) = <<>>
  <2>1. s \in Sub /\ s.name \in Names \cup {None}
    BY <1>1, SubParts
  <2>2. s.name \in Removed(d) /\ \A x \in ToSet(s.subs) : x.name \in Removed(d)
    BY RemovedNames
  <2>3. s.name \in Names
    BY <2>1, <2>2, DebianNames
  <2>4. s.subs \in Seq(BareEthernet) /\ ToSet(s.subs) \subseteq BareEthernet
    BY <2>1, SubParts
  <2>5. s.subs \in Seq(Sub)
    <3>1. ToSet(s.subs) \subseteq Sub
      BY <2>4 DEF Sub
    <3> QED  BY <2>4, <3>1, SeqOfSet
  <2>6. \A x \in ToSet(s.subs) : x.name \in Names
    BY <2>4, SlaveParts
  <2> QED  BY <2>2, <2>3, <2>5, <2>6, NamesInSeq
<1>4. ASSUME NEW s \in Ported(d) PROVE PortStanza(s) \in Stanza
  <2>1. s \in ToSet(d.subs) /\ s \in Sub
    BY <1>1 DEF Ported
  <2>2. s.type \in Kinds /\ s.raw \in Names \cup {None} /\ (s.type # "bond" => s.subs = <<>>)
    BY <2>1, SubParts DEF Kinds
  <2>3. s.type \notin {"bridge", "bond"} => NamesIn(s) = <<>>
    BY <1>3, <2>1, <2>2
  <2>4. s.name \in Names \cup {Empty} /\ NamesIn(s) \in Seq(Names) /\ "inet" \in Families
    BY <1>3, <2>1 DEF Families
  <2> QED  BY <2>2, <2>3, <2>4, StanzaType DEF PortStanza
<1> DEFINE p == PortStanzas(d)
           n == Len(q)
<1> HIDE DEF q
<1>5. n \in Nat /\ DOMAIN q = 1..n /\ ToSet(q) = {q[i] : i \in 1..n}
  BY <1>2, LenProperties DEF ToSet
<1>6. p = [i \in 1..n |-> PortStanza(q[i])]
  BY <1>5 DEF PortStanzas, q
<1> HIDE DEF p, n
<1>7. p \in [1..n -> Stanza]
  BY <1>2, <1>4, <1>5, <1>6
<1>8. p \in Seq(Stanza) /\ ToSet(p) = {p[i] : i \in 1..n}
  BY ONLY <1>5, <1>7, FunctionSeq
<1>9. {p[i] : i \in 1..n} = {PortStanza(s) : s \in {q[i] : i \in 1..n}}
  BY <1>6
<1> QED  BY <1>2, <1>3, <1>5, <1>8, <1>9 DEF p

\* The families of a document's protocols.
LEMMA ProtosSeq ==
    ASSUME NEW d \in Docs
    PROVE  d.protos \in Seq(Families) /\ \A i \in DOMAIN d.protos : d.protos[i] \in Families
<1>1. \A p \in {<<>>, <<"inet">>, <<"inet6">>, <<"inet", "inet6">>, <<"inet6", "inet">>} :
        p \in Seq(Families)
  <2>1. "inet" \in Families /\ "inet6" \in Families
    BY DEF Families
  <2>2. <<>> \in Seq(Families)
    BY EmptySeq
  <2>3. <<"inet">> \in Seq(Families) /\ <<"inet6">> \in Seq(Families)
    BY <2>1, OneElement
  <2>4. \A a, b \in Families : <<a, b>> \in Seq(Families)
    OBVIOUS
  <2> QED  BY <2>1, <2>2, <2>3, <2>4
<1>2. d.protos \in Seq(Families)
  BY <1>1, DocParts
<1> QED  BY <1>2, LenProperties, ElementOfSeq

\* The stanzas of the root: the first has what makes it a bridge, bond or VLAN.
LEMMA OwnSeq ==
    ASSUME NEW d \in Docs, Removed(d) \subseteq Names \cup {Empty}
    PROVE  /\ NamesIn(d) \in Seq(Names) /\ DOMAIN NamesIn(d) = DOMAIN d.subs
           /\ ToSet(NamesIn(d)) = {s.name : s \in ToSet(d.subs)}
           /\ Own(d) \in Seq(Stanza) /\ Own(d) # <<>>
           /\ Own(d)[1] = First(d)
           /\ \A s \in ToSet(Own(d)) : /\ s.name = RootName(d)
                                       /\ s = First(d) \/ (s.kind = "ethernet" /\ s.deps = <<>>)
<1> DEFINE r == RootName(d)
           o == Own(d)
           n == Len(d.protos)
<1>1. r \in Names \cup {Empty}
  BY DocParts DEF RootName
<1>2. d.subs \in Seq(Sub) /\ \A s \in ToSet(d.subs) : s.name \in Names
  BY DocParts, PortStanzasSeq
<1>3. /\ NamesIn(d) \in Seq(Names) /\ DOMAIN NamesIn(d) = DOMAIN d.subs
      /\ ToSet(NamesIn(d)) = {s.name : s \in ToSet(d.subs)}
      /\ d.subs = <<>> => NamesIn(d) = <<>>
  BY <1>2, NamesInSeq
<1>4. /\ d.type \in Kinds /\ d.raw \in Names \cup {None}
      /\ d.type \notin {"bridge", "bond"} => NamesIn(d) = <<>>
  BY <1>3, DocParts
<1>5. ASSUME NEW fam \in Families, NEW m \in BOOLEAN PROVE StanzaOf(r, fam, m, d) \in Stanza
  <2> HIDE DEF r
  <2> QED  BY <1>1, <1>3, <1>4, StanzaType
<1>6. /\ Plain.type = "ethernet" /\ Plain.type \in Kinds /\ Plain.raw \in Names \cup {None}
      /\ NamesIn(Plain) = <<>> /\ NamesIn(Plain) \in Seq(Names)
  <2>1. Plain.subs = <<>> /\ Plain.type = "ethernet" /\ Plain.raw = None
    BY DEF Plain
  <2>2. <<>> \in Seq(Sub) /\ ToSet(<<>>) = {}
    BY EmptySeq, ToSetConcat
  <2>3. Plain.subs \in Seq(Sub) /\ ToSet(Plain.subs) = {}
    BY <2>1, <2>2, Zenon
  <2>4. NamesIn(Plain) \in Seq(Names) /\ NamesIn(Plain) = <<>>
    BY <2>1, <2>3, NamesInSeq
  <2> QED  BY <2>1, <2>4 DEF Kinds
<1>7. ASSUME NEW fam \in Families
      PROVE  /\ StanzaOf(r, fam, FALSE, Plain) \in Stanza
             /\ StanzaOf(r, fam, FALSE, Plain).kind = "ethernet"
             /\ StanzaOf(r, fam, FALSE, Plain).deps = <<>>
  <2>1. StanzaOf(r, fam, FALSE, Plain) \in Stanza
    <3> HIDE DEF r
    <3> QED  BY <1>1, <1>6, StanzaType
  <2> QED  BY <1>6, <2>1 DEF StanzaOf
<1>8. \A fam, m, x : StanzaOf(r, fam, m, x).name = r
  BY DEF StanzaOf
<1> HIDE DEF r
<1>9. CASE d.protos = <<>>
  <2>1. "inet" \in Families /\ First(d) = StanzaOf(r, "inet", TRUE, d) /\ Own(d) = <<First(d)>>
    BY <1>9 DEF Families, First, Own, r
  <2>2. First(d) \in Stanza /\ First(d).name = r
    BY <1>5, <1>8, <2>1
  <2>3. Own(d) \in Seq(Stanza) /\ Own(d) # <<>> /\ ToSet(Own(d)) = {First(d)} /\ Own(d)[1] = First(d)
    <3> DEFINE c == First(d)
    <3>1. c \in Stanza /\ Own(d) = <<c>>
      BY <2>1, <2>2
    <3> HIDE DEF c
    <3>2. <<c>> \in Seq(Stanza) /\ <<c>> # <<>> /\ ToSet(<<c>>) = {c} /\ <<c>>[1] = c
      BY <3>1, OneElement
    <3> QED  BY <3>1, <3>2, Zenon DEF c
  <2> QED  BY <1>3, <2>2, <2>3 DEF r
<1>10. CASE d.protos # <<>>
  <2>1. /\ d.protos \in Seq(Families) /\ n \in Nat /\ n # 0 /\ DOMAIN d.protos = 1..n
        /\ \A i \in 1..n : d.protos[i] \in Families
    BY <1>10, ProtosSeq, LenProperties, EmptySeq
  <2>2. First(d) = StanzaOf(r, d.protos[1], FALSE, d)
    BY <1>10, Zenon DEF First, r
  <2> HIDE DEF n
  <2>3. o = [i \in 1..n |-> StanzaOf(r, d.protos[i], FALSE, IF i = 1 THEN d ELSE Plain)]
    BY <1>10, <2>1 DEF Own, r
  <2> HIDE DEF o
  <2>4. ASSUME NEW i \in 1..n
        PROVE  /\ o[i] \in Stanza /\ o[i].name = r
               /\ o[i] = First(d) \/ (o[i].kind = "ethernet" /\ o[i].deps = <<>>)
               /\ i = 1 => o[i] = First(d)
    <3>1. CASE i = 1
      <4>1. o[i] = First(d)
        BY <2>2, <2>3, <3>1
      <4>2. FALSE \in BOOLEAN /\ d.protos[1] \in Families
        BY <2>1, <3>1
      <4>3. First(d) \in Stanza /\ First(d).name = r
        BY <1>5, <1>8, <2>2, <4>2, Zenon
      <4> QED  BY <4>1, <4>3, Zenon
    <3>2. CASE i # 1
      <4>1. o[i] = StanzaOf(r, d.protos[i], FALSE, Plain)
        BY <2>3, <3>2
      <4>2. d.protos[i] \in Families
        BY <2>1
      <4>3. o[i] \in Stanza /\ o[i].kind = "ethernet" /\ o[i].deps = <<>>
        BY <1>7, <4>1, <4>2
      <4>4. o[i].name = r
        BY <1>8, <4>1, Zenon
      <4> QED  BY <3>2, <4>3, <4>4, Zenon
    <3> QED  BY <3>1, <3>2
  <2>5. o \in [1..n -> Stanza]
    BY <2>3, <2>4
  <2>6. o \in Seq(Stanza) /\ ToSet(o) = {o[i] : i \in 1..n} /\ Len(o) = n
    BY ONLY <2>1, <2>5, FunctionSeq
  <2>7. o # <<>> /\ o[1] = First(d)
    <3>1. 1 \in 1..n
      BY <2>1
    <3>2. o # <<>>
      BY <2>1, <2>6, EmptySeq
    <3> QED  BY <2>4, <3>1, <3>2
  <2> QED  BY <1>3, <2>4, <2>6, <2>7 DEF o, r
<1> QED  BY <1>9, <1>10

\* All stanzas that the stylesheet makes are of interfaces of the document.
LEMMA GetSeq ==
    ASSUME NEW d \in Docs, Removed(d) \subseteq Names \cup {Empty}
    PROVE  /\ GetIface(d) \in Seq(Stanza) /\ \A s \in ToSet(GetIface(d)) : s.name \in Removed(d)
           /\ ToSet(GetIface(d)) = ToSet(Own(d)) \cup {PortStanza(s) : s \in Ported(d)}
<1>1. /\ GetIface(d) = Own(d) \o PortStanzas(d)
      /\ Own(d) \in Seq(Stanza) /\ PortStanzas(d) \in Seq(Stanza)
  BY GetIfaceParts, OwnSeq, PortStanzasSeq
<1>2. GetIface(d) \in Seq(Stanza) /\ ToSet(GetIface(d)) = ToSet(Own(d)) \cup ToSet(PortStanzas(d))
  BY <1>1, ToSetConcat
<1>3. \A s \in ToSet(Own(d)) : s.name \in Removed(d)
  BY OwnSeq, RemovedNames
<1>4. ASSUME NEW s \in Ported(d) PROVE PortStanza(s).name \in Removed(d)
  <2>1. s \in ToSet(d.subs)
    BY DEF Ported
  <2> QED  BY <2>1, PortStanzasSeq DEF PortStanza, StanzaOf
<1> QED  BY <1>2, <1>3, <1>4, PortStanzasSeq

\* The auto stanza of a document.
LEMMA GetAutoSeq ==
    ASSUME NEW d \in Docs
    PROVE  /\ GetAuto(d) \in Seq(AutoLine)
           /\ ToSet(GetAuto(d)) = IF d.start = "onboot" THEN {<<RootName(d)>>} ELSE {}
<1>1. RootName(d) \in Names \cup {Empty}
  BY DocParts DEF RootName
<1>2. <<RootName(d)>> \in AutoLine
  BY <1>1, OneElement DEF AutoLine
<1>3. <<>> \in Seq(AutoLine) /\ ToSet(<<>>) = {}
  BY EmptySeq, ToSetConcat
<1>4. <<<<RootName(d)>>>> \in Seq(AutoLine) /\ ToSet(<<<<RootName(d)>>>>) = {<<RootName(d)>>}
  BY <1>2, OneElement
<1> QED  BY <1>3, <1>4 DEF GetAuto

\* What a define makes of a file: what is kept, then what the document says.
LEMMA DefinedFile ==
    ASSUME NEW f \in File, NEW d \in Docs, Removed(d) \subseteq Names \cup {Empty}
    PROVE  /\ Defined(f, d) \in File
           /\ Defined(f, d).iface = Kept(f, Removed(d)).iface \o GetIface(d)
           /\ ToSet(Defined(f, d).iface)
                = {s \in ToSet(f.iface) : s.name \notin Removed(d)} \cup ToSet(GetIface(d))
           /\ ToSet(Defined(f, d).auto)
                = {a \in ToSet(f.auto) : a[1] \notin Removed(d)}
                    \cup (IF d.start = "onboot" THEN {<<RootName(d)>>} ELSE {})
<1> DEFINE k == Kept(f, Removed(d))
<1>1. /\ k \in File
      /\ ToSet(k.iface) = {s \in ToSet(f.iface) : s.name \notin Removed(d)}
      /\ ToSet(k.auto) = {a \in ToSet(f.auto) : a[1] \notin Removed(d)}
  BY KeptFile
<1>2. Defined(f, d) = [auto |-> k.auto \o GetAuto(d), iface |-> k.iface \o GetIface(d)]
  BY DEF Defined, aug_put_xml
<1> HIDE DEF k
<1>3. k.auto \in Seq(AutoLine) /\ k.iface \in Seq(Stanza)
  BY <1>1 DEF File
<1>4. /\ k.auto \o GetAuto(d) \in Seq(AutoLine)
      /\ ToSet(k.auto \o GetAuto(d)) = ToSet(k.auto) \cup ToSet(GetAuto(d))
  BY <1>3, GetAutoSeq, ToSetConcat
<1>5. /\ k.iface \o GetIface(d) \in Seq(Stanza)
      /\ ToSet(k.iface \o GetIface(d)) = ToSet(k.iface) \cup ToSet(GetIface(d))
  BY <1>3, GetSeq, ToSetConcat
<1>6. Defined(f, d) \in File
  BY <1>2, <1>4, <1>5 DEF File
<1>7. Defined(f, d).auto = k.auto \o GetAuto(d) /\ Defined(f, d).iface = k.iface \o GetIface(d)
  BY <1>2
<1> QED  BY <1>1, <1>4, <1>5, <1>6, <1>7, GetAutoSeq DEF k

-----------------------------------------------------------------------------
(***************************************************************************)
(* The invariant                                                           *)
(***************************************************************************)
\* The bonds that get or lose an alias are interfaces.
LEMMA BondNames ==
    ASSUME NEW f \in File, NEW n \in Names
    PROVE  bond_setup(f, n) \subseteq Names
<1>1. f.iface \in Seq(Stanza)
  BY DEF File
<1>2. ToSet(f.iface) \subseteq Stanza
  BY <1>1, ToSetConcat
<1>3. ASSUME NEW s \in ToSet(f.iface) PROVE ToSet(s.deps) \subseteq Names
  <2>1. s.deps \in Seq(Names)
    BY <1>2 DEF Stanza
  <2> QED  BY <2>1, ToSetConcat
<1>4. bridge_ports(f, n) \subseteq Names
  BY <1>3 DEF bridge_ports
<1> QED  BY <1>4 DEF bond_setup

\* The name that a define returns.
LEMMA DeviceName ==
    ASSUME NEW d \in Docs
    PROVE  device_name_from_xml(d) = d.device /\ d.device \in Names
BY DocParts DEF device_name_from_xml

\* A file without stanzas.
LEMMA NoFileOK == NoFile \in File /\ Writable(NoFile)
<1>1. <<>> \in Seq(AutoLine) /\ <<>> \in Seq(Stanza) /\ ToSet(<<>>) = {}
  BY EmptySeq, ToSetConcat
<1> QED  BY <1>1 DEF NoFile, File, Writable, uniq_device_names, AutoNames

\* Initially the invariant holds.
LEMMA InitInv == Init => DInv
<1> SUFFICES ASSUME Init PROVE DInv
  OBVIOUS
<1>1. disk \in File /\ Writable(disk)
  BY FilesAssumption DEF Init
<1>2. TypeOK
  <2>1. todo \in Seq(Names \cup {None, Empty})
    BY EmptySeq DEF Init
  <2>2. calls \in 0..MaxCalls /\ failures \in 0..MaxFailures /\ foreign \in 0..MaxForeign
    BY DebianBounds DEF Init
  <2> QED  BY <1>1, <2>1, <2>2, NoFileOK DEF Init, TypeOK
<1>3. Calls
  BY NoFileOK DEF Init, Calls
<1>4. Loads
  BY <1>1, NoFileOK DEF Init, Loads
<1> QED  BY <1>2, <1>3, <1>4 DEF Init, DInv, Defining, Undefining, Saving, Untouched, Written

\* Lookups, and a get_augeas that fails, touch the tree and the caller's handle.
LEMMA LookupInv ==
    ASSUME DInv, \/ \E n \in Names : LookupByName(n) \/ LookupByMac(MacOf[n])
                 \/ NoAugeas
    PROVE  DInv'
<1>1. /\ pc = "idle" /\ pc' = "idle"
      /\ UNCHANGED <<disk, aliases, doc, todo, left, saved, calls, foreign, before, met>>
  BY Zenon DEF LookupByName, LookupByMac, NoAugeas
<1>2. /\ tree' \in File /\ talias' \subseteq Names /\ aug' \in BOOLEAN
  BY NoFileOK DEF DInv, TypeOK, LookupByName, LookupByMac, NoAugeas, GetAugeas
<1>3. nif' \in Names \cup {None}
  BY DEF DInv, TypeOK, LookupByName, LookupByMac, NoAugeas, lookup_by_mac_string
<1>4. failures' \in 0..MaxFailures
  BY DebianBounds DEF DInv, TypeOK, LookupByName, LookupByMac, NoAugeas, Fails
<1>5. TypeOK'
  BY <1>1, <1>2, <1>3, <1>4, Zenon DEF DInv, TypeOK
<1>6. Calls' /\ Loads'
  BY <1>1 DEF DInv, Calls, Loads
<1> QED  BY <1>1, <1>5, <1>6 DEF DInv, Defining, Undefining, Saving, Untouched, Written

\* What a call that changes something starts from.
LEMMA BeginInv ==
    ASSUME DInv, NEW step, Begin(step)
    PROVE  /\ tree' = disk /\ talias' = aliases /\ pc' = step /\ met' = FALSE /\ aug' = TRUE
           /\ before' = [file |-> disk, aliases |-> aliases]
           /\ before' \in [file : File, aliases : SUBSET Names]
           /\ calls' \in 0..MaxCalls
           /\ Loads' /\ disk \in File /\ aliases \subseteq Names /\ pc = "idle" /\ doc = None
           /\ UNCHANGED <<disk, aliases, nif, left, saved, failures, foreign>>
<1>1. disk \in File /\ aliases \subseteq Names /\ Writable(disk) /\ calls \in 0..MaxCalls
  BY DEF DInv, TypeOK, Loads
<1>2. /\ pc = "idle" /\ calls < MaxCalls /\ calls' = calls + 1 /\ pc' = step /\ met' = FALSE
      /\ before' = [file |-> disk, aliases |-> aliases]
      /\ UNCHANGED <<disk, aliases, nif, left, saved, failures, foreign>>
  BY DEF Begin
<1>3. tree' = disk /\ talias' = aliases /\ aug' = TRUE
  BY DEF Begin, GetAugeas, drv_entry
<1>4. calls + 1 \in 0..MaxCalls
  BY <1>1, <1>2, DebianBounds
<1>5. doc = None
  BY <1>2 DEF DInv, Calls
<1>6. Loads'
  BY <1>1, <1>2 DEF Loads
<1> QED  BY <1>1, <1>2, <1>3, <1>4, <1>5, <1>6

\* A define starts with the file as it is.
LEMMA DefineInv ==
    ASSUME DInv, NEW d \in Docs, Define(d)
    PROVE  DInv'
<1>1. Begin("rm") /\ doc' = d /\ todo' = NamesToRemove(d)
  BY DEF Define
<1>2. /\ tree' = disk /\ talias' = aliases /\ pc' = "rm" /\ met' = FALSE /\ aug' = TRUE
      /\ before' = [file |-> disk, aliases |-> aliases]
      /\ before' \in [file : File, aliases : SUBSET Names]
      /\ calls' \in 0..MaxCalls
      /\ Loads' /\ disk \in File /\ aliases \subseteq Names
      /\ UNCHANGED <<disk, aliases, nif, left, saved, failures, foreign>>
  BY <1>1, BeginInv
<1>3. NamesToRemove(d) \in Seq(Names \cup {None, Empty})
  BY RemovedNames
<1>4. TypeOK'
  BY <1>1, <1>2, <1>3, Zenon DEF DInv, TypeOK
<1>5. Calls'
  BY <1>1, <1>2 DEF Calls
<1>6. Defining'
  <2>1. before'.file = disk /\ before'.aliases = aliases
    BY <1>2
  <2>2. Kept(disk, {}) = disk
    BY <1>2, RmKept
  <2>3. {} \cup ToSet(todo') = Removed(doc')
    BY <1>1 DEF Removed
  <2>4. \E N \in SUBSET (Names \cup {Empty}) :
          N \cup ToSet(todo') = Removed(doc') /\ tree' = Kept(before'.file, N)
    <3>1. {} \in SUBSET (Names \cup {Empty}) /\ tree' = Kept(before'.file, {})
      BY <1>2, <2>1, <2>2, Zenon
    <3> QED  BY <2>3, <3>1, Zenon
  <2> QED  BY <1>2, <2>1, <2>4 DEF Defining
<1>7. Undefining' /\ Saving' /\ Written'
  BY <1>2 DEF Undefining, Saving, Written
<1>8. Untouched'
  BY <1>2 DEF Untouched
<1> QED  BY <1>2, <1>4, <1>5, <1>6, <1>7, <1>8 DEF DInv

\* So does an undefine.
LEMMA UndefineInv ==
    ASSUME DInv, Undefine
    PROVE  DInv'
<1>1. Begin("unbond") /\ nif # None /\ UNCHANGED <<doc, todo>>
  BY DEF Undefine
<1>2. /\ tree' = disk /\ talias' = aliases /\ pc' = "unbond" /\ met' = FALSE /\ aug' = TRUE
      /\ before' = [file |-> disk, aliases |-> aliases]
      /\ before' \in [file : File, aliases : SUBSET Names]
      /\ calls' \in 0..MaxCalls
      /\ Loads' /\ disk \in File /\ aliases \subseteq Names /\ doc = None
      /\ UNCHANGED <<disk, aliases, nif, left, saved, failures, foreign>>
  BY <1>1, BeginInv
<1>4. TypeOK'
  BY <1>1, <1>2, Zenon DEF DInv, TypeOK
<1>5. Calls'
  BY <1>1, <1>2 DEF Calls
<1>6. Undefining'
  BY <1>2 DEF Undefining
<1>7. Defining' /\ Saving' /\ Written'
  BY <1>2 DEF Defining, Saving, Written
<1>8. Untouched'
  BY <1>2 DEF Untouched
<1> QED  BY <1>2, <1>4, <1>5, <1>6, <1>7, <1>8 DEF DInv

\* A call that returns, from wherever, leaves nothing to do.
LEMMA ReturnInv ==
    ASSUME DInv, Return, nif' \in Names \cup {None}, failures' \in 0..MaxFailures,
           UNCHANGED <<disk, aliases, driver, calls, foreign, before, met>>
    PROVE  DInv'
<1>1. pc' = "idle" /\ doc' = None /\ todo' = <<>> /\ left' = {} /\ saved' = TRUE
  BY DEF Return
<1>2. todo' \in Seq(Names \cup {None, Empty})
  BY <1>1, EmptySeq
<1>3. TypeOK'
  BY <1>1, <1>2, Zenon DEF DInv, TypeOK, driver
<1>4. Calls' /\ Loads'
  BY <1>1 DEF DInv, Calls, Loads
<1> QED  BY <1>1, <1>3, <1>4 DEF DInv, Defining, Undefining, Saving, Untouched, Written

\* A call that fails before the save.
LEMMA FailInv ==
    ASSUME DInv, Fail
    PROVE  DInv'
<1>1. Return /\ UNCHANGED <<disk, aliases, driver, nif, calls, foreign, before, met>>
  BY DEF Fail
<1>2. failures' \in 0..MaxFailures
  BY DebianBounds DEF DInv, TypeOK, Fail, Fails
<1>3. nif' \in Names \cup {None}
  BY <1>1 DEF DInv, TypeOK
<1> QED  BY <1>1, <1>2, <1>3, ReturnInv

\* A call that returns after the save.
LEMMA SaveDoneInv ==
    ASSUME DInv, SaveDone
    PROVE  DInv'
<1>1. Return /\ UNCHANGED <<disk, aliases, driver, calls, foreign, before, met>>
  BY DEF SaveDone
<1>2. failures' \in 0..MaxFailures
  BY DebianBounds DEF DInv, TypeOK, SaveDone, Fails
<1>3. nif' \in Names \cup {None}
  <2>1. doc # None => device_name_from_xml(doc) \in Names
    BY DeviceName DEF DInv, TypeOK
  <2> QED  BY <2>1 DEF DInv, TypeOK, SaveDone
<1> QED  BY <1>1, <1>2, <1>3, ReturnInv

\* One more interface is removed.
LEMMA RemoveInv ==
    ASSUME DInv, rm_all_interfaces
    PROVE  DInv'
<1>1. /\ pc = "rm" /\ todo # <<>> /\ todo[1] # None
      /\ tree' = rm_interface(tree, todo[1]) /\ todo' = Tail(todo)
      /\ UNCHANGED <<disk, aliases, aug, talias, pc, doc, nif, left, saved, calls, failures,
                     foreign, before, met>>
  BY DEF rm_all_interfaces
<1>2. todo \in Seq(Names \cup {None, Empty}) /\ before.file \in File /\ doc \in Docs
  BY <1>1 DEF DInv, TypeOK, Calls
<1>3. /\ Tail(todo) \in Seq(Names \cup {None, Empty}) /\ todo[1] \in Names \cup {Empty}
      /\ ToSet(todo) = {todo[1]} \cup ToSet(Tail(todo))
  <2> DEFINE S == Names \cup {None, Empty}
  <2>1. todo \in Seq(S)
    BY <1>2
  <2> HIDE DEF S
  <2>2. /\ Tail(todo) \in Seq(S) /\ todo[1] \in S
        /\ ToSet(todo) = {todo[1]} \cup ToSet(Tail(todo))
    BY <1>1, <2>1, ToSetTail
  <2> QED  BY <1>1, <2>2 DEF S
<1>4. PICK N \in SUBSET (Names \cup {Empty}) :
        N \cup ToSet(todo) = Removed(doc) /\ tree = Kept(before.file, N)
  BY <1>1 DEF DInv, Defining
<1>5. tree' = Kept(before.file, N \cup {todo[1]})
  <2> DEFINE f == before.file
             n == todo[1]
  <2>1. f \in File
    BY <1>2
  <2> HIDE DEF f, n
  <2>2. rm_interface(Kept(f, N), n) = Kept(f, N \cup {n})
    BY ONLY <2>1, RmMore
  <2> QED  BY <1>1, <1>4, <2>2, Zenon DEF f, n
<1>6. tree' \in File
  BY <1>2, <1>5, KeptFile
<1>7. TypeOK'
  BY <1>1, <1>3, <1>6, Zenon DEF DInv, TypeOK
<1>8. Calls' /\ Loads'
  BY <1>1 DEF DInv, Calls, Loads
<1>9. Defining'
  <2>1. N \cup {todo[1]} \in SUBSET (Names \cup {Empty})
    BY <1>3
  <2>2. (N \cup {todo[1]}) \cup ToSet(todo') = Removed(doc)
    BY <1>1, <1>3, <1>4
  <2>3. \E M \in SUBSET (Names \cup {Empty}) :
          M \cup ToSet(todo') = Removed(doc) /\ tree' = Kept(before.file, M)
    BY <1>5, <2>1, <2>2, Zenon
  <2> QED  BY <1>1, <2>3 DEF DInv, Defining
<1>10. Undefining' /\ Saving' /\ Written'
  BY <1>1 DEF Undefining, Saving, Written
<1>11. Untouched'
  BY <1>1, Zenon DEF DInv, Untouched
<1> QED  BY <1>7, <1>8, <1>9, <1>10, <1>11 DEF DInv

\* The stylesheet is applied to what is left, and its result put behind.
LEMMA PutInv ==
    ASSUME DInv, PutXml
    PROVE  DInv'
<1>1. UNCHANGED <<disk, aliases, aug, talias, doc, nif, todo, left, saved, calls, failures,
                  foreign, before, met>>
  BY DEF PutXml
<1>2. before.file \in File /\ pc \in {"rm", "put"} /\ doc \in Docs
  BY DEF DInv, Calls, PutXml
<1>3. CASE pc = "rm"
  <2>1. todo = <<>> /\ pc' = "put" /\ tree' = tree
    BY <1>3 DEF PutXml
  <2>2. PICK N \in SUBSET (Names \cup {Empty}) :
          N \cup ToSet(todo) = Removed(doc) /\ tree = Kept(before.file, N)
    BY <1>3 DEF DInv, Defining
  <2>3. ToSet(todo) = {}
    BY <2>1, EmptySeq, ToSetConcat
  <2>4. Removed(doc) = N
    BY <2>2, <2>3
  <2>5. TypeOK'
    BY <1>1, <2>1, Zenon DEF DInv, TypeOK
  <2>6. Calls'
    BY <1>1, <1>2, <2>1, <2>4 DEF DInv, Calls
  <2>7. Loads'
    BY <1>1 DEF DInv, Loads
  <2>8. Defining'
    BY <1>1, <1>3, <2>1, <2>2, <2>4 DEF DInv, Defining
  <2>9. Undefining' /\ Saving' /\ Written'
    BY <2>1 DEF Undefining, Saving, Written
  <2>10. Untouched'
    BY <1>1, <1>3, <2>1 DEF DInv, Untouched
  <2> QED  BY <2>5, <2>6, <2>7, <2>8, <2>9, <2>10 DEF DInv
<1>4. CASE pc = "put"
  <2>1. pc' = "bond" /\ tree' = aug_put_xml(tree, doc)
    BY <1>4 DEF PutXml
  <2>2. tree = Kept(before.file, Removed(doc)) /\ doc # None
    BY <1>2, <1>4, DocsAssumption DEF DInv, Defining
  <2>3. Removed(doc) \subseteq Names \cup {Empty}
    BY <1>4, <2>2 DEF DInv, Calls
  <2>4. tree' = Defined(before.file, doc)
    BY <2>1, <2>2, Zenon DEF Defined
  <2>5. tree' \in File
    BY <1>2, <2>3, <2>4, DefinedFile
  <2>6. TypeOK'
    BY <1>1, <2>1, <2>5, Zenon DEF DInv, TypeOK
  <2>7. Calls'
    BY <1>1, <1>2, <2>1, <2>3 DEF DInv, Calls
  <2>8. Loads'
    BY <1>1 DEF DInv, Loads
  <2>9. Defining'
    BY <1>1, <1>4, <2>1, <2>4 DEF DInv, Defining
  <2>10. Undefining' /\ Saving' /\ Written'
    BY <2>1 DEF Undefining, Saving, Written
  <2>11. Untouched'
    BY <1>1, <1>4, <2>1 DEF DInv, Untouched
  <2> QED  BY <2>6, <2>7, <2>8, <2>9, <2>10, <2>11 DEF DInv
<1> QED  BY <1>2, <1>3, <1>4

\* What aug_save starts with.
LEMMA StartSaveInv ==
    ASSUME DInv, StartSave, pc \in {"bond", "rmone"}, tree' \in File, talias' \subseteq Names
    PROVE  TypeOK' /\ Loads' /\ Written'
<1>1. /\ pc' = "save" /\ saved' = TRUE
      /\ left' = (IF tree' # before.file THEN {"interfaces"} ELSE {})
                   \cup (IF talias' # before.aliases THEN {"modprobe"} ELSE {})
      /\ UNCHANGED <<disk, aliases, aug, doc, nif, todo, calls, failures, foreign, before, met>>
  BY DEF StartSave
<1>2. left' \subseteq {"interfaces", "modprobe"}
  BY <1>1
<1>3. TypeOK'
  BY <1>1, <1>2, Zenon DEF DInv, TypeOK
<1>4. Loads'
  BY <1>1 DEF DInv, Loads
<1>5. Written'
  <2>1. ~met => disk = before.file /\ aliases = before.aliases
    BY DEF DInv, Untouched
  <2>2. "interfaces" \in left' \/ tree' = before.file
    BY <1>1
  <2>3. "modprobe" \in left' \/ talias' = before.aliases
    BY <1>1
  <2> QED  BY <1>1, <2>1, <2>2, <2>3, Zenon DEF Written
<1> QED  BY <1>3, <1>4, <1>5

\* A define adds the aliases and saves.
LEMMA AliasInv ==
    ASSUME DInv, AliasBonds
    PROVE  DInv'
<1>1. /\ pc = "bond" /\ tree' = tree /\ StartSave
      /\ talias' = talias \cup bond_setup(tree, device_name_from_xml(doc))
  BY DEF AliasBonds
<1>2. pc' = "save" /\ UNCHANGED <<disk, aliases, doc, nif, before, met>>
  BY <1>1 DEF StartSave
<1>3. doc \in Docs /\ doc # None /\ tree \in File /\ talias \subseteq Names
  BY <1>1, DocsAssumption DEF DInv, Calls, TypeOK
<1>4. talias' \subseteq Names
  BY <1>1, <1>3, BondNames, DeviceName
<1>5. TypeOK' /\ Loads' /\ Written'
  BY <1>1, <1>3, <1>4, StartSaveInv
<1>6. Calls'
  BY <1>1, <1>2, <1>3 DEF DInv, Calls
<1>7. Saving'
  <2>1. tree = Defined(before.file, doc) /\ talias = before.aliases
    BY <1>1 DEF DInv, Defining
  <2> QED  BY <1>1, <1>2, <1>3, <2>1 DEF Saving
<1>8. Defining' /\ Undefining' /\ Untouched'
  BY <1>2 DEF Defining, Undefining, Untouched
<1> QED  BY <1>5, <1>6, <1>7, <1>8 DEF DInv

\* An undefine takes the aliases away.
LEMMA UnaliasInv ==
    ASSUME DInv, UnaliasBonds
    PROVE  DInv'
<1>1. /\ pc = "unbond" /\ pc' = "rmone" /\ talias' = talias \ bond_setup(tree, nif)
      /\ UNCHANGED <<disk, aliases, aug, tree, doc, nif, todo, left, saved, calls, failures,
                     foreign, before, met>>
  BY DEF UnaliasBonds
<1>2. talias' \subseteq Names
  BY <1>1 DEF DInv, TypeOK
<1>3. TypeOK'
  BY <1>1, <1>2, Zenon DEF DInv, TypeOK
<1>4. Calls'
  BY <1>1 DEF DInv, Calls
<1>5. Loads'
  BY <1>1 DEF DInv, Loads
<1>6. Undefining'
  BY <1>1 DEF DInv, Undefining
<1>7. Defining' /\ Saving' /\ Written'
  BY <1>1 DEF Defining, Saving, Written
<1>8. Untouched'
  BY <1>1 DEF DInv, Untouched
<1> QED  BY <1>3, <1>4, <1>5, <1>6, <1>7, <1>8 DEF DInv

\* It removes the interface and saves.
LEMMA RemoveOneInv ==
    ASSUME DInv, RemoveInterface
    PROVE  DInv'
<1>1. /\ pc = "rmone" /\ tree' = rm_interface(tree, nif) /\ talias' = talias /\ StartSave
  BY DEF RemoveInterface
<1>2. pc' = "save" /\ UNCHANGED <<disk, aliases, doc, nif, before, met>>
  BY <1>1 DEF StartSave
<1>3. /\ doc = None /\ nif # None /\ tree = before.file /\ before.file \in File
      /\ talias \subseteq Names
  BY <1>1 DEF DInv, Calls, Undefining, TypeOK
<1>4. tree' = Kept(before.file, {nif})
  BY <1>1, <1>3, RmKept
<1>5. tree' \in File
  BY <1>3, <1>4, KeptFile
<1>6. TypeOK' /\ Loads' /\ Written'
  BY <1>1, <1>3, <1>5, StartSaveInv
<1>7. Calls'
  BY <1>2, <1>3 DEF DInv, Calls
<1>8. Saving'
  <2>1. talias = before.aliases \ bond_setup(before.file, nif)
    BY <1>1 DEF DInv, Undefining
  <2> QED  BY <1>1, <1>2, <1>3, <1>4, <2>1 DEF Saving
<1>9. Defining' /\ Undefining' /\ Untouched'
  BY <1>2 DEF Defining, Undefining, Untouched
<1> QED  BY <1>6, <1>7, <1>8, <1>9 DEF DInv

\* One file is written, or could not be.
LEMMA SaveFileInv ==
    ASSUME DInv, NEW f \in left, SaveFile(f)
    PROVE  DInv'
<1>1. /\ pc = "save" /\ left' = left \ {f}
      /\ UNCHANGED <<aug, tree, talias, pc, doc, nif, todo, calls, foreign, before, met>>
  BY DEF SaveFile, driver
<1>2. \/ /\ f = "interfaces" /\ Writable(tree) /\ disk' = tree
         /\ UNCHANGED <<aliases, saved, failures>>
      \/ /\ f = "modprobe" /\ aliases' = talias
         /\ UNCHANGED <<disk, saved, failures>>
      \/ /\ Fails \/ failures' = failures
         /\ saved' = FALSE
         /\ UNCHANGED <<disk, aliases>>
  BY DEF SaveFile
<1>3. /\ tree \in File /\ disk \in File /\ aliases \subseteq Names /\ talias \subseteq Names
      /\ saved \in BOOLEAN /\ failures \in 0..MaxFailures
      /\ left \subseteq {"interfaces", "modprobe"}
  BY DEF DInv, TypeOK
<1>4. failures' \in 0..MaxFailures
  <2>1. Fails => failures + 1 \in 0..MaxFailures
    BY <1>3, DebianBounds DEF Fails
  <2> QED  BY <1>2, <1>3, <2>1 DEF Fails
<1>5. disk' \in File /\ aliases' \subseteq Names /\ saved' \in BOOLEAN
  BY <1>2, <1>3, Zenon
<1>6. left' \subseteq {"interfaces", "modprobe"}
  BY <1>1, <1>3
<1>7. TypeOK'
  BY <1>1, <1>4, <1>5, <1>6, Zenon DEF DInv, TypeOK
<1>8. Calls'
  BY <1>1 DEF DInv, Calls
<1>9. Loads'
  BY <1>1, <1>2 DEF DInv, Loads
<1>10. Defining' /\ Undefining' /\ Untouched'
  BY <1>1 DEF Defining, Undefining, Untouched
<1>11. Saving'
  BY <1>1 DEF DInv, Saving
<1>12. Written'
  <2>1. "interfaces" # "modprobe"
    OBVIOUS
  <2>2. SUFFICES ASSUME saved', ~met'
        PROVE  ("interfaces" \in left' \/ disk' = tree') /\ ("modprobe" \in left' \/ aliases' = talias')
    BY DEF Written
  <2>3. saved /\ ~met /\ tree' = tree /\ talias' = talias
    BY <1>1, <1>2, <2>2, Zenon
  <2>4. ("interfaces" \in left \/ disk = tree) /\ ("modprobe" \in left \/ aliases = talias)
    BY <1>1, <2>3 DEF DInv, Written
  <2> QED  BY <1>1, <1>2, <2>1, <2>2, <2>3, <2>4
<1> QED  BY <1>7, <1>8, <1>9, <1>10, <1>11, <1>12 DEF DInv

\* Another program changes the files.
LEMMA ForeignInv ==
    ASSUME DInv, ForeignChange
    PROVE  DInv'
<1>1. /\ foreign < MaxForeign /\ foreign' = foreign + 1 /\ disk' \in Files
      /\ aliases' = aliases \cup {n \in Names : is_bond(disk', n)} /\ met' = (pc # "idle")
      /\ UNCHANGED <<aug, tree, talias, pc, doc, nif, todo, left, saved, calls, failures, before>>
  BY DEF ForeignChange, driver
<1>2. disk' \in File /\ Writable(disk')
  BY <1>1, FilesAssumption
<1>3. aliases' \subseteq Names
  BY <1>1 DEF DInv, TypeOK
<1>4. met' \in BOOLEAN /\ (pc # "idle" => met' = TRUE)
  BY <1>1
<1>5. foreign' \in 0..MaxForeign
  BY <1>1, DebianBounds DEF DInv, TypeOK
<1>6. TypeOK'
  BY <1>1, <1>2, <1>3, <1>4, <1>5, Zenon DEF DInv, TypeOK
<1>7. Calls'
  BY <1>1 DEF DInv, Calls
<1>8. Loads'
  BY <1>1, <1>2 DEF DInv, Loads
<1>9. Defining'
  BY <1>1 DEF DInv, Defining
<1>10. Undefining' /\ Saving'
  BY <1>1 DEF DInv, Undefining, Saving
<1>11. Untouched' /\ Written'
  BY <1>1, <1>4 DEF Untouched, Written
<1> QED  BY <1>6, <1>7, <1>8, <1>9, <1>10, <1>11 DEF DInv

\* Every step keeps the invariant.
LEMMA NextInv ==
    ASSUME DInv, [Next]_vars
    PROVE  DInv'
<1>1. CASE UNCHANGED vars
  <2>1. TypeOK' /\ Calls' /\ Loads'
    BY <1>1 DEF vars, DInv, TypeOK, Calls, Loads
  <2>2. Defining' /\ Undefining' /\ Saving'
    BY <1>1 DEF vars, DInv, Defining, Undefining, Saving
  <2>3. Untouched' /\ Written'
    BY <1>1 DEF vars, DInv, Untouched, Written
  <2> QED  BY <2>1, <2>2, <2>3 DEF DInv
<1>2. CASE Next
  BY <1>2, LookupInv, DefineInv, UndefineInv, RemoveInv, PutInv, AliasInv, UnaliasInv,
     RemoveOneInv, SaveFileInv, SaveDoneInv, FailInv, ForeignInv, Zenon DEF Next, Call, Step
<1> QED  BY <1>1, <1>2

\* The invariant holds in every reachable state.
LEMMA DSpec == Spec => []DInv
<1>1. Init => DInv
  BY InitInv
<1>2. DInv /\ [Next]_vars => DInv'
  BY NextInv
<1> QED  BY <1>1, <1>2, PTL DEF Spec

\* Type correctness: every operation keeps the two files, the Augeas tree, the caller's
\* handle and the counters in their ranges; a stanza put into the tree has a name.
THEOREM TypeCorrect == Spec => []TypeOK
<1>1. DInv => TypeOK
  BY DEF DInv
<1> QED  BY <1>1, DSpec, PTL

-----------------------------------------------------------------------------
(***************************************************************************)
(* What a call that succeeds leaves                                        *)
(***************************************************************************)
\* The first stanza of a document is in the file that a define makes.
LEMMA FirstDefined ==
    ASSUME NEW f \in File, NEW d \in Docs, Removed(d) \subseteq Names \cup {Empty}
    PROVE  /\ First(d) \in ToSet(Defined(f, d).iface)
           /\ First(d).name = RootName(d) /\ First(d).kind = d.type
           /\ First(d).raw = d.raw /\ First(d).deps = NamesIn(d)
<1>1. Own(d) \in Seq(Stanza) /\ Own(d) # <<>> /\ Own(d)[1] = First(d)
  BY OwnSeq
<1>2. First(d) \in ToSet(Own(d))
  BY <1>1, ToSetConcat
<1>3. First(d) \in ToSet(Defined(f, d).iface)
  BY <1>2, GetSeq, DefinedFile
<1> QED  BY <1>3 DEF First, StanzaOf

\* After a call that succeeds and during which nobody else wrote, the files are what the
\* call made of the files that it loaded; a nameless document cannot have been saved.
LEMMA Success ==
    ASSUME DInv, [Next]_vars, Succeeds
    PROVE  /\ before.file \in File /\ before.aliases \subseteq Names /\ disk' \in File
           /\ Writable(before.file)
           /\ doc # None =>
                /\ doc \in Docs /\ Removed(doc) \subseteq Names \cup {Empty}
                /\ disk' = Defined(before.file, doc)
                /\ aliases' = before.aliases \cup bond_setup(disk', doc.device)
                /\ doc.name = doc.device /\ RootName(doc) = doc.device
           /\ doc = None =>
                /\ nif \in Names /\ disk' = Kept(before.file, {nif})
                /\ aliases' = before.aliases \ bond_setup(before.file, nif)
<1>1. pc = "save" /\ pc' = "idle" /\ saved /\ ~met
  BY DEF Succeeds
<1>2. SaveDone
  <2>1. ~ UNCHANGED vars
    BY <1>1 DEF vars
  <2>2. ~ ForeignChange
    BY <1>1 DEF ForeignChange
  <2>3. ~ Call
    BY <1>1 DEF Call, LookupByName, LookupByMac, Define, Undefine, Begin, NoAugeas
  <2>4. ~(\E f \in left : SaveFile(f))
    BY <1>1 DEF SaveFile
  <2>5. /\ ~rm_all_interfaces /\ ~PutXml /\ ~AliasBonds /\ ~UnaliasBonds
        /\ ~RemoveInterface /\ ~Fail
    BY <1>1 DEF rm_all_interfaces, PutXml, AliasBonds, UnaliasBonds, RemoveInterface, Fail
  <2> QED  BY <2>1, <2>2, <2>3, <2>4, <2>5, Zenon DEF Next, Step
<1>3. left = {} /\ disk' = disk /\ aliases' = aliases
  BY <1>2 DEF SaveDone
<1>4. disk = tree /\ aliases = talias
  BY <1>1, <1>3 DEF DInv, Written
<1>5. /\ before.file \in File /\ before.aliases \subseteq Names /\ disk \in File
      /\ Writable(disk) /\ Writable(before.file)
      /\ doc \in Docs \cup {None} /\ nif \in Names \cup {None}
  BY DEF DInv, TypeOK, Calls, Loads
<1>6. ASSUME doc = None
      PROVE  /\ nif \in Names /\ disk' = Kept(before.file, {nif})
             /\ aliases' = before.aliases \ bond_setup(before.file, nif)
  BY <1>1, <1>3, <1>4, <1>5, <1>6 DEF DInv, Saving
<1>7. ASSUME doc # None
      PROVE  /\ doc \in Docs /\ Removed(doc) \subseteq Names \cup {Empty}
             /\ disk' = Defined(before.file, doc)
             /\ aliases' = before.aliases \cup bond_setup(disk', doc.device)
             /\ doc.name = doc.device /\ RootName(doc) = doc.device
  <2>1. doc \in Docs /\ Removed(doc) \subseteq Names \cup {Empty}
    BY <1>1, <1>5, <1>7 DEF DInv, Calls
  <2>2. /\ tree = Defined(before.file, doc)
        /\ talias = before.aliases \cup bond_setup(tree, device_name_from_xml(doc))
    BY <1>1, <1>7 DEF DInv, Saving
  <2>3. device_name_from_xml(doc) = doc.device
    BY <2>1, DeviceName
  <2>4. First(doc) \in ToSet(disk.iface) /\ First(doc).name = RootName(doc)
    BY <1>4, <1>5, <2>1, <2>2, FirstDefined
  <2>5. RootName(doc) # Empty
    BY <1>5, <2>4 DEF Writable, uniq_device_names
  <2>6. doc.name = doc.device /\ RootName(doc) = doc.device
    BY <2>1, <2>5, DocParts, DebianNames DEF RootName
  <2> QED  BY <1>3, <1>4, <2>1, <2>2, <2>3, <2>6
<1> QED  BY <1>3, <1>5, <1>6, <1>7

\* The stanzas of a name after a define.
LEMMA StanzasDefined ==
    ASSUME NEW f \in File, NEW d \in Docs, Removed(d) \subseteq Names \cup {Empty}, NEW n
    PROVE  StanzasOf(Defined(f, d), n)
             = IF n \in Removed(d) THEN Select(GetIface(d), Named({n})) ELSE StanzasOf(f, n)
<1> DEFINE k == Kept(f, Removed(d))
           g == GetIface(d)
<1>1. k.iface \in Seq(Stanza) /\ g \in Seq(Stanza) /\ f.iface \in Seq(Stanza)
  BY KeptFile, GetSeq DEF File
<1>2. StanzasOf(k, n) = IF n \in Removed(d) THEN <<>> ELSE StanzasOf(f, n)
  BY StanzasKept
<1>3. Defined(f, d).iface = k.iface \o g
  BY DefinedFile
<1>4. \A s \in ToSet(g) : s.name \in Removed(d)
  BY GetSeq
<1> HIDE DEF k, g
<1>5. Select(k.iface \o g, Named({n})) = Select(k.iface, Named({n})) \o Select(g, Named({n}))
  BY <1>1, SelectConcat
<1>6. StanzasOf(Defined(f, d), n) = StanzasOf(k, n) \o Select(g, Named({n}))
  BY <1>3, <1>5, Zenon DEF StanzasOf
<1>7. Select(g, Named({n})) \in Seq(Stanza) /\ StanzasOf(f, n) \in Seq(Stanza)
  BY <1>1, SelectSet DEF StanzasOf
<1>8. CASE n \in Removed(d)
  <2>1. <<>> \o Select(g, Named({n})) = Select(g, Named({n}))
    BY <1>7, ConcatEmptySeq
  <2> QED  BY <1>2, <1>6, <1>8, <2>1 DEF g
<1>9. CASE n \notin Removed(d)
  <2>1. ToSet(g) \cap Named({n}) = {}
    BY <1>4, <1>9 DEF Named
  <2>2. Select(g, Named({n})) = <<>>
    BY <1>1, <2>1, SelectAll
  <2>3. StanzasOf(f, n) \o <<>> = StanzasOf(f, n)
    BY <1>7, ConcatEmptySeq
  <2> QED  BY <1>2, <1>6, <1>9, <2>2, <2>3
<1> QED  BY <1>8, <1>9

\* drv_define that succeeds leaves, for each interface of its document, the stanzas of the
\* document and no others, and every other stanza as it was; the bonds of the document
\* have their aliases: bond_setup looks at the ports after aug_put_xml has put them.
THEOREM DefineReplaces == Spec => DefineEffect
<1>1. ASSUME DInv, [Next]_vars, Succeeds, doc # None, NEW n \in Names
      PROVE  StanzasOf(disk', n) = IF n \in ToSet(NamesToRemove(doc))
                                   THEN Select(GetIface(doc), Named({n}))
                                   ELSE StanzasOf(before.file, n)
  <2>1. /\ before.file \in File /\ doc \in Docs /\ Removed(doc) \subseteq Names \cup {Empty}
        /\ disk' = Defined(before.file, doc)
    BY <1>1, Success
  <2>2. StanzasOf(Defined(before.file, doc), n)
          = IF n \in Removed(doc) THEN Select(GetIface(doc), Named({n}))
                                  ELSE StanzasOf(before.file, n)
    BY <2>1, StanzasDefined
  <2> QED  BY <2>1, <2>2, Zenon DEF Removed
<1>2. ASSUME DInv, [Next]_vars, Succeeds, doc # None
      PROVE  {n \in DefinedNames : is_bond(disk', n)} \subseteq aliases'
  <2>1. /\ before.file \in File /\ doc \in Docs /\ Removed(doc) \subseteq Names \cup {Empty}
        /\ disk' = Defined(before.file, doc) /\ RootName(doc) = doc.device
        /\ aliases' = before.aliases \cup bond_setup(disk', doc.device)
    BY <1>2, Success
  <2>2. SUFFICES ASSUME NEW n \in DefinedNames, is_bond(disk', n)
                 PROVE  n \in bond_setup(disk', doc.device)
    BY <2>1
  <2>3. PICK s \in ToSet(GetIface(doc)) : s.name = n
    BY DEF DefinedNames
  <2>4. CASE s \in ToSet(Own(doc))
    <3>1. n = doc.device
      BY <2>1, <2>3, <2>4, OwnSeq
    <3> QED  BY <2>2, <3>1 DEF bond_setup
  <2>5. CASE \E p \in Ported(doc) : s = PortStanza(p)
    <3>1. PICK p \in Ported(doc) : s = PortStanza(p)
      BY <2>5
    <3>2. p \in ToSet(doc.subs) /\ doc.type = "bridge" /\ n = p.name
      BY <2>3, <3>1 DEF Ported, PortStanza, StanzaOf
    <3>3. /\ First(doc) \in ToSet(disk'.iface) /\ First(doc).name = doc.device
          /\ First(doc).kind = "bridge" /\ First(doc).deps = NamesIn(doc)
      BY <2>1, <3>2, FirstDefined
    <3>4. n \in ToSet(NamesIn(doc))
      BY <2>1, <3>2, OwnSeq
    <3>5. is_bridge(disk', doc.device)
      BY <3>3 DEF is_bridge
    <3>6. n \in bridge_ports(disk', doc.device)
      BY <3>3, <3>4 DEF bridge_ports
    <3> QED  BY <2>2, <3>5, <3>6 DEF bond_setup
  <2> QED  BY <2>1, <2>3, <2>4, <2>5, GetSeq
<1>3. DInv /\ [Next]_vars =>
        [Succeeds /\ doc # None =>
           LET all == ToSet(NamesToRemove(doc))
           IN  /\ \A n \in Names :
                    StanzasOf(disk', n) =
                      IF n \in all THEN Select(GetIface(doc), Named({n}))
                                   ELSE StanzasOf(before.file, n)
               /\ {n \in DefinedNames : is_bond(disk', n)} \subseteq aliases']_vars
  BY <1>1, <1>2
<1> QED  BY DSpec, <1>3, PTL DEF Spec, DefineEffect

\* drv_undefine that succeeds removes the stanzas of the interface and no others, and no
\* bond that it was or that was its port keeps its alias.
THEOREM UndefineRemoves == Spec => UndefineEffect
<1>1. ASSUME DInv, [Next]_vars, Succeeds, doc = None
      PROVE  /\ \A n \in Names :
                  StanzasOf(disk', n) = IF n = nif THEN <<>> ELSE StanzasOf(before.file, n)
             /\ \A n \in {nif} \cup bridge_ports(before.file, nif) :
                  is_bond(before.file, n) => n \notin aliases'
  <2>1. /\ before.file \in File /\ disk' = Kept(before.file, {nif})
        /\ aliases' = before.aliases \ bond_setup(before.file, nif)
    BY <1>1, Success
  <2>2. ASSUME NEW n \in Names
        PROVE  StanzasOf(disk', n) = IF n = nif THEN <<>> ELSE StanzasOf(before.file, n)
    <3>1. StanzasOf(Kept(before.file, {nif}), n)
            = IF n \in {nif} THEN <<>> ELSE StanzasOf(before.file, n)
      BY <2>1, StanzasKept
    <3>2. n \in {nif} <=> n = nif
      OBVIOUS
    <3> QED  BY <2>1, <3>1, <3>2, Zenon
  <2>3. ASSUME NEW n \in {nif} \cup bridge_ports(before.file, nif), is_bond(before.file, n)
        PROVE  n \in bond_setup(before.file, nif)
    <3>1. n # nif => is_bridge(before.file, nif)
      BY <2>3 DEF bridge_ports, is_bridge
    <3> QED  BY <2>3, <3>1 DEF bond_setup
  <2> QED  BY <2>1, <2>2, <2>3
<1>2. DInv /\ [Next]_vars =>
        [Succeeds /\ doc = None =>
           /\ \A n \in Names :
                StanzasOf(disk', n) = IF n = nif THEN <<>> ELSE StanzasOf(before.file, n)
           /\ \A n \in {nif} \cup bridge_ports(before.file, nif) :
                is_bond(before.file, n) => n \notin aliases']_vars
  BY <1>1
<1> QED  BY DSpec, <1>2, PTL DEF Spec, UndefineEffect

\* The names behind the first one in the auto stanzas that one of some names leads.
Behind(f, N) == UNION {ToSet(Tail(a)) : a \in {x \in ToSet(f.auto) : x[1] \in N}}

\* What starts at boot when the auto stanzas that some names lead are removed and perhaps
\* one for one of them is put.
LEMMA BootNames ==
    ASSUME NEW f \in File, Writable(f), NEW N, NEW g, NEW r \in N, NEW E, \A a \in E : ToSet(a) = {r},
           ToSet(g.auto) = {a \in ToSet(f.auto) : a[1] \notin N} \cup E,
           NEW n \in Names
    PROVE  /\ n \notin N => (n \notin Behind(f, N) => (n \in AutoNames(g) <=> n \in AutoNames(f)))
           /\ n \in N => (n \notin Behind(f, Names \ N) =>
                            (n \in AutoNames(g) <=> E # {} /\ n = r))
<1>1. f.auto \in Seq(AutoLine)
  BY DEF File
<1>2. ToSet(f.auto) \subseteq AutoLine
  BY <1>1, ToSetConcat
<1>3. ASSUME NEW a \in ToSet(f.auto)
      PROVE  a[1] \in Names /\ ToSet(a) = {a[1]} \cup ToSet(Tail(a))
  <2> DEFINE S == Names \cup {Empty}
  <2>1. a \in Seq(S) /\ a # <<>>
    BY <1>2 DEF AutoLine
  <2> HIDE DEF S
  <2>2. a[1] \in S /\ ToSet(a) = {a[1]} \cup ToSet(Tail(a))
    BY <2>1, ToSetTail
  <2>3. a[1] # Empty
    BY <2>2 DEF Writable, AutoNames
  <2> QED  BY <2>2, <2>3 DEF S
<1>4. n \in AutoNames(g) <=>
        \/ \E a \in ToSet(f.auto) : a[1] \notin N /\ n \in ToSet(a)
        \/ E # {} /\ n = r
  BY DEF AutoNames
<1>5. n \in AutoNames(f) <=> \E a \in ToSet(f.auto) : n \in ToSet(a)
  BY DEF AutoNames
<1>6. ASSUME n \notin N, n \notin Behind(f, N)
      PROVE  \A a \in ToSet(f.auto) : n \in ToSet(a) => a[1] \notin N
  BY <1>3, <1>6 DEF Behind
<1>7. ASSUME n \in N, n \notin Behind(f, Names \ N)
      PROVE  \A a \in ToSet(f.auto) : a[1] \notin N => n \notin ToSet(a)
  BY <1>3, <1>7 DEF Behind
<1> QED  BY <1>4, <1>5, <1>6, <1>7

\* What starts at boot after a call that succeeds is what the document says of the
\* interface and what started before of all others, but for the names behind the first in
\* an auto stanza, which rm_interface does not look at.
THEOREM BootKept == Spec => StartsAtBoot
<1>1. ASSUME DInv, [Next]_vars, Succeeds, NEW own,
             own = IF doc = None THEN {nif} ELSE ToSet(NamesToRemove(doc)), NEW n \in Names
      PROVE  /\ n \notin own =>
                  (n \notin Behind(before.file, own) =>
                     (n \in AutoNames(disk') <=> n \in AutoNames(before.file)))
             /\ n \in own =>
                  (n \notin Behind(before.file, Names \ own) =>
                     (n \in AutoNames(disk') <=>
                        doc # None /\ n = doc.device /\ doc.start = "onboot"))
  <2> DEFINE b == before.file
             g == disk'
             r == IF doc = None THEN nif ELSE doc.device
             E == IF doc # None /\ doc.start = "onboot" THEN {<<r>>} ELSE {}
  <2>1. b \in File /\ Writable(b)
    BY <1>1, Success
  <2>2. r \in own /\ ToSet(g.auto) = {a \in ToSet(b.auto) : a[1] \notin own} \cup E
    <3>1. CASE doc = None
      <4>1. own = {nif} /\ r = nif /\ E = {}
        BY <1>1, <3>1
      <4>2. disk' = Kept(b, {nif})
        BY <1>1, <3>1, Success
      <4> HIDE DEF b, r, E
      <4> QED  BY <2>1, <4>1, <4>2, KeptFile
    <3>2. CASE doc # None
      <4>1. /\ doc \in Docs /\ Removed(doc) \subseteq Names \cup {Empty}
            /\ disk' = Defined(b, doc) /\ RootName(doc) = doc.device
        BY <1>1, <3>2, Success
      <4>2. /\ own = Removed(doc) /\ r = RootName(doc)
            /\ E = IF doc.start = "onboot" THEN {<<RootName(doc)>>} ELSE {}
        BY <1>1, <3>2, <4>1 DEF Removed
      <4> HIDE DEF b, r, E
      <4>3. r \in own
        BY <4>1, <4>2, RemovedNames
      <4>4. ToSet(Defined(b, doc).auto)
              = {a \in ToSet(b.auto) : a[1] \notin Removed(doc)}
                  \cup (IF doc.start = "onboot" THEN {<<RootName(doc)>>} ELSE {})
        BY <2>1, <4>1, DefinedFile
      <4> QED  BY <4>1, <4>2, <4>3, <4>4, Zenon
    <3> QED  BY <3>1, <3>2
  <2>3. E # {} /\ n = r <=> doc # None /\ n = doc.device /\ doc.start = "onboot"
    OBVIOUS
  <2>4. \A a \in E : ToSet(a) = {r}
    BY OneElement
  <2> HIDE DEF b, g, r, E
  <2>5. /\ n \notin own => (n \notin Behind(b, own) => (n \in AutoNames(g) <=> n \in AutoNames(b)))
        /\ n \in own => (n \notin Behind(b, Names \ own) =>
                           (n \in AutoNames(g) <=> E # {} /\ n = r))
    BY ONLY <2>1, <2>2, <2>4, BootNames
  <2> QED  BY <2>3, <2>5 DEF b, g
<1>2. DInv /\ [Next]_vars =>
        [Succeeds =>
           LET own  == IF doc = None THEN {nif} ELSE ToSet(NamesToRemove(doc))
               b    == before.file
               behind(N) == UNION {ToSet(Tail(a)) : a \in {x \in ToSet(b.auto) : x[1] \in N}}
           IN  \A n \in Names :
                 IF n \notin own
                 THEN n \notin behind(own) => (n \in AutoNames(disk') <=> n \in AutoNames(b))
                 ELSE n \notin behind(Names \ own) =>
                        (n \in AutoNames(disk') <=>
                           doc # None /\ n = doc.device /\ doc.start = "onboot")]_vars
  <2> SUFFICES ASSUME DInv, [Next]_vars, Succeeds, NEW own,
                      own = IF doc = None THEN {nif} ELSE ToSet(NamesToRemove(doc)),
                      NEW n \in Names
               PROVE  IF n \notin own
                      THEN n \notin Behind(before.file, own) =>
                             (n \in AutoNames(disk') <=> n \in AutoNames(before.file))
                      ELSE n \notin Behind(before.file, Names \ own) =>
                             (n \in AutoNames(disk') <=>
                                doc # None /\ n = doc.device /\ doc.start = "onboot")
    BY DEF Behind
  <2> QED  BY <1>1, Zenon
<1> QED  BY DSpec, <1>2, PTL DEF Spec, StartsAtBoot

-----------------------------------------------------------------------------
(***************************************************************************)
(* What ncf_if_xml_desc reads after a define                               *)
(***************************************************************************)
\* No two interfaces of a document have the same name.
LEMMA Distinct ==
    ASSUME NEW d \in Docs, Removed(d) \subseteq Names \cup {Empty}
    PROVE  \A s \in ToSet(d.subs) :
             /\ s \in Sub /\ s.name # d.device
             /\ d.type = "bond" => s \in BareEthernet
             /\ \A x \in ToSet(s.subs) : x.name # d.device /\ \A t \in Ported(d) : x.name # t.name
             /\ \A t \in ToSet(d.subs) : s.name = t.name => s = t
<1>1. /\ Document(d) /\ d.subs \in Seq(Sub) /\ ToSet(d.subs) \subseteq Sub
      /\ d.type \notin {"bridge", "bond"} => d.subs = <<>>
  BY DocParts, DocsAssumption
<1>2. /\ \A i \in InterfacesOf(d) : i.name = i.device \/ i.name = None
      /\ \A i, j \in InterfacesOf(d) : i.device = j.device => i = j
      /\ d.type = "bond" => d.subs \in Seq(BareEthernet)
  BY <1>1 DEF Document
<1>3. ASSUME NEW s \in ToSet(d.subs)
      PROVE  /\ s \in Sub /\ s \in InterfacesOf(d) /\ s.type \in {"ethernet", "bond", "vlan"}
             /\ s.name = s.device
  <2>1. s \in Sub /\ s \in InterfacesOf(d)
    BY <1>1 DEF InterfacesOf
  <2>2. s.name # None
    BY PortStanzasSeq, DebianNames
  <2> QED  BY <1>2, <2>1, <2>2, SubParts
<1>4. d \in InterfacesOf(d)
  BY DEF InterfacesOf
<1>5. d.type = "bond" => ToSet(d.subs) \subseteq BareEthernet
  BY <1>2, ToSetConcat
<1>6. ASSUME NEW s \in ToSet(d.subs) PROVE d.type \in {"bridge", "bond"}
  BY <1>1, <1>6, ToSetConcat
<1>7. ASSUME NEW s \in ToSet(d.subs) PROVE s.name # d.device
  <2>1. s.type # d.type
    BY <1>3, <1>5, <1>6, SlaveParts
  <2> QED  BY <1>2, <1>3, <1>4, <2>1
<1>8. ASSUME NEW s \in ToSet(d.subs), NEW x \in ToSet(s.subs)
      PROVE  x.name # d.device /\ \A t \in Ported(d) : x.name # t.name
  <2>1. x \in BareEthernet /\ x \in InterfacesOf(d)
    BY <1>3, SubParts DEF InterfacesOf
  <2>2. x.type = "ethernet" /\ x.name = x.device
    BY <1>2, <2>1, SlaveParts, DebianNames
  <2>3. \A t \in Ported(d) : t \in ToSet(d.subs) /\ t.type # "ethernet"
    BY DEF Ported
  <2> QED  BY <1>2, <1>3, <1>4, <1>6, <2>1, <2>2, <2>3
<1>9. ASSUME NEW s \in ToSet(d.subs), NEW t \in ToSet(d.subs), s.name = t.name PROVE s = t
  BY <1>2, <1>3, <1>9
<1> QED  BY <1>3, <1>5, <1>7, <1>8, <1>9

\* The stanzas of a document that have the name of the root, and those of a port.
LEMMA NamedStanzas ==
    ASSUME NEW d \in Docs, Removed(d) \subseteq Names \cup {Empty}, RootName(d) = d.device
    PROVE  /\ Select(GetIface(d), Named({d.device})) = Own(d)
           /\ \A t \in ToSet(GetIface(d)) :
                \/ t.name = d.device /\ t \in ToSet(Own(d))
                \/ t.name # d.device /\ \E s \in Ported(d) : t = PortStanza(s) /\ t.name = s.name
<1> DEFINE o == Own(d)
           p == PortStanzas(d)
           N == Named({d.device})
<1>1. /\ GetIface(d) = o \o p /\ o \in Seq(Stanza) /\ p \in Seq(Stanza)
      /\ \A s \in ToSet(o) : s.name = d.device
      /\ ToSet(p) = {PortStanza(s) : s \in Ported(d)}
  BY GetIfaceParts, OwnSeq, PortStanzasSeq
<1>2. ASSUME NEW s \in Ported(d) PROVE PortStanza(s).name = s.name /\ s.name # d.device
  <2>1. s \in ToSet(d.subs)
    BY DEF Ported
  <2> QED  BY <2>1, Distinct DEF PortStanza, StanzaOf
<1>3. ToSet(o) \subseteq N /\ ToSet(p) \cap N = {}
  <2>1. ToSet(o) \subseteq Stanza
    BY <1>1, ToSetConcat
  <2> QED  BY <1>1, <1>2, <2>1 DEF Named
<1> HIDE DEF o, p, N
<1>4. Select(o, N) = o /\ Select(p, N) = <<>>
  BY <1>1, <1>3, SelectAll
<1>5. Select(o \o p, N) = Select(o, N) \o Select(p, N)
  BY <1>1, SelectConcat
<1>6. o \o <<>> = o
  BY <1>1, ConcatEmptySeq
<1>7. Select(GetIface(d), N) = o
  BY <1>1, <1>4, <1>5, <1>6, Zenon
<1>8. ToSet(GetIface(d)) = ToSet(o) \cup {PortStanza(s) : s \in Ported(d)}
  BY GetSeq DEF o
<1> QED  BY <1>1, <1>2, <1>7, <1>8 DEF o, N

\* What the file says of the root of a document and of its ports after a define.
LEMMA RootParts ==
    ASSUME NEW f \in File, NEW d \in Docs, Removed(d) \subseteq Names \cup {Empty},
           RootName(d) = d.device, NEW g, g = Defined(f, d)
    PROVE  /\ is_bond(g, d.device) <=> d.type = "bond"
           /\ is_bridge(g, d.device) <=> d.type = "bridge"
           /\ bond_slaves(g, d.device) \subseteq Removed(d)
           /\ bridge_ports(g, d.device) \subseteq Removed(d)
           /\ d.type = "bridge" => \A s \in ToSet(d.subs) : s.name \in bridge_ports(g, d.device)
           /\ \A s \in ToSet(d.subs) : bond_slaves(g, s.name) \subseteq Removed(d)
           /\ bridge_ports(g, d.device) \subseteq {s.name : s \in ToSet(d.subs)}
<1> DEFINE n == d.device
<1>1. /\ n \in Removed(d)
      /\ \A s \in ToSet(d.subs) : s.name \in Removed(d) /\ \A x \in ToSet(s.subs) : x.name \in Removed(d)
  BY RemovedNames
<1>2. ToSet(g.iface) = {s \in ToSet(f.iface) : s.name \notin Removed(d)} \cup ToSet(GetIface(d))
  BY DefinedFile
<1>3. First(d) \in ToSet(g.iface) /\ First(d).name = n /\ First(d).kind = d.type /\ First(d).deps = NamesIn(d)
  BY FirstDefined
<1>4. ToSet(NamesIn(d)) = {s.name : s \in ToSet(d.subs)}
  BY OwnSeq
<1>5. ASSUME NEW t \in ToSet(g.iface), t.name = n
      PROVE  t = First(d) \/ (t.kind = "ethernet" /\ t.deps = <<>>)
  <2>1. t \in ToSet(Own(d))
    BY <1>1, <1>2, <1>5, NamedStanzas
  <2> QED  BY <2>1, OwnSeq
<1>6. is_bond(g, n) <=> d.type = "bond"
  BY <1>3, <1>5 DEF is_bond
<1>7. is_bridge(g, n) <=> d.type = "bridge"
  BY <1>3, <1>5 DEF is_bridge
<1>8. bond_slaves(g, n) \subseteq Removed(d)
  BY <1>1, <1>3, <1>4, <1>5 DEF bond_slaves
<1>9. bridge_ports(g, n) \subseteq {s.name : s \in ToSet(d.subs)}
  BY <1>1, <1>3, <1>4, <1>5 DEF bridge_ports
<1>10. d.type = "bridge" => \A s \in ToSet(d.subs) : s.name \in bridge_ports(g, n)
  BY <1>3, <1>4 DEF bridge_ports
<1>11. ASSUME NEW s \in ToSet(d.subs) PROVE bond_slaves(g, s.name) \subseteq Removed(d)
  <2>1. ASSUME NEW t \in ToSet(g.iface), t.name = s.name PROVE ToSet(t.deps) \subseteq Removed(d)
    <3>1. t \in ToSet(GetIface(d)) /\ t.name # n
      BY <1>1, <1>2, <2>1, Distinct
    <3>2. PICK u \in Ported(d) : t = PortStanza(u)
      BY <3>1, NamedStanzas
    <3>3. t.deps = NamesIn(u) /\ u \in ToSet(d.subs)
      BY <3>2 DEF PortStanza, StanzaOf, Ported
    <3>4. ToSet(NamesIn(u)) = {x.name : x \in ToSet(u.subs)}
      BY <3>3, PortStanzasSeq
    <3> QED  BY <1>1, <3>3, <3>4
  <2> QED  BY <2>1 DEF bond_slaves
<1> QED  BY <1>1, <1>6, <1>7, <1>8, <1>9, <1>10, <1>11

\* The stanzas that aug_get_xml reads of the interface and its parts: first those of the
\* document's root, then others, of family inet, among them all of the ports of a bridge.
LEMMA ReadStanzas ==
    ASSUME NEW f \in File, NEW d \in Docs, Removed(d) \subseteq Names \cup {Empty},
           RootName(d) = d.device, NEW g, g = Defined(f, d), NEW x, x = aug_get_xml(g, d.device)
    PROVE  \E R \in Seq(Stanza) :
             /\ x.iface = Own(d) \o R /\ \A t \in ToSet(R) : t.family = "inet"
             /\ d.type = "bridge" =>
                  \A s \in ToSet(d.subs) : StanzasOf(x, s.name) = StanzasOf(g, s.name)
<1> DEFINE n == d.device
           P == IF is_bond(g, n) THEN bond_slaves(g, n)
                ELSE IF is_bridge(g, n)
                     THEN bridge_ports(g, n) \cup UNION {bond_slaves(g, p) : p \in bridge_ports(g, n)}
                     ELSE {}
           o == Own(d)
           M == Named(P \ {n})
           R == Select(g.iface, M)
<1>1. n \in Removed(d) /\ P \subseteq Removed(d)
  BY RootParts, RemovedNames
<1>2. d.type = "bridge" => \A s \in ToSet(d.subs) : s.name \in P \ {n}
  BY RootParts, Distinct
<1>3. x.iface = StanzasOf(g, n) \o R
  BY Zenon DEF aug_get_xml
<1>4. StanzasOf(g, n) = o
  <2>1. StanzasOf(g, n) = Select(GetIface(d), Named({n}))
    BY <1>1, StanzasDefined
  <2> QED  BY <2>1, NamedStanzas
<1>5. g.iface \in Seq(Stanza) /\ o \in Seq(Stanza) /\ \A t \in ToSet(o) : t.name = n
  BY DefinedFile, OwnSeq DEF File
<1> HIDE DEF P, o
<1>6. R \in Seq(Stanza) /\ ToSet(R) = ToSet(g.iface) \cap M
  BY <1>5, SelectSet
<1>7. ASSUME NEW t \in ToSet(R) PROVE t.family = "inet"
  <2>1. t \in ToSet(g.iface) /\ t.name \in P \ {n}
    BY <1>6 DEF Named
  <2>2. t \in ToSet(GetIface(d)) /\ t.name # n
    BY <1>1, <2>1, DefinedFile
  <2>3. PICK u \in Ported(d) : t = PortStanza(u)
    BY <2>2, NamedStanzas
  <2> QED  BY <2>3 DEF PortStanza, StanzaOf
<1>8. ASSUME NEW p \in P \ {n} PROVE StanzasOf(x, p) = StanzasOf(g, p)
  <2> DEFINE N == Named({p})
  <2>1. ToSet(o) \cap N = {} /\ M \cap N = N
    BY <1>5, <1>8 DEF Named
  <2> HIDE DEF M, N
  <2>2. Select(R, N) = Select(g.iface, N)
    <3>1. \A A, B : Select(Select(g.iface, A), B) = Select(g.iface, A \cap B)
      BY <1>5, SelectTwice
    <3>2. Select(Select(g.iface, M), N) = Select(g.iface, M \cap N)
      BY <3>1, Zenon
    <3>3. M \cap N = N
      BY <2>1
    <3> QED  BY <3>2, <3>3, Zenon DEF R
  <2> HIDE DEF R
  <2>3. Select(o, N) = <<>> /\ Select(o \o R, N) = Select(o, N) \o Select(R, N)
    BY <1>5, <1>6, <2>1, SelectAll, SelectConcat
  <2>4. <<>> \o Select(R, N) = Select(R, N)
    BY <1>6, SelectSet, ConcatEmptySeq
  <2>5. Select(x.iface, N) = Select(g.iface, N)
    BY <1>3, <1>4, <2>2, <2>3, <2>4, Zenon
  <2> QED  BY <2>5, Zenon DEF StanzasOf, N
<1>9. d.type = "bridge" => \A s \in ToSet(d.subs) : StanzasOf(x, s.name) = StanzasOf(g, s.name)
  BY <1>2, <1>8
<1> HIDE DEF R
<1> QED  BY <1>3, <1>4, <1>6, <1>7, <1>9 DEF o

\* The families of some stanzas, in their order.
FamiliesOf(s) == [i \in DOMAIN s |-> s[i].family]

\* They are as many as the stanzas.
LEMMA FamiliesSeq ==
    ASSUME NEW s \in Seq(Stanza)
    PROVE  /\ FamiliesOf(s) \in Seq(Families) /\ Len(FamiliesOf(s)) = Len(s)
           /\ \A i \in 1..Len(s) : FamiliesOf(s)[i] = s[i].family
           /\ ToSet(FamiliesOf(s)) = {t.family : t \in ToSet(s)}
<1> DEFINE q == FamiliesOf(s)
           n == Len(s)
<1>1. n \in Nat /\ DOMAIN s = 1..n /\ \A i \in 1..n : s[i] \in Stanza
  BY LenProperties, ElementOfSeq
<1>2. \A t \in Stanza : t.family \in Families
  BY DEF Stanza
<1>3. q \in [1..n -> Families] /\ \A i \in 1..n : q[i] = s[i].family
  BY <1>1, <1>2 DEF FamiliesOf
<1>4. ToSet(s) = {s[i] : i \in 1..n}
  BY <1>1 DEF ToSet
<1> HIDE DEF q, n
<1>5. q \in Seq(Families) /\ Len(q) = n /\ ToSet(q) = {q[i] : i \in 1..n}
  BY ONLY <1>1, <1>3, FunctionSeq
<1> QED  BY <1>3, <1>4, <1>5 DEF q, n

\* The families of two sequences one after the other.
LEMMA FamiliesConcat ==
    ASSUME NEW s \in Seq(Stanza), NEW t \in Seq(Stanza)
    PROVE  FamiliesOf(s \o t) = FamiliesOf(s) \o FamiliesOf(t)
<1> DEFINE u == s \o t
           F == FamiliesOf(s)
           G == FamiliesOf(t)
           H == FamiliesOf(u)
           m == Len(s)
           n == Len(t)
<1>1. /\ m \in Nat /\ n \in Nat /\ u \in Seq(Stanza) /\ Len(u) = m + n
      /\ \A i \in 1..m : u[i] = s[i]
      /\ \A i \in (m + 1)..(m + n) : u[i] = t[i - m]
  BY ConcatProperties, LenProperties
<1>2. /\ F \in Seq(Families) /\ Len(F) = m /\ \A i \in 1..m : F[i] = s[i].family
      /\ G \in Seq(Families) /\ Len(G) = n /\ \A i \in 1..n : G[i] = t[i].family
  BY FamiliesSeq
<1> HIDE DEF u
<1>3. H \in Seq(Families) /\ Len(H) = m + n /\ \A i \in 1..(m + n) : H[i] = u[i].family
  BY <1>1, FamiliesSeq
<1> DEFINE K == F \o G
<1> HIDE DEF F, G, H
<1>4. /\ K \in Seq(Families) /\ Len(K) = Len(F) + Len(G)
      /\ \A i \in 1..Len(F) : K[i] = F[i]
      /\ \A i \in (Len(F) + 1)..(Len(F) + Len(G)) : K[i] = G[i - Len(F)]
  <2>1. F \in Seq(Families) /\ G \in Seq(Families)
    BY <1>2
  <2> QED  BY ONLY <2>1, ConcatProperties
<1> HIDE DEF m, n, K
<1>5. ASSUME NEW i \in 1..m PROVE H[i] = K[i]
  <2>1. i \in 1..(m + n)
    BY <1>1
  <2>2. H[i] = u[i].family /\ u[i] = s[i]
    BY <1>1, <1>3, <2>1
  <2>3. K[i] = F[i] /\ F[i] = s[i].family
    BY <1>2, <1>4
  <2> QED  BY <2>2, <2>3, Zenon
<1>6. ASSUME NEW i \in (m + 1)..(m + n) PROVE H[i] = K[i]
  <2>1. i \in 1..(m + n) /\ i - m \in 1..n
    BY <1>1
  <2>2. H[i] = u[i].family /\ u[i] = t[i - m]
    BY <1>1, <1>3, <2>1
  <2>3. K[i] = G[i - m] /\ G[i - m] = t[i - m].family
    BY <1>2, <1>4, <2>1
  <2> QED  BY <2>2, <2>3, Zenon
<1>7. \A i \in 1..(m + n) : i \in 1..m \/ i \in (m + 1)..(m + n)
  BY <1>1
<1>8. Len(K) = Len(H) /\ \A i \in 1..Len(H) : H[i] = K[i]
  BY <1>2, <1>3, <1>4, <1>5, <1>6, <1>7
<1>9. H = K
  BY <1>3, <1>4, <1>8, SeqEqual
<1> QED  BY <1>9 DEF u, F, G, H, K

\* Families in the forms that protocols have: which of them are inet6.
LEMMA SelectInet6 ==
    /\ Select(<<"inet">>, {"inet6"}) = <<>>
    /\ Select(<<"inet", "inet6">>, {"inet6"}) = <<"inet6">>
    /\ <<"inet">> \o <<"inet6">> = <<"inet", "inet6">>
<1>1. "inet" \in Families /\ "inet6" \in Families /\ "inet" \notin {"inet6"} /\ "inet6" \in {"inet6"}
  BY DEF Families
<1>2. <<>> \in Seq(Families) /\ <<"inet">> \in Seq(Families)
  BY <1>1, EmptySeq, OneElement
<1>3. /\ <<"inet">> = Append(<<>>, "inet") /\ <<"inet6">> = Append(<<>>, "inet6")
      /\ <<"inet", "inet6">> = Append(<<"inet">>, "inet6")
  OBVIOUS
<1>4. Select(<<>>, {"inet6"}) = <<>>
  BY SelectEmpty
<1>5. Select(Append(<<>>, "inet"), {"inet6"}) = Select(<<>>, {"inet6"})
  BY <1>1, <1>2, SelectDrops
<1>6. Select(Append(<<"inet">>, "inet6"), {"inet6"}) = Append(Select(<<"inet">>, {"inet6"}), "inet6")
  BY <1>1, <1>2, SelectKeeps
<1>7. <<"inet">> \o Append(<<>>, "inet6") = Append(<<"inet">> \o <<>>, "inet6")
  BY <1>1, <1>2, ToSetSteps
<1>8. <<"inet">> \o <<>> = <<"inet">>
  BY <1>2, ConcatEmptySeq
<1> QED  BY <1>3, <1>4, <1>5, <1>6, <1>7, <1>8, Zenon

\* The families of the stanzas of a document's root.
LEMMA OwnFamilies ==
    ASSUME NEW d \in Docs, Removed(d) \subseteq Names \cup {Empty}
    PROVE  /\ d.protos = <<>> => FamiliesOf(Own(d)) = <<"inet">> /\ First(d).manual
           /\ d.protos # <<>> => FamiliesOf(Own(d)) = d.protos /\ ~First(d).manual
<1> DEFINE o == Own(d)
           F == FamiliesOf(o)
<1>1. o \in Seq(Stanza) /\ o[1] = First(d)
  BY OwnSeq
<1>2. F \in Seq(Families) /\ Len(F) = Len(o) /\ \A i \in 1..Len(o) : F[i] = o[i].family
  BY <1>1, FamiliesSeq
<1>3. ASSUME d.protos = <<>> PROVE F = <<"inet">> /\ First(d).manual
  <2>1. Len(o) = 1 /\ o[1].family = "inet" /\ First(d).manual = TRUE
    BY <1>3 DEF Own, First, StanzaOf
  <2>2. <<"inet">> \in Seq(Families) /\ Len(<<"inet">>) = 1 /\ <<"inet">>[1] = "inet"
    BY OneElement DEF Families
  <2>3. \A i \in 1..1 : i = 1
    OBVIOUS
  <2> HIDE DEF F, o
  <2> DEFINE K == <<"inet">>
  <2>4. /\ F \in Seq(Families) /\ K \in Seq(Families) /\ Len(F) = Len(K)
        /\ \A i \in 1..Len(F) : F[i] = K[i]
    BY <1>2, <2>1, <2>2, <2>3
  <2> HIDE DEF K
  <2>5. F = K
    BY ONLY <2>4, SeqEqual
  <2> QED  BY <2>1, <2>5 DEF K
<1>4. ASSUME d.protos # <<>> PROVE F = d.protos /\ ~First(d).manual
  <2> DEFINE K == d.protos
             n == Len(K)
  <2>1. K \in Seq(Families) /\ n \in Nat /\ DOMAIN K = 1..n
    BY ProtosSeq, LenProperties
  <2>2. o = [i \in 1..n |-> StanzaOf(RootName(d), K[i], FALSE, IF i = 1 THEN d ELSE Plain)]
    BY <1>4, <2>1 DEF Own
  <2>3. First(d).manual = FALSE
    <3>1. First(d) = StanzaOf(RootName(d), d.protos[1], FALSE, d)
      BY <1>4, Zenon DEF First
    <3> QED  BY <3>1 DEF StanzaOf
  <2> HIDE DEF F, K, n, o
  <2>4. \A i \in 1..n : o[i].family = K[i]
    BY <2>2 DEF StanzaOf
  <2>5. Len(o) = n
    BY <1>1, <2>1, <2>2, LenProperties
  <2>6. F \in Seq(Families) /\ Len(F) = n /\ \A i \in 1..n : F[i] = K[i]
    BY <1>2, <2>4, <2>5
  <2>7. F = K
    BY <2>1, <2>6, SeqEqual DEF n
  <2> QED  BY <2>3, <2>7 DEF K
<1> QED  BY <1>3, <1>4

\* The protocols that debian-put.xsl reads from the stanzas of a document's root and
\* others of family inet behind them.
LEMMA ReadProtos ==
    ASSUME NEW d \in Docs, Removed(d) \subseteq Names \cup {Empty},
           NEW R \in Seq(Stanza), \A t \in ToSet(R) : t.family = "inet"
    PROVE  /\ (Own(d) \o R)[1] = First(d)
           /\ d.protos # <<"inet6", "inet">> => PutProtos(Own(d) \o R) = d.protos
<1> DEFINE o == Own(d)
           u == o \o R
           F == FamiliesOf(o)
           G == FamiliesOf(R)
           H == FamiliesOf(u)
<1>1. o \in Seq(Stanza) /\ o # <<>> /\ o[1] = First(d) /\ u \in Seq(Stanza)
  BY OwnSeq, ConcatProperties
<1>2. u[1] = First(d) /\ 1 \in 1..Len(o) /\ 1 \in 1..Len(u)
  <2>1. Len(o) \in Nat /\ Len(R) \in Nat /\ Len(o) # 0
    BY <1>1, LenProperties, EmptySeq
  <2> HIDE DEF o
  <2>2. 1 \in 1..Len(o) /\ Len(u) = Len(o) + Len(R)
    BY <1>1, <2>1, ConcatProperties
  <2>3. 1 \in 1..Len(u)
    BY <2>1, <2>2
  <2>4. u[1] = o[1]
    BY <1>1, <2>1, <2>2, ConcatProperties
  <2> QED  BY <1>1, <2>2, <2>3, <2>4
<1>3. F \in Seq(Families) /\ G \in Seq(Families) /\ ToSet(G) \subseteq {"inet"} /\ H = F \o G
  <2>1. F \in Seq(Families) /\ G \in Seq(Families) /\ ToSet(G) = {t.family : t \in ToSet(R)}
    BY <1>1, FamiliesSeq
  <2>2. H = F \o G
    BY <1>1, FamiliesConcat
  <2> QED  BY <2>1, <2>2
<1>4. H[1] = F[1]
  <2>1. H[1] = u[1].family /\ F[1] = o[1].family
    BY <1>1, <1>2, FamiliesSeq
  <2> QED  BY <1>1, <1>2, <2>1, Zenon
<1>5. PutProtos(u) = IF H[1] = "inet6" THEN <<"inet6">>
                     ELSE (IF u[1].manual THEN <<>> ELSE <<"inet">>) \o Select(H, {"inet6"})
  BY Zenon DEF PutProtos, FamiliesOf
<1> HIDE DEF u, F, G, H
<1>6. Select(H, {"inet6"}) = Select(F, {"inet6"})
  <2> DEFINE T == {"inet6"}
  <2>1. ToSet(G) \cap T = {}
    BY <1>3
  <2> HIDE DEF T
  <2>2. Select(G, T) = <<>> /\ Select(F \o G, T) = Select(F, T) \o Select(G, T)
    BY <1>3, <2>1, SelectAll, SelectConcat
  <2>3. Select(F, T) \o <<>> = Select(F, T)
    BY <1>3, SelectSet, ConcatEmptySeq
  <2> QED  BY <1>3, <2>2, <2>3, Zenon DEF T
<1>7. CASE d.protos = <<>>
  <2>1. F = <<"inet">> /\ First(d).manual
    BY <1>7, OwnFamilies DEF F
  <2>2. H[1] # "inet6" /\ Select(H, {"inet6"}) = <<>>
    BY <1>4, <1>6, <2>1, SelectInet6
  <2>3. PutProtos(u) = <<>> \o <<>>
    BY <1>2, <1>5, <2>1, <2>2, Zenon
  <2>4. PutProtos(u) = <<>>
    BY <2>3, EmptySeq, ConcatEmptySeq
  <2>5. <<>> # <<"inet6", "inet">>
    OBVIOUS
  <2> QED  BY <1>2, <1>7, <2>4, <2>5, Zenon DEF u
<1>8. CASE d.protos # <<>>
  <2>1. F = d.protos /\ ~First(d).manual
    BY <1>8, OwnFamilies DEF F
  <2>2. d.protos \in {<<"inet">>, <<"inet6">>, <<"inet", "inet6">>, <<"inet6", "inet">>}
    BY <1>8, DocParts
  <2>3. CASE d.protos \in {<<"inet6">>, <<"inet6", "inet">>}
    <3>1. H[1] = "inet6"
      BY <1>4, <2>1, <2>3
    <3>2. PutProtos(u) = <<"inet6">>
      BY <1>5, <3>1, Zenon
    <3> QED  BY <1>2, <2>3, <3>2, Zenon DEF u
  <2>4. CASE d.protos = <<"inet">>
    <3>1. H[1] # "inet6" /\ Select(H, {"inet6"}) = <<>>
      BY <1>4, <1>6, <2>1, <2>4, SelectInet6
    <3>2. PutProtos(u) = <<"inet">> \o <<>>
      BY <1>2, <1>5, <2>1, <3>1, Zenon
    <3>3. <<"inet">> \o <<>> = <<"inet">> /\ <<"inet">> # <<"inet6", "inet">>
      OBVIOUS
    <3> QED  BY <1>2, <2>4, <3>2, <3>3, Zenon DEF u
  <2>5. CASE d.protos = <<"inet", "inet6">>
    <3>1. H[1] # "inet6" /\ Select(H, {"inet6"}) = <<"inet6">>
      BY <1>4, <1>6, <2>1, <2>5, SelectInet6
    <3>2. PutProtos(u) = <<"inet">> \o <<"inet6">>
      BY <1>2, <1>5, <2>1, <3>1, Zenon
    <3>3. <<"inet">> \o <<"inet6">> = <<"inet", "inet6">>
      BY SelectInet6
    <3>4. <<"inet", "inet6">> # <<"inet6", "inet">>
      OBVIOUS
    <3> QED  BY <1>2, <2>5, <3>2, <3>3, <3>4, Zenon DEF u
  <2> QED  BY <2>2, <2>3, <2>4, <2>5
<1> QED  BY <1>7, <1>8

\* A port or slave as ReadsBack expects it, and a slave as debian-put.xsl describes it.
Slave(n) == [name |-> n, type |-> "ethernet", raw |-> None, subs |-> <<>>]
Slaves(s) ==
    [i \in DOMAIN s.subs |-> [name |-> s.subs[i].name, type |-> s.subs[i].type,
                              raw |-> s.subs[i].raw, subs |-> <<>>]]
Part(s) == [name |-> s.name, type |-> s.type, raw |-> s.raw, subs |-> Slaves(s)]

\* The slaves of a port are the ones that are read from its stanza.
LEMMA SlavesRead ==
    ASSUME NEW s \in Sub
    PROVE  /\ Slaves(s) = [i \in DOMAIN NamesIn(s) |-> Slave(NamesIn(s)[i])]
           /\ s.subs = <<>> => Slaves(s) = <<>>
<1>1. /\ s.subs \in Seq(BareEthernet) /\ Len(s.subs) \in Nat /\ DOMAIN s.subs = 1..Len(s.subs)
      /\ \A i \in 1..Len(s.subs) : s.subs[i] \in BareEthernet
  BY SubParts, LenProperties, ElementOfSeq
<1>2. DOMAIN NamesIn(s) = DOMAIN s.subs /\ \A i \in DOMAIN s.subs : NamesIn(s)[i] = s.subs[i].name
  BY DEF NamesIn
<1>3. ASSUME NEW i \in DOMAIN s.subs
      PROVE  Slaves(s)[i] = Slave(NamesIn(s)[i])
  <2>1. s.subs[i].type = "ethernet" /\ s.subs[i].raw = None
    BY <1>1, SlaveParts
  <2>2. Slaves(s)[i] = [name |-> s.subs[i].name, type |-> s.subs[i].type,
                        raw |-> s.subs[i].raw, subs |-> <<>>]
    BY DEF Slaves
  <2> QED  BY <1>2, <2>1, <2>2, Zenon DEF Slave
<1>4. Slaves(s) = [i \in DOMAIN s.subs |-> Slaves(s)[i]]
  BY DEF Slaves
<1>5. Slaves(s) = [i \in DOMAIN NamesIn(s) |-> Slave(NamesIn(s)[i])]
  BY <1>2, <1>3, <1>4
<1>6. ASSUME s.subs = <<>> PROVE Slaves(s) = <<>>
  <2>1. DOMAIN s.subs = {}
    BY <1>6
  <2>2. Slaves(s) \in [1..0 -> {}]
    BY <2>1 DEF Slaves
  <2> QED  BY <2>2
<1> QED  BY <1>5, <1>6

\* A port of a bridge is read as it was defined.
LEMMA PortRead ==
    ASSUME NEW f \in File, NEW d \in Docs, Removed(d) \subseteq Names \cup {Empty},
           RootName(d) = d.device, NEW x, NEW s \in ToSet(d.subs), d.type = "bridge",
           StanzasOf(x, s.name) = StanzasOf(Defined(f, d), s.name)
    PROVE  PutPart(x, s.name) = Part(s)
<1> DEFINE n == s.name
           N == Named({n})
           w == StanzasOf(x, n)
<1>1. s \in Sub /\ n \in Removed(d) /\ n # d.device
  BY RemovedNames, Distinct
<1>2. w = Select(GetIface(d), N)
  BY <1>1, StanzasDefined
<1>3. /\ GetIface(d) \in Seq(Stanza) /\ ToSet(GetIface(d)) \subseteq Stanza
      /\ ToSet(GetIface(d)) = ToSet(Own(d)) \cup {PortStanza(t) : t \in Ported(d)}
  BY GetSeq, ToSetConcat
<1>4. w \in Seq(Stanza) /\ ToSet(w) = ToSet(GetIface(d)) \cap N
  BY <1>2, <1>3, SelectSet
<1>5. ASSUME NEW t \in ToSet(w) PROVE s \in Ported(d) /\ t = PortStanza(s)
  <2>1. t \in ToSet(GetIface(d)) /\ t.name = n
    BY <1>4 DEF Named
  <2>2. PICK u \in Ported(d) : t = PortStanza(u) /\ t.name = u.name
    BY <1>1, <2>1, NamedStanzas
  <2>3. u \in ToSet(d.subs) /\ u.name = s.name
    BY <2>1, <2>2 DEF Ported
  <2>4. u = s
    BY <2>3, Distinct
  <2> QED  BY <2>2, <2>4
<1> HIDE DEF w
<1>6. PutPart(x, n) = IF w = <<>> THEN Slave(n)
                      ELSE [name |-> n, type |-> w[1].kind, raw |-> w[1].raw,
                            subs |-> IF w[1].kind # "bond" THEN <<>>
                                     ELSE [i \in DOMAIN w[1].deps |-> Slave(w[1].deps[i])]]
  BY Zenon DEF PutPart, Slave, w
<1>7. s.type # "bond" => Slaves(s) = <<>>
  BY <1>1, SubParts, SlavesRead
<1>8. CASE s \in Ported(d)
  <2>1. PortStanza(s) \in ToSet(w)
    <3>1. PortStanza(s) \in ToSet(GetIface(d)) /\ PortStanza(s).name = n
      BY <1>3, <1>8 DEF PortStanza, StanzaOf
    <3> QED  BY <1>3, <1>4, <3>1 DEF Named
  <2>2. w # <<>> /\ w[1] = PortStanza(s)
    BY <1>4, <1>5, <2>1, ToSetConcat
  <2>3. w[1].kind = s.type /\ w[1].raw = s.raw /\ w[1].deps = NamesIn(s)
    BY <2>2 DEF PortStanza, StanzaOf
  <2>4. Slaves(s) = [i \in DOMAIN NamesIn(s) |-> Slave(NamesIn(s)[i])]
    BY <1>1, SlavesRead
  <2>5. PutPart(x, n) = [name |-> n, type |-> s.type, raw |-> s.raw,
                         subs |-> IF s.type # "bond" THEN <<>> ELSE Slaves(s)]
    BY <1>6, <2>2, <2>3, <2>4, Zenon
  <2>6. (IF s.type # "bond" THEN <<>> ELSE Slaves(s)) = Slaves(s)
    BY <1>7
  <2> QED  BY <2>5, <2>6, Zenon DEF Part
<1>9. CASE s \notin Ported(d)
  <2>1. w = <<>>
    BY <1>4, <1>5, <1>9, ToSetConcat
  <2>2. s.type = "ethernet" /\ s.raw = None
    BY <1>1, <1>9, SubParts, SlaveParts DEF Ported
  <2>3. Slaves(s) = <<>>
    BY <1>7, <2>2
  <2> QED  BY <1>6, <2>1, <2>2, <2>3, Zenon DEF Slave, Part
<1> QED  BY <1>8, <1>9

\* After a define the interface is found by its name unless a stanza that was kept names it
\* as a port or slave: no stanza of the document does.
LEMMA LookupDefined ==
    ASSUME NEW f \in File, NEW d \in Docs, Removed(d) \subseteq Names \cup {Empty},
           RootName(d) = d.device, NEW g, g = Defined(f, d)
    PROVE  lookup_by_name(g, d.device) <=>
             ~\E s \in ToSet(f.iface) : s.name \notin Removed(d) /\ d.device \in ToSet(s.deps)
<1> DEFINE n == d.device
<1>1. /\ ToSet(g.iface) = {s \in ToSet(f.iface) : s.name \notin Removed(d)} \cup ToSet(GetIface(d))
      /\ g.iface \in Seq(Stanza)
  BY DefinedFile DEF File
<1>2. First(d) \in ToSet(g.iface) /\ First(d).name = n
  BY FirstDefined
<1>3. ASSUME NEW t \in ToSet(g.iface)
      PROVE  n \in ToSet(t.deps) => t.kind \in {"bridge", "bond"}
  <2>1. t \in Stanza
    BY <1>1, ToSetConcat
  <2>2. <<>> \in Seq(Names) /\ ToSet(<<>>) = {}
    BY EmptySeq, ToSetConcat
  <2> QED  BY <2>1, <2>2 DEF Stanza
<1>4. n \in all_slaves(g) <=> \E t \in ToSet(g.iface) : n \in ToSet(t.deps)
  BY <1>3 DEF all_slaves, bridge_ports, bond_slaves
<1>5. ASSUME NEW t \in ToSet(GetIface(d)) PROVE n \notin ToSet(t.deps)
  <2>1. CASE t \in ToSet(Own(d))
    <3>1. CASE t = First(d)
      <4>1. t.deps = NamesIn(d)
        BY <3>1, FirstDefined
      <4>2. ToSet(NamesIn(d)) = {s.name : s \in ToSet(d.subs)}
        BY OwnSeq
      <4> QED  BY <4>1, <4>2, Distinct
    <3>2. CASE t.deps = <<>>
      <4>1. <<>> \in Seq(Names) /\ ToSet(<<>>) = {}
        BY EmptySeq, ToSetConcat
      <4> QED  BY <3>2, <4>1
    <3> QED  BY <2>1, <3>1, <3>2, OwnSeq
  <2>2. CASE \E s \in Ported(d) : t = PortStanza(s)
    <3>1. PICK s \in Ported(d) : t = PortStanza(s)
      BY <2>2
    <3>2. s \in ToSet(d.subs) /\ t.deps = NamesIn(s)
      BY <3>1 DEF Ported, PortStanza, StanzaOf
    <3>3. ToSet(NamesIn(s)) = {y.name : y \in ToSet(s.subs)}
      BY <3>2, PortStanzasSeq
    <3> QED  BY <3>2, <3>3, Distinct
  <2> QED  BY <2>1, <2>2, NamedStanzas
<1>6. n \in uniq_device_names(g)
  BY <1>2 DEF uniq_device_names
<1> QED  BY <1>1, <1>4, <1>5, <1>6 DEF lookup_by_name, list_interfaces, is_slave

\* A document is read back from the file that its define makes.
LEMMA ReadDefined ==
    ASSUME NEW f \in File, NEW d \in Docs, Removed(d) \subseteq Names \cup {Empty},
           RootName(d) = d.device, NEW g, g = Defined(f, d), NEW y, y = drv_xml_desc(g, d.device)
    PROVE  /\ y.type = d.type /\ y.raw = d.raw
           /\ y.subs = [i \in DOMAIN d.subs |-> Part(d.subs[i])]
           /\ d.protos # <<"inet6", "inet">> => y.protos = d.protos
           /\ d.start = "onboot" => y.start = "onboot"
           /\ g.auto = <<>> => d.start # "onboot" /\ y.start = "none"
<1> DEFINE n == d.device
           x == aug_get_xml(g, n)
           top == x.iface[1]
<1>1. y = [name |-> n, type |-> top.kind, raw |-> top.raw,
           start |-> IF n \in AutoNames(x) THEN "onboot" ELSE "none",
           protos |-> PutProtos(x.iface),
           subs |-> [i \in DOMAIN top.deps |->
                       IF top.kind = "bridge" THEN PutPart(x, top.deps[i]) ELSE Slave(top.deps[i])]]
  BY Zenon DEF drv_xml_desc, Slave
<1>2. x.auto = IF g.auto = <<>> THEN <<>> ELSE <<<<n>>>>
  BY DEF aug_get_xml
<1>3. PICK R \in Seq(Stanza) :
        /\ x.iface = Own(d) \o R /\ \A t \in ToSet(R) : t.family = "inet"
        /\ d.type = "bridge" =>
             \A s \in ToSet(d.subs) : StanzasOf(x, s.name) = StanzasOf(g, s.name)
  <2> HIDE DEF x
  <2>1. x = aug_get_xml(g, d.device)
    BY DEF x
  <2> QED  BY <2>1, ReadStanzas
<1> HIDE DEF x
<1>4. /\ top = First(d)
      /\ d.protos # <<"inet6", "inet">> => PutProtos(x.iface) = d.protos
  BY <1>3, ReadProtos
<1>5. top.kind = d.type /\ top.raw = d.raw /\ top.deps = NamesIn(d)
  BY <1>4, FirstDefined
<1>6. /\ DOMAIN NamesIn(d) = DOMAIN d.subs /\ \A i \in DOMAIN d.subs : NamesIn(d)[i] = d.subs[i].name
      /\ \A i \in DOMAIN d.subs : d.subs[i] \in ToSet(d.subs)
  BY DEF NamesIn, ToSet
<1>7. ASSUME NEW s \in ToSet(d.subs)
      PROVE  (IF d.type = "bridge" THEN PutPart(x, s.name) ELSE Slave(s.name)) = Part(s)
  <2>1. CASE d.type = "bridge"
    BY <1>3, <2>1, PortRead
  <2>2. CASE d.type # "bridge"
    <3>1. d.type = "bond"
      <4>1. d.subs # <<>> /\ (d.type \notin {"bridge", "bond"} => d.subs = <<>>)
        BY DocParts, ToSetConcat
      <4> QED  BY <2>2, <4>1
    <3>2. s \in Sub /\ s \in BareEthernet
      BY <3>1, Distinct
    <3>3. s.type = "ethernet" /\ s.raw = None /\ Slaves(s) = <<>>
      BY <3>2, SlaveParts, SlavesRead
    <3> QED  BY <2>2, <3>3, Zenon DEF Slave, Part
  <2> QED  BY <2>1, <2>2
<1>8. y.subs = [i \in DOMAIN d.subs |-> Part(d.subs[i])]
  <2>1. y.subs = [i \in DOMAIN NamesIn(d) |->
                    IF d.type = "bridge" THEN PutPart(x, NamesIn(d)[i]) ELSE Slave(NamesIn(d)[i])]
    <3> DEFINE e == [i \in DOMAIN top.deps |->
                       IF top.kind = "bridge" THEN PutPart(x, top.deps[i]) ELSE Slave(top.deps[i])]
    <3>1. e = [i \in DOMAIN NamesIn(d) |->
                 IF d.type = "bridge" THEN PutPart(x, NamesIn(d)[i]) ELSE Slave(NamesIn(d)[i])]
      BY <1>5, Zenon
    <3>2. y = [name |-> n, type |-> top.kind, raw |-> top.raw,
               start |-> IF n \in AutoNames(x) THEN "onboot" ELSE "none",
               protos |-> PutProtos(x.iface), subs |-> e]
      BY <1>1, Zenon
    <3> HIDE DEF e
    <3>3. y.subs = e
      BY <3>2
    <3> QED  BY <3>1, <3>3, Zenon
  <2> HIDE DEF top
  <2>2. \A i \in DOMAIN d.subs :
          (IF d.type = "bridge" THEN PutPart(x, NamesIn(d)[i]) ELSE Slave(NamesIn(d)[i]))
            = Part(d.subs[i])
    BY <1>6, <1>7, Zenon
  <2> QED  BY <1>6, <2>1, <2>2
<1>9. ASSUME d.start = "onboot" PROVE y.start = "onboot"
  <2>1. <<n>> \in ToSet(g.auto) /\ g.auto \in Seq(AutoLine)
    BY <1>9, DefinedFile DEF File
  <2>2. g.auto # <<>>
    BY <2>1, ToSetConcat
  <2>3. x.auto = <<<<n>>>>
    BY <1>2, <2>2
  <2>4. n \in Names /\ ToSet(<<n>>) = {n} /\ ToSet(<<<<n>>>>) = {<<n>>}
    BY DeviceName, OneElement
  <2>5. n \in AutoNames(x)
    BY <2>3, <2>4 DEF AutoNames
  <2> QED  BY <1>1, <2>5
<1>10. y.type = d.type /\ y.raw = d.raw /\ y.protos = PutProtos(x.iface)
  BY <1>1, <1>5
<1>11. ASSUME g.auto = <<>> PROVE d.start # "onboot" /\ y.start = "none"
  <2>1. d.start # "onboot"
    <3> SUFFICES ASSUME d.start = "onboot" PROVE FALSE
      OBVIOUS
    <3>1. <<n>> \in ToSet(g.auto) /\ g.auto \in Seq(AutoLine)
      BY DefinedFile DEF File
    <3> QED  BY <1>11, <3>1, ToSetConcat
  <2>2. x.auto = <<>>
    BY <1>2, <1>11
  <2>3. ToSet(<<>>) = {}
    BY ToSetConcat, EmptySeq
  <2>4. AutoNames(x) = {}
    BY <2>2, <2>3 DEF AutoNames
  <2>5. n \notin AutoNames(x)
    BY <2>4
  <2> QED  BY <1>1, <2>1, <2>5
<1> QED  BY <1>4, <1>8, <1>9, <1>10, <1>11, Zenon

\* ncf_if_xml_desc after a define that succeeds returns the document that was defined, with all
\* parts; with its protocols unless inet6 comes before inet, and with its start mode if that is
\* onboot or the file has no auto stanza.  The two exceptions are where the driver does not read
\* back what it wrote.
THEOREM DefinedReadsBack == Spec => ReadsBack
<1>1. ASSUME DInv, [Next]_vars, Succeeds, doc # None, NEW n, n = device_name_from_xml(doc),
             NEW x, x = drv_xml_desc(disk', n)
      PROVE  /\ x.type = doc.type /\ x.raw = doc.raw
             /\ x.subs = [i \in DOMAIN doc.subs |-> Part(doc.subs[i])]
             /\ doc.protos # <<"inet6", "inet">> => x.protos = doc.protos
             /\ doc.start = "onboot" => x.start = "onboot"
             /\ disk'.auto = <<>> => doc.start # "onboot" /\ x.start = "none"
             /\ lookup_by_name(disk', n) <=>
                  ~\E s \in ToSet(before.file.iface) :
                      s.name \notin ToSet(NamesToRemove(doc)) /\ n \in ToSet(s.deps)
  <2> DEFINE f == before.file
             d == doc
             g == disk'
  <2>1. /\ f \in File /\ d \in Docs /\ Removed(d) \subseteq Names \cup {Empty}
        /\ RootName(d) = d.device /\ g = Defined(f, d)
    BY <1>1, Success
  <2>2. n = d.device
    BY <1>1, <2>1, DeviceName
  <2>3. x = drv_xml_desc(g, d.device)
    BY <1>1, <2>2
  <2> HIDE DEF f, d, g
  <2>4. /\ x.type = d.type /\ x.raw = d.raw
        /\ x.subs = [i \in DOMAIN d.subs |-> Part(d.subs[i])]
        /\ d.protos # <<"inet6", "inet">> => x.protos = d.protos
        /\ d.start = "onboot" => x.start = "onboot"
        /\ g.auto = <<>> => d.start # "onboot" /\ x.start = "none"
    BY ONLY <2>1, <2>3, ReadDefined
  <2>5. lookup_by_name(g, d.device) <=>
          ~\E s \in ToSet(f.iface) : s.name \notin Removed(d) /\ d.device \in ToSet(s.deps)
    BY ONLY <2>1, LookupDefined
  <2> QED  BY <2>2, <2>4, <2>5, Zenon DEF f, d, g, Removed
<1>2. DInv /\ [Next]_vars =>
        [Succeeds /\ doc # None =>
           LET n == device_name_from_xml(doc)
               x == drv_xml_desc(disk', n)
               part(s) == [name |-> s.name, type |-> s.type, raw |-> s.raw,
                           subs |-> [i \in DOMAIN s.subs |->
                             [name |-> s.subs[i].name, type |-> s.subs[i].type,
                              raw |-> s.subs[i].raw, subs |-> <<>>]]]
           IN  /\ x.type = doc.type /\ x.raw = doc.raw
               /\ x.subs = [i \in DOMAIN doc.subs |-> part(doc.subs[i])]
               /\ doc.protos # <<"inet6", "inet">> => x.protos = doc.protos
               /\ doc.start = "onboot" => x.start = "onboot"
               /\ disk'.auto = <<>> => doc.start # "onboot" /\ x.start = "none"
               /\ lookup_by_name(disk', n) <=>
                    ~\E s \in ToSet(before.file.iface) :
                        s.name \notin ToSet(NamesToRemove(doc)) /\ n \in ToSet(s.deps)]_vars
  BY <1>1, Zenon DEF Part, Slaves
<1> QED  BY DSpec, <1>2, PTL DEF Spec, ReadsBack
=============================================================================
