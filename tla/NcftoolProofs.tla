--------------------------- MODULE NcftoolProofs ---------------------------
(***************************************************************************)
(* Theorems about Ncftool, for every set of interfaces and configurations  *)
(* and every value of the bounds.                                          *)
(***************************************************************************)
EXTENDS Ncftool, FiniteSetTheorems, SequenceTheorems, TLAPS

Driving == {"bridge", "port", "own", "active"}

\* What the steps of a command rely on: the command, its handle, and that the history
\* holds the present moment.
Serving ==
    /\ pc \notin {"prompt", "exit"} => cmd \in Commands /\ Now(conf, up) \in seen
    /\ pc \in {"count", "names", "mac"} => cmd.op \in {"list", "macs"}
    /\ pc \in Driving =>
         cmd.op \in {"ifup", "ifdown"} /\ cmd.name \in Names /\ nif = cmd.name
    /\ pc \in {"count", "names", "mac", "lookup", "call"} => ran = <<>>
    /\ IsFiniteSet(seen)

CmdInv == TypeOK /\ Serving

\* n was a port of the interface at a moment of the command.
WasPort(n) == \E s \in seen : s.conf[cmd.name] # None /\ n \in s.conf[cmd.name]

\* The programs that ran so far.
OrderInv ==
    /\ BridgeOrder
    /\ pc \in Driving => \A i \in DOMAIN ran : ran[i][3]
    /\ pc \in {"bridge", "port", "own"} /\ cmd.op = "ifup" =>
         \A i \in DOMAIN ran : ran[i][2] # cmd.name
    /\ pc = "own" /\ cmd.op = "ifdown" => ran = <<>>
    /\ pc \in {"bridge", "port"} /\ cmd.op = "ifdown" => ran # <<>>
    /\ pc = "port" => \A p \in todo : p # cmd.name /\ WasPort(p)

\* The interfaces that they ran for, when nobody changes the configuration.
RunNames == {ran[i][2] : i \in DOMAIN ran}
Still == \A s \in seen : s.conf = conf

PortsInv ==
    pc \in Driving /\ Still =>
        /\ conf[cmd.name] # None
        /\ pc = "bridge" => RunNames = IF cmd.op = "ifup" THEN {} ELSE {cmd.name}
        /\ pc = "port" => RunNames \cup todo =
              conf[cmd.name] \cup (IF cmd.op = "ifup" THEN {} ELSE {cmd.name})
        /\ pc = "own" => RunNames = IF cmd.op = "ifup" THEN conf[cmd.name] ELSE {}
        /\ pc = "active" => RunNames = {cmd.name} \cup conf[cmd.name]

\* The names that list has got.
Quiet == seen = {Now(conf, up)}

ListInv ==
    /\ ArrayLargeEnough
    /\ pc \in {"count", "names"} => out = {}
    /\ pc = "names" /\ Quiet => alloc = Cardinality(Qualified(conf, up, cmd.flags))
    /\ pc = "mac" => \A n \in out : \E s \in seen : n \in Qualified(s.conf, s.up, cmd.flags)
    /\ pc = "mac" /\ Quiet => out = Qualified(conf, up, cmd.flags)

\* The error that is printed and the status that is kept are those of the last command.
ReportInv == PrintsOwnError /\ (ret = 0 <=> status = "OK")

-----------------------------------------------------------------------------
\* What the end of a command leaves.
LEMMA FinishType ==
  ASSUME TypeOK, NEW res \in {"OK", "ERR"}, Finish(res), errcode' \in 0..MaxCommands
  PROVE  /\ pc' = "prompt" /\ nif' = None /\ todo' = {} /\ UNCHANGED <<cmd, number>>
         /\ ret' \in {0, -1} /\ status' \in Statuses /\ printed' \in 0..MaxCommands
<1>1. 0 \in 0..MaxCommands
  BY NcftoolBounds
<1> QED BY <1>1 DEF Finish, Statuses

\* Where a command goes on.
LEMMA GoType ==
  ASSUME TypeOK, NEW w, NEW S \in SUBSET Names, Go(w, S)
  PROVE  /\ pc' = w /\ todo' \subseteq Names /\ UNCHANGED <<cmd, number, nif, ret, printed, status>>
  BY DEF Go

\* A call that fails, or succeeds, keeps the instance's error within the commands.
LEMMA CallType ==
  ASSUME TypeOK, Succeeds \/ Errs
  PROVE  errcode' \in 0..MaxCommands /\ failures' \in 0..MaxFailures
<1>1. failures < MaxFailures => failures + 1 \in 0..MaxFailures
  BY NcftoolBounds DEF TypeOK
<1>2. 0 \in 0..MaxCommands
  BY NcftoolBounds
<1> QED BY <1>1, <1>2 DEF Succeeds, Errs, API_ENTRY, TypeOK

\* The interfaces that list and lookup know are among the names.
LEMMA QualifiedFinite ==
  ASSUME NEW c, NEW u, NEW fl
  PROVE  /\ TopLevel(c) \subseteq Names /\ Qualified(c, u, fl) \subseteq Names
         /\ IsFiniteSet(Qualified(c, u, fl)) /\ Cardinality(Qualified(c, u, fl)) \in Nat
<1>1. TopLevel(c) \subseteq Names
  BY DEF TopLevel
<1>2. Qualified(c, u, fl) \in SUBSET Names
  BY <1>1 DEF Qualified
<1>3. IsFiniteSet(Qualified(c, u, fl))
  BY <1>2, NamesAssumption, FS_Subset
<1> QED BY <1>1, <1>2, <1>3, FS_CardinalityType

\* A program that run1 ran.
LEMMA RunType ==
  ASSUME TypeOK, NEW prog \in {"ifup", "ifdown"}, NEW n \in Names, run1(prog, n)
  PROVE  /\ UNCHANGED <<conf, tree, lost, foreign, alloc, out>>
         /\ up' \subseteq Names
         /\ ran' \in Seq({"ifup", "ifdown"} \X Names \X BOOLEAN)
         /\ errcode' \in 0..MaxCommands /\ failures' \in 0..MaxFailures
         /\ seen' = seen \cup {Now(conf, up')}
<1>1. /\ UNCHANGED <<conf, tree, lost, foreign, alloc, out>>
      /\ seen' = seen \cup {Now(conf, up')}
  BY DEF run1
<1>2. up' \subseteq Names
  BY DEF run1, Effects, TypeOK
<1>3. errcode' \in 0..MaxCommands /\ failures' \in 0..MaxFailures
  BY CallType DEF run1, TypeOK
<1>4. \A b \in BOOLEAN : <<prog, n, b>> \in {"ifup", "ifdown"} \X Names \X BOOLEAN
  OBVIOUS
<1>5. ran' \in Seq({"ifup", "ifdown"} \X Names \X BOOLEAN)
  <2> DEFINE R == {"ifup", "ifdown"} \X Names \X BOOLEAN
  <2>1. ran \in Seq(R) /\ <<prog, n, TRUE>> \in R /\ <<prog, n, FALSE>> \in R
    BY <1>4 DEF TypeOK
  <2> HIDE DEF R
  <2>2. Append(ran, <<prog, n, TRUE>>) \in Seq(R) /\ Append(ran, <<prog, n, FALSE>>) \in Seq(R)
    BY <2>1, AppendProperties
  <2> QED BY <2>2 DEF run1, R
<1> QED BY <1>1, <1>2, <1>3, <1>5

\* One more moment of the command.
LEMMA SeenFinite ==
  ASSUME IsFiniteSet(seen), NEW x, seen' = seen \cup {x}
  PROVE  IsFiniteSet(seen')
  BY FS_AddElement

-----------------------------------------------------------------------------
\* The session starts at the prompt.
LEMMA InitCmd == Init => CmdInv
<1> SUFFICES ASSUME Init PROVE CmdInv
  OBVIOUS
<1>1. 0 \in 0..MaxCommands /\ 0 \in 0..MaxFailures /\ 0 \in 0..MaxForeign /\ 0 \in Nat
  BY NcftoolBounds
<1>2. TypeOK
  BY <1>1 DEF Init, TypeOK, Statuses
<1>3. Serving
  BY FS_EmptySet DEF Init, Serving, Driving
<1> QED BY <1>2, <1>3 DEF CmdInv

\* A line of input.
LEMMA PromptCmd ==
  ASSUME CmdInv,
         \/ \E c \in Commands : Command(c)
         \/ \E r \in {"ERR", "UNKNOWN"} : NoCall(r)
         \/ Leave
  PROVE  CmdInv'
<1>1. TypeOK /\ Serving
  BY DEF CmdInv
<1>2. 0 \in 0..MaxCommands /\ 0 \in Nat /\ (number < MaxCommands => number + 1 \in 0..MaxCommands)
  BY <1>1, NcftoolBounds DEF TypeOK
<1>3. ASSUME NEW c \in Commands, Command(c) PROVE CmdInv'
  <2>1. c \in [op : Ops, name : Names \cup {None}, flags : Flags]
    BY DEF Commands
  <2>2. pc' \in {"count", "lookup", "call"} /\ (pc' = "count" => c.op \in {"list", "macs"})
    BY <1>3 DEF Command, First
  <2>3. <<>> \in Seq({"ifup", "ifdown"} \X Names \X BOOLEAN)
    OBVIOUS
  <2>4. TypeOK'
    BY <1>1, <1>2, <1>3, <2>1, <2>2, <2>3 DEF Command, TypeOK
  <2>5. IsFiniteSet(seen')
    BY <1>3, FS_Singleton DEF Command
  <2>6. Serving'
    BY <1>3, <2>2, <2>5 DEF Command, Serving, Driving, Now
  <2> QED BY <2>4, <2>6 DEF CmdInv
<1>4. ASSUME NEW r \in {"ERR", "UNKNOWN"}, NoCall(r) PROVE CmdInv'
  <2>1. <<>> \in Seq({"ifup", "ifdown"} \X Names \X BOOLEAN)
    OBVIOUS
  <2>2. TypeOK'
    BY <1>1, <1>2, <1>4, <2>1 DEF NoCall, TypeOK, Statuses
  <2>3. Serving'
    BY <1>4, FS_EmptySet DEF NoCall, Serving, Driving
  <2> QED BY <2>2, <2>3 DEF CmdInv
<1>5. CASE Leave
  BY <1>1, <1>5 DEF CmdInv, Leave, TypeOK, Serving, Driving
<1> QED BY <1>3, <1>4, <1>5

\* Another program, or the network, changes something.
LEMMA ForeignCmd ==
  ASSUME CmdInv, Foreign
  PROVE  CmdInv'
<1>1. TypeOK /\ Serving
  BY DEF CmdInv
<1>2. foreign' \in 0..MaxForeign
  BY <1>1, NcftoolBounds DEF Foreign, TypeOK
<1>3. conf' \in Confs /\ up' \subseteq Names
  BY <1>1 DEF Foreign, TypeOK
<1>4. UNCHANGED <<tree, errcode, pc, cmd, number, nif, alloc, out, todo, ran, ret, printed,
                  status, lost, failures>>
  BY DEF Foreign, shell
<1>5. TypeOK'
  BY <1>1, <1>2, <1>3, <1>4 DEF TypeOK
<1>6. IsFiniteSet(seen')
  <2>1. CASE pc = "prompt"
    BY <1>1, <2>1 DEF Foreign, Serving
  <2>2. CASE pc # "prompt"
    BY <1>1, <2>2, SeenFinite DEF Foreign, Serving
  <2> QED BY <2>1, <2>2
<1>7. pc \notin {"prompt", "exit"} => Now(conf, up)' \in seen'
  BY DEF Foreign, Now
<1>8. Serving'
  BY <1>1, <1>4, <1>6, <1>7 DEF Serving
<1> QED BY <1>5, <1>8 DEF CmdInv

\* A call that ends the command, or leads to another one, in the configuration and at
\* the moment that the step found.
LEMMA EndCmd ==
  ASSUME CmdInv, pc \notin {"prompt", "exit"}, NEW res \in {"OK", "ERR"}, Finish(res),
         errcode' \in 0..MaxCommands, failures' \in 0..MaxFailures,
         conf' \in Confs, up' \subseteq Names, tree' \in Confs \cup {None},
         alloc' \in Nat, out' \subseteq Names, lost' \in Nat, UNCHANGED foreign,
         ran' \in Seq({"ifup", "ifdown"} \X Names \X BOOLEAN), IsFiniteSet(seen')
  PROVE  CmdInv'
<1>1. TypeOK /\ Serving
  BY DEF CmdInv
<1>2. /\ pc' = "prompt" /\ nif' = None /\ todo' = {} /\ UNCHANGED <<cmd, number>>
      /\ ret' \in {0, -1} /\ status' \in Statuses /\ printed' \in 0..MaxCommands
  BY <1>1, FinishType
<1>3. TypeOK'
  BY <1>1, <1>2 DEF TypeOK
<1>4. Serving'
  BY <1>2 DEF Serving, Driving
<1> QED BY <1>3, <1>4 DEF CmdInv

\* The calls of list.
LEMMA ListCmd ==
  ASSUME CmdInv, Count \/ List \/ Mac
  PROVE  CmdInv'
<1>1. TypeOK /\ Serving
  BY DEF CmdInv
<1>2. UNCHANGED <<conf, up, ran, lost, foreign, seen>>
  BY DEF Count, List, Mac, Same
<1>3. pc \in {"count", "names", "mac"}
  BY DEF Count, List, Mac
<1>4. cmd \in Commands /\ Now(conf, up) \in seen /\ cmd.op \in {"list", "macs"} /\ ran = <<>>
  BY <1>1, <1>3 DEF Serving
<1>5. /\ errcode' \in 0..MaxCommands /\ failures' \in 0..MaxFailures
      /\ tree' \in Confs \cup {None}
  BY <1>1, CallType DEF Count, List, Mac, TypeOK
<1>6. alloc' \in Nat /\ out' \subseteq Names
  BY <1>1, QualifiedFinite DEF Count, List, Mac, TypeOK, list_interface_ids
<1>7. ASSUME NEW res \in {"OK", "ERR"}, Finish(res) PROVE CmdInv'
  BY <1>1, <1>2, <1>3, <1>5, <1>6, <1>7, EndCmd DEF TypeOK, Serving
<1>8. ASSUME pc' \in {"names", "mac"}, todo' \subseteq Names,
             UNCHANGED <<cmd, number, nif, ret, printed, status>>
      PROVE  CmdInv'
  <2>1. TypeOK'
    BY <1>1, <1>2, <1>5, <1>6, <1>8 DEF TypeOK
  <2>2. Serving'
    BY <1>1, <1>2, <1>4, <1>8 DEF Serving, Driving, Now
  <2> QED BY <2>1, <2>2 DEF CmdInv
<1>9. CASE Count
  BY <1>1, <1>7, <1>8, <1>9 DEF Count, TypeOK
<1>10. CASE List
  BY <1>6, <1>7, <1>8, <1>10 DEF List
<1>11. CASE Mac
  <2>1. CASE todo = {} /\ Finish("OK")
    BY <1>7, <2>1
  <2>2. CASE \E n \in todo : /\ todo' = todo \ {n}
                             /\ UNCHANGED <<pc, cmd, number, nif, alloc, out, ret, printed, status>>
    <3>1. todo' \subseteq Names /\ pc' = "mac"
      BY <1>1, <1>11, <2>2 DEF TypeOK, Mac
    <3> QED BY <1>8, <2>2, <3>1
  <2> QED BY <1>11, <2>1, <2>2 DEF Mac
<1> QED BY <1>9, <1>10, <1>11

\* ncf_lookup_by_name.
LEMMA LookupCmd ==
  ASSUME CmdInv, Lookup
  PROVE  CmdInv'
<1>1. TypeOK /\ Serving
  BY DEF CmdInv
<1>2. UNCHANGED <<conf, up, ran, lost, foreign, seen, alloc, out>>
  BY DEF Lookup, Same
<1>3. pc = "lookup" /\ cmd \in Commands /\ Now(conf, up) \in seen /\ ran = <<>>
  BY <1>1 DEF Lookup, Serving
<1>4. /\ errcode' \in 0..MaxCommands /\ failures' \in 0..MaxFailures
      /\ tree' \in Confs \cup {None}
  BY <1>1, CallType DEF Lookup, TypeOK
<1>5. ASSUME Finish("ERR") PROVE CmdInv'
  BY <1>1, <1>2, <1>3, <1>4, <1>5, EndCmd DEF TypeOK, Serving
<1>6. ASSUME cmd.name \in TopLevel(conf), nif' = cmd.name,
             pc' = IF cmd.op \in {"ifup", "ifdown"}
                   THEN IF cmd.op = "ifup" THEN "bridge" ELSE "own" ELSE "call",
             UNCHANGED <<cmd, number, todo, ret, printed, status>>
      PROVE  CmdInv'
  <2>1. cmd.name \in Names
    BY <1>6, QualifiedFinite
  <2>2. \/ pc' = "call"
        \/ pc' \in {"bridge", "own"} /\ cmd.op \in {"ifup", "ifdown"}
    BY <1>6
  <2>3. TypeOK'
    BY <1>1, <1>2, <1>4, <1>6, <2>1, <2>2 DEF TypeOK
  <2>4. Serving'
    BY <1>1, <1>2, <1>3, <1>6, <2>1, <2>2 DEF Serving, Driving, Now
  <2> QED BY <2>3, <2>4 DEF CmdInv
<1> QED BY <1>5, <1>6 DEF Lookup

\* The other calls.
LEMMA CallCmd ==
  ASSUME CmdInv, Call
  PROVE  CmdInv'
<1>1. TypeOK /\ Serving
  BY DEF CmdInv
<1>2. CASE cmd_help
  <2>1. UNCHANGED <<conf, up, ran, lost, foreign, seen, alloc, out, tree, errcode, failures>>
    BY <1>2 DEF cmd_help, Same
  <2>2. pc = "call" /\ Finish("OK")
    BY <1>2 DEF cmd_help
  <2> QED BY <1>1, <2>1, <2>2, EndCmd DEF TypeOK, Serving
<1>3. CASE LastCall /\ conf' \in Confs
  <2>1. /\ UNCHANGED <<up, lost, foreign, alloc, out, ran>> /\ pc = "call"
        /\ seen' = seen \cup {Now(conf', up)}
    BY <1>3 DEF LastCall
  <2>2. /\ errcode' \in 0..MaxCommands /\ failures' \in 0..MaxFailures
        /\ tree' \in Confs \cup {None}
    BY <1>1, <1>3, CallType DEF LastCall, TypeOK
  <2>3. IsFiniteSet(seen')
    BY <1>1, <2>1, SeenFinite DEF Serving
  <2>4. Finish("OK") \/ Finish("ERR")
    BY <1>3 DEF LastCall
  <2> QED BY <1>1, <1>3, <2>1, <2>2, <2>3, <2>4, EndCmd DEF TypeOK
<1> QED
  BY <1>1, <1>2, <1>3 DEF Call, cmd_dump_xml, cmd_define, cmd_undefine, cmd_change, TypeOK

\* drv_if_up and drv_if_down.
LEMMA DriverCmd ==
  ASSUME CmdInv, IsBridge \/ Port \/ PortsDone \/ Own \/ IsActive
  PROVE  CmdInv'
<1>1. TypeOK /\ Serving
  BY DEF CmdInv
<1>2. pc \in Driving
  BY DEF IsBridge, Port, PortsDone, Own, IsActive, Driving
<1>3. /\ cmd \in Commands /\ Now(conf, up) \in seen
      /\ cmd.op \in {"ifup", "ifdown"} /\ cmd.name \in Names /\ nif = cmd.name
  BY <1>1, <1>2 DEF Serving, Driving
<1>4. /\ UNCHANGED <<conf, alloc, out, foreign>> /\ up' \subseteq Names
      /\ ran' \in Seq({"ifup", "ifdown"} \X Names \X BOOLEAN)
      /\ errcode' \in 0..MaxCommands /\ failures' \in 0..MaxFailures
      /\ IsFiniteSet(seen') /\ Now(conf, up)' \in seen'
      /\ tree' \in Confs \cup {None} /\ lost' \in Nat
  <2>1. CASE Port \/ Own
    <3>1. PICK n \in Names : run1(cmd.op, n)
      BY <1>1, <1>3, <2>1 DEF Port, Own, TypeOK
    <3>2. IsFiniteSet(seen') /\ Now(conf, up)' \in seen'
      BY <1>1, <1>3, <3>1, RunType, SeenFinite DEF Serving, Now
    <3> QED BY <1>1, <1>3, <3>1, <3>2, RunType DEF TypeOK
  <2>2. CASE IsBridge
    <3>1. lost' \in Nat /\ tree' \in Confs \cup {None}
      BY <1>1, <2>2 DEF IsBridge, TypeOK
    <3>2. errcode' \in 0..MaxCommands /\ failures' \in 0..MaxFailures
      BY <1>1, <2>2, CallType DEF IsBridge, TypeOK
    <3> QED BY <1>1, <1>3, <2>2, <3>1, <3>2 DEF IsBridge, TypeOK, Serving, Now
  <2>3. CASE PortsDone
    BY <1>1, <1>3, <2>3 DEF PortsDone, TypeOK, Serving, Now
  <2>4. CASE IsActive
    BY <1>1, <1>3, <2>4 DEF IsActive, TypeOK, Serving, Now
  <2> QED BY <2>1, <2>2, <2>3, <2>4
<1>5. ASSUME NEW res \in {"OK", "ERR"}, Finish(res) PROVE CmdInv'
  BY <1>1, <1>2, <1>4, <1>5, EndCmd DEF TypeOK, Driving
<1>6. ASSUME NEW w \in Driving, NEW S \in SUBSET Names, Go(w, S) PROVE CmdInv'
  <2>1. pc' \in Driving /\ todo' \subseteq Names /\ UNCHANGED <<cmd, number, nif, ret, printed, status>>
    BY <1>1, <1>6, GoType
  <2>2. TypeOK'
    BY <1>1, <1>4, <2>1 DEF TypeOK, Driving
  <2>3. Serving'
    BY <1>1, <1>3, <1>4, <2>1 DEF Serving, Driving
  <2> QED BY <2>2, <2>3 DEF CmdInv
<1>7. CASE IsBridge
  <2>1. conf[nif] # None => conf[nif] \subseteq Names
    BY <1>1, <1>3, ConfsAssumption DEF TypeOK
  <2> QED BY <1>5, <1>6, <1>7, <2>1 DEF IsBridge, Driving
<1>8. CASE Port
  BY <1>1, <1>5, <1>6, <1>8 DEF Port, Driving, TypeOK
<1>9. CASE PortsDone
  BY <1>5, <1>6, <1>9 DEF PortsDone, Driving
<1>10. CASE Own
  BY <1>5, <1>6, <1>10 DEF Own, Driving
<1>11. CASE IsActive
  BY <1>5, <1>11 DEF IsActive
<1> QED BY <1>7, <1>8, <1>9, <1>10, <1>11

\* Every step keeps the types, the command and its handle.
LEMMA NextCmd == CmdInv /\ [Next]_vars => CmdInv'
<1> SUFFICES ASSUME CmdInv, [Next]_vars PROVE CmdInv'
  OBVIOUS
<1>1. CASE UNCHANGED vars
  BY <1>1 DEF CmdInv, TypeOK, Serving, vars, shell, Now
<1> QED BY <1>1, PromptCmd, ForeignCmd, ListCmd, LookupCmd, CallCmd, DriverCmd
        DEF Next, Running

\* The session of ncftool is type correct.
THEOREM TypeCorrect == Spec => []TypeOK
<1>1. CmdInv => TypeOK
  BY DEF CmdInv
<1> QED BY InitCmd, NextCmd, <1>1, PTL DEF Spec

-----------------------------------------------------------------------------
(***************************************************************************)
(* The order of the programs                                               *)
(***************************************************************************)
\* run1 puts the program that it ran at the end.
LEMMA RunAppends ==
  ASSUME TypeOK, NEW prog \in {"ifup", "ifdown"}, NEW n \in Names, run1(prog, n)
  PROVE  /\ Len(ran) \in Nat /\ DOMAIN ran = 1..Len(ran)
         /\ Len(ran') = Len(ran) + 1 /\ DOMAIN ran' = 1..(Len(ran) + 1)
         /\ \A i \in 1..Len(ran) : ran'[i] = ran[i]
         /\ ran'[Len(ran) + 1][2] = n
         /\ ran'[Len(ran) + 1][3] <=> failures' = failures
         /\ ran' # <<>>
<1> DEFINE R == {"ifup", "ifdown"} \X Names \X BOOLEAN
<1>1. ran \in Seq(R) /\ \A b \in BOOLEAN : <<prog, n, b>> \in R
  BY DEF TypeOK
<1> HIDE DEF R
<1>2. Len(ran) \in Nat /\ DOMAIN ran = 1..Len(ran)
  BY <1>1
<1>3. PICK b \in BOOLEAN : ran' = Append(ran, <<prog, n, b>>) /\ (b <=> failures' = failures)
  <2>1. failures + 1 # failures
    BY DEF TypeOK
  <2> QED BY Zenon, <2>1 DEF run1, Errs
<1> DEFINE x == <<prog, n, b>>
<1>4. x \in R /\ x[2] = n /\ x[3] = b
  BY <1>1
<1> HIDE DEF x
<1>5. /\ Append(ran, x) \in Seq(R) /\ Len(Append(ran, x)) = Len(ran) + 1
      /\ \A i \in 1..Len(ran) : Append(ran, x)[i] = ran[i]
      /\ Append(ran, x)[Len(ran) + 1] = x /\ Append(ran, x) # <<>>
  BY <1>1, <1>4, AppendProperties
<1>6. DOMAIN Append(ran, x) = 1..(Len(ran) + 1)
  BY <1>5
<1>7. ran' = Append(ran, x)
  BY <1>3 DEF x
<1>8. /\ Len(ran') = Len(ran) + 1 /\ DOMAIN ran' = 1..(Len(ran) + 1)
      /\ \A i \in 1..Len(ran) : ran'[i] = ran[i]
      /\ ran'[Len(ran) + 1] = x /\ ran' # <<>>
  BY Zenon, <1>5, <1>6, <1>7
<1>9. /\ ran'[Len(ran) + 1][2] = n
      /\ ran'[Len(ran) + 1][3] <=> failures' = failures
  BY Zenon, <1>3, <1>4, <1>8
<1> QED BY <1>2, <1>8, <1>9

\* While no program runs, the order does not change.
LEMMA OrderKept ==
  ASSUME BridgeOrder, UNCHANGED <<ran, cmd>>, seen \subseteq seen'
  PROVE  BridgeOrder' /\ \A n : WasPort(n) => WasPort(n)'
<1>1. \A n : WasPort(n) => WasPort(n)'
  BY DEF WasPort
<1>2. BridgeOrder = \A i \in DOMAIN ran :
                      /\ ran[i][2] = cmd.name => i = IF cmd.op = "ifup" THEN Len(ran) ELSE 1
                      /\ cmd.op = "ifdown" => ran[1][2] = cmd.name
                      /\ ~ran[i][3] => i = Len(ran)
                      /\ ran[i][2] # cmd.name => WasPort(ran[i][2])
  BY DEF BridgeOrder, WasPort
<1>3. BridgeOrder' = \A i \in DOMAIN ran' :
                      /\ ran'[i][2] = cmd'.name => i = IF cmd'.op = "ifup" THEN Len(ran') ELSE 1
                      /\ cmd'.op = "ifdown" => ran'[1][2] = cmd'.name
                      /\ ~ran'[i][3] => i = Len(ran')
                      /\ ran'[i][2] # cmd'.name => WasPort(ran[i][2])'
  BY DEF BridgeOrder, WasPort
<1> QED BY Zenon, <1>1, <1>2, <1>3

\* One more program, for n, after programs that all succeeded.
LEMMA NewOrder ==
  ASSUME NEW L \in Nat, NEW n, UNCHANGED cmd, cmd.op \in {"ifup", "ifdown"},
         Len(ran') = L + 1, DOMAIN ran' = 1..(L + 1), ran'[L + 1][2] = n,
         \A i \in 1..L : ran'[i] = ran[i] /\ ran[i][3],
         \A i \in 1..L : ran[i][2] # cmd.name => WasPort(ran[i][2])',
         \A i \in 1..L : ran[i][2] = cmd.name => i = 1 /\ cmd.op = "ifdown",
         L # 0 /\ cmd.op = "ifdown" => ran[1][2] = cmd.name,
         L = 0 /\ cmd.op = "ifdown" => n = cmd.name,
         n # cmd.name => WasPort(n)',
         n = cmd.name => cmd.op = "ifup" \/ L = 0
  PROVE  BridgeOrder'
<1>1. SUFFICES ASSUME NEW i \in 1..(L + 1)
               PROVE  /\ ran'[i][2] = cmd.name => i = IF cmd.op = "ifup" THEN L + 1 ELSE 1
                      /\ cmd.op = "ifdown" => ran'[1][2] = cmd.name
                      /\ ~ran'[i][3] => i = L + 1
                      /\ ran'[i][2] # cmd.name =>
                           \E s \in seen' : s.conf[cmd.name] # None /\ ran'[i][2] \in s.conf[cmd.name]
  BY DEF BridgeOrder
<1>2. cmd.op = "ifdown" => ran'[1][2] = cmd.name
  <2>1. L # 0 => 1 \in 1..L
    OBVIOUS
  <2>2. L = 0 => L + 1 = 1
    OBVIOUS
  <2> QED BY Zenon, <2>1, <2>2
<1>3. CASE i \in 1..L
  <2>1. ran'[i] = ran[i] /\ ran[i][3]
    BY <1>3
  <2>2. ran[i][2] = cmd.name => i = IF cmd.op = "ifup" THEN L + 1 ELSE 1
    BY <1>3
  <2>3. ran[i][2] # cmd.name =>
           \E s \in seen' : s.conf[cmd.name] # None /\ ran[i][2] \in s.conf[cmd.name]
    BY <1>3, <2>1 DEF WasPort
  <2> QED BY Zenon, <1>2, <2>1, <2>2, <2>3
<1>4. CASE i = L + 1
  <2>1. ran'[i][2] = n
    BY <1>4
  <2>2. n = cmd.name => i = IF cmd.op = "ifup" THEN L + 1 ELSE 1
    BY <1>4
  <2>3. n # cmd.name => \E s \in seen' : s.conf[cmd.name] # None /\ n \in s.conf[cmd.name]
    BY DEF WasPort
  <2> QED BY Zenon, <1>2, <1>4, <2>1, <2>2, <2>3
<1>5. i \in 1..L \/ i = L + 1
  OBVIOUS
<1> QED BY <1>3, <1>4, <1>5

\* The program for a port: the interface's own has not run yet in an ifup, and was the
\* first in an ifdown.
LEMMA PortOrder ==
  ASSUME CmdInv, OrderInv, Port
  PROVE  OrderInv'
<1>1. TypeOK /\ Serving
  BY DEF CmdInv
<1>2. pc = "port" /\ cmd.op \in {"ifup", "ifdown"}
  BY <1>1 DEF Port, Serving, Driving
<1>3. PICK p \in todo : /\ run1(cmd.op, p)
                        /\ \/ failures' = failures /\ Go("port", todo \ {p})
                           \/ failures' # failures /\ Finish("ERR")
  BY DEF Port
<1>4. p \in Names /\ p # cmd.name /\ WasPort(p)
  BY <1>1, <1>2 DEF TypeOK, OrderInv
<1>5. cmd' = cmd /\ seen \subseteq seen'
  BY <1>3 DEF run1, Go, Finish
<1>6. \A n : WasPort(n) => WasPort(n)'
  BY <1>5 DEF WasPort
<1>7. /\ Len(ran) \in Nat /\ DOMAIN ran = 1..Len(ran)
      /\ Len(ran') = Len(ran) + 1 /\ DOMAIN ran' = 1..(Len(ran) + 1)
      /\ \A i \in 1..Len(ran) : ran'[i] = ran[i]
      /\ ran'[Len(ran) + 1][2] = p
      /\ ran'[Len(ran) + 1][3] <=> failures' = failures
      /\ ran' # <<>>
  BY <1>1, <1>2, <1>3, <1>4, RunAppends
<1>8. ASSUME NEW i \in DOMAIN ran
      PROVE  /\ ran[i][3] /\ (ran[i][2] # cmd.name => WasPort(ran[i][2]))
             /\ ran[i][2] = cmd.name => i = 1 /\ cmd.op = "ifdown"
             /\ cmd.op = "ifdown" => ran[1][2] = cmd.name
  BY <1>2, <1>8 DEF OrderInv, BridgeOrder, WasPort, Driving
<1>9. cmd.op = "ifdown" => ran # <<>>
  BY <1>2 DEF OrderInv
<1>10. Len(ran) = 0 => ran = <<>>
  BY <1>1 DEF TypeOK
<1>11. BridgeOrder'
  <2>1. \A i \in 1..Len(ran) : ran'[i] = ran[i] /\ ran[i][3]
    BY Zenon, <1>7, <1>8
  <2>2. \A i \in 1..Len(ran) : ran[i][2] # cmd.name => WasPort(ran[i][2])'
    <3> SUFFICES ASSUME NEW i \in 1..Len(ran), ran[i][2] # cmd.name PROVE WasPort(ran[i][2])'
      OBVIOUS
    <3>1. WasPort(ran[i][2])
      BY Zenon, <1>7, <1>8
    <3>2. ran'[i] = ran[i]
      BY <1>7
    <3> QED BY <1>5, <3>1, <3>2 DEF WasPort
  <2>3. \A i \in 1..Len(ran) : ran[i][2] = cmd.name => i = 1 /\ cmd.op = "ifdown"
    BY Zenon, <1>7, <1>8
  <2>4. Len(ran) # 0 /\ cmd.op = "ifdown" => ran[1][2] = cmd.name
    <3>1. Len(ran) # 0 => 1 \in 1..Len(ran)
      BY <1>7
    <3> QED BY Zenon, <1>7, <1>8, <3>1
  <2>5. ~(Len(ran) = 0 /\ cmd.op = "ifdown")
    BY <1>9, <1>10
  <2>6. WasPort(p)'
    BY <1>4, <1>6
  <2> QED BY <1>2, <1>4, <1>5, <1>7, <2>1, <2>2, <2>3, <2>4, <2>5, <2>6, NewOrder
<1>12. CASE Finish("ERR")
  BY <1>11, <1>12 DEF Finish, OrderInv, Driving
<1>13. CASE failures' = failures /\ Go("port", todo \ {p})
  <2>1. pc' = "port" /\ todo' = todo \ {p}
    BY <1>13 DEF Go
  <2>2. ASSUME NEW i \in DOMAIN ran'
        PROVE  ran'[i][3] /\ (cmd'.op = "ifup" => ran'[i][2] # cmd'.name)
    <3>1. i \in 1..Len(ran) \/ i = Len(ran) + 1
      BY <1>7
    <3>2. CASE i \in 1..Len(ran)
      BY Zenon, <1>5, <1>7, <1>8, <3>2
    <3>3. CASE i = Len(ran) + 1
      BY Zenon, <1>4, <1>5, <1>7, <1>13, <3>3
    <3> QED BY <3>1, <3>2, <3>3
  <2>3. \A q \in todo' : q # cmd'.name /\ WasPort(q)'
    BY <1>2, <1>5, <1>6, <2>1 DEF OrderInv
  <2>4. ran' # <<>>
    BY <1>7
  <2> QED BY Zenon, <1>11, <2>1, <2>2, <2>3, <2>4 DEF OrderInv
<1> QED BY <1>3, <1>12, <1>13

\* The program for the interface itself.
LEMMA OwnOrder ==
  ASSUME CmdInv, OrderInv, Own
  PROVE  OrderInv'
<1>1. TypeOK /\ Serving
  BY DEF CmdInv
<1>2. pc = "own" /\ cmd.op \in {"ifup", "ifdown"} /\ nif = cmd.name /\ nif \in Names
  BY <1>1 DEF Own, Serving, Driving
<1>3. /\ run1(cmd.op, nif)
      /\ \/ failures' = failures /\ Go(IF cmd.op = "ifup" THEN "active" ELSE "bridge", {})
         \/ failures' # failures /\ Finish("ERR")
  BY DEF Own
<1>4. cmd' = cmd /\ seen \subseteq seen'
  BY <1>3 DEF run1, Go, Finish
<1>5. /\ Len(ran) \in Nat /\ DOMAIN ran = 1..Len(ran)
      /\ Len(ran') = Len(ran) + 1 /\ DOMAIN ran' = 1..(Len(ran) + 1)
      /\ \A i \in 1..Len(ran) : ran'[i] = ran[i]
      /\ ran'[Len(ran) + 1][2] = cmd.name
      /\ ran'[Len(ran) + 1][3] <=> failures' = failures
      /\ ran' # <<>>
  BY <1>1, <1>2, <1>3, RunAppends
<1>6. ASSUME NEW i \in DOMAIN ran
      PROVE  /\ ran[i][3] /\ (ran[i][2] # cmd.name => WasPort(ran[i][2]))
             /\ cmd.op = "ifup" => ran[i][2] # cmd.name
  BY <1>2, <1>6 DEF OrderInv, BridgeOrder, WasPort, Driving
<1>7. cmd.op = "ifdown" => Len(ran) = 0
  BY <1>2 DEF OrderInv
<1>8. BridgeOrder'
  <2>1. \A i \in 1..Len(ran) : ran'[i] = ran[i] /\ ran[i][3]
    BY Zenon, <1>5, <1>6
  <2>2. \A i \in 1..Len(ran) : ran[i][2] # cmd.name => WasPort(ran[i][2])'
    <3> SUFFICES ASSUME NEW i \in 1..Len(ran), ran[i][2] # cmd.name PROVE WasPort(ran[i][2])'
      OBVIOUS
    <3>1. WasPort(ran[i][2])
      BY Zenon, <1>5, <1>6
    <3>2. ran'[i] = ran[i]
      BY <1>5
    <3> QED BY <1>4, <3>1, <3>2 DEF WasPort
  <2>3. \A i \in 1..Len(ran) : ran[i][2] = cmd.name => i = 1 /\ cmd.op = "ifdown"
    <3>1. \A i \in 1..Len(ran) : cmd.op = "ifup" /\ ran[i][2] # cmd.name
      BY <1>2, <1>5, <1>6, <1>7
    <3> QED BY <3>1
  <2> QED BY <1>2, <1>4, <1>5, <1>7, <2>1, <2>2, <2>3, NewOrder
<1>9. CASE Finish("ERR")
  BY <1>8, <1>9 DEF Finish, OrderInv, Driving
<1>10. CASE failures' = failures /\ Go(IF cmd.op = "ifup" THEN "active" ELSE "bridge", {})
  <2>1. pc' = IF cmd.op = "ifup" THEN "active" ELSE "bridge"
    BY <1>10 DEF Go
  <2>2. ASSUME NEW i \in DOMAIN ran' PROVE ran'[i][3]
    <3>1. i \in 1..Len(ran) \/ i = Len(ran) + 1
      BY <1>5
    <3>2. CASE i \in 1..Len(ran)
      BY Zenon, <1>5, <1>6, <3>2
    <3>3. CASE i = Len(ran) + 1
      BY Zenon, <1>5, <1>10, <3>3
    <3> QED BY <3>1, <3>2, <3>3
  <2>3. \/ cmd'.op = "ifup" /\ pc' = "active"
        \/ cmd'.op = "ifdown" /\ pc' = "bridge"
    BY <1>2, <1>4, <2>1
  <2>4. "ifup" # "ifdown" /\ "active" \notin {"bridge", "port", "own"} /\ "bridge" \notin {"own", "port"}
    OBVIOUS
  <2> QED BY Zenon, <1>5, <1>8, <2>2, <2>3, <2>4 DEF OrderInv
<1> QED BY <1>3, <1>9, <1>10

\* The other steps run no program.
LEMMA OtherOrder ==
  ASSUME CmdInv, OrderInv,
         Count \/ List \/ Mac \/ Lookup \/ Call \/ IsBridge \/ PortsDone \/ IsActive
  PROVE  OrderInv'
<1>1. TypeOK /\ Serving /\ BridgeOrder
  BY DEF CmdInv, OrderInv
<1>2. UNCHANGED <<ran, cmd>> /\ seen \subseteq seen'
  BY DEF Count, List, Mac, Lookup, Call, cmd_dump_xml, cmd_define, cmd_undefine, cmd_change,
         cmd_help, LastCall, IsBridge, PortsDone, IsActive, Same, Finish, Go
<1>3. BridgeOrder' /\ \A n : WasPort(n) => WasPort(n)'
  BY <1>1, <1>2, OrderKept
<1>4. CASE pc' \notin Driving
  BY <1>3, <1>4 DEF OrderInv, Driving
<1>5. CASE IsBridge /\ pc' # "prompt"
  <2>1. pc = "bridge" /\ pc' = "port" /\ todo' = IF conf[nif] = None THEN {} ELSE conf[nif]
    BY <1>5 DEF IsBridge, Go, Finish
  <2>2. cmd.name \in Names /\ nif = cmd.name /\ Now(conf, up) \in seen /\ conf \in Confs
    BY <1>1, <2>1 DEF Serving, Driving, TypeOK
  <2>3. \A p \in todo' : conf[cmd.name] # None /\ p \in conf[cmd.name] /\ p # cmd.name
    BY <2>1, <2>2, PortsAssumption
  <2>4. \A p \in todo' : WasPort(p)
    <3>1. Now(conf, up).conf = conf
      BY DEF Now
    <3> QED BY Zenon, <2>2, <2>3, <3>1 DEF WasPort
  <2>5. /\ \A i \in DOMAIN ran' : ran'[i][3]
        /\ cmd'.op = "ifup" => \A i \in DOMAIN ran' : ran'[i][2] # cmd'.name
        /\ cmd'.op = "ifdown" => ran' # <<>>
    BY Zenon, <1>2, <2>1 DEF OrderInv, Driving
  <2>6. "port" # "own"
    OBVIOUS
  <2> QED BY Zenon, <1>2, <1>3, <2>1, <2>3, <2>4, <2>5, <2>6 DEF OrderInv
<1>6. CASE PortsDone /\ pc' # "prompt"
  <2>1. pc = "port" /\ pc' = "own" /\ cmd.op = "ifup"
    BY <1>6 DEF PortsDone, Go, Finish
  <2>2. "ifup" # "ifdown" /\ "own" \notin {"bridge", "port"}
    OBVIOUS
  <2> QED BY Zenon, <1>2, <1>3, <2>1, <2>2 DEF OrderInv, Driving
<1>7. CASE Lookup /\ pc' \in Driving
  <2>1. ran = <<>> /\ ran' = <<>>
    BY <1>1, <1>2, <1>7 DEF Lookup, Serving
  <2>2. \/ cmd'.op = "ifup" /\ pc' = "bridge"
        \/ cmd'.op = "ifdown" /\ pc' = "own"
    BY <1>2, <1>7 DEF Lookup, Finish, Driving
  <2>3. DOMAIN <<>> = {} /\ "ifup" # "ifdown" /\ "bridge" \notin {"own", "port"}
        /\ "own" \notin {"port", "bridge"}
    OBVIOUS
  <2> QED BY Zenon, <1>3, <2>1, <2>2, <2>3 DEF OrderInv
<1>8. \/ pc' \notin Driving \/ (IsBridge /\ pc' # "prompt")
      \/ (PortsDone /\ pc' # "prompt") \/ (Lookup /\ pc' \in Driving)
  BY DEF Count, List, Mac, Lookup, Call, cmd_dump_xml, cmd_define, cmd_undefine, cmd_change,
         cmd_help, LastCall, IsActive, Finish, Driving
<1> QED BY <1>4, <1>5, <1>6, <1>7, <1>8

\* Every step keeps the order.
LEMMA NextOrder == CmdInv /\ OrderInv /\ [Next]_vars => OrderInv'
<1> SUFFICES ASSUME CmdInv, OrderInv, [Next]_vars PROVE OrderInv'
  OBVIOUS
<1>1. CASE (\E c \in Commands : Command(c)) \/ (\E r \in {"ERR", "UNKNOWN"} : NoCall(r))
  <2>1. ran' = <<>> /\ pc' \notin Driving
    BY <1>1 DEF Command, NoCall, First, Driving
  <2>2. DOMAIN <<>> = {}
    OBVIOUS
  <2>3. BridgeOrder'
    BY Zenon, <2>1, <2>2 DEF BridgeOrder
  <2> QED BY <2>1, <2>3 DEF OrderInv, Driving
<1>2. CASE Leave \/ Foreign \/ UNCHANGED vars
  <2>1. UNCHANGED <<ran, cmd, todo>> /\ seen \subseteq seen' /\ (pc' = pc \/ pc' = "exit")
    BY <1>2 DEF Leave, Foreign, vars, shell
  <2>2. BridgeOrder' /\ \A n : WasPort(n) => WasPort(n)'
    BY <2>1, OrderKept DEF OrderInv
  <2>3. CASE pc' = pc
    BY Zenon, <2>1, <2>2, <2>3 DEF OrderInv
  <2>4. CASE pc' = "exit"
    BY <2>2, <2>4 DEF OrderInv, Driving
  <2> QED BY <2>1, <2>3, <2>4
<1> QED BY <1>1, <1>2, PortOrder, OwnOrder, OtherOrder DEF Next, Running

\* ifup brings the ports of a bridge up before the bridge, ifdown takes the bridge down
\* before its ports, and a program that fails is the last one, whatever other programs
\* do to the configuration meanwhile.
THEOREM BridgesInOrder == Spec => []BridgeOrder
<1>1. Init => OrderInv
  BY DEF Init, OrderInv, BridgeOrder, Driving
<1>2. OrderInv => BridgeOrder
  BY DEF OrderInv
<1> QED BY InitCmd, NextCmd, <1>1, NextOrder, <1>2, PTL DEF Spec

-----------------------------------------------------------------------------
(***************************************************************************)
(* The programs that ran for an unchanging configuration                   *)
(***************************************************************************)
\* Before and after a step during which the configuration stays what it was throughout
\* the command.
LEMMA StillBefore ==
  ASSUME CmdInv, pc \notin {"prompt", "exit"}, seen \subseteq seen', Still'
  PROVE  Still /\ conf' = conf
<1>1. Now(conf, up) \in seen
  BY DEF CmdInv, Serving
<1>2. Now(conf, up).conf = conf
  BY DEF Now
<1>3. conf' = conf
  BY <1>1, <1>2 DEF Still
<1> QED BY <1>3 DEF Still

\* A program adds its interface.
LEMMA RunAdds ==
  ASSUME TypeOK, NEW prog \in {"ifup", "ifdown"}, NEW n \in Names, run1(prog, n)
  PROVE  RunNames' = RunNames \cup {n}
<1>1. /\ Len(ran) \in Nat /\ DOMAIN ran = 1..Len(ran)
      /\ Len(ran') = Len(ran) + 1 /\ DOMAIN ran' = 1..(Len(ran) + 1)
      /\ \A i \in 1..Len(ran) : ran'[i] = ran[i]
      /\ ran'[Len(ran) + 1][2] = n
  BY RunAppends
<1>2. 1..(Len(ran) + 1) = 1..Len(ran) \cup {Len(ran) + 1}
  BY <1>1
<1>3. DOMAIN ran' = DOMAIN ran \cup {Len(ran) + 1} /\ \A i \in DOMAIN ran : ran'[i][2] = ran[i][2]
  BY Zenon, <1>1, <1>2
<1>4. \A x : (\E i \in DOMAIN ran' : x = ran'[i][2]) <=> (\E i \in DOMAIN ran : x = ran[i][2]) \/ x = n
  BY Zenon, <1>1, <1>3
<1>5. \A x : x \in RunNames' <=> x \in RunNames \/ x = n
  BY Zenon, <1>4 DEF RunNames
<1> QED BY Zenon, <1>5

\* drv_if_up and drv_if_down run the programs that are due.
LEMMA DriverPorts ==
  ASSUME CmdInv, OrderInv, PortsInv, IsBridge \/ Port \/ PortsDone \/ Own \/ IsActive
  PROVE  PortsInv'
<1>1. TypeOK /\ Serving
  BY DEF CmdInv
<1>2. SUFFICES ASSUME pc' \in Driving, Still' PROVE PortsInv'
  BY DEF PortsInv
<1>3. pc \in Driving /\ UNCHANGED <<conf, cmd>> /\ seen \subseteq seen'
  BY DEF IsBridge, Port, PortsDone, Own, IsActive, Driving, run1, Go, Finish
<1>4. /\ cmd.op \in {"ifup", "ifdown"} /\ cmd.name \in Names /\ nif = cmd.name
  BY <1>1, <1>3 DEF Serving
<1>5. Still
  BY <1>2, <1>3, StillBefore DEF Driving
<1>6. /\ conf[cmd.name] # None
      /\ pc = "bridge" => RunNames = IF cmd.op = "ifup" THEN {} ELSE {cmd.name}
      /\ pc = "port" => RunNames \cup todo =
              conf[cmd.name] \cup (IF cmd.op = "ifup" THEN {} ELSE {cmd.name})
      /\ pc = "own" => RunNames = IF cmd.op = "ifup" THEN conf[cmd.name] ELSE {}
  BY <1>3, <1>5 DEF PortsInv
<1>7. CASE IsBridge
  <2>1. pc = "bridge" /\ pc' = "port" /\ todo' = conf[cmd.name] /\ ran' = ran
    BY <1>2, <1>4, <1>6, <1>7 DEF IsBridge, Go, Finish, Driving
  <2>2. RunNames' = RunNames
    BY <2>1 DEF RunNames
  <2> QED BY <1>3, <1>6, <2>1, <2>2 DEF PortsInv
<1>8. CASE Port
  <2>1. PICK p \in todo : run1(cmd.op, p) /\ (Go("port", todo \ {p}) \/ Finish("ERR"))
    BY <1>8 DEF Port
  <2>2. p \in Names /\ pc = "port" /\ pc' = "port" /\ todo' = todo \ {p}
    BY <1>1, <1>2, <1>8, <2>1 DEF Port, Go, Finish, Driving, TypeOK
  <2>3. RunNames' = RunNames \cup {p}
    BY <1>1, <1>4, <2>1, <2>2, RunAdds
  <2>4. RunNames' \cup todo' = RunNames \cup todo
    BY <2>2, <2>3
  <2> QED BY <1>3, <1>6, <2>2, <2>4 DEF PortsInv
<1>9. CASE PortsDone
  <2>1. pc = "port" /\ pc' = "own" /\ cmd.op = "ifup" /\ todo = {} /\ ran' = ran
    BY <1>2, <1>9 DEF PortsDone, Go, Finish, Driving
  <2>2. RunNames' = RunNames
    BY <2>1 DEF RunNames
  <2> QED BY <1>3, <1>6, <2>1, <2>2 DEF PortsInv
<1>10. CASE Own
  <2>1. pc = "own" /\ run1(cmd.op, cmd.name) /\ pc' = IF cmd.op = "ifup" THEN "active" ELSE "bridge"
    BY <1>2, <1>4, <1>10 DEF Own, Go, Finish, Driving
  <2>2. RunNames' = RunNames \cup {cmd.name}
    BY <1>1, <1>4, <2>1, RunAdds
  <2> QED BY <1>3, <1>4, <1>6, <2>1, <2>2 DEF PortsInv
<1>11. CASE IsActive
  BY <1>2, <1>11 DEF IsActive, Finish, Driving
<1> QED BY <1>7, <1>8, <1>9, <1>10, <1>11

\* A lookup that found the interface found its file.
LEMMA LookupPorts ==
  ASSUME CmdInv, PortsInv, Lookup
  PROVE  PortsInv'
<1>1. SUFFICES ASSUME pc' \in Driving PROVE PortsInv'
  BY DEF PortsInv
<1>2. ran' = <<>>
  BY DEF CmdInv, Serving, Lookup, Same
<1>3. /\ cmd.name \in TopLevel(conf) /\ UNCHANGED <<conf, cmd>>
      /\ \/ cmd.op = "ifup" /\ pc' = "bridge"
         \/ cmd.op = "ifdown" /\ pc' = "own"
  BY <1>1 DEF Lookup, Finish, Driving, Same
<1>4. conf[cmd.name] # None
  BY <1>3 DEF TopLevel
<1>5. RunNames' = {}
  <2>1. DOMAIN <<>> = {}
    OBVIOUS
  <2> QED BY Zenon, <1>2, <2>1 DEF RunNames
<1> QED BY <1>3, <1>4, <1>5 DEF PortsInv

\* Every step keeps what is known of the programs.
LEMMA NextPorts == CmdInv /\ OrderInv /\ PortsInv /\ [Next]_vars => PortsInv'
<1> SUFFICES ASSUME CmdInv, OrderInv, PortsInv, [Next]_vars PROVE PortsInv'
  OBVIOUS
<1>1. CASE pc' \notin Driving
  BY <1>1 DEF PortsInv
<1>2. CASE (Foreign \/ UNCHANGED vars) /\ pc' \in Driving
  <2>1. SUFFICES ASSUME Still' PROVE PortsInv'
    BY DEF PortsInv
  <2>2. UNCHANGED <<ran, cmd, todo, pc>> /\ seen \subseteq seen'
    BY <1>2 DEF Foreign, vars, shell
  <2>3. Still /\ conf' = conf
    BY <1>2, <2>1, <2>2, StillBefore DEF Driving
  <2>4. RunNames' = RunNames
    BY <2>2 DEF RunNames
  <2> QED BY <1>2, <2>2, <2>3, <2>4 DEF PortsInv
<1>3. \/ pc' \notin Driving \/ Foreign \/ UNCHANGED vars \/ Lookup
      \/ IsBridge \/ Port \/ PortsDone \/ Own \/ IsActive
  BY DEF Next, Running, Count, List, Mac, Call, cmd_dump_xml, cmd_define, cmd_undefine, cmd_change,
         cmd_help, LastCall, Finish, Driving, Command, First, NoCall, Leave
<1> QED BY <1>1, <1>2, <1>3, LookupPorts, DriverPorts

\* One configuration during the command is the present one.
LEMMA OneConf ==
  ASSUME CmdInv, pc \notin {"prompt", "exit"}, Cardinality({s.conf : s \in seen}) = 1
  PROVE  Still
<1> DEFINE T == {s.conf : s \in seen}
           f == [s \in seen |-> s.conf]
<1>1. IsFiniteSet(seen) /\ Now(conf, up) \in seen
  BY DEF CmdInv, Serving
<1>2. f \in Surjection(seen, T)
  BY DEF Surjection
<1>3. IsFiniteSet(T)
  <2> HIDE DEF f, T
  <2> QED BY <1>1, <1>2, FS_Surjection
<1>4. PICK x : T = {x}
  <2> HIDE DEF T
  <2>1. Cardinality(T) = 1
    BY DEF T
  <2> QED BY <1>3, <2>1, FS_Singleton
<1>5. \A s \in seen : s.conf = x
  BY <1>4
<1>6. Now(conf, up).conf = conf
  BY DEF Now
<1> QED BY <1>1, <1>5, <1>6 DEF Still

\* An ifup or ifdown that succeeds has run the program of the interface and of every
\* port, for every bridge and whatever failed before, if the configuration stayed.
THEOREM AllPortsRun == Spec => PortsRan
<1> DEFINE Good == Ends({"ifup", "ifdown"}) /\ Cardinality({s.conf : s \in seen}) = 1 /\ tree' # None =>
                     {ran'[i][2] : i \in DOMAIN ran'} = {cmd.name} \cup conf[cmd.name]
<1>1. CmdInv /\ PortsInv /\ [Next]_vars => [Good]_vars
  <2> SUFFICES ASSUME CmdInv, PortsInv, Next, Ends({"ifup", "ifdown"}),
                      Cardinality({s.conf : s \in seen}) = 1, tree' # None
               PROVE  {ran'[i][2] : i \in DOMAIN ran'} = {cmd.name} \cup conf[cmd.name]
    OBVIOUS
  <2>1. /\ pc # "prompt" /\ pc' = "prompt" /\ cmd.op \in {"ifup", "ifdown"} /\ status' = "OK"
    BY DEF Ends
  <2>2. pc # "exit"
    BY <2>1 DEF Next, Running, Count, List, Mac, Lookup, Call, cmd_dump_xml, cmd_define, cmd_undefine,
                cmd_change, cmd_help, LastCall, IsBridge, Port, PortsDone, Own, IsActive, Command,
                NoCall, Leave, Foreign
  <2>3. Still
    BY <2>1, <2>2, OneConf
  <2>4. pc \in {"count", "names", "mac"} => cmd.op \in {"list", "macs"}
    BY DEF CmdInv, Serving
  <2>5. IsActive \/ (PortsDone /\ cmd.op = "ifdown")
    BY <2>1, <2>4
       DEF Next, Running, Count, List, Mac, Lookup, Call, cmd_dump_xml, cmd_define, cmd_undefine,
           cmd_change, cmd_help, LastCall, IsBridge, Port, PortsDone, Own, Command, NoCall, Leave,
           Foreign, shell, Finish, Go
  <2>6. RunNames = {cmd.name} \cup conf[cmd.name]
    <3>1. CASE IsActive
      BY <2>3, <3>1 DEF IsActive, PortsInv, Driving
    <3>2. CASE PortsDone /\ cmd.op = "ifdown"
      <4>1. pc = "port" /\ todo = {} /\ cmd.op # "ifup"
        BY <3>2 DEF PortsDone
      <4>2. RunNames \cup todo = conf[cmd.name] \cup {cmd.name}
        BY <2>3, <4>1 DEF PortsInv, Driving
      <4> QED BY <4>1, <4>2
    <3> QED BY <2>5, <3>1, <3>2
  <2>7. ran' = ran
    BY <2>5 DEF IsActive, PortsDone
  <2> QED BY <2>6, <2>7 DEF RunNames
<1>2. Init => OrderInv /\ PortsInv
  BY DEF Init, OrderInv, BridgeOrder, PortsInv, Driving
<1> QED BY InitCmd, NextCmd, <1>2, NextOrder, NextPorts, <1>1, PTL DEF Spec, PortsRan

-----------------------------------------------------------------------------
(***************************************************************************)
(* list                                                                    *)
(***************************************************************************)
\* The array is filled with interfaces that qualify now, with all of them when there is
\* room.
LEMMA ListFills ==
  ASSUME NEW c, NEW u, NEW fl, NEW m \in Nat, NEW S \in list_interface_ids(c, u, fl, m)
  PROVE  /\ S \subseteq Qualified(c, u, fl) /\ Cardinality(S) <= m
         /\ m = Cardinality(Qualified(c, u, fl)) => S = Qualified(c, u, fl)
<1> DEFINE A == Qualified(c, u, fl)
<1>1. IsFiniteSet(A) /\ Cardinality(A) \in Nat
  BY QualifiedFinite
<1>2. S \in SUBSET A /\ Cardinality(S) = IF Cardinality(A) < m THEN Cardinality(A) ELSE m
  BY DEF list_interface_ids
<1> HIDE DEF A
<1>3. Cardinality(A) = Cardinality(S) => A = S
  BY <1>1, <1>2, FS_Subset
<1>4. Cardinality(S) <= m /\ (m = Cardinality(A) => Cardinality(A) = Cardinality(S))
  BY <1>1, <1>2
<1> QED BY <1>2, <1>3, <1>4 DEF A

\* The calls of list keep what is known of the array.
LEMMA ListList ==
  ASSUME CmdInv, ListInv, Count \/ List \/ Mac
  PROVE  ListInv'
<1>1. TypeOK /\ Serving
  BY DEF CmdInv
<1>2. UNCHANGED <<conf, up, seen>>
  BY DEF Count, List, Mac, Same
<1>3. ASSUME ArrayLargeEnough', pc' = "prompt" PROVE ListInv'
  BY <1>3 DEF ListInv
<1>4. CASE Count
  <2>1. CASE Finish("ERR") /\ UNCHANGED <<tree, alloc, out>>
    BY <1>3, <2>1 DEF ListInv, ArrayLargeEnough, Finish
  <2>2. CASE alloc' = Cardinality(Qualified(conf, up, cmd.flags)) /\ pc' = "names" /\ UNCHANGED out
    <3>1. out' = {} /\ Cardinality(Qualified(conf, up, cmd.flags)) \in Nat
      BY <1>4, <2>2, QualifiedFinite DEF ListInv, Count
    <3>2. ArrayLargeEnough'
      <4>1. Cardinality({}) = 0
        BY FS_EmptySet
      <4>2. Cardinality({}) <= Cardinality(Qualified(conf, up, cmd.flags))
        BY <3>1, <4>1
      <4> QED BY <2>2, <3>1, <4>2 DEF ArrayLargeEnough
    <3>3. cmd' = cmd
      BY <1>4, <2>2 DEF Count, Finish
    <3> QED BY <1>2, <2>2, <3>1, <3>2, <3>3 DEF ListInv, Qualified, TopLevel
  <2> QED BY <1>4, <2>1, <2>2 DEF Count
<1>5. CASE List
  <2>1. CASE Finish("ERR") /\ UNCHANGED <<tree, alloc, out>>
    BY <1>3, <2>1 DEF ListInv, ArrayLargeEnough, Finish
  <2>2. CASE out' \in list_interface_ids(conf, up, cmd.flags, alloc) /\ UNCHANGED alloc
    <3>1. /\ out' \subseteq Qualified(conf, up, cmd.flags) /\ Cardinality(out') <= alloc
          /\ alloc = Cardinality(Qualified(conf, up, cmd.flags)) => out' = Qualified(conf, up, cmd.flags)
      BY <1>1, <2>2, ListFills DEF TypeOK
    <3>2. ArrayLargeEnough'
      BY <2>2, <3>1 DEF ArrayLargeEnough
    <3>3. pc' \in {"prompt", "mac"}
      BY <1>5 DEF List, Finish
    <3>. cmd' = cmd
      BY <1>5 DEF List, Finish
    <3>4. \A n \in out' : \E s \in seen' : n \in Qualified(s.conf, s.up, cmd'.flags)
      <4>1. Now(conf, up) \in seen' /\ Now(conf, up).conf = conf /\ Now(conf, up).up = up
        BY <1>1, <1>2, <1>5 DEF List, Serving, Now
      <4> QED BY <3>1, <4>1
    <3>5. Quiet' => out' = Qualified(conf', up', cmd'.flags)
      BY <1>2, <1>5, <3>1 DEF ListInv, Quiet, Now, List
    <3> QED BY <3>2, <3>3, <3>4, <3>5 DEF ListInv, Qualified, TopLevel
  <2> QED BY <1>5, <2>1, <2>2 DEF List
<1>6. CASE Mac
  <2>1. UNCHANGED <<alloc, out, cmd>> /\ pc' \in {"prompt", "mac"} /\ pc = "mac"
    BY <1>6 DEF Mac, Finish
  <2> QED BY <1>2, <2>1 DEF ListInv, ArrayLargeEnough, Quiet, Now, Qualified, TopLevel
<1> QED BY <1>4, <1>5, <1>6

\* Every step keeps it: what becomes active later does not count any more.
LEMMA NextList == CmdInv /\ ListInv /\ [Next]_vars => ListInv'
<1> SUFFICES ASSUME CmdInv, ListInv, [Next]_vars PROVE ListInv'
  OBVIOUS
<1>1. CASE (\E c \in Commands : Command(c)) \/ (\E r \in {"ERR", "UNKNOWN"} : NoCall(r))
  <2>1. out' = {} /\ alloc' = 0 /\ pc' \notin {"names", "mac"}
    BY <1>1 DEF Command, NoCall, First
  <2>2. Cardinality({}) <= 0
    BY FS_EmptySet
  <2> QED BY <2>1, <2>2 DEF ListInv, ArrayLargeEnough
<1>2. CASE Foreign \/ UNCHANGED vars
  <2>1. UNCHANGED <<out, alloc, pc, cmd>> /\ seen \subseteq seen'
    BY <1>2 DEF Foreign, vars, shell
  <2>2. pc \in {"names", "mac"} /\ Quiet' => Quiet /\ conf' = conf /\ up' = up
    <3> SUFFICES ASSUME pc \in {"names", "mac"}, Quiet' PROVE Quiet /\ conf' = conf /\ up' = up
      OBVIOUS
    <3>1. Now(conf, up) \in seen
      BY DEF CmdInv, Serving
    <3>2. Now(conf, up) = Now(conf', up')
      BY <2>1, <3>1 DEF Quiet, Now
    <3>3. conf' = conf /\ up' = up
      BY <3>2 DEF Now
    <3> QED BY <2>1, <3>1, <3>2, <3>3 DEF Quiet, Now
  <2>3. ArrayLargeEnough'
    BY <2>1 DEF ListInv, ArrayLargeEnough
  <2>4. pc' = "mac" => \A n \in out' : \E s \in seen' : n \in Qualified(s.conf, s.up, cmd'.flags)
    BY <2>1 DEF ListInv
  <2>5. /\ pc' = "names" /\ Quiet' => alloc' = Cardinality(Qualified(conf', up', cmd'.flags))
        /\ pc' = "mac" /\ Quiet' => out' = Qualified(conf', up', cmd'.flags)
    BY <2>1, <2>2 DEF ListInv
  <2> QED BY <2>1, <2>3, <2>4, <2>5 DEF ListInv, Qualified, TopLevel
<1>3. CASE UNCHANGED <<out, alloc>> /\ pc' \notin {"count", "names", "mac"}
  BY <1>3 DEF ListInv, ArrayLargeEnough
<1>4. \/ UNCHANGED <<out, alloc>> /\ pc' \notin {"count", "names", "mac"}
      \/ (\E c \in Commands : Command(c)) \/ (\E r \in {"ERR", "UNKNOWN"} : NoCall(r))
      \/ Foreign \/ UNCHANGED vars \/ Count \/ List \/ Mac
  BY DEF Next, Running, Lookup, Call, cmd_dump_xml, cmd_define, cmd_undefine, cmd_change, cmd_help,
         LastCall, IsBridge, Port, PortsDone, Own, IsActive, Leave, Finish, Go, run1
<1> QED BY <1>1, <1>2, <1>3, <1>4, ListList

\* What is known of the array at the start.
LEMMA InitList == Init => ListInv
<1>1. Cardinality({}) <= 0
  BY FS_EmptySet
<1> QED BY <1>1 DEF Init, ListInv, ArrayLargeEnough

\* ncf_list_interfaces never writes beyond the array that was made for the number of
\* interfaces a call earlier.
THEOREM ArraySuffices == Spec => []ArrayLargeEnough
<1>1. ListInv => ArrayLargeEnough
  BY DEF ListInv
<1> QED BY InitCmd, NextCmd, InitList, NextList, <1>1, PTL DEF Spec

\* list prints interfaces that its options asked for at a moment of the command, all of them when
\* nothing changed meanwhile.
THEOREM ListsQualified == Spec => ListTrue
<1> DEFINE Good == Ends({"list", "macs"}) =>
                     /\ \A n \in out' : \E s \in seen : n \in Qualified(s.conf, s.up, cmd.flags)
                     /\ Cardinality(seen) = 1 => out' = Qualified(conf, up, cmd.flags)
<1>1. CmdInv /\ ListInv /\ [Next]_vars => [Good]_vars
  <2> SUFFICES ASSUME CmdInv, ListInv, Next, Ends({"list", "macs"})
               PROVE  /\ \A n \in out' : \E s \in seen : n \in Qualified(s.conf, s.up, cmd.flags)
                      /\ Cardinality(seen) = 1 => out' = Qualified(conf, up, cmd.flags)
    OBVIOUS
  <2>1. /\ pc # "prompt" /\ pc' = "prompt" /\ cmd.op \in {"list", "macs"} /\ status' = "OK"
    BY DEF Ends
  <2>2. pc \in Driving => cmd.op \in {"ifup", "ifdown"}
    BY DEF CmdInv, Serving
  <2>3. List \/ Mac
    BY <2>1, <2>2
       DEF Next, Running, Count, Lookup, Call, cmd_dump_xml, cmd_define, cmd_undefine,
           cmd_change, cmd_help, LastCall, IsBridge, Port, PortsDone, Own, IsActive, Command, NoCall,
           Leave, Foreign, shell, Finish, Go, Driving
  <2>4. IsFiniteSet(seen) /\ Now(conf, up) \in seen
    BY <2>3 DEF List, Mac, CmdInv, Serving
  <2>5. Cardinality(seen) = 1 => Quiet
    <3>1. Cardinality(seen) = 1 => \E x : seen = {x}
      BY <2>4, FS_Singleton
    <3> QED BY <2>4, <3>1 DEF Quiet
  <2>6. CASE Mac
    BY <2>5, <2>6 DEF Mac, ListInv
  <2>7. CASE List
    <3>1. out' \in list_interface_ids(conf, up, cmd.flags, alloc) /\ alloc \in Nat
      BY <2>1, <2>7 DEF List, Finish, CmdInv, TypeOK
    <3>2. /\ out' \subseteq Qualified(conf, up, cmd.flags)
          /\ alloc = Cardinality(Qualified(conf, up, cmd.flags)) => out' = Qualified(conf, up, cmd.flags)
      BY <3>1, ListFills
    <3>3. Now(conf, up).conf = conf /\ Now(conf, up).up = up
      BY DEF Now
    <3>4. \A n \in out' : \E s \in seen : n \in Qualified(s.conf, s.up, cmd.flags)
      BY <2>4, <3>2, <3>3
    <3> QED BY <2>5, <2>7, <3>2, <3>4 DEF List, ListInv
  <2> QED BY <2>3, <2>6, <2>7
<1> QED BY InitCmd, NextCmd, InitList, NextList, <1>1, PTL DEF Spec, ListTrue

-----------------------------------------------------------------------------
(***************************************************************************)
(* What is reported                                                        *)
(***************************************************************************)
\* The end of a command reports its own error.
LEMMA FinishReports ==
  ASSUME NEW res \in {"OK", "ERR"}, Finish(res), errcode' \in {0, number} \/ res = "OK"
  PROVE  ReportInv'
<1>1. -1 # 0
  OBVIOUS
<1> QED BY <1>1 DEF Finish, ReportInv, PrintsOwnError

\* Every step keeps the report true.
LEMMA NextReport == CmdInv /\ ReportInv /\ [Next]_vars => ReportInv'
<1> SUFFICES ASSUME CmdInv, ReportInv, [Next]_vars PROVE ReportInv'
  OBVIOUS
<1>1. CASE \E c \in Commands : Command(c)
  BY <1>1 DEF Command, ReportInv, PrintsOwnError
<1>2. CASE \E r \in {"ERR", "UNKNOWN"} : NoCall(r)
  <2>1. cmd' = None /\ ret' = -1 /\ status' # "OK"
    BY <1>2 DEF NoCall
  <2> QED BY <2>1 DEF ReportInv, PrintsOwnError
<1>3. CASE UNCHANGED <<cmd, number, ret, status, printed>>
  BY <1>3 DEF ReportInv, PrintsOwnError
<1>4. ASSUME NEW res \in {"OK", "ERR"}, Finish(res), errcode' \in {0, number} \/ res = "OK"
      PROVE  ReportInv'
  BY <1>4, FinishReports
<1>5. \/ \E c \in Commands : Command(c)
      \/ \E r \in {"ERR", "UNKNOWN"} : NoCall(r)
      \/ UNCHANGED <<cmd, number, ret, status, printed>>
      \/ \E res \in {"OK", "ERR"} : Finish(res) /\ (errcode' \in {0, number} \/ res = "OK")
  <2>1. CASE Leave \/ Foreign \/ UNCHANGED vars
    BY <2>1 DEF Leave, Foreign, vars, shell
  <2>2. CASE Count \/ List \/ Mac \/ Lookup
    BY <2>2 DEF Count, List, Mac, Lookup, Errs, Succeeds, API_ENTRY
  <2>3. CASE Call
    BY <2>3 DEF Call, cmd_dump_xml, cmd_define, cmd_undefine, cmd_change, cmd_help, LastCall, Errs
  <2>4. CASE IsBridge \/ PortsDone \/ IsActive
    BY <2>4 DEF IsBridge, PortsDone, IsActive, Go, Errs
  <2>5. CASE Port \/ Own
    BY <2>5 DEF Port, Own, run1, Go, Errs
  <2> QED BY <2>1, <2>2, <2>3, <2>4, <2>5 DEF Next, Running
<1> QED BY <1>1, <1>2, <1>3, <1>4, <1>5

\* What is known of the report at the start.
LEMMA InitReport == Init => ReportInv
  BY DEF Init, ReportInv, PrintsOwnError

\* ncftool never prints the error of an earlier command for one that made a call.
THEOREM OwnErrors == Spec => []PrintsOwnError
<1>1. ReportInv => PrintsOwnError
  BY DEF ReportInv
<1> QED BY InitCmd, NextCmd, InitReport, NextReport, <1>1, PTL DEF Spec

\* ncftool exits with the status of the last command.
THEOREM ExitsWithStatus == Spec => []ExitStatus
<1>1. ReportInv => ExitStatus
  BY DEF ReportInv, ExitStatus
<1> QED BY InitCmd, NextCmd, InitReport, NextReport, <1>1, PTL DEF Spec
=============================================================================
