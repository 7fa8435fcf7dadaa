------------------------------ MODULE Ncftool ------------------------------
(***************************************************************************)
(* The shell ncftool (ncftool.c) with the calls of the library that its    *)
(* commands make, and ncf_if_up and ncf_if_down of the Red Hat driver      *)
(* (drv_redhat.c) program by program.                                      *)
(*                                                                         *)
(* A command is a sequence of calls.  The instance keeps the code of the   *)
(* last error, here the number of the command that it came from, and the   *)
(* configuration as the last call loaded it.  Between two calls, and while *)
(* ifup or ifdown runs, other programs change the configuration and        *)
(* interfaces become active or inactive.  What run_program does in detail  *)
(* is in RunProgram.                                                       *)
(***************************************************************************)
EXTENDS Integers, FiniteSets, Sequences

CONSTANTS
    Names,          \* interface names
    None,           \* no interface, no configuration
    Confs,          \* configurations: for each name its bridge ports, None without a file
    MaxCommands,    \* bound: commands of a session
    MaxFailures,    \* bound: calls of the library that fail, programs that fail included
    MaxForeign      \* bound: changes by others

ASSUME NcftoolBounds == MaxCommands \in Nat /\ MaxFailures \in Nat /\ MaxForeign \in Nat
ASSUME NamesAssumption == IsFiniteSet(Names)
ASSUME ConfsAssumption == Confs \subseteq [Names -> (SUBSET Names) \cup {None}]

\* No bridge is its own port.  The driver writes none: no port of a document is a bridge.
ASSUME PortsAssumption == \A c \in Confs, n \in Names : c[n] # None => n \notin c[n]

VARIABLES
    conf,       \* the configuration files
    up,         \* the interfaces that are IFF_UP and IFF_RUNNING
    tree,       \* the configuration in the Augeas tree
    errcode,    \* 0, or the command in which the last call failed
    pc,         \* what comes next
    cmd,        \* the command that is being run, [op, name, flags]
    number,     \* its number
    nif,        \* the handle it holds
    alloc,      \* list: the length of the array of names
    out,        \* list: the names that ncf_list_interfaces returned
    todo,       \* bridge ports, or names to look up, that are left
    ran,        \* the programs that the command ran, <<program, name, it succeeded>>
    lost,       \* programs that nobody waits for
    ret,        \* main_loop's ret
    printed,    \* the command whose error was printed last, 0 for none
    status,     \* the result of the last command
    failures, foreign,  \* counters of what is bounded
    seen        \* history: [conf, up] at every moment of the command

shell == <<pc, cmd, number, nif, alloc, out, todo, ran, ret, printed, status>>
vars == <<conf, up, tree, errcode, shell, lost, failures, foreign, seen>>

Ops == {"list", "macs", "dumpxml", "define", "undefine", "ifup", "ifdown", "change", "help"}
Statuses == {"OK", "ERR", "UNKNOWN", "QUIT"}

\* The flags that cmd_list passes: without an option those that are active, with --inactive
\* the others, with --all, which outweighs --inactive, both.
Flags == {{"active"}, {"inactive"}, {"active", "inactive"}}

TypeOK ==
    /\ conf \in Confs /\ up \subseteq Names /\ tree \in Confs \cup {None}
    /\ errcode \in 0..MaxCommands /\ printed \in 0..MaxCommands /\ number \in 0..MaxCommands
    /\ pc \in {"prompt", "count", "names", "mac", "lookup", "call", "bridge", "port", "own",
               "active", "exit"}
    /\ cmd \in [op : Ops, name : Names \cup {None}, flags : Flags] \cup {None}
    /\ nif \in Names \cup {None} /\ alloc \in Nat /\ out \subseteq Names /\ todo \subseteq Names
    /\ ran \in Seq({"ifup", "ifdown"} \X Names \X BOOLEAN)
    /\ lost \in Nat /\ ret \in {0, -1} /\ status \in Statuses
    /\ failures \in 0..MaxFailures /\ foreign \in 0..MaxForeign

-----------------------------------------------------------------------------
TopLevel(c) == {n \in Names : c[n] # None} \ UNION {c[m] : m \in {k \in Names : c[k] # None}}

\* list_interface_ids: the interfaces that the flags ask for.
Qualified(c, u, fl) ==
    {n \in TopLevel(c) : \/ n \in u /\ "active" \in fl
                         \/ n \notin u /\ "inactive" \in fl}

Now(c, u) == [conf |-> c, up |-> u]

Init ==
    /\ conf \in Confs /\ up \in SUBSET Names /\ tree = None /\ errcode = 0
    /\ pc = "prompt" /\ cmd = None /\ number = 0 /\ nif = None /\ alloc = 0 /\ out = {}
    /\ todo = {} /\ ran = <<>> /\ lost = 0 /\ ret = 0 /\ printed = 0 /\ status = "OK"
    /\ failures = 0 /\ foreign = 0 /\ seen = {}

-----------------------------------------------------------------------------
(***************************************************************************)
(* Calls of the library                                                    *)
(***************************************************************************)
\* Mutant of API_ENTRY: the error of an earlier call stays.
KeepError == errcode

\* API_ENTRY resets the error of the instance.
API_ENTRY == 0

\* A call that succeeds; the configuration is loaded at its first use in each call.
Succeeds == errcode' = API_ENTRY /\ UNCHANGED failures

\* A call that fails with an error.
Errs == failures < MaxFailures /\ failures' = failures + 1 /\ errcode' = number

\* run_command_line: the handler has freed its handle; an error is printed.
Finish(res) ==
    /\ pc' = "prompt" /\ status' = res
    /\ ret' = IF res \in {"OK", "QUIT"} THEN 0 ELSE -1
    /\ printed' = IF res = "ERR" THEN errcode' ELSE 0
    /\ nif' = None /\ todo' = {}
    /\ UNCHANGED <<cmd, number>>

-----------------------------------------------------------------------------
(***************************************************************************)
(* The session                                                             *)
(***************************************************************************)
First(op) ==
    CASE op \in {"list", "macs"} -> "count"
      [] op \in {"dumpxml", "undefine", "ifup", "ifdown"} -> "lookup"
      [] OTHER -> "call"

\* A line that parseline accepts.
Command(c) ==
    /\ pc = "prompt" /\ number < MaxCommands
    /\ cmd' = c /\ number' = number + 1 /\ pc' = First(c.op)
    /\ nif' = None /\ alloc' = 0 /\ out' = {} /\ todo' = {} /\ ran' = <<>> /\ printed' = 0
    /\ seen' = {Now(conf, up)}
    /\ UNCHANGED <<conf, up, tree, errcode, lost, ret, status, failures, foreign>>

\* A line that it does not accept, the empty one included; and the commands that fail
\* without a call: help for an unknown command, define with a file that is not readable.
NoCall(res) ==
    /\ pc = "prompt" /\ number < MaxCommands
    /\ number' = number + 1 /\ cmd' = None
    /\ pc' = "prompt" /\ status' = res /\ ret' = -1
    /\ printed' = IF res = "ERR" THEN errcode ELSE 0
    /\ nif' = None /\ alloc' = 0 /\ out' = {} /\ todo' = {} /\ ran' = <<>> /\ seen' = {}
    /\ UNCHANGED <<conf, up, tree, errcode, lost, failures, foreign>>

\* Mutant of Leave: quit counts as a command that succeeded.
LeaveZero ==
    /\ pc = "prompt" /\ pc' = "exit" /\ ret' = 0
    /\ UNCHANGED <<conf, up, tree, errcode, cmd, number, nif, alloc, out, todo, ran, printed, status,
                   lost, failures, foreign, seen>>

\* quit, or the end of the input: the exit status is that of the command before.
Leave ==
    /\ pc = "prompt" /\ pc' = "exit"
    /\ UNCHANGED <<conf, up, tree, errcode, cmd, number, nif, alloc, out, todo, ran, ret, printed,
                   status, lost, failures, foreign, seen>>

\* What calls leave alone.
Same == UNCHANGED <<conf, up, ran, lost, foreign, seen>>

\* Mutant of Count: the index of the last one instead of the number.
CountLast ==
    /\ pc = "count"
    /\ \/ /\ Succeeds /\ tree' = conf
          /\ alloc' = Cardinality(Qualified(conf, up, cmd.flags)) - 1 /\ pc' = "names"
          /\ UNCHANGED <<cmd, number, nif, out, todo, ret, printed, status>>
       \/ Errs /\ Finish("ERR") /\ UNCHANGED <<tree, alloc, out>>
    /\ Same

\* ncf_num_of_interfaces gives the length of the array.
Count ==
    /\ pc = "count"
    /\ \/ /\ Succeeds /\ tree' = conf
          /\ alloc' = Cardinality(Qualified(conf, up, cmd.flags)) /\ pc' = "names"
          /\ UNCHANGED <<cmd, number, nif, out, todo, ret, printed, status>>
       \/ Errs /\ Finish("ERR") /\ UNCHANGED <<tree, alloc, out>>
    /\ Same

\* Mutant of list_interface_ids: maxnames is not looked at.
ListAll(c, u, fl, maxnames) == {Qualified(c, u, fl)}

\* Mutant of list_interface_ids: the flags are not looked at.
ListInactive(c, u, fl, maxnames) == {S \in SUBSET TopLevel(c) : Cardinality(S) <= maxnames}

\* The names that may be returned: those that qualify now, no more than maxnames.
list_interface_ids(c, u, fl, maxnames) ==
    {S \in SUBSET Qualified(c, u, fl) :
        Cardinality(S) = IF Cardinality(Qualified(c, u, fl)) < maxnames THEN Cardinality(Qualified(c, u, fl))
                                                                 ELSE maxnames}

\* ncf_list_interfaces fills it.
List ==
    /\ pc = "names"
    /\ \/ /\ Succeeds /\ tree' = conf
          /\ out' \in list_interface_ids(conf, up, cmd.flags, alloc) /\ UNCHANGED alloc
          /\ \/ cmd.op = "list" /\ Finish("OK")
             \/ /\ cmd.op = "macs" /\ pc' = "mac" /\ todo' = out'
                /\ UNCHANGED <<cmd, number, nif, ret, printed, status>>
       \/ Errs /\ Finish("ERR") /\ UNCHANGED <<tree, alloc, out>>
    /\ Same

\* Mutant of Mac: after a name that was found the loop does not go on.
MacStays ==
    /\ pc = "mac"
    /\ \/ \E n \in todo :
            /\ \/ Succeeds /\ tree' = conf /\ UNCHANGED todo
               \/ Errs /\ UNCHANGED tree /\ todo' = todo \ {n}
            /\ UNCHANGED <<pc, cmd, number, nif, alloc, out, ret, printed, status>>
       \/ /\ todo = {} /\ Finish("OK")
          /\ UNCHANGED <<tree, errcode, failures, alloc, out>>
    /\ Same

\* list --macs looks every name up again and asks for its address; what fails is
\* reported for the name and forgotten.
Mac ==
    /\ pc = "mac"
    /\ \/ \E n \in todo :
            /\ \/ Succeeds /\ tree' = conf
               \/ Errs /\ UNCHANGED tree
            /\ todo' = todo \ {n}
            /\ UNCHANGED <<pc, cmd, number, nif, alloc, out, ret, printed, status>>
       \/ /\ todo = {} /\ Finish("OK")
          /\ UNCHANGED <<tree, errcode, failures, alloc, out>>
    /\ Same

\* ncf_lookup_by_name: a name without a file, or of a slave, is no error.
Lookup ==
    /\ pc = "lookup"
    /\ \/ /\ Succeeds /\ tree' = conf
          /\ \/ /\ cmd.name \in TopLevel(conf) /\ nif' = cmd.name
                /\ pc' = IF cmd.op \in {"ifup", "ifdown"}
                         THEN IF cmd.op = "ifup" THEN "bridge" ELSE "own" ELSE "call"
                /\ UNCHANGED <<cmd, number, todo, ret, printed, status>>
             \/ cmd.name \notin TopLevel(conf) /\ Finish("ERR")
       \/ Errs /\ Finish("ERR") /\ UNCHANGED tree
    /\ UNCHANGED <<alloc, out>> /\ Same

\* The last call of a command, which the instance's error and its result depend on.
LastCall ==
    /\ pc = "call"
    /\ \/ Succeeds /\ Finish("OK") /\ tree' = conf'
       \/ Errs /\ Finish("ERR") /\ UNCHANGED tree
    /\ seen' = seen \cup {Now(conf', up)}
    /\ UNCHANGED <<up, lost, foreign, alloc, out, ran>>

\* ncf_if_xml_desc or ncf_if_xml_state.
cmd_dump_xml == cmd.op = "dumpxml" /\ UNCHANGED conf /\ LastCall

\* ncf_define and ncf_if_undefine; a save that fails may have got some way.
cmd_define == cmd.op = "define" /\ conf' \in Confs /\ LastCall
cmd_undefine == cmd.op = "undefine" /\ conf' \in Confs /\ LastCall

\* ncf_change_begin, ncf_change_commit and ncf_change_rollback, which changes the files.
cmd_change == /\ cmd.op = "change"
              /\ conf' \in Confs
              /\ LastCall

\* help makes no call.
cmd_help ==
    /\ pc = "call" /\ cmd.op = "help" /\ Finish("OK")
    /\ UNCHANGED <<errcode, failures, tree, alloc, out>> /\ Same

Call == cmd # None /\ (cmd_dump_xml \/ cmd_define \/ cmd_undefine \/ cmd_change \/ cmd_help)

-----------------------------------------------------------------------------
(***************************************************************************)
(* ncf_if_up and ncf_if_down                                               *)
(***************************************************************************)
\* What a program may do to its interface: ifup activates it, if the cable is plugged in,
\* ifdown deactivates it; a program that fails may have got that far.
Effects(prog, n) == IF prog = "ifup" THEN {up, up \cup {n}} ELSE {up, up \ {n}}

\* run1 runs a program and waits for it.  A program that fails is an error.
run1(prog, n) ==
    /\ up' \in Effects(prog, n)
    /\ \/ /\ ran' = Append(ran, <<prog, n, TRUE>>) /\ UNCHANGED <<errcode, failures>>
       \/ /\ Errs /\ ran' = Append(ran, <<prog, n, FALSE>>)
    /\ seen' = seen \cup {Now(conf, up')}
    /\ UNCHANGED <<conf, tree, lost, foreign, alloc, out>>

Go(where, left) ==
    /\ pc' = where /\ todo' = left
    /\ UNCHANGED <<cmd, number, nif, ret, printed, status>>

\* is_bridge and bridge_slaves, of drv_if_up before, of drv_if_down after the program for
\* the interface itself.  When is_bridge cannot load the configuration there is an error
\* and no bridge: drv_if_down returns, and drv_if_up starts ifup, which run_program then
\* does not wait for.  When bridge_slaves fails, for a bridge, no further program is
\* started and the call fails.
IsBridge ==
    /\ pc = "bridge"
    /\ \/ /\ tree' = conf
          /\ Go("port", IF conf[nif] = None THEN {} ELSE conf[nif])
          /\ UNCHANGED <<errcode, failures, lost, ran>>
       \/ /\ Errs /\ tree' = None /\ UNCHANGED ran
          /\ \/ cmd.op = "ifdown" /\ Finish("OK") /\ UNCHANGED lost
             \/ cmd.op = "ifup" /\ Finish("ERR") /\ lost' = lost + 1
       \/ /\ conf[nif] \notin {None, {}} /\ Errs /\ tree' = conf
          /\ Finish("ERR") /\ UNCHANGED <<lost, ran>>
    /\ UNCHANGED <<conf, up, alloc, out, foreign, seen>>

\* Mutant of Port: an error of a program does not end the loop.
PortGoesOn ==
    /\ pc = "port" /\ todo # {}
    /\ \E p \in todo : run1(cmd.op, p) /\ Go("port", todo \ {p})

\* Mutant of Port: the loop is left after the first port.
PortFirst ==
    /\ pc = "port" /\ todo # {}
    /\ \E p \in todo :
         /\ run1(cmd.op, p)
         /\ \/ failures' = failures /\ Go("port", {})
            \/ failures' # failures /\ Finish("ERR")

\* The program for one port; an error ends the call.
Port ==
    /\ pc = "port" /\ todo # {}
    /\ \E p \in todo :
         /\ run1(cmd.op, p)
         /\ \/ failures' = failures /\ Go("port", todo \ {p})
            \/ failures' # failures /\ Finish("ERR")

\* After the ports drv_if_up goes on with the interface itself; drv_if_down is done.
PortsDone ==
    /\ pc = "port" /\ todo = {}
    /\ \/ cmd.op = "ifup" /\ Go("own", {})
       \/ cmd.op = "ifdown" /\ Finish("OK")
    /\ UNCHANGED <<conf, up, tree, errcode, alloc, out, ran, lost, failures, foreign, seen>>

\* The program for the interface itself.
Own ==
    /\ pc = "own"
    /\ run1(cmd.op, nif)
    /\ \/ failures' = failures /\ Go(IF cmd.op = "ifup" THEN "active" ELSE "bridge", {})
       \/ failures' # failures /\ Finish("ERR")

\* if_is_active: drv_if_up fails when the interface is not active in the end.
IsActive ==
    /\ pc = "active"
    /\ \/ nif \in up /\ Finish("OK") /\ UNCHANGED errcode
       \/ nif \notin up /\ errcode' = number /\ Finish("ERR")
    /\ UNCHANGED <<conf, up, tree, alloc, out, ran, lost, failures, foreign, seen>>

-----------------------------------------------------------------------------
\* Other programs and the network: a configuration, a link, or an ifup that was not
\* waited for.
Foreign ==
    /\ foreign < MaxForeign /\ foreign' = foreign + 1 /\ pc # "exit"
    /\ \/ conf' \in Confs \ {conf} /\ UNCHANGED up
       \/ (\E n \in Names : up' \in {up \cup {n}, up \ {n}} \ {up}) /\ UNCHANGED conf
    /\ seen' = IF pc = "prompt" THEN seen ELSE seen \cup {Now(conf', up')}
    /\ UNCHANGED <<tree, errcode, shell, lost, failures>>

Commands == {c \in [op : Ops, name : Names \cup {None}, flags : Flags] :
               /\ c.name # None <=> c.op \in {"dumpxml", "undefine", "ifup", "ifdown"}
               /\ c.op \notin {"list", "macs"} => c.flags = {"active"}}

\* The steps of a command that has begun.
Running == Count \/ List \/ Mac \/ Lookup \/ Call \/ IsBridge \/ Port \/ PortsDone \/ Own \/ IsActive

Next ==
    \/ (\E c \in Commands : Command(c)) \/ (\E r \in {"ERR", "UNKNOWN"} : NoCall(r)) \/ Leave
    \/ Running \/ Foreign

\* A command goes on by itself, and the programs that it waits for end.
Spec == Init /\ [][Next]_vars /\ WF_vars(Running)

-----------------------------------------------------------------------------
(***************************************************************************)
(* Properties                                                              *)
(***************************************************************************)
\* A command that succeeds ends in this step.
Ends(ops) == pc # "prompt" /\ pc' = "prompt" /\ cmd.op \in ops /\ status' = "OK"

\* ncf_list_interfaces writes into the array that cmd_list made for the number of
\* interfaces a call earlier, never beyond it, however many have become active since.
ArrayLargeEnough == Cardinality(out) <= alloc

\* What list prints: every name was, at some moment of the command, an interface that its
\* options ask for; and all that they ask for are there if nothing changed meanwhile.
ListTrue ==
    [][Ends({"list", "macs"}) =>
         /\ \A n \in out' : \E s \in seen : n \in Qualified(s.conf, s.up, cmd.flags)
         /\ Cardinality(seen) = 1 => out' = Qualified(conf, up, cmd.flags)]_vars

\* "Bring up bridge slaves before the bridge" (drv_if_up), and the bridge goes down before
\* its slaves: the interface's own program is the last of an ifup and the first of an
\* ifdown; only the last program of a command can have failed; and a port whose program
\* ran was, at some moment of the command, a port of the interface.
BridgeOrder ==
    \A i \in DOMAIN ran :
        /\ ran[i][2] = cmd.name => i = IF cmd.op = "ifup" THEN Len(ran) ELSE 1
        /\ cmd.op = "ifdown" => ran[1][2] = cmd.name
        /\ ~ran[i][3] => i = Len(ran)
        /\ ran[i][2] # cmd.name =>
             \E s \in seen : s.conf[cmd.name] # None /\ ran[i][2] \in s.conf[cmd.name]

\* An ifup or ifdown that succeeds ran the program for the interface and for each of its
\* ports, if nobody changed the configuration meanwhile, and unless drv_if_down could not
\* load it, which it does not report.
PortsRan ==
    [][Ends({"ifup", "ifdown"}) /\ Cardinality({s.conf : s \in seen}) = 1 /\ tree' # None =>
         {ran'[i][2] : i \in DOMAIN ran'} = {cmd.name} \cup conf[cmd.name]]_vars

\* An error that is printed after a command came from a call of that command, unless the
\* command made no call; ncf_error reports "when a previous call failed".
PrintsOwnError == printed # 0 /\ cmd # None => printed = number

\* The exit status tells whether the last command, quit apart, succeeded.
ExitStatus == pc = "exit" => (ret = 0 <=> status = "OK")

\* Every command comes back to the prompt.
CommandReturns == pc \notin {"prompt", "exit"} ~> pc = "prompt"
=============================================================================
