----------------------------- MODULE DrvDebian -----------------------------
(***************************************************************************)
(* drv_define, drv_undefine and the lookups of the Debian driver           *)
(* (drv_debian.c), with the Augeas tree that it keeps between calls.       *)
(*                                                                         *)
(* All interfaces are in one file.  A call loads it with the files of      *)
(* /etc/modprobe.d, changes the tree interface by interface and saves the  *)
(* two; each save replaces its file whole.  A call can fail at every step, *)
(* and another program can change the file at any time.                    *)
(***************************************************************************)
EXTENDS Interfaces

CONSTANTS
    Docs,           \* interface documents that ncf_define is called with
    Files,          \* contents of /etc/network/interfaces that the driver may find
    MaxCalls,       \* bound: calls that define or undefine
    MaxFailures,    \* bound: steps of a call that fail
    MaxForeign      \* bound: changes of the file by other programs

ASSUME DebianBounds == MaxCalls \in Nat /\ MaxFailures \in Nat /\ MaxForeign \in Nat

\* The lens has no interface without a name.
Writable(f) == Empty \notin uniq_device_names(f) \cup AutoNames(f)

ASSUME FilesAssumption == \A f \in Files : f \in File /\ Writable(f)

\* A document as the schema has it: the ports of a bridge are bare Ethernet interfaces,
\* VLANs and bonds, the slaves of a bond bare Ethernet interfaces, only a VLAN may have no
\* name.  Beyond the schema, no device comes twice and a VLAN that has a name is named
\* after its device and tag.
Bare(type, names, raws, subs) ==
    [type : {type}, name : names, device : Names, start : {None}, protos : {<<>>},
     raw : raws, subs : subs]
BareEthernet == Bare("ethernet", Names, {None}, {<<>>})
BareBond == Bare("bond", Names, {None}, Seq(BareEthernet))
BareVlan == Bare("vlan", Names \cup {None}, Names, {<<>>})
Schema ==
    [type : Kinds, name : Names \cup {None}, device : Names, start : {"onboot", "hotplug", "none"},
     protos : {<<>>, <<"inet">>, <<"inet6">>, <<"inet", "inet6">>, <<"inet6", "inet">>},
     raw : Names \cup {None}, subs : Seq(BareEthernet \cup BareBond \cup BareVlan)]

InterfacesOf(d) == {d} \cup ToSet(d.subs) \cup UNION {ToSet(s.subs) : s \in ToSet(d.subs)}

Document(d) ==
    /\ d \in Schema
    /\ d.type = "bond" => d.subs \in Seq(BareEthernet)
    /\ d.type \notin {"bridge", "bond"} => d.subs = <<>>
    /\ \A i \in InterfacesOf(d) : i.name = i.device \/ (i.name = None /\ i.type = "vlan")
    /\ \A i, j \in InterfacesOf(d) : i.device = j.device => i = j

ASSUME DocsAssumption == None \notin Docs /\ \A d \in Docs : Document(d)

VARIABLES
    disk,       \* /etc/network/interfaces
    aliases,    \* the names with an alias for the module bonding in /etc/modprobe.d
    aug,        \* driver->augeas is not NULL
    tree,       \* the interfaces in the tree
    talias,     \* the aliases in the tree
    pc,         \* where the call is, "idle" between calls
    doc,        \* drv_define's document
    nif,        \* name of the handle that the caller holds
    todo,       \* names that rm_all_interfaces has not come to
    left,       \* the files that aug_save has not written
    saved,      \* FALSE when one could not be written
    calls, failures, foreign,   \* counters of what is bounded
    before,     \* history: the file and the aliases when the call loaded them
    met         \* history: another program changed the file during the call

vars == <<disk, aliases, aug, tree, talias, pc, doc, nif, todo, left, saved, calls,
          failures, foreign, before, met>>

driver == <<aug, tree, talias>>

NoFile == [auto |-> <<>>, iface |-> <<>>]

TypeOK ==
    /\ disk \in File /\ tree \in File /\ aliases \subseteq Names /\ talias \subseteq Names
    /\ aug \in BOOLEAN /\ saved \in BOOLEAN /\ met \in BOOLEAN
    /\ pc \in {"idle", "rm", "put", "bond", "unbond", "rmone", "save"}
    /\ doc \in Docs \cup {None} /\ nif \in Names \cup {None}
    /\ todo \in Seq(Names \cup {None, Empty}) /\ left \subseteq {"interfaces", "modprobe"}
    /\ calls \in 0..MaxCalls /\ failures \in 0..MaxFailures /\ foreign \in 0..MaxForeign

Init ==
    /\ disk \in Files
    /\ aliases = {n \in Names : is_bond(disk, n)}
    /\ aug = FALSE /\ tree = NoFile /\ talias = {}
    /\ pc = "idle" /\ doc = None /\ nif = None /\ todo = <<>> /\ left = {} /\ saved = TRUE
    /\ calls = 0 /\ failures = 0 /\ foreign = 0
    /\ before = [file |-> NoFile, aliases |-> {}] /\ met = FALSE

-----------------------------------------------------------------------------
Fails == failures < MaxFailures /\ failures' = failures + 1

\* Mutant of drv_entry: the tree is not loaded again.
DrvEntryForgets == FALSE

\* The flag load_augeas with which a call comes to get_augeas.
drv_entry == TRUE

\* The tree is loaded when Augeas is opened and at the first use in each call.
GetAugeas ==
    /\ aug' = TRUE
    /\ IF ~aug \/ drv_entry THEN tree' = disk /\ talias' = aliases
                            ELSE UNCHANGED <<tree, talias>>

\* Opening or loading fails, the file does not parse for instance: Augeas is closed.
NoAugeas ==
    /\ pc = "idle" /\ Fails
    /\ aug' = FALSE /\ tree' = NoFile /\ talias' = {}
    /\ UNCHANGED <<disk, aliases, pc, doc, nif, todo, left, saved, calls, foreign, before, met>>

LookupByName(n) ==
    /\ pc = "idle" /\ GetAugeas
    /\ nif' = IF lookup_by_name(tree', n) THEN n ELSE None
    /\ UNCHANGED <<disk, aliases, pc, doc, todo, left, saved, calls, failures, foreign, before, met>>

\* The caller asks for one interface at most.
LookupByMac(m) ==
    /\ pc = "idle" /\ GetAugeas
    /\ LET found == lookup_by_mac_string(tree', m)
       IN  IF found = {} THEN nif' = None ELSE nif' \in found
    /\ UNCHANGED <<disk, aliases, pc, doc, todo, left, saved, calls, failures, foreign, before, met>>

Begin(step) ==
    /\ pc = "idle" /\ calls < MaxCalls /\ GetAugeas
    /\ pc' = step /\ calls' = calls + 1
    /\ before' = [file |-> disk, aliases |-> aliases] /\ met' = FALSE
    /\ UNCHANGED <<disk, aliases, nif, left, saved, failures, foreign>>

Return == pc' = "idle" /\ doc' = None /\ todo' = <<>> /\ left' = {} /\ saved' = TRUE

\* A call that fails before the save leaves the tree as it is.  A port without @name is
\* taken for a failed allocation.
Fail ==
    /\ pc \in {"rm", "put", "bond", "unbond", "rmone"}
    /\ \/ Fails
       \/ pc = "rm" /\ todo # <<>> /\ todo[1] = None /\ UNCHANGED failures
    /\ Return
    /\ UNCHANGED <<disk, aliases, driver, nif, calls, foreign, before, met>>

\* A document that does not parse or is not valid is a Fail before the first removal.
Define(d) == Begin("rm") /\ doc' = d /\ todo' = NamesToRemove(d)

\* Mutant of rm_all_interfaces: the interfaces of the document below the root stay.
RmRootOnly ==
    /\ pc = "rm" /\ todo # <<>> /\ todo[1] # None
    /\ tree' = rm_interface(tree, todo[1]) /\ todo' = <<>>
    /\ UNCHANGED <<disk, aliases, aug, talias, pc, doc, nif, left, saved, calls, failures, foreign,
                   before, met>>

rm_all_interfaces ==
    /\ pc = "rm" /\ todo # <<>> /\ todo[1] # None
    /\ tree' = rm_interface(tree, todo[1]) /\ todo' = Tail(todo)
    /\ UNCHANGED <<disk, aliases, aug, talias, pc, doc, nif, left, saved, calls, failures, foreign,
                   before, met>>

\* The stylesheet is applied, then the result is put into the tree.
PutXml ==
    /\ \/ pc = "rm" /\ todo = <<>> /\ pc' = "put" /\ UNCHANGED tree
       \/ pc = "put" /\ pc' = "bond" /\ tree' = aug_put_xml(tree, doc)
    /\ UNCHANGED <<disk, aliases, aug, talias, doc, nif, todo, left, saved, calls, failures, foreign,
                   before, met>>

\* aug_save writes what was changed.
StartSave ==
    /\ pc' = "save" /\ saved' = TRUE
    /\ left' = (IF tree' # before.file THEN {"interfaces"} ELSE {})
                 \cup (IF talias' # before.aliases THEN {"modprobe"} ELSE {})
    /\ UNCHANGED <<disk, aliases, aug, doc, nif, todo, calls, failures, foreign, before, met>>

AliasBonds ==
    /\ pc = "bond"
    /\ talias' = talias \cup bond_setup(tree, device_name_from_xml(doc))
    /\ UNCHANGED tree
    /\ StartSave

Undefine == nif # None /\ Begin("unbond") /\ UNCHANGED <<doc, todo>>

UnaliasBonds ==
    /\ pc = "unbond" /\ pc' = "rmone"
    /\ talias' = talias \ bond_setup(tree, nif)
    /\ UNCHANGED <<disk, aliases, aug, tree, doc, nif, todo, left, saved, calls, failures, foreign,
                   before, met>>

RemoveInterface ==
    /\ pc = "rmone"
    /\ tree' = rm_interface(tree, nif)
    /\ UNCHANGED talias
    /\ StartSave

\* One of the two is written, or it cannot be and aug_save goes on with the other.
SaveFile(f) ==
    /\ pc = "save" /\ f \in left
    /\ left' = left \ {f}
    /\ \/ /\ f = "interfaces" /\ Writable(tree) /\ disk' = tree
          /\ UNCHANGED <<aliases, saved, failures>>
       \/ /\ f = "modprobe" /\ aliases' = talias
          /\ UNCHANGED <<disk, saved, failures>>
       \/ /\ Fails \/ (f = "interfaces" /\ ~Writable(tree) /\ UNCHANGED failures)
          /\ saved' = FALSE
          /\ UNCHANGED <<disk, aliases>>
    /\ UNCHANGED <<driver, pc, doc, nif, todo, calls, foreign, before, met>>

\* Mutant of SaveDone: the result of aug_save is not looked at.
SaveDoneUnchecked ==
    /\ pc = "save" /\ left = {}
    /\ nif' = IF doc # None THEN RootName(doc) ELSE nif
    /\ Return
    /\ UNCHANGED <<disk, aliases, driver, calls, failures, foreign, before, met>>

\* A define that could save everything returns a handle, unless it cannot make one.
SaveDone ==
    /\ pc = "save" /\ left = {}
    /\ \/ /\ nif' = IF saved /\ doc # None THEN device_name_from_xml(doc) ELSE nif
          /\ UNCHANGED failures
       \/ saved /\ doc # None /\ Fails /\ UNCHANGED nif
    /\ Return
    /\ UNCHANGED <<disk, aliases, driver, calls, foreign, before, met>>

ForeignChange ==
    /\ foreign < MaxForeign /\ foreign' = foreign + 1
    /\ disk' \in Files \ {disk}
    /\ aliases' = aliases \cup {n \in Names : is_bond(disk', n)}
    /\ met' = (pc # "idle")
    /\ UNCHANGED <<driver, pc, doc, nif, todo, left, saved, calls, failures, before>>

Call ==
    \/ \E n \in Names : LookupByName(n) \/ LookupByMac(MacOf[n])
    \/ (\E d \in Docs : Define(d)) \/ Undefine \/ NoAugeas

Step ==
    \/ rm_all_interfaces \/ PutXml \/ AliasBonds \/ UnaliasBonds \/ RemoveInterface
    \/ (\E f \in left : SaveFile(f)) \/ SaveDone \/ Fail

Next == Call \/ Step \/ ForeignChange

Spec == Init /\ [][Next]_vars

-----------------------------------------------------------------------------
(***************************************************************************)
(* Properties                                                              *)
(***************************************************************************)
\* A call that succeeds, and during which nobody else wrote the file, ends in this step.
Succeeds == pc = "save" /\ pc' = "idle" /\ failures' = failures /\ saved /\ ~met

\* The interfaces of the document that have a stanza of their own.
DefinedNames == {s.name : s \in ToSet(GetIface(doc))}

\* rm_all_interfaces and aug_put_xml together replace an interface: a define that
\* succeeds leaves, for each interface of the document, the stanzas of the document and
\* no others, whatever was there or an earlier call left in the tree; all other stanzas
\* are there as before, in their order; and every bond of the document has its alias.
DefineEffect ==
    [][Succeeds /\ doc # None =>
         LET all == ToSet(NamesToRemove(doc))
         IN  /\ \A n \in Names :
                  StanzasOf(disk', n) =
                    IF n \in all THEN Select(GetIface(doc), Named({n}))
                                 ELSE StanzasOf(before.file, n)
             /\ {n \in DefinedNames : is_bond(disk', n)} \subseteq aliases']_vars

\* An undefine that succeeds removes the stanzas of the interface and no others: those of
\* its ports and slaves stay.  No bond that it was, or that was its port, keeps its alias.
UndefineEffect ==
    [][Succeeds /\ doc = None =>
         /\ \A n \in Names :
              StanzasOf(disk', n) = IF n = nif THEN <<>> ELSE StanzasOf(before.file, n)
         /\ \A n \in {nif} \cup bridge_ports(before.file, nif) :
              is_bond(before.file, n) => n \notin aliases']_vars

\* What starts at boot: after a define the interface does exactly when the document says
\* onboot, and after an undefine it does not, unless it stands behind another name in an
\* auto stanza, which rm_interface does not see; any other interface does as before,
\* unless it stood behind a name of the document, where rm_interface takes it along.
StartsAtBoot ==
    [][Succeeds =>
         LET own  == IF doc = None THEN {nif} ELSE ToSet(NamesToRemove(doc))
             b    == before.file
             behind(N) == UNION {ToSet(Tail(a)) : a \in {x \in ToSet(b.auto) : x[1] \in N}}
         IN  \A n \in Names :
               IF n \notin own
               THEN n \notin behind(own) => (n \in AutoNames(disk') <=> n \in AutoNames(b))
               ELSE n \notin behind(Names \ own) =>
                      (n \in AutoNames(disk') <=>
                         doc # None /\ n = doc.device /\ doc.start = "onboot")]_vars

\* The interface that ncf_if_xml_desc returns after a define is the one that was
\* defined, with its ports and slaves in their order, down to the slaves of a bond that
\* is a port.  Its families are the document's if inet6 does not come before inet, and
\* its start mode is the document's if it is onboot or the file has no auto stanza: in
\* the two cases left out the driver does not read back what it has written, against
\* doc/debian.txt ("It should be able to read back any configuration that it has written
\* out").  ncf_lookup_by_name finds it unless another interface names it as its part.
ReadsBack ==
    [][Succeeds /\ doc # None =>
         LET n == device_name_from_xml(doc)
             x == drv_xml_desc(disk', n)
             part(s) == [name |-> s.name, type |-> s.type, raw |-> s.raw,
                         subs |-> [i \in DOMAIN s.subs |->
                           [name |-> s.subs[i].name, type |-> s.subs[i].type,
                            raw |-> s.subs[i].raw, subs |-> <<>>]]]
         IN  /\ x.type = doc.type /\ x.raw = doc.raw
             /\ x.subs = [i \in DOMAIN doc.subs |-> part(doc.subs[i])]
             /\ doc.protos # <<"inet6", "inet">> => x.protos = doc.protos
             /\ doc.start = "onboot" => x.start = "onboot"
             /\ disk'.auto = <<>> => doc.start # "onboot" /\ x.start = "none"
             /\ lookup_by_name(disk', n) <=>
                  ~\E s \in ToSet(before.file.iface) :
                      s.name \notin ToSet(NamesToRemove(doc)) /\ n \in ToSet(s.deps)]_vars
=============================================================================
