----------------------------- MODULE DrvRedhat -----------------------------
(***************************************************************************)
(* drv_define, drv_undefine and drv_lookup_by_name of the Red Hat driver   *)
(* (drv_redhat.c), with the Augeas tree that the driver keeps between      *)
(* calls (get_augeas in dutil_linux.c) and the files it loads them from    *)
(* and saves them to.                                                      *)
(*                                                                         *)
(* A call loads the tree from the files, changes it interface by interface *)
(* and saves it file by file.  It can fail at every step, which leaves the *)
(* tree, and once the save has begun the files, half changed.  Another     *)
(* program can change the files at any time.                               *)
(***************************************************************************)
EXTENDS Ifcfg

CONSTANTS
    Docs,           \* interface documents that ncf_define is called with
    Stores,         \* configurations that the driver may find
    MaxFailures,    \* bound: steps of a call that fail
    MaxForeign      \* bound: changes of the files by other programs

ASSUME BoundsAssumption == MaxFailures \in Nat /\ MaxForeign \in Nat

\* A document as the schema has it: the ports of a bridge are no bridges, the slaves of a
\* bond are NICs, only a VLAN may have no name.  Beyond the schema, no device comes twice
\* and a VLAN that has a name is named after its device and tag.
Document(doc) ==
    /\ \A i, j \in InterfacesOf(doc) : i.device = j.device => i = j
    /\ \A i \in InterfacesOf(doc) :
         /\ i.device \in Names /\ i.mac \in Macs \cup {None}
         /\ i.name = i.device \/ (i.name = None /\ i.type = "vlan")
         /\ i.type \notin {"bridge", "bond"} => i.subs = {}
    /\ doc.type = "bridge" => \A s \in doc.subs :
         s.type # "bridge" /\ \A x \in s.subs : x.type = "ethernet" /\ x \notin doc.subs
    /\ doc.type = "bond" => \A s \in doc.subs : s.type = "ethernet"
    /\ \A s, t \in doc.subs : s.subs \cap t.subs # {} => s = t

AllInterfaces == UNION {InterfacesOf(doc) : doc \in Docs}
Managed == {i.device : i \in AllInterfaces}
Nameless == {i.device : i \in {j \in AllInterfaces : j.name = None}}

\* The devices that are not in a file of their name.
Misnamed == {d \in Names : \E st \in Stores : d \in Devices(st) \ FilesOf(st)}

\* A configuration whose files fit together.  A file may have another name than its device,
\* but not that of another device, of the configuration or of a document, whose file it
\* would be taken for; a device that a document leaves nameless is in the file of its name;
\* and the address of a misnamed device stands in no file of another one.
Tidy(st) ==
    /\ Devices(st) \ FilesOf(st) \subseteq Misnamed
    /\ \A f \in FilesOf(st) :
         /\ st[f].DEVICE # None
         /\ st[f].BRIDGE = None \/ st[f].MASTER = None
         /\ st[f].BRIDGE # None =>
              /\ is_bridge(st, st[f].BRIDGE)
              /\ \A g \in WithDevice(st, st[f].BRIDGE) : ~is_slave(st, g)
         /\ st[f].MASTER # None =>
              /\ st[f].MASTER \in Devices(st) /\ ~is_bridge(st, st[f].MASTER)
              /\ \A g \in WithDevice(st, st[f].MASTER) : st[g].MASTER = None
         /\ {st[f].BRIDGE, st[f].MASTER} \cap Nameless = {}
         /\ f \in Managed \cup Devices(st) \/ st[f].DEVICE \in Nameless => st[f].DEVICE = f
         /\ \A g \in WithDevice(st, st[f].DEVICE) :
              st[g].BRIDGE = st[f].BRIDGE /\ st[g].MASTER = st[f].MASTER
         /\ \A d \in Misnamed : st[f].HWADDR # None /\ st[f].HWADDR = MacOf[d] /\ d \in Devices(st)
                                  => d \in FilesOf(st) \/ st[f].DEVICE = d

ASSUME StoresAssumption == Stores \subseteq Store /\ \A st \in Stores : Tidy(st)
ASSUME DocsAssumption ==
    /\ None \notin Docs /\ \A doc \in Docs : Document(doc)
    /\ \A i \in AllInterfaces :
         /\ i.device \in Nameless => i.type \notin {"bridge", "bond"}
         /\ \A d \in Misnamed : i.mac # None /\ i.mac = MacOf[d] => i.device = d

VARIABLES
    disk,       \* the ifcfg files
    aliases,    \* the names with an alias for the module bonding in /etc/modprobe.d
    corrupt,    \* some file on disk that Augeas cannot parse
    aug,        \* driver->augeas is not NULL
    xfm,        \* driver->copy_augeas_xfm
    load,       \* driver->load_augeas
    tree,       \* the ifcfg files in the tree
    talias,     \* the aliases in the tree
    dirty,      \* the ifcfg files that the tree changed since it was loaded
    pc,         \* where the call is, "idle" between calls
    doc,        \* drv_define's document
    nif,        \* name of the handle that the caller holds
    todo,       \* names left in the current loop
    saved,      \* FALSE when a file could not be saved
    failures,   \* failed steps so far
    foreign,    \* changes by other programs so far
    before,     \* history: the ifcfg files when the call loaded them
    torn        \* history: a save failed half way, or met a change by another program

vars == <<disk, aliases, corrupt, aug, xfm, load, tree, talias, dirty, pc, doc,
          nif, todo, saved, failures, foreign, before, torn>>

files == <<disk, aliases, corrupt>>
driver == <<aug, xfm, load, tree, talias, dirty>>
history == <<before, torn>>

TypeOK ==
    /\ disk \in Store /\ aliases \subseteq Names /\ corrupt \in BOOLEAN
    /\ aug \in BOOLEAN /\ xfm \in BOOLEAN /\ load \in BOOLEAN
    /\ tree \in Store /\ talias \subseteq Names /\ dirty \subseteq Names
    /\ pc \in {"idle", "rm", "put", "bond", "unbond", "rmone", "save"}
    /\ doc \in Docs \cup {None} /\ nif \in Names \cup {None}
    /\ todo \subseteq Names \cup {None, Empty}
    /\ saved \in BOOLEAN
    /\ failures \in 0..MaxFailures /\ foreign \in 0..MaxForeign
    /\ before \in Store /\ torn \in BOOLEAN

\* After drv_init: the transform table is there, Augeas is not.
Init ==
    /\ disk \in Stores
    /\ aliases = {n \in Names : is_bond(disk, n)}
    /\ corrupt = FALSE
    /\ aug = FALSE /\ xfm = TRUE /\ load = FALSE
    /\ tree = NoStore /\ talias = {} /\ dirty = {}
    /\ pc = "idle" /\ doc = None /\ nif = None /\ todo = {} /\ saved = TRUE
    /\ failures = 0 /\ foreign = 0
    /\ before = NoStore /\ torn = FALSE

-----------------------------------------------------------------------------
(***************************************************************************)
(* get_augeas                                                              *)
(***************************************************************************)

\* Mutant of drv_entry: the flag is only set once, when the driver is set up.
DrvEntryForgets == load

\* The flag with which a call comes to get_augeas: drv_entry, in API_ENTRY, sets it.
drv_entry == TRUE

Fails == failures < MaxFailures /\ failures' = failures + 1

\* Augeas is opened, its transforms are set up, and the files are loaded, each only
\* when it must be.
GetAugeas ==
    /\ ~corrupt
    /\ aug' = TRUE /\ xfm' = FALSE /\ load' = FALSE
    /\ IF ~aug \/ xfm \/ drv_entry
       THEN tree' = disk /\ talias' = aliases /\ dirty' = {}
       ELSE UNCHANGED <<tree, talias, dirty>>

\* A step of it fails, or the load has errors: Augeas is closed.
GetAugeasFails ==
    /\ \/ corrupt /\ xfm' = FALSE /\ UNCHANGED failures
       \/ Fails /\ xfm' \in IF aug THEN {xfm} ELSE BOOLEAN
    /\ aug' = FALSE /\ load' = drv_entry
    /\ tree' = NoStore /\ talias' = {} /\ dirty' = {}

-----------------------------------------------------------------------------
(***************************************************************************)
(* The calls                                                               *)
(***************************************************************************)
Return == pc' = "idle" /\ doc' = None /\ todo' = {} /\ before' = NoStore

\* A call that fails before the save leaves the tree as it is.
Fail ==
    /\ pc \in {"rm", "put", "bond", "unbond", "rmone"}
    /\ \/ Fails
       \/ pc = "rm" /\ None \in todo /\ UNCHANGED failures
    /\ Return
    /\ UNCHANGED <<files, driver, nif, saved, foreign, torn>>

\* An API call that cannot get Augeas fails.
NoAugeas ==
    /\ pc = "idle"
    /\ GetAugeasFails
    /\ UNCHANGED <<files, pc, doc, nif, todo, saved, foreign, history>>

LookupByName(n) ==
    /\ pc = "idle"
    /\ GetAugeas
    /\ nif' = IF lookup_by_name(tree', n) THEN n ELSE None
    /\ UNCHANGED <<files, pc, doc, todo, saved, failures, foreign, history>>

\* That the document does not parse or is not valid is a Fail before the first removal.
Define(d) ==
    /\ pc = "idle"
    /\ GetAugeas
    /\ pc' = "rm" /\ doc' = d /\ todo' = NamesToRemove(d)
    /\ before' = disk
    /\ UNCHANGED <<files, nif, saved, failures, foreign, torn>>

\* A missing @name is taken for a failed allocation: Fail.
RemoveOne(n) ==
    /\ pc = "rm" /\ n \in todo \ {None}
    /\ tree' = rm_interface(tree, n)
    /\ dirty' = dirty \cup {f \in Names : tree'[f] # tree[f]}
    /\ todo' = todo \ {n}
    /\ UNCHANGED <<files, aug, xfm, load, talias, pc, doc, nif, saved,
                   failures, foreign, history>>

ApplyStylesheet ==
    /\ pc = "rm" /\ todo = {}
    /\ pc' = "put" /\ todo' = DOMAIN Forest(doc)
    /\ UNCHANGED <<files, driver, doc, nif, saved, failures, foreign, history>>

\* The trees are put, and later the files saved, in one order.
IsNext(n) == n \in todo /\ \A m \in todo : n <= m

PutTree(d) ==
    /\ pc = "put" /\ IsNext(d)
    /\ tree' = aug_put_xml(tree, d, Forest(doc)[d])
    /\ dirty' = dirty \cup {d}
    /\ todo' = todo \ {d}
    /\ UNCHANGED <<files, aug, xfm, load, talias, pc, doc, nif, saved,
                   failures, foreign, history>>

PutDone ==
    /\ pc = "put" /\ todo = {}
    /\ pc' = "bond"
    /\ UNCHANGED <<files, driver, doc, nif, todo, saved, failures, foreign, history>>

StartSave == pc' = "save" /\ todo' = dirty' /\ saved' = TRUE

\* bond_setup of drv_define adds an alias for each bond, then the save starts.
AliasBonds ==
    /\ pc = "bond"
    /\ talias' = talias \cup bond_setup(tree, device_name_from_xml(doc))
    /\ UNCHANGED <<aug, xfm, load, tree, dirty>>
    /\ StartSave
    /\ UNCHANGED <<files, doc, nif, failures, foreign, history>>

Undefine ==
    /\ pc = "idle" /\ nif # None
    /\ GetAugeas
    /\ pc' = "unbond"
    /\ before' = disk
    /\ UNCHANGED <<files, doc, nif, todo, saved, failures, foreign, torn>>

UnaliasBonds ==
    /\ pc = "unbond"
    /\ talias' = talias \ bond_setup(tree, nif)
    /\ pc' = "rmone"
    /\ UNCHANGED <<files, aug, xfm, load, tree, dirty, doc, nif, todo, saved,
                   failures, foreign, history>>

RemoveInterface ==
    /\ pc = "rmone"
    /\ tree' = rm_interface(tree, nif)
    /\ dirty' = dirty \cup {f \in Names : tree'[f] # tree[f]}
    /\ UNCHANGED <<aug, xfm, load, talias>>
    /\ StartSave
    /\ UNCHANGED <<files, doc, nif, failures, foreign, history>>

\* aug_save writes the changed files one by one, and goes on when one fails.
SaveFile(f) ==
    /\ pc = "save" /\ IsNext(f)
    /\ \/ /\ disk' = [disk EXCEPT ![f] = tree[f]]
          /\ UNCHANGED <<saved, failures, torn>>
       \/ /\ Fails
          /\ saved' = FALSE /\ torn' = TRUE
          /\ UNCHANGED disk
    /\ todo' = todo \ {f}
    /\ UNCHANGED <<aliases, corrupt, driver, pc, doc, nif, foreign, before>>

\* The modprobe file comes last; a call that could not save everything fails, a define
\* that could returns a handle, unless it cannot make one.
SaveDone ==
    /\ pc = "save" /\ todo = {}
    /\ \/ /\ aliases' = talias
          /\ UNCHANGED <<failures, torn>>
          /\ nif' = IF saved /\ doc # None THEN device_name_from_xml(doc) ELSE nif
       \/ /\ saved /\ doc # None /\ aliases' = talias
          /\ Fails
          /\ UNCHANGED <<torn, nif>>
       \/ /\ Fails
          /\ torn' = TRUE
          /\ UNCHANGED <<aliases, nif>>
    /\ saved' = TRUE
    /\ Return
    /\ UNCHANGED <<disk, corrupt, driver, foreign>>

-----------------------------------------------------------------------------
(***************************************************************************)
(* Other programs: the files are exchanged for other ones, or one of them  *)
(* is damaged or repaired.                                                 *)
(***************************************************************************)
ForeignChange ==
    /\ foreign < MaxForeign
    /\ foreign' = foreign + 1
    /\ \/ /\ disk' \in Stores \ {disk}
          /\ aliases' = aliases \cup {n \in Names : is_bond(disk', n)}
          /\ torn' = (pc # "idle")
          /\ UNCHANGED corrupt
       \/ /\ corrupt' = ~corrupt
          /\ UNCHANGED <<disk, aliases, torn>>
    /\ UNCHANGED <<driver, pc, doc, nif, todo, saved, failures, before>>

Call == (\E n \in Names : LookupByName(n)) \/ (\E d \in Docs : Define(d)) \/ Undefine \/ NoAugeas

Step ==
    \/ \E n \in todo : RemoveOne(n) \/ PutTree(n) \/ SaveFile(n)
    \/ ApplyStylesheet \/ PutDone \/ AliasBonds \/ UnaliasBonds \/ RemoveInterface
    \/ SaveDone \/ Fail

Next == Call \/ Step \/ ForeignChange

Spec == Init /\ [][Next]_vars

-----------------------------------------------------------------------------
(***************************************************************************)
(* Properties                                                              *)
(***************************************************************************)

\* The devices that stand above a file, as far up as the entries lead.
Above(st, f) ==
    LET up(D) == {d \in Names : \E g \in FilesOf(st) :
                     st[g].DEVICE \in D /\ d \in {st[g].BRIDGE, st[g].MASTER}}
        d0 == {st[f].DEVICE}
        d1 == d0 \cup up(d0)
        d2 == d1 \cup up(d1)
    IN  d2 \cup up(d2)

\* A call that succeeds, and that nobody disturbed, ends in this step.
Succeeds ==
    pc = "save" /\ pc' = "idle" /\ failures' = failures /\ saved /\ ~torn

\* "Remove the ifcfg-* files for that interface and all its slaves", "one by one when
\* we define an interface": a define that succeeds leaves the files of its document and,
\* of the files that were there when it was called, exactly those that do not stand,
\* however deep, under a device of the document.  Nothing of an earlier call that
\* failed is left.
DefineEffect ==
    [][Succeeds /\ doc # None =>
         \A f \in Names :
            disk'[f] = IF f \in DOMAIN Forest(doc) THEN Forest(doc)[f]
                       ELSE IF before[f] # None
                               /\ Above(before, f) \cap DOMAIN Forest(doc) = {}
                            THEN before[f] ELSE None]_vars

\* The same for undefine, with the interface of the handle.
UndefineEffect ==
    [][Succeeds /\ doc = None =>
         \A f \in Names :
            disk'[f] = IF before[f] # None /\ nif \notin Above(before, f)
                       THEN before[f] ELSE None]_vars

\* ncf_if_xml_desc after ncf_define describes what was defined: the canonical files
\* of the interface and its parts are the files of the document.
DescribesDefined ==
    [][Succeeds /\ doc # None =>
         aug_get_xml_for_nif(disk', device_name_from_xml(doc)) = Forest(doc)]_vars

\* Between calls, unless a save was torn, the files fit together: a slave's bridge or
\* bond is configured and can be one, and every bond has its alias.
Fit ==
    pc = "idle" /\ ~torn =>
        \A f \in FilesOf(disk) :
            /\ disk[f].BRIDGE # None => is_bridge(disk, disk[f].BRIDGE)
            /\ disk[f].MASTER # None =>
                 /\ disk[f].MASTER \in Devices(disk) /\ ~is_bridge(disk, disk[f].MASTER)
                 /\ disk[f].MASTER \in aliases

\* ncf_list_interfaces lists, and ncf_lookup_by_name finds, exactly the devices that no
\* file makes a slave, each of them once and under its own name, also when files are
\* not named after their device, share a device, or match the address of another NIC.
ListsTopLevel ==
    pc = "idle" /\ ~torn =>
        LET list == list_interfaces(disk)
            top == {d \in Devices(disk) : \A f \in WithDevice(disk, d) :
                       disk[f].BRIDGE = None /\ disk[f].MASTER = None}
        IN  /\ DOMAIN list = top
            /\ \A d \in top : disk[list[d]].DEVICE = d
            /\ top = {d \in Devices(disk) : lookup_by_name(disk, d)}
=============================================================================
