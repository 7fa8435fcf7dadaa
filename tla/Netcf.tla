------------------------------- MODULE Netcf -------------------------------
(***************************************************************************)
(* The life of a netcf instance and of the handles that it gives out       *)
(* (netcf.c, dutil.c, ref.h), over the Red Hat driver and over the FreeBSD *)
(* driver: what ncf_init acquires step by step and its error paths give    *)
(* back, the reference that each handle holds on the instance, the loops   *)
(* of drv_lookup_by_mac_string, which hand out several handles through an  *)
(* array of the caller, and ncf_close, which only works on an instance     *)
(* that nothing refers to.                                                 *)
(*                                                                         *)
(* A handle is the address of a struct netcf_if; freed addresses are used  *)
(* again.  Its own count is 1 as long as it exists: nothing calls ref on a *)
(* handle, so that unref always frees it.                                  *)
(***************************************************************************)
EXTENDS Integers, Sequences, FiniteSets

CONSTANTS
    Drivers,        \* the drivers to look at: "redhat", "freebsd"
    Handles,        \* addresses that a struct netcf_if can have
    NULL,
    MaxIfaces,      \* bound: interfaces of the machine, entries of the caller's array
    MaxRefs         \* bound: references on the instance

ASSUME DriversAssumption == Drivers \subseteq {"redhat", "freebsd"}
ASSUME HandlesAssumption == IsFiniteSet(Handles) /\ NULL \notin Handles
ASSUME BoundsAssumption == MaxIfaces \in Nat \ {0} /\ MaxRefs \in Nat \ {0}

VARIABLES
    kind,       \* the driver that the library was built with
    ncf,        \* the caller's pointer is not NULL
    ref,        \* ncf->ref
    driver,     \* ncf->driver is not NULL
    usable,     \* ncf_init returned 0
    open,       \* what the instance has acquired and not given back
    heap,       \* the handles that are allocated
    held,       \* the handles that the caller has been given and not freed
    ifaces,     \* the array that the caller passes to ncf_lookup_by_mac_string
    call,       \* where drv_lookup_by_mac_string is, and its local variables
    errcode,    \* ncf->errcode
    ret         \* what the last call returned

instance == <<ncf, driver, usable>>
vars == <<kind, instance, ref, open, heap, held, ifaces, call, errcode, ret>>

\* What ncf_init and drv_init acquire, in this order.
Steps(k) ==
    IF k = "freebsd" THEN <<"netcf", "root", "rng", "driver", "ioctl_fd">>
    ELSE <<"netcf", "root", "rng", "driver", "xfm_tables", "root_dir", "get", "put",
           "ioctl_fd", "nl_sock", "link_cache", "addr_cache">>
Resources == {"netcf", "root", "rng", "driver", "xfm_tables", "get", "put", "ioctl_fd",
              "nl_sock", "link_cache", "addr_cache", "augeas"}

\* The first n steps are done; that the root is a directory is only tested.
Acquired(k, n) == {Steps(k)[i] : i \in 1..n} \ {"root_dir"}

Places == {"idle", "make", "release", "walk"}
Calls == [at : Places, max : 0..MaxIfaces, cnt : 0..MaxIfaces, i : 1..MaxIfaces + 1,
          total : 0..MaxIfaces]
At(place, max, cnt) == [at |-> place, max |-> max, cnt |-> cnt, i |-> 1, total |-> 0]
Idle == At("idle", 0, 0)

TypeOK ==
    /\ kind \in Drivers
    /\ ncf \in BOOLEAN /\ driver \in BOOLEAN /\ usable \in BOOLEAN
    /\ ref \in 0..MaxRefs
    /\ open \subseteq Resources
    /\ heap \subseteq Handles /\ held \subseteq Handles
    /\ ifaces \in [1..MaxIfaces -> Handles \cup {NULL}]
    /\ call \in Calls
    /\ errcode \in {"NOERROR", "EINTERNAL", "EOTHER", "ENOMEM", "EFILE", "EINUSE"}
    /\ ret \in -2..MaxIfaces

Init ==
    /\ kind \in Drivers
    /\ ncf = FALSE /\ ref = 0 /\ driver = FALSE /\ usable = FALSE
    /\ open = {} /\ heap = {} /\ held = {}
    /\ ifaces = [j \in 1..MaxIfaces |-> NULL]
    /\ call = Idle
    /\ errcode = "NOERROR" /\ ret = 0

-----------------------------------------------------------------------------
(***************************************************************************)
(* ncf_init and ncf_close                                                  *)
(***************************************************************************)

\* Mutant of drv_close: it forgets what came after the stylesheets.
DrvCloseForgetsNetlink(k, res) == res \ {"driver", "get", "put", "ioctl_fd", "augeas", "xfm_tables"}

\* drv_close of either driver gives back all that the driver holds, whatever was
\* acquired of it.
drv_close(k, res) ==
    res \ IF k = "freebsd" THEN {"driver", "ioctl_fd"}
          ELSE {"driver", "get", "put", "nl_sock", "link_cache", "addr_cache",
                "ioctl_fd", "augeas", "xfm_tables"}

\* unref of the instance: the last reference frees it with its root, and nothing else.
UnrefNcf(r, res) == IF r = 1 THEN res \ {"netcf", "root"} ELSE res

\* ncf_close on the last reference.
Closed(k, res) == UnrefNcf(1, drv_close(k, res) \ {"rng"})

\* The error that is noted when a step of drv_init fails: none for the allocation of
\* the driver and for netlink_init.
InitError(step) ==
    CASE step = "xfm_tables" -> "ENOMEM"
      [] step \in {"root_dir", "get", "put"} -> "EFILE"
      [] step = "ioctl_fd" -> "EINTERNAL"
      [] OTHER -> "NOERROR"

\* The first n steps succeed and the next one, if any, fails.  Up to the schema the
\* instance is closed again.  Then drv_init fails: the Red Hat driver closes itself, the
\* FreeBSD driver stays; the instance is there in both cases and the caller closes it.
NcfInit(n) ==
    /\ ~ncf
    /\ n \in 0..Len(Steps(kind))
    /\ \/ /\ n = Len(Steps(kind))
          /\ ncf' = TRUE /\ ref' = 1 /\ driver' = TRUE /\ usable' = TRUE
          /\ open' = Acquired(kind, n)
          /\ errcode' = "NOERROR" /\ ret' = 0
       \/ /\ n < 3
          /\ ncf' = FALSE /\ ref' = 0 /\ driver' = FALSE /\ usable' = FALSE
          /\ open' = Closed(kind, Acquired(kind, n))
          /\ errcode' = "NOERROR" /\ ret' = -2
       \/ /\ n \in 3..Len(Steps(kind)) - 1
          /\ ncf' = TRUE /\ ref' = 1 /\ usable' = FALSE
          /\ IF kind = "freebsd" THEN open' = Acquired(kind, n)
                                 ELSE open' = drv_close(kind, Acquired(kind, n))
          /\ driver' = ("driver" \in open')
          /\ errcode' = InitError(Steps(kind)[n + 1]) /\ ret' = -1
    /\ UNCHANGED <<kind, heap, held, ifaces, call>>

NcfClose ==
    /\ ncf /\ call = Idle
    /\ \/ /\ ref > 1
          /\ errcode' = "EINUSE" /\ ret' = -1
          /\ UNCHANGED <<instance, ref, open>>
       \/ /\ ref = 1
          /\ open' = Closed(kind, open)
          /\ ncf' = FALSE /\ ref' = 0 /\ driver' = FALSE /\ usable' = FALSE
          /\ errcode' = "NOERROR" /\ ret' = 0
    /\ UNCHANGED <<kind, heap, held, ifaces, call>>

-----------------------------------------------------------------------------
(***************************************************************************)
(* Handles                                                                 *)
(***************************************************************************)

\* make_netcf_if: a new handle, with a reference on the instance.
MakeIf(h) ==
    /\ h \in Handles \ heap /\ ref < MaxRefs
    /\ heap' = heap \cup {h}
    /\ ref' = ref + 1

\* Mutant of UnrefIf: the instance loses a reference in unref and in free_netcf_if.
UnrefIfTwice(p) ==
    IF p = NULL THEN UNCHANGED <<heap, ref, open>>
    ELSE /\ heap' = heap \ {p}
         /\ ref' = ref - 2
         /\ open' = UnrefNcf(ref, open)

\* unref of a handle: NULL is left alone; free_netcf_if frees the handle and gives back
\* its reference on the instance.
UnrefIf(p) ==
    IF p = NULL THEN UNCHANGED <<heap, ref, open>>
    ELSE /\ heap' = heap \ {p}
         /\ ref' = ref - 1
         /\ open' = UnrefNcf(ref, open)

\* The Red Hat driver keeps Augeas open between calls, unless a call fails to load.
MayGetAugeas ==
    open' \in IF kind = "freebsd" THEN {open} ELSE {open \cup {"augeas"}, open \ {"augeas"}}

MayCall == ncf /\ usable /\ call = Idle

\* ncf_lookup_by_name and, in the Red Hat driver, ncf_define: a handle, none, or an error
\* at any point before there is one.
NewHandle ==
    /\ MayCall
    /\ \/ /\ \E h \in Handles : MakeIf(h) /\ held' = held \cup {h}
          /\ errcode' = "NOERROR" /\ ret' = 1
       \/ UNCHANGED <<heap, ref, held>> /\ errcode' = "NOERROR" /\ ret' = 0
       \/ UNCHANGED <<heap, ref, held>> /\ errcode' \in {"ENOMEM", "EOTHER"} /\ ret' = 0
    /\ MayGetAugeas
    /\ UNCHANGED <<kind, instance, ifaces, call>>

\* ncf_if_free; the caller's array keeps the address.
IfFree(h) ==
    /\ call = Idle /\ h \in held
    /\ UnrefIf(h)
    /\ held' = held \ {h}
    /\ UNCHANGED <<kind, instance, ifaces, call, errcode, ret>>

\* The other calls note an error or none, after API_ENTRY has cleared the last one.
OtherCall ==
    /\ MayCall
    /\ errcode' \in {"NOERROR", "EOTHER", "ENOMEM"}
    /\ ret' = IF errcode' = "NOERROR" THEN 0 ELSE -1
    /\ MayGetAugeas
    /\ UNCHANGED <<kind, instance, ref, heap, held, ifaces, call>>

-----------------------------------------------------------------------------
(***************************************************************************)
(* drv_lookup_by_mac_string of the Red Hat driver                          *)
(***************************************************************************)

\* Mutant of Cleared: no MEMZERO.
Uncleared(max) == ifaces

\* MEMZERO(ifaces, maxifaces).
Cleared(max) == [j \in 1..MaxIfaces |-> IF j <= max THEN NULL ELSE ifaces[j]]

\* The array is cleared; then the names of the cnt interfaces with the address are
\* collected, or one of the steps to there fails.
MacBegin(max) ==
    /\ kind = "redhat" /\ MayCall
    /\ ifaces' = Cleared(max)
    /\ \/ /\ \E cnt \in 0..MaxIfaces : call' = At("make", max, cnt)
          /\ errcode' = "NOERROR"
       \/ /\ call' = At("release", max, 0)
          /\ errcode' \in {"ENOMEM", "EOTHER"}
    /\ MayGetAugeas
    /\ UNCHANGED <<kind, instance, ref, heap, held, ret>>

\* The loop makes a handle and stores it, or there is no memory for the name or for it.
MacMake ==
    /\ call.at = "make" /\ call.i <= call.cnt /\ call.i <= call.max
    /\ \/ /\ \E h \in Handles : MakeIf(h) /\ ifaces' = [ifaces EXCEPT ![call.i] = h]
          /\ call' = [call EXCEPT !.i = @ + 1]
          /\ UNCHANGED errcode
       \/ /\ errcode' = "ENOMEM"
          /\ call' = At("release", call.max, call.cnt)
          /\ UNCHANGED <<heap, ref, ifaces>>
    /\ UNCHANGED <<kind, instance, open, held, ret>>

\* The number of all interfaces with the address is returned, and the array has the
\* handles of as many of them as fit.
MacDone ==
    /\ call.at = "make" /\ (call.i > call.cnt \/ call.i > call.max)
    /\ held' = held \cup {ifaces[j] : j \in 1..call.i - 1}
    /\ ret' = call.cnt /\ call' = Idle
    /\ UNCHANGED <<kind, instance, ref, open, heap, ifaces, errcode>>

\* Mutant of MacRelease: free in place of unref.
MacReleaseFrees ==
    /\ call.at = "release" /\ call.i <= call.max
    /\ heap' = heap \ {ifaces[call.i]}
    /\ ifaces' = [ifaces EXCEPT ![call.i] = NULL]
    /\ call' = [call EXCEPT !.i = @ + 1]
    /\ UNCHANGED <<kind, instance, ref, open, held, errcode, ret>>

\* The loop at the label error, and the return behind it.
MacRelease ==
    /\ call.at = "release" /\ call.i <= call.max
    /\ UnrefIf(ifaces[call.i])
    /\ ifaces' = [ifaces EXCEPT ![call.i] = NULL]
    /\ call' = [call EXCEPT !.i = @ + 1]
    /\ UNCHANGED <<kind, instance, held, errcode, ret>>

MacFail ==
    /\ call.at = "release" /\ call.i > call.max
    /\ ret' = -1 /\ call' = Idle
    /\ UNCHANGED <<kind, instance, ref, open, heap, held, ifaces, errcode>>

-----------------------------------------------------------------------------
(***************************************************************************)
(* drv_lookup_by_mac_string of the FreeBSD driver, for an array that has   *)
(* room for all interfaces of the machine: maxifaces is not looked at.     *)
(***************************************************************************)

WalkBegin(max) ==
    /\ kind = "freebsd" /\ MayCall
    /\ \E cnt \in 0..MaxIfaces : call' = At("walk", max, cnt)
    /\ errcode' = "NOERROR"
    /\ UNCHANGED <<kind, instance, ref, open, heap, held, ifaces, ret>>

\* The next round, with one handle stored or none.
Round(found) == [at |-> "walk", max |-> call.max, cnt |-> call.cnt, i |-> call.i + 1,
                 total |-> call.total + found]

\* drv_lookup_by_name finds no interface of the name, or no memory, or an error that an
\* earlier round noted: then it frees the handle that it has made, and finds none.
WalkSkips ==
    /\ UNCHANGED <<ref, heap, ifaces>>
    /\ errcode' \in {errcode, "ENOMEM"}
    /\ call' = Round(0)

\* It makes a handle.  That of an interface without an address is forgotten; that of one
\* with the address is stored; of any other only the memory is freed.
WalkMakes(h) ==
    /\ errcode = "NOERROR" /\ UNCHANGED errcode
    /\ \/ /\ MakeIf(h)
          /\ UNCHANGED ifaces
          /\ call' = Round(0)
       \/ /\ MakeIf(h)
          /\ ifaces' = [ifaces EXCEPT ![call.total + 1] = h]
          /\ call' = Round(1)
       \/ /\ h \in Handles \ heap /\ ref < MaxRefs
          /\ ref' = ref + 1
          /\ UNCHANGED <<heap, ifaces>>
          /\ call' = Round(0)

WalkStep ==
    /\ call.at = "walk" /\ call.i <= call.cnt
    /\ WalkSkips \/ \E h \in Handles : WalkMakes(h)
    /\ UNCHANGED <<kind, instance, open, held, ret>>

WalkDone ==
    /\ call.at = "walk" /\ call.i > call.cnt
    /\ held' = held \cup {ifaces[j] : j \in 1..call.total}
    /\ ret' = call.total /\ call' = Idle
    /\ UNCHANGED <<kind, instance, ref, open, heap, ifaces, errcode>>

-----------------------------------------------------------------------------
Next ==
    \/ \E n \in 0..Len(Steps(kind)) : NcfInit(n)
    \/ NcfClose \/ NewHandle \/ OtherCall
    \/ \E h \in held : IfFree(h)
    \/ \E max \in 0..MaxIfaces : MacBegin(max) \/ WalkBegin(max)
    \/ MacMake \/ MacDone \/ MacRelease \/ MacFail
    \/ WalkStep \/ WalkDone

Spec == Init /\ [][Next]_vars

-----------------------------------------------------------------------------
(***************************************************************************)
(* Properties                                                              *)
(***************************************************************************)

\* With the Red Hat driver every handle that exists between calls is one that the caller
\* has, and the count of the instance is one for each of them and its own: the loops of
\* drv_lookup_by_mac_string give out or release every handle they made, and no other,
\* although the array may hold addresses from an earlier call.
RefExact ==
    kind = "redhat" /\ call = Idle =>
        heap = held /\ ref = Cardinality(held) + (IF ncf THEN 1 ELSE 0)

\* With either driver, at every step: a handle that the caller has is not freed behind its
\* back, and neither is an instance that the caller or a handle points to, although
\* ncf_close, ncf_if_free and the error path of a lookup may come in any order.
NoDangling ==
    /\ held \subseteq heap
    /\ ncf \/ heap # {} => "netcf" \in open

\* Whatever step of ncf_init fails, and after ncf_close, nothing stays acquired that
\* nobody can give back: without an instance nothing is open, and without a driver
\* nothing that the driver owns.
NothingLeaks ==
    /\ ~ncf => open = {}
    /\ ~driver => open \subseteq {"netcf", "root", "rng"}
=============================================================================
