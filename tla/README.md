# A TLA+ verification of netcf

netcf is a library that reads and changes the network configuration of a machine:
it turns an XML description of an interface into the configuration files of the
distribution, finds and lists interfaces, brings them up and down, and offers a
small transaction (begin, commit, rollback) over the configuration. This directory
holds TLA+ models of its core, the TLC runs that check them, and TLAPS proofs.

`PROJECT.json` lists the components, runs, mutants, hazards, findings and theorems,
and maps each definition to the lines it models.

## Inventory

| Component | Source | State | Operations | Hard behaviour |
|---|---|---|---|---|
| Transaction script | `src/netcf-transaction.init.sh` | files: configuration, snapshot directory, archives `network-rollback-*` | `change-begin`, `change-commit`, `change-rollback`, `start` (at boot) | no lock; file by file; crash, failing `cp` and `rm`, retry |
| Red Hat driver | `src/drv_redhat.c` | Augeas tree with flags; ifcfg files, modprobe aliases | `drv_define`, `drv_undefine`, lookups, lists, `drv_xml_desc`, `drv_if_up`, `drv_if_down` | the tree outlives a call; failure half way; other programs edit the files; files not named after their device |
| Augeas cache | `src/dutil_linux.c` | `augeas`, `copy_augeas_xfm`, `load_augeas` | `get_augeas`, alias functions | stale tree after a failure |
| Running programs | `src/dutil_posix.c` | child, pipe, signal mask, descriptors | `exec_program`, `run_program`, `run1` | parent and child wait for each other; threads of the caller |
| API and life of an instance | `src/netcf.c`, `dutil.c`, `ref.h` | reference counts, error code, acquired resources | `ncf_init`, `ncf_close`, `ncf_if_free`, one function per driver function | every step of initialisation can fail |
| Live state | `src/dutil_linux.c` (ioctl, netlink) | link and address caches | `add_state_to_xml_doc`, called by `drv_xml_state` | caches, `/proc` and `/sys` read one after the other while the kernel changes; recursion without a bound |
| Debian driver | `src/drv_debian.c` | Augeas tree; one `interfaces` file, modprobe aliases | like the Red Hat driver | the tree outlives a call; several stanzas and several names per `auto` line |
| FreeBSD driver | `src/drv_freebsd.c` | ioctl descriptor; `rc.conf`, `rc.conf.tmp`, interface flags | `drv_undefine`, `drv_if_up`, `drv_if_down`, lookups | two processes share a temporary file; read-modify-write of flags; ignored write errors |
| ncftool | `src/ncftool.c` | handle, array of names, result of the last command | one handler per command, the session | other programs change things between the calls of one command; whose error is printed |
| Stylesheets, schema | `data/xml` | none | XML to Augeas tree and back | which file or stanza each interface becomes |
| SUSE and Windows drivers, ncftransform | `src/drv_suse.c`, `drv_mswindows.c`, `ncftransform.c` | like the Red Hat driver; none | the same driver functions | not modelled |

How they interact. A program calls the API (`netcf.c`); each call passes
`API_ENTRY`, which clears the error and tells the driver to reload, and goes on to
the driver's function. The drivers reach the configuration through `get_augeas`,
and programs (`ifup`, `ifdown`, the transaction script) through `run_program`,
whose exit status 199 becomes `EINVALIDOP`. The script and the driver share the
configuration files and nothing else. Handles (`netcf_if`) hold a reference on the
instance.

What makes each part correct:

- transaction: a rollback restores exactly the snapshot, loses nothing that is not
  archived, and the three operations appear atomic to a lone caller;
- driver: a define or undefine changes exactly the files it should, whatever failed
  before; the files fit together; lists and descriptions follow them;
- programs: success means that the program ended with 0 and was read to the end, and
  the caller never hangs;
- instance: counts are exact, nothing is freed while it is in use and nothing leaks on any
  error path;
- live state: a description is exact when nothing changed and otherwise made of what was
  so during the call; the walk down the interfaces ends;
- ncftool: what it lists and prints belongs to this command, the programs for a bridge
  and its ports run in order and completely, every command ends;
- FreeBSD: `rc.conf` is whole at every moment, an undefine takes the lines of its interface
  only, and up and down touch one flag only.

## Modules

| Module | Models |
|---|---|
| `Transaction` | the script, one action per command, with several callers, init at boot, crashes and failing commands |
| `AbstractTransaction` | what `netcf.h` promises of begin, commit and rollback: three atomic operations on one configuration |
| `MCTransaction` | the symmetry of clients |
| `TransactionProofs` | proofs about `Transaction`, and that it implements `AbstractTransaction` |
| `Ifcfg` | the functions of `drv_redhat.c` on the tree, as operators under the source's names |
| `DrvRedhat` | `drv_lookup_by_name`, `drv_define`, `drv_undefine` step by step, with the Augeas cache, the save, failures and other programs; extends `Ifcfg` |
| `MCRedhat` | documents of every type of the schema, and starting configurations |
| `DrvRedhatProofs` | proofs about `DrvRedhat` |
| `RunProgram`, `RunProgramProofs` | `run_program` and `exec_program` with the child, a daemon and other threads; proofs |
| `Netcf`, `NetcfProofs` | the life of an instance and its handles over the Red Hat and FreeBSD drivers; proofs |
| `LiveState`, `MCLiveState`, `LiveStateProofs` | `drv_xml_state` and `add_state_to_xml_doc`, read by read, next to a kernel that changes; a VLAN as bridge port, a bond, a VLAN on a VLAN; proofs |
| `Interfaces` | the functions of `drv_debian.c` on the interfaces file with both Debian stylesheets, as operators under the source's names |
| `DrvDebian`, `MCDebian`, `DrvDebianProofs` | the lookups, `drv_define` and `drv_undefine` of the Debian driver step by step; extends `Interfaces`; proofs |
| `Ncftool`, `MCNcftool`, `NcftoolProofs` | the shell's commands call by call; `drv_if_up` and `drv_if_down` of the Red Hat driver program by program; proofs |
| `DrvFreebsd`, `MCFreebsd`, `DrvFreebsdProofs` | `drv_undefine`, `drv_if_up`, `drv_if_down` of the FreeBSD driver system call by system call; proofs |

### Transaction

`conf` is `$netconfdir`, `snapdir` and `snap` are `$snapshotdir` (absent, a directory,
or a plain file) and its files, `arch` the rollback saves by time stamp. `pc`, `verb`,
`todo`, `dir` and `ret` are the shell of each process: place, argument, rest of the
current glob, `$rollbackdir` and `$rollback_ret`. Every `cp`, `rm`, `mkdir` and each
unlink of the `rm -rf` of the snapshot directory is a step, and any of them can fail, the
last one, of the `date` file or of the directory itself, included; the `test` or `cmp`
right before a command is part of its step. The pruning of old archives is one step: the
list that `ls` gives and the `rm -rf` of each line. A failing `cp` leaves its target alone or
torn, a failing `cp -pf` also absent (`FailedForcedCopy`), since it may unlink the target
first. `Crash` stops all processes and keeps the file system; then init runs `start` before
clients run. Files are numbers in the order of the globs. `base`, `begun` and `goal` are history variables that no
guard reads.

Abstracted: the contents of files (values that are compared only), SELinux labels and
times, the `date` file, messages.

### Ifcfg and DrvRedhat

A store maps names to the entries the driver looks at: `DEVICE`, `BRIDGE`, `MASTER`,
`TYPE`, `HWADDR`. `tree` and `talias` are Augeas' copy of the files `disk` and `aliases`;
`aug`, `xfm` and `load` are the driver's flags. A call loads, then changes the tree name
by name (`RemoveOne`), applies the stylesheet (`Forest`), puts tree by tree, sets the
aliases up, and saves file by file. Any of these steps can fail, `ForeignChange` can
come between any two. `torn` remembers that a save failed half way or met a foreign
change, after which the code promises nothing until the files are exchanged.

Abstracted: addresses and options of interfaces, XML parsing and validation (a failure
before the first change), the text of files (a file that Augeas cannot parse is
`corrupt`).

### RunProgram

`pc` is the calling thread. `pipe` counts blocks, `writers` who holds the write end,
`fd` what the descriptor numbered `outfd` is, so that a second close can hit another
thread's file. `child` and `status` are the process; a child that somebody else reaped
is `lost`, and then `exitstatus` is any value, as the code leaves it uninitialized.

### Netcf

`open` is what the instance has acquired, `ref` its count. A handle is an address, which
is used again once it is freed: `heap` are those that are allocated, `held` those that the
caller has been given and has not freed, `ifaces` the array that the caller passes to the
lookup by address and uses again for the next one, old addresses included. `NcfInit(n)` does
n steps of `Steps` and fails at the next; the error paths are `ncf_close` (`Closed`) and
`drv_close`. The lookup by address is its loops, in `call` with their variables: with the Red
Hat driver `MacBegin` clears the array, `MacMake` makes and stores one handle, `MacRelease`
unrefs one entry of the array at the label error; with the FreeBSD driver `WalkStep` makes
a handle for the next interface and stores it, forgets it (`continue`) or frees its memory
only (`free`), without a look at `maxifaces` and with an array that in the model has room for
all.

Abstracted: the memory of names and addresses that belong to a handle. `ref` of a handle
is 1 as long as it exists, since nothing calls `ref` on one.

### LiveState

`net` and `addr` are the kernel's links and addresses by index, and its actions create,
delete, rename, enslave, release and address links at any time. `link_cache` and
`addr_cache` are the library's copies, refilled one after the other. The walk keeps the
interface elements to fill in `todo`, the current one in `cur`, and in `stat` which of
`if_type`'s three files, or the ports of a bridge, comes next; each `stat` and each read of
a directory is a step of its own. The document is a set of elements with a path of names, a type and
a hardware address. A path with more names than there are is a recursion that has come
back to an interface, which in the code ends with the stack.

A VLAN may stand on a VLAN, and goes with every link below it (`WithVlans`).

Abstracted: VLAN tags, bond options, prefixes, and the format of addresses. The loop over
the parts of an interface may take them in any order.

### Interfaces and DrvDebian

A file is its `auto` stanzas (sequences of names) and its `iface` stanzas (name, family,
whether manual, what makes it a bridge, bond or VLAN, and the names of its parts).
`GetIface` and `GetAuto` are `debian-get.xsl`; `PutPart` and `PutProtos` are
`debian-put.xsl`. `DrvDebian` steps through a call as `DrvRedhat` does; the save writes two
files, each whole. A VLAN without a name cannot be saved (`Writable`): the stylesheet gets
an empty name. `aug_get_xml` gives the parts of an interface once each and in the order of the
file, and `PutPart` takes the first stanza of a part: the code goes through the ports, may meet
one twice and describes every stanza of a port. The two agree on a file that a define wrote,
which is what `ReadsBack` is about; a foreign file with a port named twice is described
differently by the code. `Select` is `SelectSeq` with a set in place of an operator, which is the form
that can be reasoned about.

### Ncftool

A command is a sequence of calls, `pc` says which is next. `errcode` is 0 or the number of
the command whose call noted the last error, which is what shows whose error is printed.
`alloc` and `out` are the array of `cmd_list`. `Port` and `Own` run `ifup` or `ifdown` once; a
program may or may not make its interface active, and fail. `lost` counts programs that
`run_program` does not wait for because an error was noted before it was called. `seen` is
the history of configurations and active interfaces during the command. `flags` of a command
are those that `cmd_list` makes of `--inactive` and `--all`. An error of `is_bridge` and one of
`bridge_slaves` are different branches of `IsBridge`: the first counts as no bridge, the second
ends the call.

### DrvFreebsd

Files are inodes: `rc` and `tmp` are the two directory entries, `data` the contents, and a
process holds the inodes that it opened with its positions in them, so that a rename or a
truncation by one process meets the open file of another. A file is a sequence of what
`fgets` returns. `Kill` ends a process anywhere; a failing `fputs` goes unnoticed.
`setifflags` is two steps, one for each ioctl. The kernel's flags are a word of 32 bits;
SIOCGIFFLAGS splits it into the two signed 16-bit fields of `ifr`, `Joined` puts them together
as line 101 does, `WithUp` changes the lowest bit, and `Filled` splits the word as lines 109
and 110 do. `expected` is the first `rc.conf` less the lines that configure the interfaces
undefined, with names compared whole and not as `strstr` does; `spoilt` (two undefines
overlapped, a write failed, or the name undefined is part of another), `others` and `raced`
are history variables, too.

Left out: the flags that the kernel does not let a caller change (`IFF_CANTCHANGE`), which can
only make a write do less.

Abstracted: buffering (each line is read and written by itself, which allows more
interleavings than blocks do); a line of 256 bytes or more is several pieces, of which only
the first may start with a number sign, as for the code.

## Runs

| Run | Checks | Result |
|---|---|---|
| `trans_serial` | `TypeOK`, `RefinesAbstract`, `Terminates` | holds |
| `trans_faults` | `Restored`, `DiscardsArchived` | holds |
| `trans_conc` | `ArchiveBound` | holds |
| `trans_boot` | `BootReverts` | violated |
| `trans_retry` | `RollbackReverts` | violated |
| `redhat` | `TypeOK`, `Fit`, `ListsTopLevel`, `DefineEffect`, `UndefineEffect`, `DescribesDefined` | holds |
| `debian` | `TypeOK`, `DefineEffect`, `UndefineEffect`, `StartsAtBoot`, `ReadsBack` | holds |
| `freebsd` | `TypeOK`, `RcConfWhole`, `OtherFlagsKept` | holds |
| `live` | `TypeOK`, `Faithful`, `Fresh`, `OverflowNeedsChange`, `CallReturns` | holds |
| `ncftool` | `TypeOK`, `ArrayLargeEnough`, `BridgeOrder`, `PrintsOwnError`, `ExitStatus`, `ListTrue`, `PortsRan`, `CommandReturns` | holds |
| `run_program` | `TypeOK`, `CompleteOnSuccess`, `Returns` | holds |
| `netcf` | `TypeOK`, `RefExact`, `NoDangling`, `NothingLeaks` | holds |

What the violated ones show:

- `trans_boot`: the snapshot directory is made first and filled later. After a crash in
  between, the rollback at boot removes the files that had not been copied.
- `trans_retry`: a rollback erases snapshot copies as it goes. When a later `cp` fails, or
  the `rm` of the directory after all is restored, and rollback is called again, what it had
  restored looks new and is removed, with exit status 0. `netcf.h` says that it reverts to the
  snapshot.

Other disagreements that the models contain, and that their properties except by name:

- FreeBSD: undefining `em1` removes the lines of `em10`, which contain its name. The comment
  at `drv_freebsd.c:451` says "We write everything less interface in question to a temp file".
  `RcConfWhole` compares names whole; an undefine of an interface whose name is part of
  another's (`Nested`) sets `spoilt`, and the property fails if it does not.
- FreeBSD: the lookup by address leaves a reference for each interface that does not match
  (`drv_freebsd.c:900-905`), after which `ncf_close` fails for ever. `tests/test-freebsd.c:115`
  asserts a count of 1 once the handle is freed. `RefExact` is about the Red Hat driver. The
  same lookup stores a handle for every interface with the address, where `netcf.h:132-136`
  says that only `MAXIFACES` many are returned.
- Debian: a document with inet6 before inet reads back without inet, since the stylesheet
  looks for a family inet4 (`debian-put.xsl:84`); and an interface with start mode none reads
  back as onboot when the file has any `auto` stanza (`drv_debian.c:565`). `doc/debian.txt:11`
  says that the driver "should be able to read back any configuration that it has written
  out". `ReadsBack` says what does hold: everything else, and start mode none where there is
  no `auto` stanza at all.
- A commit between the `mkdir` and the `cp` of a begin makes `cp` create a plain file named
  like the snapshot directory. Then begin is refused (`test -e`), and so are commit and
  rollback (`test -d`).
- The name of a nameless VLAN is set from a variable that is still NULL: with Red Hat's
  driver an old file of another name is not removed, with Debian's the save fails.
- `waitret = waitpid(...) == -1` loses the result; a lost child's status is whatever was on
  the stack.
- Debian: undefining an interface takes the other names of its `auto` line with it, and
  misses its name further back in another.
- `drv_if_down` returns 0 with the ports of a bridge still up when the configuration cannot
  be loaded; `drv_if_up` then starts a program that nobody waits for.
- FreeBSD: two undefines at once, or a full disk, leave a mutilated `rc.conf`, and both
  calls return 0; an up or down undoes what another program does to the flags between its
  two ioctls.
- ncftool prints an older error after a command that fails without a call.

Each property of a run that holds has a mutant, an operator next to the one it mutates
(`RemoveNewForgets`, `DrvEntryForgets`, ...), under which TLC finds the property violated.

### Bounds

- Transaction: two files and two contents give all four cases of the restore loops next
  to each other (same, changed, new, missing) and an order between two files; one crash
  and one failing command fall at every point, and every retry after them is explored.
  `Keep` is 1 (or 0) where the code has 20, with a clock of one or two seconds, so that
  pruning happens. The proofs are for every value.
- Driver: seven names and eight documents (nameless VLANs among them) over three configurations (empty, the one of the
  driver's tests with a file found by address and a decoy, and a bond as the port of a
  bridge in misnamed files); one failing step and one foreign change, at any point.
- `run_program`: a pipe of two blocks and up to three blocks of output: the child does
  meet a full pipe. Statuses 0, 1 and 199.
- Instance: two interfaces, an array of two entries, three addresses for handles, five
  references: a lookup can fail after none, one or two handles, with an array from before.
- Live state: two calls (the second starts from used caches) and two changes of the kernel
  anywhere in them, which is what it takes to close a circle; four names, of which a bridge,
  its VLAN port, the NIC below and a VLAN on top use all, and so do a NIC, two VLANs on top
  of each other and a bridge.
- Debian: three calls, so that a failed define can be followed by two others; one failing
  step, one foreign change; files with two-name `auto` lines, both families, and nested
  bridges.
- ncftool: two commands (an error of the first can show in the second), one failure, two
  changes by others; a bridge with two ports, one, or none; each choice of flags for `list`.
- FreeBSD: two processes and three calls (two that overlap, and one that finds what they
  left), one failure or kill, one change by another program; flags in both halves of the
  word, with the sign bit of either; three interfaces, of which one's name is part of
  another's, so that an undefine of `em10` must keep the line of `em1`.

### Fairness

`Terminates` assumes weak fairness of each running shell (a process that can run is
scheduled) and that init runs the script after a boot. `Returns` assumes weak fairness
of the caller's thread, of the child, and that a daemon that inherited the output closes
it in the end: `fread_file` reads to the end of the file and `run_program` has no
timeout, so this is what the code relies on of ifup, ifdown and the script. No fairness
is assumed of failures, signals or other threads. `CallReturns` assumes weak fairness of
the steps of a call to the live state and nothing of the kernel; `CommandReturns` of the
steps of a command, which includes that ifup and ifdown end.

### The refinement

`Transaction` implements `AbstractTransaction` for one client without faults. While a
rollback restores, the abstract configuration is already the saved one (`base`); the saved
configuration appears when begin has copied everything, and is gone when the restore
loops start or the directory is removed. With faults or with several clients it does not
hold, as the violated runs show.

## Proofs

All are checked by TLAPS to the last leaf, and hold for every value of the constants that
the named `ASSUME`s of the modules allow. The inductive invariants were checked with TLC on
the bounds above before they were proved.

`TransactionProofs`
- `TypeCorrect`: type correctness, for any number of clients, files, crashes and failures.
- `RollbackRestores` (`Restored`) and `NothingLost` (`DiscardsArchived`): for one client and
  init, with any number of files, crashes and failures. With two clients they are false:
  nothing keeps another process from changing files during a rollback.

  Neither is inductive. `IInv` adds that at most one process runs (`Alone`), and for that
  process one formula per phase: before the restore loops the snapshot still is the goal;
  during the archive loop each file not in `todo` is archived as it is; in the restore
  loop each file not in `todo` is the goal's, or still in the snapshot and absent, unless a
  failure is noted in `ret`; in the refill loop each file not in `todo` is the goal's. The
  proof has one step per action.
- `SavesStayBounded` (`ArchiveBound`): for any number of clients, crashes and failures there
  are never more saves than `Keep`, one for each client and one for each command that
  failed. A failing `rm` leaves a save behind, so the bound counts failures; `BoundInv` counts
  a save together with the processes that are about to prune.

- `Refinement` (`RefinesAbstract`): for one client (`OneClient`) without crashes and failures
  (`NoFaults`), every step of the script is a step of `AbstractTransaction` or changes nothing
  that it shows. The mapping reads the configuration from `base` while a rollback restores;
  `RefInv` ties the snapshot, the files and `base` together in each phase. The fairness of
  `AbstractTransaction` is none, so this is the whole refinement; that the script ends is
  `Terminates`.

`RunProgramProofs`
- `TypeCorrect` and `SuccessIsComplete` (`CompleteOnSuccess`): for pipes and outputs of any
  size and any exit statuses. The invariant carries the facts from where they arise to the
  last step: end of file means no writer (`Drained`), a child that lives holds the write
  end (`ChildHolds`), status 0 means everything written (`Written`), and `ret` is 0 only after
  a status of 0 was seen (`ZeroSeen`).

`DrvRedhatProofs`, for any names, documents, starting configurations, failures and changes by
other programs
- `TypeCorrect`.
- `DefineReplaces` (`DefineEffect`), `UndefineRemoves` (`UndefineEffect`), `DescribesWhatWasDefined`
  (`DescribesDefined`), `FilesFit` (`Fit`) and `ListsTop` (`ListsTopLevel`).

  None of them is inductive. `RInv` says for each phase of a call what the tree is in terms of
  the files that the call loaded (`before`): while names are removed it is `before` without the
  files under the names so far (`Kept`), then that with the document's files so far (`With`),
  during the save the files are the tree but for those still to be written, and before the save
  the files are untouched, which is why a call that fails there does no harm. Between calls the
  files are tidy (`Tidy`) and their bonds have aliases (`Aliased`).

  The lemmas carry the weight. `AboveIsUp`: in a tidy configuration what stands above a file is its
  device, its bridge or bond and the bridge of its bond, which is as deep as the path
  expressions of `rm_interface` look. `RemoveKept`: the removals may come in any order, since the
  files that lead from a slave up to its bridge are removed no earlier than the slave.
  `KeptTidy` and `DefinedTidy`: removing and defining keep a configuration tidy. `ForestShape`: what the
  stylesheet makes of a document. `PathOfDevice`: the canonical file of a device is a file of that
  device, found by name, address or `DEVICE`.

`DrvDebianProofs`, for any names, documents of the schema, files, failures and changes by other
programs
- `TypeCorrect`, `DefineReplaces` (`DefineEffect`), `UndefineRemoves` (`UndefineEffect`), `BootKept`
  (`StartsAtBoot`) and `DefinedReadsBack` (`ReadsBack`).

  `DInv` says for each phase of a call what the tree is in terms of the file that the call
  loaded: without the names removed so far (`Kept`), then with the stanzas of the document behind
  (`Defined`). Before the save the files are as loaded, in the save a file is the tree's or still
  to be written, unless another program came in between. That every file which the driver loads
  has a name in each stanza is kept along, since only such a tree can be saved: from it follows
  that a define which succeeds had a name in its document.

  What `Select` and `FlattenSeq` compute is proved first, by induction over sequences stated for
  sets (`SeqSet`: a set of sequences that has the empty one and is closed under `Append` has all)
  from the natural numbers as a set (`NatSet`); that a recursive function exists is
  `RecursionExists`. From these: removing one name after another is removing them all
  (`RmMore`), and selecting one name from what is kept or put gives its old or its new stanzas
  (`StanzasKept`, `StanzasDefined`). `DefinedReadsBack` goes through both stylesheets: `GetIface` is the
  stanzas of the root and one for each port that is a bond or a VLAN (`GetIfaceParts`);
  `aug_get_xml` finds the root's first (`ReadStanzas`), the ports under their own names and no
  others (`PortRead`, which needs that no device comes twice), and the families in the order of
  the protocols (`ReadProtos`). It leaves out inet behind inet6, and start mode none next to an
  `auto` stanza: there the code does not do it, as said under the disagreements.

`NetcfProofs`
- `TypeCorrect`, `ReferencesExact` (`RefExact`), `NothingDangles` (`NoDangling`) and `NoLeaks`
  (`NothingLeaks`): for any number of interfaces, entries of the array and handles. `RefExact`
  speaks of the moments between calls and is not inductive. `Pointers` says of the array
  within a lookup that its entries so far are handles which exist, differ and are not yet the
  caller's, that the entries from the index on are NULL while handles are made and those
  before it while they are released; without the clearing of the array it is false. `Count`
  adds that with the Red Hat driver there are no other handles than these and the caller's, and
  with either one the count is greater than their number. `Life` ties the flags to the count,
  `Owned` bounds what can be acquired, and `CloseAll` shows that `drv_close` gives all of it
  back.

`LiveStateProofs`, for every set of links and names, every initial network and any number of
changes of the kernel anywhere in a call
- `TypeCorrect`, `DocumentFresh` (`Fresh`), `OnlyChangesOverflow` (`OverflowNeedsChange`) and
  `CallFaithful` (`Faithful`).

  The invariant `LInv` has a part for the kernel (`WellFormed` is kept by each of its changes),
  one for what was read (`Read`: the caches are of moments of the call) and one for the walk
  (`Walk`: each path went from part to part, an index belongs to its name in the cache). The
  hard part is a type that is put together from three reads: `StatOK` says that what the
  earlier reads excluded still is excluded or that the name was nobody's for a moment,
  because a name passes from one link to another only through a state where no link has it
  (`Evolves`). That a recursion over one state ends is a pigeonhole argument: a path longer
  than there are names has a name twice (`ShortPath`), which makes a circle (`NoCircle`).
  `CallFaithful` adds `Full`, for calls that saw one state: an element's parts are all met
  (`Covered`), so that a least prefix of a path that was not met cannot exist (`AllPaths`).

`NcftoolProofs`, for any names, configurations, changes by others and failures
- `TypeCorrect`, `ArraySuffices` (`ArrayLargeEnough`), `ListsQualified` (`ListTrue`), `BridgesInOrder`
  (`BridgeOrder`), `AllPortsRun` (`PortsRan`), `OwnErrors` (`PrintsOwnError`) and
  `ExitsWithStatus` (`ExitStatus`). One invariant for each: `ListInv` (the array is
  as large as the count of this command and holds names that its options asked for in it), `OrderInv` and `PortsInv`
  (which programs ran, and that the rest is in `todo`), `ReportInv` (an error that is noted is
  this command's).

`DrvFreebsdProofs`, for any number of processes, calls, files and failures
- `TypeCorrect`; it needs that a free inode is left for every new `rc.conf.tmp`, which counts
  inodes in use against calls.
- `KeepsOtherFlags` (`OtherFlagsKept`), for every word of 32 bits: splitting, joining, the change
  of the lowest bit and splitting again give back all other bits, whatever the signs of the two
  fields are, and what a process has read agrees in them with what is there, unless another
  program changed it since.
- `RcConfStaysWhole` (`RcConfWhole`): while one process copies, `rc.conf.tmp` holds the kept
  lines of those that were read, line for line (`Clean`), whatever an earlier call left there.
  That the lines `strstr` drops are those of the interface needs that its name is no part of
  another's (`DropsOthers`).

Assumptions. Bounds are natural numbers, markers such as `None` differ from the values they
stand next to, sets of names, links and clients are finite. Beyond that: the initial
networks of `LiveState` are well formed as the kernel keeps them (`NetsAssumption`); in
`Ncftool` no bridge is its own port (`PortsAssumption`); exit statuses are in 0..255; and
`OneClient`, `NoFaults` where stated.

`DrvRedhat` assumes of the files that the driver finds, at the start and after a change by another
program between calls, that they are `Tidy`: a file has a `DEVICE` and is not both a port and
a slave; bridges and bonds that files name are configured and nest no deeper than the schema
allows; files of one device agree; and a file that is not named after its device is not named
after another device, of the configuration or of a document, nor found by the address of
one. The code relies on each of these. It takes `ifcfg-<name>` for the file of the device
without a look at `DEVICE`, it takes the last of the files with an address, it looks two
levels deep, and it overwrites `ifcfg-<device>`. Of documents it assumes the schema, that no
device comes twice and that a VLAN with a name is named after its device and tag
(`Document`), that a device which one document leaves nameless is no bridge or bond in
another, and that a document gives no NIC the address of another one whose file has some
other name (`DocsAssumption`). A file of a nameless VLAN must have its own name, because the
driver does not remove the one it had (see the disagreements above). `TypeCorrect` uses none
of this but the types. The starting configurations and documents of the run satisfy all of it;
TLC evaluates the assumptions.

`DrvDebian` assumes of the files that they are what the lens reads (`FilesAssumption`: an `auto`
stanza has a name, every name is non-empty, only bridges and bonds have ports or slaves), and
of documents the schema, that no device comes twice and that a VLAN with a name is named after
its device and tag (`DocsAssumption`). Nothing is assumed of how stanzas fit together.

Only model-checked: the liveness properties `Terminates`, `Returns`, `CallReturns` and
`CommandReturns`, since fairness is outside the prover's reach. Every other property of a run
that holds is a theorem.

## Not modelled

- The SUSE driver: the calls of the Red Hat driver over ifcfg files of a third layout
  (`BRIDGE_PORTS`, `BONDING_SLAVE_n`, `ETHERDEVICE`). It needs operators of its own for the
  paths and for `suse-get.xsl`; the rest of it is shared with what is modelled.
- `drv_if_up` and `drv_if_down` of the Debian driver, which run one program each: the case of
  `Ncftool` without ports.
- FreeBSD's `drv_define`, `drv_xml_desc` and `drv_xml_state`, which print and change nothing, and
  its `list_interface_ids`. The latter, when it is called to count, allocates room for one
  pointer and stores the names of all that qualify behind it (`drv_freebsd.c:216-220`): what
  happens then is outside the language, and there is no state to model after it.
- The Windows driver is mostly stubs; ncftransform and `xslt_ext.c` are formatting;
  gnulib is vendored.
- A power failure after FreeBSD's `rename`: nothing is synchronised to disk, and what is
  left depends on the file system.
- Threads that share an instance: `ref.h` says that counts are not thread safe, so the
  models have one thread per instance.

## Plan

1. Done: the transaction, the Red Hat, Debian and FreeBSD drivers, programs, instance, live
   state and ncftool, their runs; proofs of every invariant, every action property and the
   refinement.
2. A composition of the driver with `AbstractTransaction`: the modprobe aliases are not part
   of the snapshot and so are not rolled back.
3. The SUSE driver as a variant of `Ifcfg`.
