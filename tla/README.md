# Verification project for the Neufbox firmware

The repository is the firmware of the Neufbox routers (NB4, NB5, NB6): an
OpenWrt tree (`openwrt/`, `packages/`, `broadcom/`, `atheros/`, vendored) and the
vendor's own programs and scripts under `efixo/`. This project models the
control logic of the `efixo/` part in TLA+, checks it with TLC on small
instances and proves the central invariants with TLAPS.

## 1. The system's parts

| Part | State it keeps | Operations | Interacts with |
|------|----------------|------------|----------------|
| `efixo-libnbd` (`lib/core.c`) | one link (socket + mutex) per process to the configuration daemon `nbd` | `nbd_open`, `nbd_close`, `nbd_query`, `nbd_query_new` | the daemon; every other program of the box |
| block hotplug script (`hotplug.d/block/10-mount`) | queue files, locks, the mount table | one instance per kernel event: queue, elect a master, mount/unmount, restart services | kernel, `init.d/services`, web UI, samba, ushare |
| 3G dongle script (`hotplug.d/tty/30-tty-3gDongle`) | `gprs_device_state`, links in `/dev/backup3g`, a lock | one instance per tty: add, remove | kernel, nbd status, `backup3g` |
| network scripts (`defaultroute`, `dhcp/*.script`, `ppp/*`, `init.d/data`) | per-link and default-route status keys in nbd, routes, iptables rules | link up/down, default route election, data service start/stop | nbd status and events |
| rescue system (`rescue/usr/sbin/autoconf.sh`, `upgrade.sh`) | downloaded images, flash partitions | discover a route, download, verify, flash, reboot | DHCP/PPP scripts |
| `efixo-api` (REST API) | list of token sessions | `getToken`, `checkToken`, private methods, cleaner | libnbd, the auto-login button |
| `efixo-libewf`, `efixo-www` (web UI) | sessions, page table, theme, signal actions | one FastCGI request at a time; SIGHUP reload | libnbd, hotplug script |
| `efixo-libetk` (`fifo.c`, lists, dictionaries, devices) | byte ring buffer with wrapping indices | in, out, peek, skip, records | one reader and one writer thread |
| `efixo-libnbu` (`list.c`) | cyclic doubly linked list with an internal iterator | insert, delete, iterate, sort, serialize | api, ewf |
| `efixo-lan-topology` | poll timer, three plugins | poll, netlink, SSDP and PLC events | kernel's neighbour table, adapters, libnbd |
| `efixo-bcm53xx` | the switch's ARL table | entry lookup/setup, multicast add/del, diffserv | MDIO |

Behaviours that are hard to test: script instances and threads that interleave;
the nbd daemon dying in the middle of a query and the client's reopen loop;
answers larger than the caller's buffer; ring-buffer indices that wrap;
replugged devices whose old removal is still queued; downloads that continue
the partial file of another release, and power that fails while the flash is
being burnt; status keys read by one script while another clears them; ttys of one
dongle that come and go while scripts count them; signals, lost frames and failed
queries in a daemon that must go on polling; rules deleted by what the keys say
now instead of what was added; loops that delete from the list they go through.

What makes each part correct:

- libnbd: the mutex protects the descriptor; a call reads its own answer; a
  call returns; no descriptor leaks.
- block hotplug: one master per queue, no event lost, services restarted after
  the last change of the mount table, the mount table follows the plugged devices.
- ring buffer: one reader and one writer without a lock see a bounded queue.
- rescue system: only verified images are burnt, all of one release, and the box
  gets back to its main system.
- default route, data service, 3G: when nothing more happens, the configured
  route is that of the best link that is up; backup3g runs exactly while a whole
  dongle is plugged.
- lan-topology: it polls on time, never blocks, and its table follows the LAN.
- list: each operation does to the sequence what its name says; nothing leaks and
  nothing that was released is referred to.

## 2. Modules

| Module | Models | Kind |
|--------|--------|------|
| `HotplugMount` | `main/etc/hotplug.d/block/10-mount`, `boot` of `init.d/services` | component |
| `NbdLink` | `efixo-libnbd/src/lib/core.c` | component |
| `ByteQueue` | what the ring buffer promises | abstract specification |
| `Fifo` | `fifo.c`, `etk/fifo.h`, `etk/math.h` of libetk: byte operations | component, implements `ByteQueue` |
| `FifoRec` | the record operations of the same files | extends `Fifo` |
| `RescueUpgrade` | `rescue/usr/sbin/autoconf.sh`, `upgrade.sh`, DHCP and PPP scripts | component |
| `DefaultRoute` | `defaultroute` and the DHCP and PPP scripts of the main system | component |
| `DataService` | `main/etc/init.d/data` | component |
| `TtyDongle` | `gprs/etc/hotplug.d/tty/30-tty-3gDongle` | component |
| `ListSeq` | what the list promises: a sequence with a cursor | abstract specification |
| `NbuList` | `list.c`, `nbu/list.h` of libnbu | component, implements `ListSeq` |
| `LanTopology` | `lan-topology.c`, `neigh.c`, `plc.c`, `ssdp.c` | component |
| `HotplugMountProofs`, `NbdLinkProofs`, `RescueUpgradeProofs`, `DefaultRouteProofs`, `TtyDongleProofs`, `LanTopologyProofs`, `DataServiceProofs`, `FifoProofs` | | theorems |
| `MCHotplugMount`, `MCNbdLink`, `MCFifo`, `MCFifoRec`, `MCRescueUpgrade`, `MCDefaultRoute`, `MCDataService`, `MCTtyDongle`, `MCNbuList`, `MCLanTopology` | | TLC instances |

`MC...` modules only give the constants of a component values for TLC.
Operators introduced by "Mistake:" are not part of a specification: they are
wrong variants of the action that follows them, used to check that the
properties are able to fail.

### HotplugMount

The kernel starts one instance of the script per add or remove event. A script is
a process with a program counter; the queue file and the lock of a disk and a
direction are `file` and `lock`. `Lock`, `Push`, `Wake`, `MkMountPoint`,
`Mount`, `Umount`, `EndLoop`, `RestartService`, `Finish` follow the script from
top to bottom; what it does inside one critical section without any other script
being able to see it is one step, the mounts and the service restarts are steps
of their own because scripts of the other direction or another disk interleave
with them. `Plug`, `Unplug` are the kernel, `BootServices`, `ServicesUp` the boot
script, whose end decides whether services are restarted. Device names are model
values; whether a file system mounts is the constant `Mountable`. The test whether
a block is mounted is a `grep` for its mount point, which also finds those of
blocks with longer names (`Like`): for `/mnt/usb/sda` it finds `/mnt/usb/sda1`, the
`umount -l` that follows fails and sets no flag, and `rmdir` is tried all the same.
That is the only way this `umount -l` fails: a lazy umount of a mount point does
not, and no other script unmounts the block while this one holds the lock.

### NbdLink

`nbd_link` (descriptor and mutex) is shared by the threads of a process. Each
call is followed from its entry to its return: `Open`, `OpenLock`, `Connect`,
`ReadAck`, `CloseLink`, `Query`, `QueryLock`, `SendLen`, `ResendLen` (the second
write after the reopen loop), `SendBody`, `SendFailed`, `RecvRet`, `RecvCount`,
`RecvData` (caller's buffer, with the drop buffer), `RecvDataNew` (allocated).
A connection is two byte streams; an answer is a return code, a count and that
many bytes, each tagged with the query it answers. The daemon (`Accept`,
`Serve`, `Crash`, `Restart`) is not in the repository: it is modelled from the
client's side of the protocol. A value read from a stream that ended is
uninitialised in the code and any value in the model.

### ByteQueue, Fifo, FifoRec

`Fifo` has the fields of `struct fifo` with indices that wrap modulo `2^Bits`
(32 in the code); a copy is split where the buffer wraps and every access to an
index of the other side is a step. `ByteQueue` is a bounded queue; `Fifo`
implements it under the mapping `Contents(buffer, size, in, out)`. `FifoRec` adds
the records with length fields of one or two bytes, which the reader reads one
after the other (`PeekLow`, `PeekHigh`); its history variable `recs`
has the records put and not yet taken, each with the in index at which it was put,
so that `Layout` can say byte by byte what lies between the two indices. `early`
and `stale` mark a reader whose length was read from an empty fifo and was wrong
when it was used. With a `recsize` of 0 there is no length field and nothing of
records to say: `fifo_in_rec` and `fifo_out_rec` are then `FifoIn` and `FifoOut`
done whole or not at all, `fifo_skip_rec` is `FifoResetOut`, and `fifo_peek_rec`
returns the length, or the space left if `recsize` is no constant of the caller's
(`fifo.c:258`). `fifo_peek_rec` changes nothing and is left out. Assumptions: memory accesses
become visible in program order (the code has no barrier and relies on it);
`fifo_out_peek` is used with offset 0; a record is not longer than its length
field can say; the owner's operations (allocation, reset, serialization) run
when reader and writer are idle, as the header asks.

### RescueUpgrade

`autoconf.sh` is `ChooseLink`, `SetupRoute`, `FetchGeneral`, `FetchFirmware` in a
loop; `upgrade.sh` is `Wget`, `WgetGivesUp`, `Hash`, `Erase`, `Write`,
`CopyConfig`, `Reboot`. An image is `Parts` parts tagged with their release, so
a partial file, the mixture `wget -c` makes of it, and a torn partition differ.
`wget` is the box's patched busybox one: a stalled download (exit code 2) and one
closed early (3) keep the file, 416 on a finished file is a success, a server
without ranges overwrites from the start. `WanUp`, `DslUp`, `GatewayWritten`,
`Fall`, `AddressRemoved` are the link scripts, whose files appear and vanish one
by one while `setup_default_route` reads them. `PowerCut` loses `/tmp` and boots
the main system if its partition is complete, else the rescue system again,
which erases the configuration. Left out: the arguments of the requests, the
reports to the operator, the renewal of a lease (same files, same values),
sleeping times.

### DefaultRoute

A link script is `Bound`, `SetAddress`, `SetAccess`, `StatusUp`, `Notify` on the
way up and `Down`, `ClearGateway`, `StatusDown`, `Notify` on the way down: one
action per status key that `defaultroute` reads, since every `status set` is a
query of its own and the link scripts do not take the lock. Every event starts an
instance of `defaultroute` (`Start`, `Lock`, `Test`, `ReadAccess`, `ReadGateway`,
`Configure` or `Deconfigure`). `Links` are the links the box has (`/etc/adsl` may
be absent). `Configure` is one action although it sets several keys: nobody else
writes them, and a link that loses its address in the middle has the same effect
before or after. The infra string is the access and the kind of link; the access
keys of voip, adsl and gprs are set by no script of the repository and keep their
initial values, which `init.d/data` knows as `adsl/ppp` and `gprs/ppp`. A lease's
domain is on the list of one access at most. The kernel (external) drops the
route with the address and refuses a gateway it cannot reach. Left out: netmask,
broadcast and DNS fields, which are read and written like the gateway, the
`answer` key, logs, and the services restarted afterwards.

### TtyDongle

One process per tty that comes or goes. `Ttys` are the `NB_MAX_TTY` ttys of a
supported dongle, `Others` those of other devices, which come and go at will; the
table of vendors and products is `Role`, the link a tty gets, none for a device it
does not know, and a link of the dongle's for a tty of a second supported one
(which is taken to have as many ttys; one model of the table has 5 instead of 4).
An add stops at an unknown tty, and at any tty while there is a device; a remove
tests neither, so the removal of any other tty withdraws the dongle that is in
(`dismissed` records it) and nothing starts backup3g again before it is moved.
`grep` finds a tty's own link only: no tty name is the beginning of another's, as
with fewer than ten ttys.
`TestState` is before the lock, `Link` and `CountAndUnlock` in the protected
zone, `SetProfile`, `SetAvailable` and `StartBackup3g` after it; a remove is
`RemoveLink`, `Withdraw`, `ResetProfile`, `StopBackup3g`, or `RemoveDirectory`
after the lock. `nbctl async_run` returns before backup3g has run: the start is
one late step of the script that asked for it, the stop has a step `Stopped`
after the lock is back. backup3g itself is not in the repository; that it starts
only with a device that is available is what `init.d/services` says of it. `hasty`
records that the dongle was moved, or another tty removed, before the scripts of
the dongle's last move were through or before nbd was up, or that a second dongle's
tty came while there was no device.

### NbuList, ListSeq

The list record has the links of every node, the count, the iterator and the
terminator; `heap` and `value` are the nodes and data that are allocated, so a
leak or a use after release shows. The operations keep the structure of the code,
its NULL cases included: a list that was never used has NULL links, one that was
emptied has links to its own root node. A loop of `list.h` is `for_each_start`,
`_test`, `_step`, `_end`, with deletions and insertions in its body; loops that
call `nbu_list_get_at_index` on the same list, which would move the only
iterator, are left out (no caller does). `dangling` records that the iterator's
node was freed by `nbu_list_delete_begin` or `_end`; programs do not use it then.
Serialization is followed by destruction and unserialization of the same buffer
(`reload`). `nbu_list_sort` gives both lists the void terminator, so that the
sorted list never releases its data: `Released` claims the release only before
the first sort. `nbu_list_sort` and `nbu_list_unserialize` do not look whether
their insertions found memory: the element is then lost (`short` records it), and
after an unserialize its datum too (`orphans`). Nor do they test the memory of the
new list or of a datum; the NULL they then use ends the program, and is left out.
`ListSeq` describes insertions, deletions, moves, a sort that yields any stable or
unstable sorted arrangement of the same values, and a reload; only if memory ran
out, which its variable `short` says, may the last two lose some.

### LanTopology

`Wake` is the return of `pselect`, `neigh_poll` and `plc_poll` the polls,
`neigh_event`, `plc_event`, `ssdp_event` the handlers of the descriptors that were
set, in the order of the plugin list, `Again` the start of the next wait, `Signal`
the `EINTR` branch. Dates are kept relative to the last poll, which makes the
state finite: `since` is the clock, `nowp` the variable `now`, `left` what remains
of the timeout. The kernel's neighbour table, the adapters, the set-top boxes and
the tables of nbd are external: an entry changes and is notified, a full netlink
queue loses the message, `ip neigh add` fails on an existing entry, a null
address removes a host. A lost frame, a failed write of one, a lost message, an
entry nbd refuses, a query that fails and a table that cannot be parsed are faults,
`MaxFaults` of them. `neigh_poll` does not initialise the pointer `s`, and
`nbd_query_new` sets it only if it can send and read: after a failed query it
holds what was on the stack, and the daemon dies of it (`pc = "dead"`; nothing
restarts it) or goes on with any table, an empty one included. The three liveness
properties say what holds of a daemon that survives. When `s` happens to be NULL
the poll returns with the link to nbd still open; the next handler's `nbd_open`
finds it open and its `nbd_close` closes it, and the link, whose life `NbdLink`
has, is not part of this module. Time passes only
while the daemon waits and nothing is under way on the wire, since a unit is more
than a minute; for the same reason the LAN changes only while the daemon waits.
Left out: messages `my_rcv` ignores (other states, other networks), the contents
of frames, `setup` and the failures of initialisation, which end the daemon.

### DataService

`start` and `stop` read the keys one after the other (`Read`), so that `val` may
mix two accesses, then do the part that depends on the pid file of ppp on adsl
(`KludgeStart`, `KludgeStop`) and the rest (`SetUp`, `CleanUp`), which nothing else
sees. On adsl/routed the kludge stops or starts dhcpc and, in the same lines, sends
a HUP to the wrapper of ppp on adsl ("stop dhcpc + ppp"): `dhcpc` is both. Rules with
the same parameters are one element of a bag, since netfilter keeps duplicates
and `-D` deletes one; routes are refused if they exist and deleted only if they
match, those to the dns servers too. That start and stop alternate is the wrapper program's doing (external),
as is the publication of the keys by nbd. `moves` counts the changes under the
service. Left out: the flow cache disabled at boot, signals to the wrappers of tv
services and IPv6, the kernel's own removal of routes with an interface.

## 3. Runs

| Run | Bounds | Shows |
|-----|--------|-------|
| `hotplug_events` | 3 events, a disk as a whole, its partition and one of a second disk | `IInv`, `OneMaster`, `NoLostLine`, `ServicesCurrent`, `SpacedMatch`; `EventsTreated` |
| `nbd_shared` | 2 threads, 2 calls each, 3 connections, 1 crash, answers of 0 to 2 bytes, buffer smaller than the answer, failing malloc | `IInv`, `OwnAnswer`, `NoLeak`; `CallsReturn` |
| `nbd_return` | 1 thread | `ReturnDocumented` violated |
| `fifo_queue` | index width 2 bits, sizes 1 and 2 (3 rounded), writes of 0 to 2 bytes | `IInv`, `RaceFree`; refinement `ImplementsQueue` |
| `fifo_records` | index width 4 bits, capacity 8, length field of 2 bytes of 1 bit, records of 0 to 2 bytes | `RingInv`, `Layout` |
| `fifo_roundup` | index width 4 bits, size 5 | `RoundedUp` violated |
| `rescue_recovers` | 2 links, 2 releases, 2 parts, 2 tries, 2 failures, 1 fall, 1 power cut | `IInv`, `OnlyGenuine`, `InstalledTogether`; `BurnsWhenComplete`, `Recovers` |
| `default_route` | 4 links, 2 gateways, 3 events | `IInv`, `Settled`, `SpacedRoute` |
| `data_service` | 4 accesses, 3 starts, 2 changes under the service | `IInv` (with `ClampedOnce`, `DropsInv`), `Contained`, `SpacedData` |
| `tty_dongle` | 2 ttys, 1 unknown tty, 1 of a second dongle, 2 scripts at a time, any number of moves | `IInv`, `NotWithoutDevice`, `SpacedDongle`; `ScriptsEnd` |
| `list_ring` | 3 nodes, 4 data, 2 values, 2 insertions of a call without memory | `IInv` (with `Linked`), `Released`, `LoopSeesAll`; refinement `ImplementsList` |
| `lan_topology` | 1 host, 2 adapters, interval 2, timeout 3, queue of 1, 1 signal per interval, 1 fault | `IInv` (with `OnTime`, `NeverBlocks`); `GoneNoticed`, `PlugsFound`, `SilentSettled` |

Why the bounds are enough to be interesting: three events are an add, a remove
and a re-add of one partition, or two blocks of a disk and one of another, so
that two masters of different queues and a script that joins a queue meet; two
threads and one crash give a reopen while the other thread waits for the mutex or
stands in `nbd_open`; a 2-bit index wraps after four bytes, so that the runs go
round it many times with every alignment of the buffer; two releases and two
failures allow a mixed file followed by a failed burning, and one more than
`Tries` downloads is reached with two tries (five in the code); three events are a
link that goes down and up while another one's election is between its reads;
two changes under the data service mix an old and a new access in one start and
leave its rules behind for two more; two scripts at a time have an add and a
remove of one dongle race, and an instance may serve any number of events; three
nodes are the first, a middle and the last of a ring; an interval of 2 lets a
wake-up for data, a signal and the poll fall on different units.

Fairness. `HotplugMount`: weak fairness of every script instance and of the boot
script, which the scheduler gives; a script waits for a lock whose holder always
goes on. `NbdLink`: weak fairness of the threads and of a running daemon; nothing
makes a dead daemon restart, and `CallsReturn` holds all the same, since the
reopen loop is bounded. `RescueUpgrade`: weak fairness of the script and of a
link script that has begun; no fairness of the network, the flash or the power:
`Recovers` assumes that some link stays up from some time on, and the failures are
bounded by constants. `TtyDongle`: weak fairness of the scripts, and strong
fairness of the lock, since scripts may take it in turn; `lock` polls and gets it
in the end. `LanTopology`: weak fairness of the daemon; strong fairness of time
(it diverges whatever chatters meanwhile), of the answers and of the kernel, which
lets entries go stale, fails a probe and collects unused entries in its own time;
none of hosts, users and signals. Without the collection a silent host with a
stale entry would never be probed, as `ip neigh add` is refused. Deadlock checking is off where the system may rest: all
events treated, all calls made, all links at rest, or the rescue system left.

### What the violated properties show

- `ReturnDocumented`: the header promises 0 or -1; when the daemon dies after it
  received a query, `nbd_query` returns the positive length of its write.
- `RoundedUp`: `roundup_pow_of_two` shifts by the number of leading zeros, so
  that `fifo_alloc` gives a size that is not a power of two an unrelated one:
  smaller than asked for above half the word width, far too large below it.

### What the conditional properties leave out

Some properties hold only under a condition that a history variable records; what
happens otherwise was looked at with the property without its condition:

- `SpacedMatch`: the queues of the two directions of the block hotplug script are
  independent. A removal that is still queued can be treated after the re-add,
  and the plugged partition ends unmounted.
- `Layout`: `fifo_out_rec` reads the length field before it knows that there is a
  record; a length read from an empty fifo is applied to the record written
  meanwhile. Likewise `fifo_skip` tests the length and empties the fifo with a
  second read of the index, and loses bytes written in between.
- `SpacedDongle`: a dongle pulled out between the count and the publication is
  published after its removal, and stays available without being there; the next
  dongle is then ignored by `TestState`. backup3g is not started for it wrongly
  at rest only because its first `remove` stops it (`NotWithoutDevice`). A second
  dongle that comes while the first is withdrawn takes over its links one by one.
  That the removal of any other tty dismisses the dongle is not left out: it is
  what the property says.
- `SpacedData`: keys that change under the service leave its rules behind; the
  default route left in `lan_t` makes the one of the next start fail.
- `SpacedRoute`: see the hazards of `defaultroute` and `wan.script`.

## 4. Theorems

All are proved for every value of the constants, from the assumptions on the
constants only; two theorems about the ring buffer have a hypothesis of their own.
Every safety property of these eight components that a passing run checks is a
theorem. A property is seldom inductive as it stands: `IInv` of a
component is the strengthening that is, a conjunction of named parts that TLC
checks too, and the proof has one step per action and part.

- `HotplugMountProofs`: `InductiveInvariant`, and from it `SingleMaster`,
  `NoLostEvent`, `ServicesFollowMounts`, `MountsFollowPlugs`. One master per queue
  is not inductive alone: it needs that the lock is held exactly inside the
  critical sections (`LockInv`) and that a queue file exists exactly while it has
  a master (`QueueHasMaster`); that no event is lost needs in addition that the
  master's list and the file hold every line not treated. `ServedInv` says which
  restart is still ahead of a service that has not seen the current mount table.
  That the mount table follows the devices is a statement about rest; before, the
  lines a master has ahead of it are untreated lines of its own queue, each there
  once (`AheadInv`), and a partition that was left alone has at most one event
  under way, without which the mount table is right for it (`SpacedInv`).
- `NbdLinkProofs`: `LinkSafe` (`IInv`), `NothingLeaks` and `AnswersNotMixed`. That a
  query stays on the link it locked needs that the reopen loop runs only with the
  link closed; that nothing leaks needs that a reopen drops the socket it gives
  up, and takes out the links lost to the unlocked test of `nbd_open` by name
  (`lost`). That a call reads its own answer needs `StreamInv`: a connection number
  not used yet has empty streams (`FreshInv`), one that waits for its greeting
  carries nothing else (`GreetInv`), and on a link that no call marked dirty both
  streams are empty between two calls and hold only the current query and its
  answer during one (`CleanInv`).
- `RescueUpgradeProofs`: `UpgradeInvariant`, `FlashGenuine`, `RebootsTogether`, and the
  action property `BurnsVerifiedOnly`. The invariant says at each step of
  `upgrade.sh` which images are verified (`GetInv`) and which partitions already
  hold them (`BurnInv`), and that a description, however it was cut, is of one
  release (`DescInv`); the last is what makes the three images belong together.
- `DefaultRouteProofs`: `ElectionInvariant`, `RouteSettles` and `RouteFollowsLink`. That
  the published infra is right when all is quiet says nothing about the states
  before; `ElectionInv` says that another election is to begin (`Pending`: an event
  under way, or an instance waiting for the lock), or the one under way has read
  only what is still so (`Accurate`), or the last one was right. It is inductive
  because a link script announces every change of a link that is up after it
  made the change, and an instance reads only after it has the lock. That gateway
  and route are right too needs what a link leaves behind: the infra of a link
  that went down is forgotten once its last event was handled (`ForgottenInv`), a
  link that was given that time comes up with no election of its own under way
  (`ComingUpInv`), and while it is up what is read, published and routed of it are
  its own fields (`UpInv`).
- `TtyDongleProofs`: `ScriptsProtected` (types, every running script has its tty, and
  a script is in the protected zone exactly if it holds the lock),
  `StopsWithDevice`, which needs the types only (a withdrawal is always followed
  by the stop of the same script), and `DongleServed`. For the last the invariant
  says, for a dongle that was left alone, that the links are to its own ttys
  (`OwnLinks`), that its scripts are of one direction only, that every tty has its
  link or a script that will make it, and that once the links are complete the
  rest is done or a script is about to do the next of it (`Arrival` in
  `InsertedInv`), unless another device's script has dismissed it, which it can
  only do once the dongle has settled; then that one undoes it (`Dismissal`, as in
  `RemovedInv` for the way back).
- `DataServiceProofs`: `ServiceInvariant`, `StopUndoesStart` and `LeftoversBounded`.
  While the keys stay, the values read so far are those of now (`SpacedInv`), so
  that the deletions of `stop` are those of what `start` added; whatever the keys
  do, `ClampedOnce` and `DropsInv` hold, the latter by where the last kludge was
  (`Broken`). That each change under the service leaves at most the three rules of
  one start is not inductive: between two stops it is exceeded by a start. `LeftInv`
  says when it may be, namely only while `start` and `stop` have read nothing but
  the access of now and its rules are all in the bag, so that the next `stop` takes
  three copies away; any change that spoils this is counted in `moves`. The copies
  of a bag are counted as the finite set of its numbered rules (`Copies`), about
  which the theorems on cardinalities apply.
- `LanTopologyProofs`: `PollsOnTime`. That the next poll is at most an interval per
  signal away is inductive with `now <= clock`, `now < poll_date` and "`now` is the
  clock while a round runs"; that a handler finds something to read needs that
  nothing is taken from a descriptor between `pselect` and its handler.
- `FifoProofs`: `RingInvariant`, `ThreadsApart`, and the refinement `RingIsQueue`
  (`Spec => ImplementsQueue`), for any width of the indices. The last two assume
  that `fifo_out_peek` is given offset 0, since they are false otherwise (hazard at
  `fifo.c:243`). The argument:
  1. powers of two: `Exp2` is a recursive function; that it doubles at each step and
     is monotone is proved by taking the least counterexample of a set of naturals
     (`SetInduction`), whence the word is a multiple of every size and a rounded
     size is a power of two or 0 (`WordFacts`, `RoundupFacts`);
  2. modular arithmetic: `(in - out) % 2^Bits` is the number of bytes although both
     indices wrap (`DistFacts`), and an index and its value modulo the word have the
     same slot because the size divides the word (`SlotFacts`);
  3. the invariant: what was sampled is still there when it is used, since the
     other thread only makes more room or more data (`SpaceInv`, `DataInv`), and what
     was copied is in the buffer behind the in index (`WriteInv`) or still in front
     of the out index (`ReadInv`). The writer's slots and the reader's slots are
     apart because they are different distances from the out index, all less than
     the size;
  4. the refinement: copies touch no byte of the queue (`CopyKeepsQueue`),
     publishing appends exactly the bytes given (`PublishAppends`), advancing the
     out index drops a prefix (`AdvanceDrops`).

  The last section is about `FifoRec`, for every width of the indices and both
  length fields: `RecordsKeepRing` (`RecSpec => []RingInv`) and `RecordsWhole`
  (`RecSpec => []Layout`). `RingInv` is preserved whatever is taken for a length: the
  test of `__fifo_out_n` bounds any value by what the fifo holds, and the data
  only grows until the out index is published. `Layout` needs `RecInv`, which adds
  1. what the writer has put in front of its data when it publishes (`PokeInv`);
  2. that the reader's length is that of the first record, unless it was read
     from an empty fifo and is not used yet (`LengthInv`), for which a length is
     shown to be decoded as it was encoded when it fits in the field;
  3. that the records are apart from each other and from the free space (`Apart`),
     so that copies into the free space touch none of them, publication adds one
     at the end, and advancing the out index by the first record's length makes
     the second one the first (`LaidKept`, `LaidAppend`, `LaidDrop`). Positions are
     distances from the out index, which no wrap of the indices changes.

Only model-checked: the liveness properties (`EventsTreated`, `CallsReturn`,
`Recovers`, `ScriptsEnd`, `GoneNoticed`, `PlugsFound`, `SilentSettled`), since TLAPS
does not reason about fairness and ENABLED here; and `NbuList` with its
refinement `ImplementsList`. The ring of the list is seen through a walk along its
links, and sorting and reloading fold over the nodes: what these compute for a
ring of any length is an induction over data, which the provers cannot do. What a
recursive operator computes for every input is beyond them for the same reason;
the modules with theorems use recursive functions only.

## 5. Not modelled, and the plan

The closed programs (only their makefiles are here), the vendored OpenWrt tree
and drivers, the one-shot tools, the web pages and the formatting of the REST API
are left out: they are input and output around the parts above. The vendored
trees are nearly all of the repository's lines, so that what the modules cover is
a small share of them; of the vendor's own scripts and libraries with state it is
most.

- REST API and web user interface: one request at a time around libnbd and a
  list, which are modelled.
- Switch driver `bcm53xx`: register accesses over MDIO; what they do is the
  hardware's.
- libetk besides the ring buffer: wrappers around system calls.
- Of the rescue system: `OPTION3` of `autoconf.sh` is set when the PPP link is used
  and never cleared, so later rounds over another link send the arguments of PPP;
  the arguments of requests are not modelled.

Left of the plan:

1. Proofs about the list, as far as its links and its count (`Linked`) can be
   related without the walk.
2. `ArlTable` (lookup and setup of the switch's ARL entries) and `EwfCore` (request
   loop and SIGHUP reload of libewf).
