# A verification of node-disk-manager

TLA+ models of the node disk manager in this repository, the TLC configurations
that check them, and proofs for the TLA+ proof system. Paths are relative to the
repository; line numbers refer to the files as they are there.

## 1. The system

The disk manager runs on every node (a daemon set), keeps one `BlockDevice`
custom resource per disk and partition, and mounts a device where the resource's
spec asks for it. The program's own code is small; what makes it hard is that
four parties write the same objects (the workers of the controller, the udev
monitor, the registration at start, and users), that one process of the cluster
does the work for all nodes, and that the host changes while it is being read.

| Component | State | Operations | Talks to |
|---|---|---|---|
| BlockDevice resource (`pkg/apis/.../types.go`, `blockdevice.go`) | spec, labels, finalizers, status with conditions | `GetNewBlockDevices`, `GetPartitionBlockDevices`, `isValidFileSystem` | stored in the API server |
| Client, cache, informer, queue (`pkg/generated`, vendored lasso, wrangler, client-go) | objects with versions; a lagging cache; the dirty and processing keys | `Create`, `Update`, `UpdateStatus`, `Delete`, `List`, `Get`; watch delivery; resync every ten hours | API server; controllers |
| Block device controller (`pkg/controller/blockdevice`) | one object in hand per worker | `RegisterNodeBlockDevices`, `OnBlockDeviceChange`, `OnBlockDeviceDelete`, `SaveBlockDevice`, `SaveBlockDeviceByList` | cache and client, mount(2), scanner |
| Udev monitor (`pkg/udev`, vendored go-udev) | netlink socket, the reader goroutine and its channels, the stack of recursive retries | `monitor`, `ActionHandler`, `AddBlockDevice`, `RemoveBlockDevice`, `UpdateBlockDevice` | kernel, scanner, cache and client |
| Process life cycle (`main.go`) | phase: scanned, leading, registering, running | `run` | all of them |
| Leader election (vendored wrangler and client-go) | a record in a ConfigMap; what each process has observed, and when | acquire, renew, release, give up | API server; life cycle |
| Block scanner (`pkg/block`) | a snapshot from `New`, otherwise none | `New`, `GetDiskByName`, `MountExt4` | `/sys/block`, `/proc/mounts`, udev's database, `blkid` |
| Node controller (`pkg/controller/node`) | none | `OnNodeDelete` | cache and client |
| Options, generated boilerplate | none | | |

How they interact:

- `run` scans the host with `block.New`, waits for leadership, registers the
  snapshot against a `List` from the API server, starts the informers and the
  workers of both controllers and then, in a goroutine, the udev monitor.
- A worker takes a key, reads the object from the **cache** and calls two
  handlers in turn: `OnBlockDeviceChange`, which may mount and `Update`, and
  wrangler's finalizer handler around `OnBlockDeviceDelete`. The second handler
  gets the object the first returned if it returned one (only after a failed
  mount), and otherwise the old one. Longhorn's `Node` objects have the
  finalizer handler alone, around `OnNodeDelete`.
- go-udev's reader goroutine hands events and errors to the monitor over
  unbuffered channels. The monitor's handlers run one at a time, list the same
  cache, and write with `SaveBlockDevice`, which overwrites the spec as well as
  the status.
- Every `Update` carries the version of the copy it was made from, and the API
  server refuses it when that is not the stored one. That refusal is the only
  synchronisation between the writers, and between the candidates of the
  election.

What has to hold: no writer destroys what another wrote since it read; an object
marked for deletion stays marked, and goes; children go before the parent that
guards them, and a node's disks before the node; requests for mounts are carried
out, and the condition tells the truth; what udev reports ends up in the objects;
one process leads, and if it stops another one does; a scan that the host
changes under is still consistent. All this over conflicts, failed calls, lost
replies and restarts.

## 2. The modules

| Module | Models |
|---|---|
| `BlockDevice` | The resource, the objects a scan builds, `isValidFileSystem`, the `Mounted` condition. No variables. |
| `KubeApi` | API server, watch, cache, work queue: one operator per call of the client, one action per hop of a watch event. |
| `BlockDeviceController` | The workers, one action per step between two calls; the two `SaveBlockDevice` functions. |
| `UdevMonitor` | The socket, go-udev's reader, the stack of calls, one action per step of a handler. |
| `NodeDiskManager` | One node: start, registration, crash; users; the host. Composes the above: `Next`, `Spec`, `Fairness`. |
| `NodeDiskManagerProperties` | Every property of the one-node model, and what the proofs strengthen them by: `IInv`, `RemovalsAreDue`, `LabelsKnown`, `ChildrenListed`. |
| `Lifecycle` | Abstract: the stages of an object (absent, unguarded, guarded, terminating) as a user of the API sees them. `NodeDiskManager` implements it. |
| `LeaderElection` | The lease: the record, observations and clocks, renewals, lost replies, release, exit, crash. |
| `Leadership` | Abstract: a process begins to lead only while no other one leads. `LeaderElection` implements it. |
| `Cluster` | All nodes around one API server: the process life cycle, `OnNodeDelete`, and the handlers' treatment of other nodes' objects. Built on `Leadership` and `Lifecycle`. |
| `BlockScanner` | `getDisk`, file by file, against a changing host. |
| `MCNodeDiskManager`, `MCBlockScanner`, `*.cfg` | The instances TLC checks. `LeaderElection` and `Cluster` need no module of definitions. |
| `ControllerProofs`, `NodeDiskManagerProofs`, `ConcurrencyProofs`, `ActionProofs`, `LifecycleProofs`, `LeaderElectionProofs`, `ClusterProofs`, `BlockScannerProofs` | The proofs, section 6. |

The layers: `BlockDevice` < `KubeApi` < `BlockDeviceController` < `UdevMonitor` <
`NodeDiskManager`, each extending the one before. `Lifecycle` is instantiated
with the stage of each stored object for `life`, `Leadership` with the mode of
each process for `role`. `Cluster` uses the two abstract modules in place of the
detailed ones: several nodes at the detail of `NodeDiskManager` are out of TLC's
reach, and the refinements are what allows the exchange.

### State of the one-node model

- `store[n]` is the object in the API server. A device name also names its
  object (`util.GetBlockDeviceName` adds the node's name, and there is one node).
- `fresh` stands for `resourceVersion`: `<<h, n>>` is in it when holder `h` has
  the stored version of `n`. Holders are the workers, the frames of the monitor's
  stack and the start-up code. A write to `n` takes all other pairs of `n` out,
  and a copy read from the cache is fresh when no newer version is on its way.
  Only this question is ever asked of a version, so nothing is lost, and the
  state space has no counters.
- `watch[n]` holds the versions written and not yet delivered, `cache[n]` the
  informer's. The queue is the work queue's dirty set; the keys in process are
  the workers'.
- `worker[w]` is the worker's place in the code, its key, the object it was
  given, the copy it is about to save, and the children still to be deleted.
- `reader` is where go-udev's reader goroutine is: waiting for the socket,
  handing an event or an error to the monitor, or ended. `uevents` are the
  events of the socket and the one in the reader's hand, `overrun` says that the
  socket has dropped one and will tell at the next read.
- `frames` is the monitor's call stack: `AddBlockDevice` calls itself after a
  failed save and goes on, afterwards, with the rest of its own old scan.
- `mtab[d]` are the lines of `/proc/mounts` for `d`, oldest first, and `plugged`
  the devices the kernel has.
- A condition's message is kept as the error it is formatted from; two messages
  are equal when the strings would be. `LastFormattedAt` is a Boolean: set or nil.

### Correspondence worth knowing

- A `PUT` equal to the stored object writes nothing and produces no event. That
  is what ends the loop of failed mounts (`controller.go:115`), and why only the
  resync tries again.
- A fault (`Fault`) may strike before a write or lose the reply to it.
- `UpdateStatus` fails always: the CRD has `subresources: {}`
  (`manifests/longhorn.io_blockdevices.yaml:263`).
- `removeFinalizer`'s loop and `addFinalizer`'s append act on one finalizer, a
  Boolean here. `Cluster` likewise takes the disk manager's finalizer to be the
  only one of a `Node` object.
- Between the mount and the rescan (`MountDevice`, `Rescan`), and between the scan
  of an added device and the `List` of the cache (`AddScan`, `AddList`), the host,
  users and the other handlers go on.
- mount(2) fails with `ENOENT`, `EINVAL`, `EBUSY` or, by a fault, `EIO`; the
  error is part of the message. Left out: a directory that two devices share
  (mount(2) looks at the topmost one only).
- `DeepEqual` of a stored and a scanned object (`controller.go:174,197`) is never
  true, as a stored one has a UID; so the `Update` is always tried.
- After a failed save the nested `AddBlockDevice` of the model is cut at
  `MaxDepth`: there the call starts over instead of nesting deeper.
- If a fault hits the reply to an `Update`, the empty object the client returns
  has no UID and lasso does not pass it on (`sharedhandler.go:73-83`).
- `LeaderElection` keeps no record and no clock: `seen[p]` says that the record
  `p` last observed is the stored one, `age[p]` how long ago it did, and
  `since[p]` when `p` last renewed. These are all the comparisons the code makes
  (`leaderelection.go:338-345`). A `Get` that fails, or an `Update` that does not
  land, is a process that takes no step; one that lands and whose reply is late
  or lost is `call[p]`.
- In `Cluster` a process, its node and the node's `Node` object share a name; a
  disk is a pair of node and device. `uid[o]` tells an object from one that was
  created later under its name, which a cached copy and a job of `OnNodeDelete`
  can be older than. `Visit` stands for a worker's pass over a live object, with
  the mount reduced to "this host has mounted its device of that name".
- `BlockScanner` reads a field per step, in the order of `getDisk`, because
  udev's record and the device itself may change in between; the partitions are
  read in one step. Text is a sequence of characters only where the escapes of
  `/proc/mounts` are the question. Its scan is any call of `getDisk`: `disks()`
  passes over loop devices, which is in `Disks` of the one-node model, and
  `GetDiskByName` does not.

## 3. Fairness

`NodeDiskManager`: `Fairness` asks for what the runtime gives. Goroutines that can
run do (weak fairness of each worker, of the monitor, of go-udev's reader and of
start-up, which includes the daemon set's restart); watch events are delivered;
the informer's resync comes round. Taking a key has strong fairness per key,
because client-go's queue is first in first out: another key may be taken in
between, but not for ever. Users, the kernel, crashes and faults get none. A
handler's internal choice of which child to delete or which result a call has is
not fair either: faults are bounded by `MaxFaults` instead.

`LeaderElection`: time passes (`Tick`), processes run and are restarted, and
requests that have landed are answered. Signals, crashes and lost replies get
none. `Tick` waits for a deadline that is due and for a reply that is `MaxReply`
old; this is how "within 30 s" is said, and what `DurationAssumption` is about.

`Cluster`: each process is run (`Run`), each informer delivers each object, a
worker gets round to each terminating disk, and the removal of each node goes on
(`RemoveNode`). A removal is one thread: its steps follow each other, and a
failed one is repeated because the queue is given the key back.

`BlockScanner` has only safety properties.

## 4. Runs

Each property of a passing run has a mutant of the code, kept next to the
definition it replaces and marked as such, under which TLC finds it violated.

The one-node runs use a disk `sda` with one partition `sda1`, on which every
ordering between parent and child, and between two keys, shows. `Budget` bounds
what the process cannot influence (edits, deletions, plugging, mounts by hand,
crashes); `MaxFaults` bounds the failures of calls in `Faulty`, `MaxLag` (2) the
undelivered versions per object, `MaxEvents` the socket, `MaxDepth` the nesting,
`MaxSlashes` (1) trailing slashes. One undelivered version makes a copy stale;
two are enough for a copy to be stale and newer ones to be waiting.

Passing:

| Run | Bounds | Shows |
|---|---|---|
| `reconcile` | 2 workers (symmetric), edit, deletion, crash, fault | `TypeOK`; whoever may write holds the stored object; the cache never diverges; nothing the finalizer handler has to do is forgotten; users own specs; deletion is final; reconciliation keeps what others wrote; parents go after their children |
| `monitor` | 1 worker, edit, deletion, two (un)pluggings, nesting of 2 | the inductive invariants, who writes a spec with the monitor writing, and that every object lives the abstract `Lifecycle` |
| `terminate` | the disk plugged, two events (unplugging, plugging, offline), deletion, crash, a `Delete` that fails, nesting of 2, a socket for one event; events of `sda1` cannot be parsed | terminating objects go away; finalizers arrive; a stuck or panicking monitor does not stop them; received add and remove events are recorded |
| `mount` | edit, crash, two faults, one mount or unmount by hand, a partition without ext4 | requests are carried out, unless the object records the mount already; the condition converges |
| `election` | 2 processes, lease 4, deadline 1, retry 1, replies up to 1 tick, three mishaps | the inductive invariant, mutual exclusion (`Leadership` is implemented), and that some process leads again and again |
| `cluster` | 2 processes, one node with a disk and a `Node` object, one mishap, two requests | the inductive invariant; a removed node takes the disks along that its remover had listed; what is marked for deletion goes, whoever leads |
| `scanner` | 5 kinds of devices, 4 directory names, two mounts, three changes of the host | records fit the schema; udev's fields agree; the file system's type is seen; mount points read back |

`reconcile` has no plugging: `CascadeBeforeGone` is not true in general, since an
add event may create a child while its parent terminates, after the children were
listed. It is proved, below, under just that condition
(`NothingNew`), which `reconcile` meets; every other property of `reconcile` is
proved with the monitor.

`MountHappens` is about the mount and `ConditionConverges` about an object's
condition and record. Neither says that the record is true of the host: it is not,
as `lost_status` shows and as any unmount by hand makes it.

`terminate` starts from a plugged disk. Two events are then a disk that goes and
comes back, before or after its object has gone, one that goes offline, or a
partition that comes before the process scans and gets an object as the disk's
child. The crash and the user's deletion fall at any point of this.
`AddedHasObject` excepts devices whose object, or whose parent's, is being deleted
when they come: what happens to those is in the list below. The faults of this run
are those of `Delete` (`Faulty`): the retries of the deletion of a child and of
`RemoveBlockDevice` hang on them. That the saves of the monitor and of the workers
fail is covered by conflicts, and by faults of every kind in `reconcile` and
`mount`; with all of them this run takes TLC too long.

`election`: a renewal's period, its deadline and a reply of one tick each, and a
lease that is one tick longer than all three, are the tightest values
`DurationAssumption` admits; larger ones are covered by the proof. Three mishaps
allow a lost reply, a crash and a failed release in one history.

`cluster`: the second process only leads; it can take a removal over from the
first at every step, which is what two of them are for. One disk suffices, as the
disks of a removal are independent until its last step, and one mishap is a
crash, a lost lease or a failed request at any point of it. Two requests are a
deletion and a node that rejoins, or a second deletion, or a disk that comes back.

`scanner`: the devices are a hard disk with a partition, a virtual disk with a
file system on the whole of it and hardly any udev record, a Longhorn volume, a
card reader without a card, and a loop device. Three changes are enough to mount,
mount again and unmount, or for the record to appear and the device to go,
within one scan.

Deadlock is checked but in `cluster` and `foreign`: their budgets end, and then a
cluster in which everything is settled is at rest, as it should be.

Runs that show a disagreement of code and documentation (see "findings" in
`PROJECT.json` for the scenario and the line quoted):

| Run | What happens |
|---|---|
| `remount` | a changed mount point: mounted twice, condition False for ever |
| `lost_status` | mounted from a stale copy, save refused: status never tells |
| `offline` | offline is never recorded, and the monitor is stuck |
| `foreign` | the leader mounts its own device for another node's object |
| `detach` | a remove event deletes the object that its comment says is set to a detached state |

Also true of the code, visible in the definitions and without a run of their own.
The objects:

- A disk's object that is deleted before a worker gave it the finalizer is gone
  at once; the objects of its partitions stay (`controller.go:216`, `ApplyDelete`).
- Registration after a restart replaces `DeviceStatus` as a whole and with it the
  format stamp (`controller.go:200`), although `types.go:142` ties the stamp to
  the user's operation.
- The add event of a partition is handled as that of a disk: its object becomes,
  or is created as, a disk without a parent (`uevent.go:155`).
- A mount point that ends in two slashes never matches the recorded one
  (`controller.go:157` trims one): the condition stays False.
- A disk that is unplugged and plugged in again before its object has gone stays
  without one: the cached list still has the terminating object, `SaveBlockDevice`
  updates that and returns nil (`controller.go:173-183`), and nothing creates
  another when it is gone, although `uevent.go:146` has `AddBlockDevice` add the
  device. `AddedHasObject` has this as its exception (`Going`).
- A user's deletion of a BlockDevice whose device is still there removes the
  object, and nothing brings it back before the next start or add event.
- The children of a terminating disk are listed once (`controller.go:222`). The add
  event of a disk that has come back creates objects for its partitions, with the
  disk's label, and one created after that list was made stays when the disk's
  object goes (`NothingNew`).
- An add event that is late or repeated writes the scanned spec over the object's,
  and with it a mount a user has asked for (`SaveBlockDevice`, `controller.go:177`);
  `UsersOwnSpec` excepts `AddBlockDevice` for this reason.

The events:

- A device plugged in after `block.New`'s scan (`main.go:141`) and before the
  monitor listens gets no object, although `controller.go:56` says that
  registration scans the node (`BlockNew`, `RegisterNodeBlockDevices`, `Connect`).
- A device that vanishes while nobody listens keeps its object, and that says
  Active (`types.go:177`): registration does not look at objects without a device.
- When the socket overflows while the monitor retries, go-udev's reader goroutine
  ends (`conn.go:170-173`), the monitor logs one error and waits for ever
  (`ReadUevent`, `LogError`, `Deaf`).
- An event with a `=` in a value is refused as a whole (`go-udev/uevent.go:117`),
  and a device without an `ID_TYPE` of disk or partition, as virtio disks are, is
  passed over (`uevent.go:98`): `Garbled`, `Untyped`.

The cluster:

- Only the leader registers its devices (`controller.go:56` speaks of "the
  node"): the other nodes' devices get objects when their process leads.
- The lease is released before the process has stopped
  (`leaderelection.go:282-285`, against the warning of lines 147-153): for a moment
  the next leader and the old process both work. `Leadership` has the role "lost"
  for this, and `Cluster` lets a lost process go on.
- A `Node` object that is deleted before it has the finalizer takes nothing along,
  and neither does one whose BlockDevices have not reached the cache yet: the two
  informers are not in step (`node.go:66`).
- `OnNodeDelete` deletes by name. If the node rejoins meanwhile, an object that
  was created again goes in place of the one that was listed.

The scanner:

- `diskNUMANodeID` returns 0 or -1, never the node's number: it parses the file
  when reading it failed, and returns the number when parsing failed
  (`block_device.go:99-101`; `types.go:122` says "the numeric index of the NUMA
  node this disk is local to, or -1").
- A Longhorn volume that udev has not processed when its record is read is
  registered like a disk (`controller.go:63`; the choice `unsettled` of
  `BlockNew`). `Identified` is what is left of the filter.
- A disk whose `rotational` cannot be read is an SSD (`block_device.go:256`).
- A backslash or a `#` in a mount directory is not decoded: the Replacer knows
  `\\`, the kernel writes `\134` and `\043` (`block_device.go:457`).
- A partition that is not mounted has no type: `blkid` is asked for disks only
  (`block_device.go:222,277`), so its request is checked after the mount.

## 5. What the models leave out

In the one-node model: sizes, models, UUIDs and other descriptive fields, and
read-only mounts (they are in `BlockScanner`). Everywhere: durations, but for the
election's (backoff becomes "some time later"); rate limits; logging; a full disk
or API server. A `List` from the cache cannot fail, and the registration's `List`
failing is covered by `Crash`. Clock drift is part of `MaxReply`. In `Cluster`:
partitions, edits of specs, the monitor but for the add event of an unknown
device, and `RegisterSave`'s overwriting of an object that exists, which does not
change its stage. In `BlockScanner`: lines of `/proc/mounts` that are not a
device's, a `/proc/mounts` that cannot be opened, `/sys/block` that cannot be
listed, and partitions that come and go while they are read.

Not modelled: flags and options, which are read once into a struct, and generated
boilerplate (factories, scheme registration, deep copies; `UpdateNodeDeepCopyOnChange`
and the status handlers are generated and never called). Formatting is a TODO in
the code (`controller.go:107`): only the stamp exists.

## 6. Proofs

Everything here is proved for any set of devices and parents, any number of
workers or processes, any requests, budgets, durations and bounds, from the
assumptions named in the modules that declare the constants: `DeviceAssumption`
(partitions belong to disks, one level), `PathAssumption`, `NoObjAssumption`,
`LagAssumption`, `FaultAssumption`, `WorkerAssumption`, `UdevAssumption`,
`SystemAssumption` (workers, frames and start-up are different holders). For the
election, `DurationAssumption`: `RetryPeriod + RenewDeadline + MaxReply <
LeaseDuration`. With the 2, 30 and 45 seconds of wrangler's `RunOrDie` that says
that no reply is under way for 13 seconds or more. This is assumed, and the code does
not enforce it: client-go gives up waiting for a renewal when its context ends,
after the 30 seconds of `RenewDeadline`, and waits for an acquisition without limit
(`leaderelection.go:245,264`). A reply that comes later than assumed, after
another process has taken over, lets a process believe it leads beside the new
leader; nothing here covers that. For the cluster,
`ClusterAssumption`: the nodes with disks and with `Node` objects run a process.
For the scanner, what the kernel and udev put into files: `size` and the block
size are numbers when they can be parsed, and a record of udev says who the
device is (`SpecimenAssumption`); a file that is not there differs from any text
(`FileAssumption`); directories are spelled with single characters, so that an
escape in `/proc/mounts` is the kernel's (`DirAssumption`).

| Module | Theorem | States |
|---|---|---|
| `NodeDiskManagerProofs` | `TypeCorrect` | `Spec => []TypeOK` |
| `ConcurrencyProofs` | `InvariantHolds` | `Spec => []IInv` |
| | `CopiesCurrent` | `Spec => []CopiesAreCurrent` |
| | `CacheLags` | `Spec => []CacheCatchesUp` |
| `ActionProofs` | `DeletionFinal` | `Spec => DeletionIsFinal` |
| | `SpecsAreTheUsers` | `Spec => UsersOwnSpec` |
| | `ReconcileKeeps` | `Spec => ReconcileKeepsTheRest` |
| `LifecycleProofs` | `RemovalsDue` | `Spec => []RemovalsAreDue` |
| | `LifecycleImplemented` | `Spec => ImplementsLifecycle` |
| | `ChildrenGoFirst` | `Spec /\ NothingNew => CascadeBeforeGone` |
| | `NothingIsForgotten` | `Spec => []NothingForgotten` |
| `LeaderElectionProofs` | `LeaseIsHeld` | `Spec => []IInv` |
| | `LeadershipImplemented` | `Spec => ImplementsLeadership` |
| `ClusterProofs` | `PassedStayDeleted` | `Spec => []IInv` |
| | `NodesTakeTheirDisks` | `Spec => NodeRemovalCascades` |
| `BlockScannerProofs` | `RecordsFitTheSchema` | `Spec => []TypeOK` |
| | `OneRecordIdentifies` | `Spec => []Identified` |
| | `FileSystemIsSeen` | `Spec => []FileSystemSeen` |
| | `OldestMountReadsBack` | `Spec => MountsReadBack` |

The argument for one node:

1. `ControllerProofs`, first part: what the operators on objects and paths
   return, and what a call may do to `store`, `watch` and `fresh`.
2. `ControllerProofs`, `NodeDiskManagerProofs`: every step of a worker and of the
   monitor keeps the types. Types alone are not inductive: a worker about to
   save must have something to save. Hence `Ready` (a worker at `save` has an
   object and a copy, a frame and the registration have a scanned object for
   everything in `todo`) and `Asleep` (a process that is down has no workers,
   no reader, no frames, nothing queued). `Control == TypeOK /\ Asleep /\ Ready`
   is inductive, and `TypeCorrect` follows.
3. `ConcurrencyProofs`: `CopiesAreCurrent` needs the cache: a copy read from it
   is current because no newer version is under way, which is `CacheCatchesUp`.
   And it needs to know what `OnBlockDeviceChange` puts in place of the object it
   was given, when the save of a failed mount is passed on: `SavesKeepTheRest`.
   `IInv` is the conjunction. Each call of the API leaves the copies of all other
   holders right (`Kept`), since those of `n` become stale when `n` is written.
4. `ActionProofs`: by `CopiesAreCurrent` a successful write equals the stored
   object but for the fields the writer sets, so every step writes an object in
   one of six ways (`Written`); the three action properties are read off them.
5. `LifecycleProofs`: that is not yet enough for `Lifecycle`. The finalizer
   could be taken off an object that is not marked, and a marked object need not
   have one: `RemovalsAreDue` says that only guarded objects are marked, that
   `OnBlockDeviceDelete` and `removeFinalizer` have a marked and guarded object
   in hand, and that a scan brings in neither mark nor finalizer. With it every
   write is one of four (`DueWrite`), and each is a step of `Lifecycle` for that
   object, or none.
6. `LifecycleProofs`, the cascade. A guarded object goes in one way only: a worker
   of its own, at `unfinalize`, takes the finalizer off (`GoesByRelease`). So it is
   enough that no such worker has a live child, which is `ChildrenListed`: a live
   child is on the list of the worker that deletes, until it is deleted. The list
   is made from the cache, and the cache lags; but while nothing is created, every
   version of an object that the cache has, or that is under way to it, shows the
   label the stored one has (`LabelsKnown`). `NothingNew` is needed for both: an
   object that is created after the list was made, or of which the cache does not
   know yet, is on no list. The caches that a start fills know everything, so
   restarts and the registration are covered.
7. `LifecycleProofs`, nothing is forgotten. This is the safety half of
   `TerminationCompletes` and `FinalizerArrives`, and unlike them it holds for any
   number of faults. `NothingForgotten` is inductive beside `IInv` and
   `RemovalsAreDue`: a worker that attends to an object goes on with a copy that
   has work in it (`KeepsTheRest` for the one a failed mount returns), until its
   `Update`. If that goes through, the copy was the stored object, by
   `CopiesAreCurrent`, and the new one differs, so a watch event is on its way
   (`UpdateTells`) - an equal one would have written nothing, and told nobody.
   If not, the worker fails and `Done` puts the key back. A step that changes the
   cached object queues its key.

The argument for the election (`LeaderElectionProofs`): `LeaseHeld` says that
whoever leads, or will when its reply comes, is named in the record, and that
nobody else has observed the record for longer than its holder may have had it
(`Held`). Time preserves it, because the holder's own clock runs as fast; a
renewal makes a new record, which nobody has observed. A holder gives up at
`Window`, when an observer's age is at most `Window + MaxReply`: less than
`LeaseDuration`, so the record is not `Available` to it. Hence two processes
never hold, and a step to "leading" is `Leadership`'s `Lead`.

The argument for the cluster (`ClusterProofs`): `NodeRemovalCascades` speaks of
the step that releases the `Node` object, when nothing is left to delete, and so
of everything the removal has passed since it listed. `PassedAreDeleted` carries
that along: a listed disk is left to delete, or its object is marked or gone, or
another one has its name. By `Lifecycle` a marked object does not come back to
life, and one that is created gets a new UID. That the UID is new, and not one
listed ahead of time, needs `CachesLag`: no cache, and hence no list, has a UID
that has not been given yet.

The argument for the scanner (`BlockScannerProofs`): each field is read in a state
of its own, and then the host changes. What survives is what a field says of the
device however little was readable: `FieldsFit` for the schema; `RecordAgrees`,
that an identifying field is what the record says as soon as an earlier one was
read from a record and the device is still there, because a record that has
appeared stays as long as the device does; and `TypeSeen`, that a type once seen
is that of the device, mounted or asked of `blkid`. `ScanTypeOK` says how far the
scan is. `MountsReadBack` follows from the two steps that read `/proc/mounts`:
`Decode` undoes the kernel's escapes character by character (`PartitionInfoReads`).

Every invariant and every action property that a passing run checks is proved,
`CascadeBeforeGone` under the condition it needs, `NothingNew`.
Model-checked only: all liveness (under fairness, which is beyond the prover; that
includes `SomeoneLeads` and `DeletionCompletes`), and the violated properties.

## 7. Plan

Done: the modules of section 2, their runs, and the theorems of section 6.

Next, in this order:

1. The step that joins the levels: that the writes of the one-node model to one
   object, seen through `Lifecycle`, are those `Cluster` takes, job by job, for
   `OnBlockDeviceDelete`.
2. `NothingForgotten` for the mounts: which requests are left to the resync alone.
   No two workers have one key, which the proofs did not need.
3. A weaker condition than `NothingNew`: objects may be created as long as none
   is a child of one that is marked.
