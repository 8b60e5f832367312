---------------------- MODULE NodeDiskManagerProperties ----------------------
(***************************************************************************)
(* What is claimed about the disk manager.  Each run checks some of these; *)
(* NodeDiskManagerProofs, ConcurrencyProofs, ActionProofs and              *)
(* LifecycleProofs prove some.                                             *)
(***************************************************************************)
EXTENDS NodeDiskManager

Exists(n) == store[n] # NoObj
Live(n)   == Exists(n) /\ ~store[n].deleting

HandlingAdd == frames # <<>> /\ Top.event.action = "add"

-----------------------------------------------------------------------------
(* Control state, and the inductive invariant.                             *)

\* A process that is not up has nothing running, queued or under way.
Asleep ==
  /\ synced = (phase = "up")
  /\ ~synced => /\ queue = {}
                /\ watch = [n \in Device |-> <<>>]
                /\ worker = AllIdle
                /\ reader = "off" /\ ~overrun
                /\ uevents = <<>> /\ frames = <<>>

\* A busy worker has a key and the object its step works on ...
WorkerReady(s) ==
  /\ s.pc # "idle" => s.key \in Device
  /\ s.pc \in {"rescan", "save", "saveError", "children", "unfinalize"} => s.obj # NoObj
  /\ s.pc \in {"rescan", "save", "saveError"} => s.copy # NoObj

WorkersReady == \A w \in Worker : WorkerReady(worker[w])

\* ... and AddBlockDevice and the registration have the objects they save.
FrameReady(f) == \A n \in f.todo : f.scanned[n] # NoObj

FramesReady ==
  /\ Len(frames) <= MaxDepth
  /\ \A i \in DOMAIN frames : FrameReady(frames[i])

BootReady == \A n \in boot.todo : boot.scan[n] # NoObj

\* Nothing is used before it is there.
Ready == WorkersReady /\ FramesReady /\ BootReady

\* new differs from old in the condition and the file system's status only,
\* loses no format stamp, and neither is being deleted: what OnBlockDeviceChange
\* is about to save is related to the object it was given in this way.
KeepsTheRest(old, new) ==
  /\ ~new.deleting /\ ~old.deleting
  /\ new.parentLabel = old.parentLabel
  /\ new.finalizer = old.finalizer
  /\ new.spec = old.spec
  /\ new.state = old.state
  /\ new.deviceStatus.deviceType = old.deviceStatus.deviceType
  /\ new.deviceStatus.parentDevice = old.deviceStatus.parentDevice
  /\ old.deviceStatus.fileSystem.lastFormattedAt
       => new.deviceStatus.fileSystem.lastFormattedAt

SavesKeepTheRest ==
  \A w \in Worker :
    worker[w].pc \in {"rescan", "save", "saveError"} => KeepsTheRest(worker[w].obj, worker[w].copy)

-----------------------------------------------------------------------------
(* The state the writers depend on.                                        *)

\* A write goes through only when the copy it is made from is the stored
\* object; so whoever is still entitled to write an object holds exactly it:
\* a worker its obj, AddBlockDevice its list, the registration its list.
WorkersCurrent ==
  \A w \in Worker, n \in Device :
    <<w, n>> \in fresh => worker[w].key = n /\ worker[w].obj = store[n]

FramesCurrent ==
  \A i \in DOMAIN frames, n \in Device :
    <<i, n>> \in fresh /\ frames[i].pc = "save" => frames[i].list[n] = store[n]

BootCurrent ==
  \A n \in Device :
    <<Boot, n>> \in fresh /\ phase = "register" => boot.list[n] = store[n]

CopiesAreCurrent == WorkersCurrent /\ FramesCurrent /\ BootCurrent

\* The informer lags and never diverges: the last version it has or has still
\* to deliver is the stored one.
CacheCatchesUp ==
  synced => \A n \in Device :
    store[n] = IF watch[n] = <<>> THEN cache[n] ELSE watch[n][Len(watch[n])]

\* The finalizer handler has something to do: to add the finalizer, or to run
\* the removal.
HasWork(obj) == obj # NoObj /\ obj.deleting = obj.finalizer

\* w is at it, and has not missed it: what it has read has work, or it failed
\* and will put the key back.
Attends(w, n) ==
  /\ worker[w].key = n
  /\ \/ /\ worker[w].pc \in {"change", "rescan", "save", "saveError", "remove"}
        /\ HasWork(worker[w].obj)
     \/ worker[w].pc \in {"children", "unfinalize"}
     \/ worker[w].pc = "done" /\ worker[w].failed

\* No object that needs the handler is forgotten, over conflicts, failures, keys
\* that are queued again while they are handled and objects that change while
\* their key is not queued: it is queued, or about to be by a watch event, or in
\* the hands of a worker that will write it or fail (lasso's processSingleItem
\* and the errors both handlers return).
NothingForgotten ==
  synced => \A n \in Device :
    HasWork(cache[n]) => n \in queue \/ watch[n] # <<>> \/ \E w \in Worker : Attends(w, n)

\* The control part of the inductive invariant ...
Control == TypeOK /\ Asleep /\ Ready

\* ... and the whole of it: nothing is used before it is there, OnBlockDeviceChange
\* saves what it may, and whoever may still write an object (SaveBlockDevice,
\* the workers' Update calls) holds the stored version of it.
IInv == Control /\ SavesKeepTheRest /\ CopiesAreCurrent /\ CacheCatchesUp

-----------------------------------------------------------------------------
(* Action properties.                                                      *)

\* The mount a user asks for is changed by users only, whatever copies the
\* workers and the registration save in the meantime.  The exception is
\* AddBlockDevice, which writes the scanned spec over the stored one
\* (SaveBlockDevice, controller.go:177).
UsersOwnSpec ==
  [][\A n \in Device :
       Exists(n) /\ Exists(n)' /\ store'[n].spec # store[n].spec
         => spent'.edits # spent.edits \/ (HandlingAdd /\ worker' = worker)]_vars

\* Nobody brings an object back that is marked for deletion: not a worker that
\* read it before it was marked, nor the two SaveBlockDevice functions.
DeletionIsFinal ==
  [][\A n \in Device :
       Exists(n) /\ Exists(n)' /\ store[n].deleting => store'[n].deleting]_vars

\* Reconciliation (OnBlockDeviceChange and the finalizer handler) writes its
\* own parts of an object and keeps what others wrote: the format stamp, once
\* set, the label its parent's deletion relies on, the recorded state.
ReconcileKeepsTheRest ==
  [][\A n \in Device :
       worker' # worker /\ Exists(n) /\ Exists(n)' =>
         LET old == store[n]  new == store'[n]
         IN  /\ new.parentLabel = old.parentLabel
             /\ new.state = old.state
             /\ new.deviceStatus.parentDevice = old.deviceStatus.parentDevice
             /\ old.deviceStatus.fileSystem.lastFormattedAt
                  => new.deviceStatus.fileSystem.lastFormattedAt]_vars

\* "OnBlockDeviceDelete will delete the block devices that belongs to the same
\* parent device" (controller.go:216): an object with the finalizer goes away
\* after those labelled with it have been told to, over retries, stale lists and
\* restarts.  True under NothingNew, below; an add event may make it false.
CascadeBeforeGone ==
  [][\A d \in Device :
       Exists(d) /\ store[d].finalizer /\ ~Exists(d)' =>
         \A k \in Device : Live(k) => store[k].parentLabel # d]_vars

-----------------------------------------------------------------------------
(* The abstract specification.                                             *)

StageOf(obj) ==
  IF obj = NoObj THEN "absent"
  ELSE IF obj.deleting THEN "terminating"
  ELSE IF obj.finalizer THEN "guarded" ELSE "unguarded"

Life == INSTANCE Lifecycle
          WITH Object <- Device, life <- [n \in Device |-> StageOf(store[n])]

\* Every object lives the life of Lifecycle, whoever writes it from whatever
\* copy: AddBlockDevice and the registration from lists, the finalizer handler
\* from the object OnBlockDeviceChange was given, users behind their backs.
ImplementsLifecycle == Life!Spec

\* What Lifecycle rests on: OnBlockDeviceDelete and removeFinalizer run for an
\* object that is marked and still guarded, no other object is marked, and what
\* a scan brings in is neither.
Guarded(obj)   == obj # NoObj /\ obj.deleting => obj.finalizer
Untouched(obj) == obj # NoObj => ~obj.deleting /\ ~obj.finalizer

StoreGuarded == \A n \in Device : Guarded(store[n])

WorkersRemoveMarked ==
  \A w \in Worker :
    worker[w].pc \in {"children", "unfinalize"} =>
      worker[w].obj.deleting /\ worker[w].obj.finalizer

ScansUntouched ==
  \A n \in Device :
    /\ Untouched(boot.scan[n])
    /\ \A i \in DOMAIN frames : Untouched(frames[i].scanned[n])

RemovalsAreDue == StoreGuarded /\ WorkersRemoveMarked /\ ScansUntouched

\* The cascade depends on this: no object is created while the process is up.
\* AddBlockDevice creates them; a partition that appears after its disk's
\* children were listed outlives the disk's object.
NothingNew ==
  [][synced => \A n \in Device : Exists(n)' => Exists(n)]_vars

\* Then whatever the informer has, or has still to deliver, of an object shows
\* its label ...
LabelsKnown ==
  synced => \A k \in Device : Exists(k) =>
    /\ cache[k] # NoObj /\ cache[k].parentLabel = store[k].parentLabel
    /\ \A i \in DOMAIN watch[k] :
         watch[k][i] # NoObj /\ watch[k][i].parentLabel = store[k].parentLabel

\* ... so that OnBlockDeviceDelete has every child that lives on its list, and
\* removeFinalizer is called when there is none.
ChildrenListed ==
  \A w \in Worker, k \in Device :
    Live(k) /\ store[k].parentLabel = worker[w].key =>
      /\ worker[w].pc = "children" => k \in worker[w].kids
      /\ worker[w].pc # "unfinalize"

-----------------------------------------------------------------------------
(* Liveness, under Fairness.                                               *)

\* An object marked for deletion goes away, whatever conflicts, NotFound
\* errors, failed calls and restarts the finalizer handler meets on the way.
TerminationCompletes ==
  \A n \in Device : (Exists(n) /\ store[n].deleting) ~> ~Exists(n)

\* Every object comes under the finalizer's protection or is deleted first.
FinalizerArrives ==
  \A n \in Device : Live(n) ~> (~Live(n) \/ store[n].finalizer)

\* Once the users leave it alone, the condition of an object tells whether its
\* recorded file system is the one its spec asks for.
ConditionConverges ==
  <>[](\A n \in Device :
         Live(n) /\ store[n].spec.mountPoint.dir # NoDir =>
           (store[n].mounted.status = "True") = (FileSystemError(store[n]) = NoError))

WantedDir(n) == store[n].spec.mountPoint.dir

\* A plugged ext4 device a spec asks a directory for: what the controller can
\* and has to mount.
HasToBeMounted(n) ==
  Live(n) /\ n \in plugged /\ FsOnDisk[n] = "ext4" /\ WantedDir(n) # NoDir

MountedAt(n, dir) == \E i \in DOMAIN mtab[n] : mtab[n][i] = dir

\* A request for a mount is carried out in the end, over mounts and saves that
\* fail, stale copies, restarts, and mounts and unmounts by hand at any point of
\* the pass.  The exception is a mount that has been recorded and was taken off
\* again: the check goes by the record.  A mount that fails twice is tried again
\* by the periodic resync alone: its error is saved, not returned.
MountHappens ==
  <>[](\A n \in Device :
         HasToBeMounted(n) =>
           MountedAt(n, WantedDir(n)) \/ FileSystemError(store[n]) = NoError)

\* "mounting the disks to a desired folder" (controller.go:88-89): in the end
\* the device is mounted where its spec says, and the object says so.
DesiredFolderReached ==
  <>[](\A n \in Device : HasToBeMounted(n) =>
         MountedAt(n, WantedDir(n)) /\ store[n].mounted.status = "True")

\* The status has "the partition's mount point, or "" if no mount point was
\* discovered" (types.go:139): it ends up with the mount the controller made.
StatusTellsMount ==
  <>[](\A n \in Device : HasToBeMounted(n) =>
         store[n].deviceStatus.fileSystem.mountPoint = MountPointOf(mtab[n]))

\* The monitor's devices: their events reach a handler.
Watched == Device \ (Longhorn \cup Untyped \cup Garbled)

Heard(action, d) ==
  \E i \in DOMAIN uevents : uevents[i] = [action |-> action, device |-> d]

\* There is no socket, because the process died; or it has overflowed: then the
\* reader ends, and the monitor goes on waiting for events that nobody reads
\* (go-udev's Monitor); or the monitor is at an online or offline event, whose
\* UpdateStatus it repeats for ever.
Deaf ==
  \/ ~Connected \/ overrun \/ reader \in {"failing", "gone"}
  \/ frames # <<>> /\ Top.event.action \in {"online", "offline"}

\* A device whose remove event the monitor received loses its object, unless it
\* comes back, or the monitor goes deaf or dies with the event.  This is what
\* the code does with the event; its comment says something else, see
\* RemoveDetaches.
HotRemoveRecorded ==
  \A d \in Watched :
    Heard("remove", d) ~> (~Exists(d) \/ d \in plugged \/ Deaf)

\* "RemoveBlockDevice will set the existing block device to detached state"
\* (uevent.go:172): when it is through, the object is there, and not marked.
HandlingRemove(d) ==
  frames # <<>> /\ Top.event = [action |-> "remove", device |-> d]

RemoveDetaches ==
  [][\A d \in Device :
       HandlingRemove(d) /\ frames' = <<>> /\ Live(d) => Live(d)']_vars

\* Somebody has the object of d deleted, or that of its parent and d's with it.
Terminating(d) == Exists(d) /\ store[d].deleting

Going(d) == Terminating(d) \/ (Parent[d] # NoDevice /\ Terminating(Parent[d]))

\* A device whose add event the monitor received ends up with an object, and
\* keeps it, over failed saves, conflicts, nested retries and earlier pluggings
\* whose events are still being handled.  The exceptions: it is unplugged, its
\* object or its parent's is (still, or again) terminating - SaveBlockDevice
\* updates a terminating object and creates none when that is gone -, a user
\* deletes one, or the monitor goes deaf.  k tells the users' later deletions from earlier
\* ones.
AddedHasObject ==
  \A d \in Watched, k \in 0..Budget.deletes :
    Heard("add", d) /\ spent.deletes = k ~>
      \/ d \notin plugged \/ Going(d) \/ spent.deletes # k
      \/ [](Exists(d) \/ Deaf)

\* "BlockDeviceInactive is the state for a block device that is disconnected
\* from a node" (types.go:180): an offline event ends up in the object.
OfflineRecorded ==
  \A d \in Watched :
    Heard("offline", d) ~> (Exists(d) => store[d].state = "Inactive")

=============================================================================
