------------------------ MODULE BlockDeviceController ------------------------
(***************************************************************************)
(* The workers of the block device controller.  A worker takes a key from  *)
(* the queue, reads the object from the cache and calls the two handlers   *)
(* registered for it, in this order: OnBlockDeviceChange, then             *)
(* OnBlockDeviceDelete wrapped in wrangler's finalizer handling.  An error *)
(* of either puts the key back.                                            *)
(***************************************************************************)
EXTENDS KubeApi

CONSTANT Worker

ASSUME WorkerAssumption == Worker \subseteq Holder

VARIABLES
  plugged,    \* devices the kernel has
  mtab,       \* mtab[d]: directories d is mounted on, in mount order
  worker      \* worker[w]: what worker w is doing

hostVars == <<plugged, mtab>>

\* pc        the next step of the worker:
\*   "change"      OnBlockDeviceChange(obj)
\*   "rescan"      it has mounted the device and is about to read where
\*   "save"        its Update of copy, after which it returns nil
\*   "saveError"   its Update of copy after a failed mount, which it returns
\*   "remove"      objectLifecycleAdapter.sync(obj)
\*   "children"    OnBlockDeviceDelete, deleting the devices in kids
\*   "unfinalize"  removeFinalizer(obj)
\*   "done"        processSingleItem decides about requeuing
\* failed    a handler has returned an error
WorkerState ==
  [pc : {"idle", "change", "rescan", "save", "saveError", "remove",
         "children", "unfinalize", "done"},
   key : Device \cup {NoDevice},
   obj : BD \cup {NoObj},
   copy : BD \cup {NoObj},
   kids : SUBSET Device,
   failed : BOOLEAN]

Idle == [pc |-> "idle", key |-> NoDevice, obj |-> NoObj, copy |-> NoObj,
         kids |-> {}, failed |-> FALSE]

ControllerTypeOK ==
  /\ plugged \subseteq Device
  /\ mtab \in [Device -> Seq(Dir)]
  /\ worker \in [Worker -> WorkerState]

AllIdle == [w \in Worker |-> Idle]

-----------------------------------------------------------------------------
(* Taking a key and giving it back.                                        *)

Processing == {worker[w].key : w \in Worker}

Take(w, n) ==
  /\ worker[w].pc = "idle"
  /\ n \in queue \ Processing
  /\ queue' = queue \ {n}
  /\ fresh' = TakeFromCache(w, n)
  /\ worker' = [worker EXCEPT ![w] =
                  [Idle EXCEPT !.pc = "change", !.key = n, !.obj = cache[n]]]
  /\ UNCHANGED <<store, watch, cache, synced, faults, hostVars>>

\* Mutant: the worker forgets its key before it puts it back.
DoneForgetsKey(w) ==
  /\ worker[w].pc = "done"
  /\ worker' = [worker EXCEPT ![w] = Idle]
  /\ queue' = IF worker[w].failed THEN queue \cup {worker'[w].key} ELSE queue
  /\ fresh' = {c \in fresh : c[1] # w}
  /\ UNCHANGED <<store, watch, cache, synced, faults, hostVars>>

Done(w) ==
  /\ worker[w].pc = "done"
  /\ queue' = IF worker[w].failed THEN queue \cup {worker[w].key} ELSE queue
  /\ fresh' = {c \in fresh : c[1] # w}
  /\ worker' = [worker EXCEPT ![w] = Idle]
  /\ UNCHANGED <<store, watch, cache, synced, faults, hostVars>>

-----------------------------------------------------------------------------
(* OnBlockDeviceChange.                                                    *)

Goto(w, label) == worker' = [worker EXCEPT ![w].pc = label]

\* The handlers are through; an error of either counts.
Finish(w, failed) ==
  worker' = [worker EXCEPT ![w] =
    [@ EXCEPT !.pc = "done", !.failed = worker[w].failed \/ failed]]

NeedsNothing(obj) ==
  obj # NoObj => obj.deleting \/ obj.spec.mountPoint.dir = NoDir

FileSystemError(obj) == isValidFileSystem(obj.spec, obj.deviceStatus.fileSystem)

\* A forced format is stamped once; formatting itself is still a TODO there.
Stamped(obj) ==
  IF obj.spec.forceFormatted
    THEN [obj EXCEPT !.deviceStatus.fileSystem.lastFormattedAt = TRUE]
    ELSE obj

\* Mutant: the status takes the scanned file system as a whole.
RescannedWhole(obj, d, entries) ==
  [obj EXCEPT !.deviceStatus.fileSystem = DiskFileSystem(d, entries, d \in plugged)]

\* After the mount the file system is read again, with GetDiskByName.
Rescanned(obj, d, entries) ==
  LET fs == DiskFileSystem(d, entries, d \in plugged)
  IN  [obj EXCEPT !.deviceStatus.fileSystem.mountPoint = fs.mountPoint,
                  !.deviceStatus.fileSystem.type = fs.type]

\* Mutant: the object is never saved.
ConcludeUnsaved(w, copy) == worker' = [worker EXCEPT ![w].pc = "remove"]

\* The condition is set from the check, and the object saved if that changed it.
Conclude(w, copy) ==
  LET final == SetMounted(copy, FileSystemError(copy))
  IN  worker' = [worker EXCEPT ![w] =
        [@ EXCEPT !.copy = final,
                  !.pc = IF final = worker[w].obj THEN "remove" ELSE "save"]]

SkipChange(w) ==
  /\ worker[w].pc = "change"
  /\ NeedsNothing(worker[w].obj)
  /\ Goto(w, "remove")
  /\ UNCHANGED <<kubeVars, hostVars>>

CheckMounted(w) ==
  /\ worker[w].pc = "change"
  /\ ~NeedsNothing(worker[w].obj)
  /\ FileSystemError(worker[w].obj) = NoError
  /\ Conclude(w, worker[w].obj)
  /\ UNCHANGED <<kubeVars, hostVars>>

\* mount(2) refuses a device it does not have, one without an ext4 file
\* system, and a directory the device is mounted on already; in this order.
Mountable(d, dir) ==
  /\ d \in plugged /\ FsOnDisk[d] = "ext4"
  /\ \A i \in DOMAIN mtab[d] : mtab[d][i] # dir

Refusal(d) ==
  IF d \notin plugged THEN "ENOENT"
  ELSE IF FsOnDisk[d] # "ext4" THEN "EINVAL" ELSE "EBUSY"

MountDevice(w) ==
  LET obj == worker[w].obj
      d   == worker[w].key
      dir == obj.spec.mountPoint.dir
  IN  /\ worker[w].pc = "change"
      /\ ~NeedsNothing(obj)
      /\ FileSystemError(obj) # NoError
      /\ \/ /\ Mountable(d, dir)
            /\ mtab' = [mtab EXCEPT ![d] = Append(@, dir)]
            /\ worker' = [worker EXCEPT ![w] =
                 [@ EXCEPT !.pc = "rescan", !.copy = Stamped(obj)]]
            /\ UNCHANGED faults
         \/ \E errno \in Errno :
              /\ \/ ~Mountable(d, dir) /\ errno = Refusal(d) /\ UNCHANGED faults
                 \/ Mountable(d, dir) /\ errno = "EIO" /\ Fault("mount")
              /\ worker' = [worker EXCEPT ![w] =
                   [@ EXCEPT !.pc = "saveError",
                             !.copy = SetMounted(Stamped(obj),
                                                 <<"mount", obj.spec.mountPoint, errno>>)]]
              /\ UNCHANGED mtab
      /\ UNCHANGED <<store, watch, cache, queue, synced, fresh, plugged>>

\* The host may have changed since the mount.
Rescan(w) ==
  LET d == worker[w].key
  IN  /\ worker[w].pc = "rescan"
      /\ Conclude(w, Rescanned(worker[w].copy, d, mtab[d]))
      /\ UNCHANGED <<kubeVars, hostVars>>

\* Mutant: the old object goes on under the version of the saved one.
SaveChangeKeepsOld(w) ==
  \E ok \in BOOLEAN :
    /\ worker[w].pc \in {"save", "saveError"}
    /\ Update(w, worker[w].key, worker[w].copy, ok, ok)
    /\ worker' = [worker EXCEPT ![w] = [@ EXCEPT !.pc = "remove", !.failed = ~ok]]
    /\ UNCHANGED hostVars

\* Saved or not, the finalizer handler is called next: with the old object,
\* unless the save of a failed mount returned the new one.
SaveChange(w) ==
  \E ok \in BOOLEAN :
    LET keep == worker[w].pc = "saveError" /\ ok
    IN  /\ worker[w].pc \in {"save", "saveError"}
        /\ Update(w, worker[w].key, worker[w].copy, keep, ok)
        /\ worker' = [worker EXCEPT ![w] =
             [@ EXCEPT !.pc = "remove", !.failed = ~ok,
                       !.obj = IF keep THEN worker[w].copy ELSE worker[w].obj]]
        /\ UNCHANGED hostVars

-----------------------------------------------------------------------------
(* OnBlockDeviceDelete behind the finalizer.                               *)

SkipRemove(w) ==
  LET obj == worker[w].obj
  IN  /\ worker[w].pc = "remove"
      /\ obj # NoObj => obj.deleting # obj.finalizer
      /\ Goto(w, "done")
      /\ UNCHANGED <<kubeVars, hostVars>>

\* Mutant: the finalizer is added to the copy alone.
AddFinalizerUnsaved(w) ==
  LET obj == worker[w].obj
  IN  /\ worker[w].pc = "remove"
      /\ obj # NoObj /\ ~obj.deleting /\ ~obj.finalizer
      /\ Goto(w, "done")
      /\ UNCHANGED <<kubeVars, hostVars>>

AddFinalizer(w) ==
  LET obj == worker[w].obj
  IN  \E ok \in BOOLEAN :
        /\ worker[w].pc = "remove"
        /\ obj # NoObj /\ ~obj.deleting /\ ~obj.finalizer
        /\ Update(w, worker[w].key, [obj EXCEPT !.finalizer = TRUE], FALSE, ok)
        /\ Finish(w, ~ok)
        /\ UNCHANGED hostVars

\* Mutant: the handler does not ask whether the object is being deleted.
ListChildrenAlways(w) ==
  LET obj == worker[w].obj
  IN  /\ worker[w].pc = "remove"
      /\ obj # NoObj /\ obj.finalizer
      /\ worker' = [worker EXCEPT ![w] =
           [@ EXCEPT !.pc = "children",
                     !.kids = {k \in CachedKeys : cache[k].parentLabel = worker[w].key}]]
      /\ UNCHANGED <<kubeVars, hostVars>>

\* The devices labelled with this one are listed from the cache ...
ListChildren(w) ==
  LET obj == worker[w].obj
  IN  /\ worker[w].pc = "remove"
      /\ obj # NoObj /\ obj.deleting /\ obj.finalizer
      /\ worker' = [worker EXCEPT ![w] =
           [@ EXCEPT !.pc = "children",
                     !.kids = {k \in CachedKeys : cache[k].parentLabel = worker[w].key}]]
      /\ UNCHANGED <<kubeVars, hostVars>>

\* Mutant: a child that could not be deleted is passed over.
DeleteChildAnyway(w) ==
  \E k \in worker[w].kids, reply \in {"OK", "NotFound", "Failed"} :
    /\ worker[w].pc = "children"
    /\ Delete(k, reply)
    /\ worker' = [worker EXCEPT ![w].kids = @ \ {k}]
    /\ UNCHANGED hostVars

\* Mutant: the loop ends at a child that is gone, and that is no error.
DeleteChildToNotFound(w) ==
  \E k \in worker[w].kids, reply \in {"OK", "NotFound", "Failed"} :
    /\ worker[w].pc = "children"
    /\ Delete(k, reply)
    /\ IF reply = "OK" THEN worker' = [worker EXCEPT ![w].kids = @ \ {k}]
                       ELSE Finish(w, reply = "Failed")
    /\ UNCHANGED hostVars

\* ... and deleted one by one; the first error, NotFound too, ends the loop.
DeleteChild(w) ==
  \E k \in worker[w].kids, reply \in {"OK", "NotFound", "Failed"} :
    /\ worker[w].pc = "children"
    /\ Delete(k, reply)
    /\ IF reply = "OK" THEN worker' = [worker EXCEPT ![w].kids = @ \ {k}]
                       ELSE Finish(w, TRUE)
    /\ UNCHANGED hostVars

ChildrenDeleted(w) ==
  /\ worker[w].pc = "children"
  /\ worker[w].kids = {}
  /\ Goto(w, "unfinalize")
  /\ UNCHANGED <<kubeVars, hostVars>>

\* Mutant: the filter of removeFinalizer keeps the wrong finalizers.
RemoveFinalizerKeepsIt(w) ==
  \E ok \in BOOLEAN :
    /\ worker[w].pc = "unfinalize"
    /\ Update(w, worker[w].key, worker[w].obj, FALSE, ok)
    /\ Finish(w, ~ok)
    /\ UNCHANGED hostVars

RemoveFinalizer(w) ==
  \E ok \in BOOLEAN :
    /\ worker[w].pc = "unfinalize"
    /\ Update(w, worker[w].key, [worker[w].obj EXCEPT !.finalizer = FALSE],
              FALSE, ok)
    /\ Finish(w, ~ok)
    /\ UNCHANGED hostVars

-----------------------------------------------------------------------------
(* SaveBlockDevice and SaveBlockDeviceByList, called by the udev monitor   *)
(* and by the registration at start.  existing is the caller's copy of n.  *)
(* The code skips the Update of an equal object, which never happens: an   *)
(* object that was stored has metadata a scanned one lacks.                *)

\* Mutant: the caller takes its list for current after the write.
SaveBlockDeviceKeeping(h, n, new, existing, ok) ==
  IF existing = NoObj
    THEN Create(n, new, ok)
    ELSE Update(h, n, [existing EXCEPT !.spec = new.spec,
                                       !.deviceStatus = new.deviceStatus], ok, ok)

\* Mutant: the scanned object replaces the stored one.
SaveBlockDeviceWhole(h, n, new, existing, ok) ==
  IF existing = NoObj
    THEN Create(n, new, ok)
    ELSE Update(h, n, new, FALSE, ok)

SaveBlockDevice(h, n, new, existing, ok) ==
  IF existing = NoObj
    THEN Create(n, new, ok)
    ELSE Update(h, n, [existing EXCEPT !.spec = new.spec,
                                       !.deviceStatus = new.deviceStatus], FALSE, ok)

SaveBlockDeviceByList(h, n, new, existing, ok) ==
  IF existing = NoObj
    THEN Create(n, new, ok)
    ELSE Update(h, n, [existing EXCEPT !.deviceStatus = new.deviceStatus], FALSE, ok)

\* Both callers save a disk before its partitions.
NextToSave(todo) == {x \in todo : Parent[x] \notin todo}

-----------------------------------------------------------------------------

\* The steps of one worker that has a key.
Work(w) ==
  \/ SkipChange(w)
  \/ CheckMounted(w)
  \/ MountDevice(w)
  \/ Rescan(w)
  \/ SaveChange(w)
  \/ SkipRemove(w)
  \/ AddFinalizer(w)
  \/ ListChildren(w)
  \/ DeleteChild(w)
  \/ ChildrenDeleted(w)
  \/ RemoveFinalizer(w)
  \/ Done(w)

=============================================================================
