--------------------------- MODULE ControllerProofs ---------------------------
(***************************************************************************)
(* Types: what the operators on BlockDevice objects return, what the calls *)
(* of KubeApi do to the objects, and that each step of the controller's    *)
(* workers keeps the types, for any set of devices, workers and requests   *)
(* and any bounds.                                                         *)
(***************************************************************************)
EXTENDS NodeDiskManagerProperties, TLAPS

-----------------------------------------------------------------------------
(* The operators of BlockDevice.                                           *)

\* TrimSuffix maps mount points to mount points.
LEMMA TrimSuffixType ==
  ASSUME NEW p \in Path PROVE TrimSuffix(p) \in Path
<1>1. p.slashes > 0 => p.slashes - 1 \in 0..MaxSlashes
  BY PathAssumption DEF Path
<1> QED BY <1>1 DEF Path, TrimSuffix

\* A directory without slashes is a mount point.
LEMMA PlainType ==
  ASSUME NEW dir \in Dir \cup {NoDir} PROVE Plain(dir) \in Path
BY PathAssumption DEF Path, Plain

\* The check of isValidFileSystem answers with one of its errors, or none.
LEMMA ValidityType ==
  ASSUME NEW fs \in FilesystemInfo, NEW fsStatus \in FilesystemStatus
  PROVE  isValidFileSystem(fs, fsStatus) \in Error
<1> DEFINE want == IF fs.mountPoint.dir = NoDir THEN fs.mountPoint
                   ELSE TrimSuffix(fs.mountPoint)
<1>1. fs.mountPoint \in Path
  BY DEF FilesystemInfo
<1>2. want \in Path
  BY <1>1, TrimSuffixType
<1>3. fsStatus.mountPoint \in Dir \cup {NoDir} /\ fsStatus.type \in FsType
  BY DEF FilesystemStatus
<1>4. <<"mismatch", fsStatus.mountPoint, want>> \in Error
  BY <1>2, <1>3 DEF Error
<1>5. <<"unsupported", fsStatus.type>> \in Error
  BY <1>3 DEF Error
<1>6. NoError \in Error
  BY DEF Error
<1> HIDE DEF want
<1>7. isValidFileSystem(fs, fsStatus) \in
        {<<"mismatch", fsStatus.mountPoint, want>>, <<"unsupported", fsStatus.type>>,
         NoError}
  BY DEF isValidFileSystem, want
<1> QED BY <1>4, <1>5, <1>6, <1>7

\* Setting the condition changes the condition and nothing else.
LEMMA SetMountedType ==
  ASSUME NEW bd \in BD, NEW err \in Error
  PROVE  /\ SetMounted(bd, err) \in BD
         /\ \A f \in {"parentLabel", "finalizer", "deleting", "spec", "state",
                      "deviceStatus"} : SetMounted(bd, err)[f] = bd[f]
BY DEF BD, Condition, SetMounted

\* The file system read for a device is one.
LEMMA ScannedFileSystemType ==
  ASSUME NEW d \in Device, NEW entries \in Seq(Dir), NEW present
  PROVE  /\ PartitionFileSystem(d, entries) \in FilesystemStatus
         /\ DiskFileSystem(d, entries, present) \in FilesystemStatus
<1>1. MountPointOf(entries) \in Dir \cup {NoDir}
  BY DEF MountPointOf
<1>2. "" \in FsType /\ FsOnDisk[d] \in FsType
  BY DeviceAssumption DEF FsType
<1>3. PartitionFileSystem(d, entries) \in FilesystemStatus
  BY <1>1, <1>2 DEF PartitionFileSystem, FilesystemStatus
<1>4. GetFileSystemType(d, present) \in FsType
  BY <1>2 DEF GetFileSystemType
<1> QED BY <1>2, <1>3, <1>4 DEF DiskFileSystem, FilesystemStatus

\* A new object is one, has no finalizer and is not being deleted.
LEMMA NewObjectType ==
  ASSUME NEW label \in Device \cup {NoDevice}, NEW type \in {"disk", "partition"},
         NEW fs \in FilesystemStatus
  PROVE  NewObject(label, type, fs) \in BD
<1>1. Plain(fs.mountPoint) \in Path
  BY PlainType DEF FilesystemStatus
<1>2. [mountPoint |-> Plain(fs.mountPoint), forceFormatted |-> FALSE] \in FilesystemInfo
  BY <1>1 DEF FilesystemInfo
<1>3. [deviceType |-> type, parentDevice |-> label, fileSystem |-> fs] \in DeviceStatus
  BY DEF DeviceStatus
<1>4. [status |-> "absent", message |-> NoError] \in Condition
  BY DEF Condition, Error
<1> QED BY <1>2, <1>3, <1>4 DEF NewObject, BD

\* A scan yields objects.
LEMMA ScanType ==
  ASSUME NEW d \in Device, NEW mounts \in [Device -> Seq(Dir)], NEW present \in SUBSET Device
  PROVE  LET new == GetNewBlockDevices(d, mounts, present)
         IN  /\ DOMAIN new \subseteq Device
             /\ \A n \in DOMAIN new : new[n] \in BD
<1>1. Children(d) \subseteq Device
  BY DEF Children
<1>2. NewDisk(d, mounts[d], d \in present) \in BD
  <2>1. DiskFileSystem(d, mounts[d], d \in present) \in FilesystemStatus
    BY ScannedFileSystemType
  <2> QED BY <2>1, NewObjectType DEF NewDisk
<1>3. \A n \in Device : NewPartition(n, mounts[n]) \in BD
  <2> TAKE n \in Device
  <2>1. Parent[n] \in Device \cup {NoDevice}
    BY DeviceAssumption
  <2> QED BY <2>1, ScannedFileSystemType, NewObjectType DEF NewPartition
<1> QED BY <1>1, <1>2, <1>3 DEF GetNewBlockDevices

-----------------------------------------------------------------------------
(* The calls of KubeApi.                                                   *)

\* Clearing a finalizer or marking for deletion leaves an object or nothing.
LEMMA SettledType ==
  ASSUME NEW obj \in BD PROVE Settled(obj) \in BD \cup {NoObj}
BY DEF Settled

\* A committed object, or its removal, keeps the store and the watch typed.
LEMMA CommitType ==
  ASSUME KubeTypeOK, NEW n \in Device, NEW obj \in BD \cup {NoObj}, Commit(n, obj)
  PROVE  /\ store' \in [Device -> BD \cup {NoObj}]
         /\ watch' \in [Device -> Seq(BD \cup {NoObj})]
<1> DEFINE Obj == BD \cup {NoObj}
<1>1. store' \in [Device -> Obj]
  BY DEF KubeTypeOK, Commit
<1>2. Append(watch[n], obj) \in Seq(Obj)
  <2> HIDE DEF Obj
  <2>1. watch[n] \in Seq(Obj) /\ obj \in Obj
    BY DEF KubeTypeOK, Obj
  <2> QED BY <2>1
<1>3. watch' \in [Device -> Seq(Obj)]
  <2> HIDE DEF Obj
  <2>1. watch \in [Device -> Seq(Obj)]
    BY DEF KubeTypeOK, Obj
  <2> QED BY <1>2, <2>1 DEF Commit
<1> QED BY <1>1, <1>3

\* Update, whatever the server answers, keeps the types.
LEMMA UpdateType ==
  ASSUME KubeTypeOK, NEW h \in Holder, NEW n \in Device, NEW new \in BD,
         NEW keep, NEW ok, Update(h, n, new, keep, ok)
  PROVE  KubeTypeOK'
<1> USE DEF KubeTypeOK
<1>1. \A k : ApplyUpdate(h, n, new, k) =>
        /\ store' \in [Device -> BD \cup {NoObj}]
        /\ watch' \in [Device -> Seq(BD \cup {NoObj})]
        /\ fresh' \subseteq Holder \X Device
  <2> SUFFICES ASSUME NEW k, ApplyUpdate(h, n, new, k)
      PROVE  /\ store' \in [Device -> BD \cup {NoObj}]
             /\ watch' \in [Device -> Seq(BD \cup {NoObj})]
             /\ fresh' \subseteq Holder \X Device
    OBVIOUS
  <2>1. CASE CanUpdate(h, n) /\ new # store[n]
    <3>1. Commit(n, Settled(new)) /\ Settled(new) \in BD \cup {NoObj}
      BY <2>1, SettledType DEF ApplyUpdate
    <3>2. fresh' \subseteq Holder \X Device
      BY <2>1 DEF ApplyUpdate, Stale
    <3> QED BY <3>1, <3>2, CommitType
  <2>2. CASE ~(CanUpdate(h, n) /\ new # store[n])
    BY <2>2 DEF ApplyUpdate
  <2> QED BY <2>1, <2>2
<1>2. faults' \in 0..MaxFaults
  <2>1. UNCHANGED faults \/ Fault("update")
    BY DEF Update
  <2> QED BY <2>1, FaultAssumption DEF Fault
<1>3. UNCHANGED <<cache, queue, synced>>
  BY DEF Update
<1>4. \/ ApplyUpdate(h, n, new, keep) \/ ApplyUpdate(h, n, new, FALSE)
      \/ UNCHANGED <<store, watch, fresh>>
  BY DEF Update
<1>5. /\ store' \in [Device -> BD \cup {NoObj}]
      /\ watch' \in [Device -> Seq(BD \cup {NoObj})]
      /\ fresh' \subseteq Holder \X Device
  <2>1. CASE ApplyUpdate(h, n, new, keep)
    BY <1>1, <2>1
  <2>2. CASE ApplyUpdate(h, n, new, FALSE)
    BY <1>1, <2>2
  <2>3. CASE UNCHANGED <<store, watch, fresh>>
    BY <2>3
  <2> QED BY <1>4, <2>1, <2>2, <2>3
<1> QED BY <1>2, <1>3, <1>5

\* So does Create.
LEMMA CreateType ==
  ASSUME KubeTypeOK, NEW n \in Device, NEW new \in BD, NEW ok, Create(n, new, ok)
  PROVE  KubeTypeOK'
<1> USE DEF KubeTypeOK
<1>1. ApplyCreate(n, new) =>
        /\ store' \in [Device -> BD \cup {NoObj}]
        /\ watch' \in [Device -> Seq(BD \cup {NoObj})]
        /\ fresh' \subseteq Holder \X Device
  BY CommitType DEF ApplyCreate, Stale
<1>2. faults' \in 0..MaxFaults
  BY FaultAssumption DEF Create, Fault
<1>3. UNCHANGED <<cache, queue, synced>>
  BY DEF Create
<1>4. ApplyCreate(n, new) \/ UNCHANGED <<store, watch, fresh>>
  BY DEF Create
<1> QED BY <1>1, <1>2, <1>3, <1>4

\* So does the deletion of an object, by the process or by a user.
LEMMA ApplyDeleteType ==
  ASSUME KubeTypeOK, NEW n \in Device, ApplyDelete(n)
  PROVE  /\ store' \in [Device -> BD \cup {NoObj}]
         /\ watch' \in [Device -> Seq(BD \cup {NoObj})]
         /\ fresh' \subseteq Holder \X Device
<1> USE DEF KubeTypeOK
<1>1. CASE store[n] = NoObj \/ (store[n].finalizer /\ store[n].deleting)
  BY <1>1 DEF ApplyDelete
<1>2. CASE ~(store[n] = NoObj \/ (store[n].finalizer /\ store[n].deleting))
  <2>1. [store[n] EXCEPT !.deleting = TRUE] \in BD
    <3>1. store[n] \in BD
      BY <1>2
    <3> QED BY <3>1 DEF BD
  <2>2. Commit(n, Settled([store[n] EXCEPT !.deleting = TRUE])) /\ fresh' = Stale(n)
    BY <1>2 DEF ApplyDelete
  <2> QED BY <2>1, <2>2, SettledType, CommitType DEF Stale
<1> QED BY <1>1, <1>2

\* So does Delete.
LEMMA DeleteType ==
  ASSUME KubeTypeOK, NEW n \in Device, NEW reply, Delete(n, reply)
  PROVE  KubeTypeOK'
<1> USE DEF KubeTypeOK
<1>1. faults' \in 0..MaxFaults
  BY FaultAssumption DEF Delete, Fault
<1>2. UNCHANGED <<cache, queue, synced>>
  BY DEF Delete
<1>3. ApplyDelete(n) \/ UNCHANGED <<store, watch, fresh>>
  BY DEF Delete
<1> QED BY <1>1, <1>2, <1>3, ApplyDeleteType

\* The informer keeps the types.
LEMMA InformerType ==
  ASSUME KubeTypeOK
  PROVE  /\ \A n \in Device : Deliver(n) => KubeTypeOK'
         /\ Resync => KubeTypeOK'
         /\ StartInformer => KubeTypeOK'
         /\ StopInformer => KubeTypeOK'
<1> DEFINE Obj == BD \cup {NoObj}
<1>1. ASSUME NEW n \in Device, Deliver(n) PROVE KubeTypeOK'
  <2>1. Head(watch[n]) \in Obj /\ Tail(watch[n]) \in Seq(Obj)
    <3> HIDE DEF Obj
    <3>1. watch[n] \in Seq(Obj) /\ watch[n] # <<>>
      BY <1>1 DEF KubeTypeOK, Deliver, Obj
    <3> QED BY <3>1
  <2>2. cache' \in [Device -> Obj] /\ watch' \in [Device -> Seq(Obj)]
    BY <1>1, <2>1 DEF KubeTypeOK, Deliver
  <2> QED BY <1>1, <2>2 DEF KubeTypeOK, Deliver
<1>2. Resync => KubeTypeOK'
  BY DEF KubeTypeOK, Resync, CachedKeys
<1>3. StartInformer => KubeTypeOK'
  <2>1. <<>> \in Seq(Obj)
    OBVIOUS
  <2> QED BY <2>1 DEF KubeTypeOK, StartInformer
<1>4. StopInformer => KubeTypeOK'
  <2>1. <<>> \in Seq(Obj)
    OBVIOUS
  <2> QED BY <2>1 DEF KubeTypeOK, StopInformer
<1> QED BY <1>1, <1>2, <1>3, <1>4

-----------------------------------------------------------------------------
(* The copies OnBlockDeviceChange makes.                                   *)

\* Stamping an object leaves an object.
LEMMA StampedType ==
  ASSUME NEW obj \in BD PROVE Stamped(obj) \in BD
<1>1. obj.deviceStatus \in DeviceStatus /\ obj.deviceStatus.fileSystem \in FilesystemStatus
  BY DEF BD, DeviceStatus
<1>2. [obj.deviceStatus.fileSystem EXCEPT !.lastFormattedAt = TRUE] \in FilesystemStatus
  BY <1>1 DEF FilesystemStatus
<1>3. [obj.deviceStatus EXCEPT !.fileSystem =
         [obj.deviceStatus.fileSystem EXCEPT !.lastFormattedAt = TRUE]] \in DeviceStatus
  BY <1>1, <1>2 DEF DeviceStatus
<1>4. [obj EXCEPT !.deviceStatus =
         [obj.deviceStatus EXCEPT !.fileSystem =
            [obj.deviceStatus.fileSystem EXCEPT !.lastFormattedAt = TRUE]]] \in BD
  BY <1>3 DEF BD
<1> QED BY <1>4 DEF Stamped

\* So does reading its file system again.
LEMMA RescannedType ==
  ASSUME NEW obj \in BD, NEW d \in Device, NEW entries \in Seq(Dir)
  PROVE  Rescanned(obj, d, entries) \in BD
<1> DEFINE fs  == DiskFileSystem(d, entries, d \in plugged)
           old == obj.deviceStatus.fileSystem
           new == [old EXCEPT !.mountPoint = fs.mountPoint, !.type = fs.type]
<1>1. obj.deviceStatus \in DeviceStatus /\ old \in FilesystemStatus
  BY DEF BD, DeviceStatus
<1>2. fs \in FilesystemStatus
  BY ScannedFileSystemType
<1>3. new \in FilesystemStatus
  BY <1>1, <1>2 DEF FilesystemStatus
<1>4. Rescanned(obj, d, entries) =
        [obj EXCEPT !.deviceStatus = [obj.deviceStatus EXCEPT !.fileSystem = new]]
  <2> HIDE DEF fs
  <2>1. Rescanned(obj, d, entries) =
          [obj EXCEPT !.deviceStatus.fileSystem.mountPoint = fs.mountPoint,
                      !.deviceStatus.fileSystem.type = fs.type]
    BY DEF Rescanned, fs
  <2> QED BY <1>1, <2>1 DEF BD, DeviceStatus, FilesystemStatus
<1>5. [obj.deviceStatus EXCEPT !.fileSystem = new] \in DeviceStatus
  <2> HIDE DEF new
  <2> QED BY <1>1, <1>3 DEF DeviceStatus
<1> HIDE DEF new
<1> QED BY <1>4, <1>5 DEF BD

\* The errors it sets are errors.
LEMMA FileSystemErrorType ==
  ASSUME NEW obj \in BD
  PROVE  /\ FileSystemError(obj) \in Error
         /\ \A errno \in Errno : <<"mount", obj.spec.mountPoint, errno>> \in Error
<1>1. obj.spec \in FilesystemInfo /\ obj.deviceStatus \in DeviceStatus
  BY DEF BD
<1>2. obj.deviceStatus.fileSystem \in FilesystemStatus
  BY <1>1 DEF DeviceStatus
<1>3. FileSystemError(obj) \in Error
  BY <1>1, <1>2, ValidityType DEF FileSystemError
<1>4. obj.spec.mountPoint \in Path
  BY <1>1 DEF FilesystemInfo
<1> QED BY <1>3, <1>4 DEF Error

-----------------------------------------------------------------------------
(* Every step of a worker keeps the types, leaves the worker ready for its *)
(* next step, and leaves the other workers alone.                          *)

WorkerTypeOK == worker \in [Worker -> WorkerState] /\ WorkersReady

\* A worker that goes on as s.
LEMMA WorkerReplaced ==
  ASSUME WorkerTypeOK, NEW w \in Worker, NEW s \in WorkerState, WorkerReady(s),
         worker' = [worker EXCEPT ![w] = s]
  PROVE  WorkerTypeOK' /\ worker'[w] = s /\ \A v \in Worker \ {w} : worker'[v] = worker[v]
<1>1. /\ worker' \in [Worker -> WorkerState] /\ worker'[w] = s
      /\ \A v \in Worker \ {w} : worker'[v] = worker[v]
  BY DEF WorkerTypeOK
<1>2. \A v \in Worker : WorkerReady(worker'[v])
  BY <1>1 DEF WorkerTypeOK, WorkersReady
<1> QED BY <1>1, <1>2 DEF WorkerTypeOK, WorkersReady

\* Concluding.
LEMMA ConcludeType ==
  ASSUME WorkerTypeOK, NEW w \in Worker, worker[w].pc # "idle",
         worker[w].obj # NoObj, NEW copy \in BD, Conclude(w, copy)
  PROVE  WorkerTypeOK'
<1> DEFINE final == SetMounted(copy, FileSystemError(copy))
           pc == IF final = worker[w].obj THEN "remove" ELSE "save"
           s == [worker[w] EXCEPT !.copy = final, !.pc = pc]
<1>1. final \in BD
  BY FileSystemErrorType, SetMountedType
<1>2. worker' = [worker EXCEPT ![w] = s]
  BY DEF Conclude
<1>3. worker[w] \in WorkerState /\ WorkerReady(worker[w]) /\ pc \in {"remove", "save"}
  BY DEF WorkerTypeOK, WorkersReady
<1>4. s \in WorkerState /\ WorkerReady(s)
  <2> HIDE DEF final, pc
  <2> QED BY <1>1, <1>3, NoObjAssumption DEF WorkerState, WorkerReady
<1> HIDE DEF s
<1> QED BY <1>2, <1>4, WorkerReplaced

\* Finishing.
LEMMA FinishType ==
  ASSUME WorkerTypeOK, NEW w \in Worker, worker[w].pc # "idle",
         NEW failed \in BOOLEAN, Finish(w, failed)
  PROVE  WorkerTypeOK'
<1> DEFINE either == worker[w].failed \/ failed
           s == [worker[w] EXCEPT !.pc = "done", !.failed = either]
<1>1. worker[w] \in WorkerState /\ WorkerReady(worker[w]) /\ either \in BOOLEAN
  BY DEF WorkerTypeOK, WorkersReady
<1>2. worker' = [worker EXCEPT ![w] = s]
  BY DEF Finish
<1>3. s \in WorkerState /\ WorkerReady(s)
  <2> HIDE DEF either
  <2> QED BY <1>1 DEF WorkerState, WorkerReady
<1> HIDE DEF s
<1> QED BY <1>2, <1>3, WorkerReplaced

\* Taking a key.
LEMMA TakeType ==
  ASSUME KubeTypeOK, ControllerTypeOK, WorkersReady, NEW w \in Worker,
         NEW n \in Device, Take(w, n)
  PROVE  KubeTypeOK' /\ ControllerTypeOK' /\ WorkersReady'
<1> DEFINE obj == cache[n]
           s == [Idle EXCEPT !.pc = "change", !.key = n, !.obj = obj]
<1>1. WorkerTypeOK'
  <2>1. worker' = [worker EXCEPT ![w] = s]
    BY DEF Take
  <2>2. s \in WorkerState /\ WorkerReady(s)
    <3>1. obj \in BD \cup {NoObj}
      BY DEF KubeTypeOK
    <3> HIDE DEF obj
    <3> QED BY <3>1 DEF Idle, WorkerState, WorkerReady
  <2> HIDE DEF s
  <2> QED BY <2>1, <2>2, WorkerReplaced DEF ControllerTypeOK, WorkerTypeOK
<1>2. fresh' \subseteq Holder \X Device
  BY WorkerAssumption DEF Take, TakeFromCache, KubeTypeOK
<1>3. UNCHANGED <<store, watch, cache, synced, faults, plugged, mtab>> /\ queue' \subseteq Device
  BY DEF Take, hostVars, KubeTypeOK
<1> QED BY <1>1, <1>2, <1>3 DEF KubeTypeOK, ControllerTypeOK, WorkerTypeOK

\* Going to a label whose object is there.
LEMMA GotoType ==
  ASSUME WorkerTypeOK, NEW w \in Worker, worker[w].pc # "idle",
         NEW label \in {"remove", "done", "unfinalize"},
         label = "unfinalize" => worker[w].obj # NoObj, Goto(w, label)
  PROVE  WorkerTypeOK'
<1> DEFINE s == [worker[w] EXCEPT !.pc = label]
<1>1. worker[w] \in WorkerState /\ WorkerReady(worker[w])
  BY DEF WorkerTypeOK, WorkersReady
<1>2. worker' = [worker EXCEPT ![w] = s]
  BY DEF Goto
<1>3. s \in WorkerState /\ WorkerReady(s)
  BY <1>1 DEF WorkerState, WorkerReady
<1> HIDE DEF s
<1> QED BY <1>2, <1>3, WorkerReplaced

\* The steps that touch only the worker itself.
LEMMA LocalStepType ==
  ASSUME WorkerTypeOK, NEW w \in Worker,
         SkipChange(w) \/ SkipRemove(w) \/ ListChildren(w) \/ ChildrenDeleted(w)
  PROVE  UNCHANGED <<kubeVars, hostVars>> /\ WorkerTypeOK'
<1>1. CASE SkipChange(w)
  BY <1>1, GotoType DEF SkipChange
<1>2. CASE SkipRemove(w)
  BY <1>2, GotoType DEF SkipRemove
<1>3. CASE ListChildren(w)
  <2> DEFINE kids == {k \in CachedKeys : cache[k].parentLabel = worker[w].key}
             s == [worker[w] EXCEPT !.pc = "children", !.kids = kids]
  <2>1. kids \subseteq Device
    BY DEF CachedKeys
  <2>2. worker' = [worker EXCEPT ![w] = s]
    BY <1>3 DEF ListChildren
  <2>3. s \in WorkerState /\ WorkerReady(s)
    <3> HIDE DEF kids
    <3> QED BY <1>3, <2>1 DEF ListChildren, WorkerTypeOK, WorkersReady, WorkerState, WorkerReady
  <2>4. WorkerTypeOK'
    <3> HIDE DEF s
    <3> QED BY <2>2, <2>3, WorkerReplaced
  <2> QED BY <1>3, <2>4 DEF ListChildren
<1>4. CASE ChildrenDeleted(w)
  <2>1. worker[w].obj # NoObj
    BY <1>4 DEF ChildrenDeleted, WorkerTypeOK, WorkersReady, WorkerReady
  <2> QED BY <1>4, <2>1, GotoType DEF ChildrenDeleted
<1> QED BY <1>1, <1>2, <1>3, <1>4

\* Checking a device that is mounted where it should be.
LEMMA CheckMountedType ==
  ASSUME WorkerTypeOK, NEW w \in Worker, CheckMounted(w)
  PROVE  WorkerTypeOK'
<1>1. worker[w].obj \in BD /\ worker[w].obj # NoObj
  BY DEF CheckMounted, NeedsNothing, WorkerTypeOK, WorkerState
<1> QED BY <1>1, ConcludeType DEF CheckMounted

\* Mounting a device, or failing to.
LEMMA MountDeviceType ==
  ASSUME KubeTypeOK, ControllerTypeOK, WorkerTypeOK, NEW w \in Worker, MountDevice(w)
  PROVE  KubeTypeOK' /\ ControllerTypeOK' /\ WorkerTypeOK'
<1> DEFINE obj == worker[w].obj
           d   == worker[w].key
           dir == obj.spec.mountPoint.dir
<1>1. /\ worker[w] \in WorkerState /\ WorkerReady(worker[w])
      /\ obj \in BD /\ obj # NoObj /\ worker[w].pc = "change" /\ d \in Device
  BY DEF MountDevice, NeedsNothing, WorkerTypeOK, WorkersReady, WorkerState, WorkerReady
<1>2. dir \in Dir
  <2>1. dir # NoDir
    BY <1>1 DEF MountDevice, NeedsNothing
  <2>2. obj.spec \in FilesystemInfo
    BY <1>1 DEF BD
  <2>3. obj.spec.mountPoint \in Path
    BY <2>2 DEF FilesystemInfo
  <2> QED BY <2>1, <2>3 DEF Path
<1>3. /\ Stamped(obj) \in BD
      /\ \A errno \in Errno : <<"mount", obj.spec.mountPoint, errno>> \in Error
  BY <1>1, StampedType, FileSystemErrorType
<1>4. CASE /\ mtab' = [mtab EXCEPT ![d] = Append(@, dir)]
           /\ worker' = [worker EXCEPT ![w] = [@ EXCEPT !.pc = "rescan", !.copy = Stamped(obj)]]
           /\ UNCHANGED faults
  <2>1. mtab' \in [Device -> Seq(Dir)]
    <3>1. Append(mtab[d], dir) \in Seq(Dir)
      BY <1>1, <1>2 DEF ControllerTypeOK
    <3> QED BY <1>1, <1>4, <3>1 DEF ControllerTypeOK
  <2> DEFINE stamped == Stamped(obj)
             s == [worker[w] EXCEPT !.pc = "rescan", !.copy = stamped]
  <2>2. s \in WorkerState /\ WorkerReady(s)
    <3>1. stamped \in BD
      BY <1>3
    <3> HIDE DEF stamped
    <3> QED BY <1>1, <3>1, NoObjAssumption DEF WorkerState, WorkerReady
  <2>3. worker' = [worker EXCEPT ![w] = s]
    BY <1>4
  <2>4. WorkerTypeOK'
    <3> HIDE DEF s
    <3> QED BY <2>2, <2>3, WorkerReplaced
  <2> QED BY <1>4, <2>1, <2>4 DEF MountDevice, KubeTypeOK, ControllerTypeOK, WorkerTypeOK
<1>5. ASSUME NEW errno \in Errno,
             UNCHANGED faults \/ Fault("mount"),
             worker' = [worker EXCEPT ![w] =
               [@ EXCEPT !.pc = "saveError",
                  !.copy = SetMounted(Stamped(obj),
                                      <<"mount", obj.spec.mountPoint, errno>>)]],
             UNCHANGED mtab
      PROVE  KubeTypeOK' /\ ControllerTypeOK' /\ WorkerTypeOK'
  <2> DEFINE final == SetMounted(Stamped(obj), <<"mount", obj.spec.mountPoint, errno>>)
             s == [worker[w] EXCEPT !.pc = "saveError", !.copy = final]
  <2>1. final \in BD
    BY <1>3, SetMountedType
  <2>2. s \in WorkerState /\ WorkerReady(s)
    <3> HIDE DEF final
    <3> QED BY <1>1, <2>1, NoObjAssumption DEF WorkerState, WorkerReady
  <2>3. worker' = [worker EXCEPT ![w] = s]
    BY <1>5
  <2>4. WorkerTypeOK'
    <3> HIDE DEF s
    <3> QED BY <2>2, <2>3, WorkerReplaced
  <2>5. faults' \in 0..MaxFaults
    BY <1>5, FaultAssumption DEF Fault, KubeTypeOK
  <2> QED BY <1>5, <2>4, <2>5 DEF MountDevice, KubeTypeOK, ControllerTypeOK, WorkerTypeOK
<1> QED BY <1>4, <1>5 DEF MountDevice

\* Reading where the device is mounted.
LEMMA RescanType ==
  ASSUME ControllerTypeOK, WorkerTypeOK, NEW w \in Worker, Rescan(w)
  PROVE  WorkerTypeOK'
<1> DEFINE d == worker[w].key
<1>1. /\ worker[w].copy \in BD /\ worker[w].obj # NoObj /\ d \in Device
  BY DEF Rescan, WorkerTypeOK, WorkersReady, WorkerState, WorkerReady
<1>2. Rescanned(worker[w].copy, d, mtab[d]) \in BD
  BY <1>1, RescannedType DEF ControllerTypeOK
<1> QED BY <1>1, <1>2, ConcludeType DEF Rescan

\* Saving what OnBlockDeviceChange made of the object.
LEMMA SaveChangeType ==
  ASSUME KubeTypeOK, WorkerTypeOK, NEW w \in Worker, SaveChange(w)
  PROVE  KubeTypeOK' /\ WorkerTypeOK' /\ UNCHANGED hostVars
<1>1. /\ w \in Holder /\ worker[w] \in WorkerState /\ worker[w].key \in Device
      /\ worker[w].copy \in BD /\ worker[w].obj \in BD
  BY WorkerAssumption DEF SaveChange, WorkerTypeOK, WorkersReady, WorkerReady, WorkerState
<1>2. PICK ok \in BOOLEAN :
        LET keep == worker[w].pc = "saveError" /\ ok
        IN  /\ Update(w, worker[w].key, worker[w].copy, keep, ok)
            /\ worker' = [worker EXCEPT ![w] =
                 [@ EXCEPT !.pc = "remove", !.failed = ~ok,
                           !.obj = IF keep THEN worker[w].copy ELSE worker[w].obj]]
            /\ UNCHANGED hostVars
  BY DEF SaveChange
<1> DEFINE failed == ~ok
           keep == worker[w].pc = "saveError" /\ ok
           obj == IF keep THEN worker[w].copy ELSE worker[w].obj
           s == [worker[w] EXCEPT !.pc = "remove", !.failed = failed, !.obj = obj]
<1>3. worker' = [worker EXCEPT ![w] = s]
  BY <1>2
<1>4. failed \in BOOLEAN /\ obj \in BD
  BY <1>1
<1>5. WorkerTypeOK'
  <2> HIDE DEF failed, obj
  <2>1. s \in WorkerState /\ WorkerReady(s)
    BY <1>1, <1>4 DEF WorkerState, WorkerReady
  <2> HIDE DEF s
  <2> QED BY <1>3, <2>1, WorkerReplaced
<1> QED BY <1>1, <1>2, <1>5, UpdateType

\* Adding and removing the finalizer.
LEMMA FinalizerType ==
  ASSUME KubeTypeOK, WorkerTypeOK, NEW w \in Worker, AddFinalizer(w) \/ RemoveFinalizer(w)
  PROVE  KubeTypeOK' /\ WorkerTypeOK' /\ UNCHANGED hostVars
<1>1. /\ w \in Holder /\ worker[w].key \in Device /\ worker[w].obj \in BD
      /\ worker[w].pc # "idle"
  BY WorkerAssumption
     DEF AddFinalizer, RemoveFinalizer, WorkerTypeOK, WorkersReady, WorkerReady, WorkerState
<1>2. /\ [worker[w].obj EXCEPT !.finalizer = TRUE] \in BD
      /\ [worker[w].obj EXCEPT !.finalizer = FALSE] \in BD
  BY <1>1 DEF BD
<1>3. PICK ok \in BOOLEAN,
           new \in {[worker[w].obj EXCEPT !.finalizer = TRUE],
                    [worker[w].obj EXCEPT !.finalizer = FALSE]} :
        /\ Update(w, worker[w].key, new, FALSE, ok)
        /\ Finish(w, ~ok)
        /\ UNCHANGED hostVars
  BY DEF AddFinalizer, RemoveFinalizer
<1>4. KubeTypeOK'
  BY <1>1, <1>2, <1>3, UpdateType
<1>5. WorkerTypeOK'
  BY <1>1, <1>3, FinishType
<1> QED BY <1>3, <1>4, <1>5

\* Deleting a child.
LEMMA DeleteChildType ==
  ASSUME KubeTypeOK, WorkerTypeOK, NEW w \in Worker, DeleteChild(w)
  PROVE  KubeTypeOK' /\ WorkerTypeOK' /\ UNCHANGED hostVars
<1>1. PICK k \in worker[w].kids, reply \in {"OK", "NotFound", "Failed"} :
        /\ Delete(k, reply)
        /\ IF reply = "OK" THEN worker' = [worker EXCEPT ![w].kids = @ \ {k}]
                           ELSE Finish(w, TRUE)
        /\ UNCHANGED hostVars
  BY DEF DeleteChild
<1>2. /\ worker[w] \in WorkerState /\ WorkerReady(worker[w])
      /\ worker[w].pc # "idle" /\ k \in Device
  BY DEF DeleteChild, WorkerTypeOK, WorkersReady, WorkerState
<1>3. KubeTypeOK'
  BY <1>1, <1>2, DeleteType
<1>4. WorkerTypeOK'
  <2>1. CASE reply = "OK"
    <3> DEFINE s == [worker[w] EXCEPT !.kids = @ \ {k}]
    <3>1. s \in WorkerState /\ WorkerReady(s)
      BY <1>2 DEF WorkerState, WorkerReady
    <3>2. worker' = [worker EXCEPT ![w] = s]
      BY <1>1, <2>1
    <3> HIDE DEF s
    <3> QED BY <3>1, <3>2, WorkerReplaced
  <2>2. CASE reply # "OK"
    BY <1>1, <1>2, <2>2, FinishType
  <2> QED BY <2>1, <2>2
<1> QED BY <1>1, <1>3, <1>4

\* Giving the key back.
LEMMA DoneType ==
  ASSUME KubeTypeOK, WorkerTypeOK, NEW w \in Worker, Done(w)
  PROVE  KubeTypeOK' /\ WorkerTypeOK' /\ UNCHANGED hostVars
<1>1. worker[w].key \in Device
  BY DEF Done, WorkerTypeOK, WorkersReady, WorkerReady
<1>2. queue' \subseteq Device /\ fresh' \subseteq Holder \X Device
  BY <1>1 DEF Done, KubeTypeOK
<1>3. Idle \in WorkerState /\ WorkerReady(Idle) /\ worker' = [worker EXCEPT ![w] = Idle]
  BY DEF Done, Idle, WorkerState, WorkerReady
<1>4. WorkerTypeOK'
  BY <1>3, WorkerReplaced
<1> QED BY <1>2, <1>4 DEF Done, KubeTypeOK

\* Every step of a worker that has a key.
LEMMA WorkType ==
  ASSUME KubeTypeOK, ControllerTypeOK, WorkersReady, NEW w \in Worker, Work(w)
  PROVE  KubeTypeOK' /\ ControllerTypeOK' /\ WorkersReady'
<1>1. WorkerTypeOK
  BY DEF ControllerTypeOK, WorkerTypeOK
<1>2. CASE MountDevice(w)
  BY <1>1, <1>2, MountDeviceType DEF WorkerTypeOK
<1>3. CASE ~MountDevice(w)
  <2>1. KubeTypeOK' /\ WorkerTypeOK' /\ UNCHANGED hostVars
    <3>1. CASE SkipChange(w) \/ SkipRemove(w) \/ ListChildren(w) \/ ChildrenDeleted(w)
      BY <1>1, <3>1, LocalStepType DEF KubeTypeOK, kubeVars
    <3>2. CASE CheckMounted(w)
      BY <1>1, <3>2, CheckMountedType DEF CheckMounted, KubeTypeOK, kubeVars
    <3>3. CASE Rescan(w)
      BY <1>1, <3>3, RescanType DEF Rescan, KubeTypeOK, kubeVars
    <3> QED BY <1>1, <1>3, <3>1, <3>2, <3>3, SaveChangeType, FinalizerType, DeleteChildType,
               DoneType DEF Work
  <2> QED BY <2>1 DEF ControllerTypeOK, WorkerTypeOK, hostVars
<1> QED BY <1>2, <1>3

-----------------------------------------------------------------------------
(* The two functions that save a scanned object.                           *)

\* Whether they create the object or update the caller's copy of it.
LEMMA SaveType ==
  ASSUME KubeTypeOK, NEW h \in Holder, NEW n \in Device, NEW new \in BD,
         NEW existing \in BD \cup {NoObj}, NEW ok,
         \/ SaveBlockDevice(h, n, new, existing, ok)
         \/ SaveBlockDeviceByList(h, n, new, existing, ok)
  PROVE  KubeTypeOK'
<1>1. CASE existing = NoObj
  BY <1>1, CreateType DEF SaveBlockDevice, SaveBlockDeviceByList
<1>2. CASE existing # NoObj
  <2>1. existing \in BD
    BY <1>2
  <2>2. new.spec \in FilesystemInfo /\ new.deviceStatus \in DeviceStatus
    BY DEF BD
  <2>3. /\ [existing EXCEPT !.spec = new.spec, !.deviceStatus = new.deviceStatus] \in BD
        /\ [existing EXCEPT !.deviceStatus = new.deviceStatus] \in BD
    BY <2>1, <2>2 DEF BD
  <2> QED BY <1>2, <2>3, UpdateType DEF SaveBlockDevice, SaveBlockDeviceByList
<1> QED BY <1>1, <1>2

=============================================================================
