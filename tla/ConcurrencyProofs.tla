-------------------------- MODULE ConcurrencyProofs --------------------------
(***************************************************************************)
(* Optimistic concurrency, for any number of writers: whoever the API      *)
(* server still lets write an object holds exactly the stored one.  The    *)
(* action properties about the stored objects follow from it.              *)
(***************************************************************************)
EXTENDS NodeDiskManagerProofs

-----------------------------------------------------------------------------
(* What a call of the API server does to the copies and to the cache.      *)

\* A step makes no copy current but those of g, and changes no object that
\* another's copy still stands for.
KeptBut(g) ==
  \A h \in Holder, n \in Device :
    h # g /\ <<h, n>> \in fresh' => <<h, n>> \in fresh /\ store'[n] = store[n]

\* The same without an exception.
Kept ==
  \A h \in Holder, n \in Device :
    <<h, n>> \in fresh' => <<h, n>> \in fresh /\ store'[n] = store[n]

\* A write is one more version on its way to the cache.
LEMMA CommitCaught ==
  ASSUME KubeTypeOK, CacheCatchesUp, NEW n \in Device, NEW obj \in BD \cup {NoObj},
         Commit(n, obj), UNCHANGED <<cache, synced>>
  PROVE  CacheCatchesUp'
<1> DEFINE Obj == BD \cup {NoObj}
<1>1. SUFFICES ASSUME synced, NEW m \in Device
               PROVE  store'[m] = IF watch'[m] = <<>> THEN cache[m] ELSE watch'[m][Len(watch'[m])]
  BY DEF CacheCatchesUp
<1>2. store[m] = IF watch[m] = <<>> THEN cache[m] ELSE watch[m][Len(watch[m])]
  BY <1>1 DEF CacheCatchesUp
<1>3. watch \in [Device -> Seq(Obj)] /\ obj \in Obj /\ store \in [Device -> Obj]
  BY DEF KubeTypeOK
<1> HIDE DEF Obj
<1>4. /\ store' = [store EXCEPT ![n] = obj]
      /\ watch' = [watch EXCEPT ![n] = Append(@, obj)]
  BY <1>1 DEF Commit
<1>5. CASE m = n
  <2>1. watch'[n] = Append(watch[n], obj) /\ store'[n] = obj
    BY <1>3, <1>4
  <2>2. /\ Append(watch[n], obj) # <<>>
        /\ Append(watch[n], obj)[Len(Append(watch[n], obj))] = obj
    <3>1. watch[n] \in Seq(Obj)
      BY <1>3
    <3>2. /\ Len(Append(watch[n], obj)) = Len(watch[n]) + 1
          /\ Append(watch[n], obj)[Len(watch[n]) + 1] = obj
      BY <1>3, <3>1
    <3>3. Len(watch[n]) + 1 # 0
      BY <3>1, LenProperties
    <3>4. Append(watch[n], obj) # <<>>
      BY <3>2, <3>3, EmptySeq
    <3> QED BY <3>2, <3>4
  <2> QED BY <1>5, <2>1, <2>2
<1>6. CASE m # n
  BY <1>2, <1>3, <1>4, <1>6
<1> QED BY <1>5, <1>6

\* Delivering the oldest version on its way.
LEMMA DeliverCaught ==
  ASSUME KubeTypeOK, CacheCatchesUp, NEW n \in Device, Deliver(n)
  PROVE  CacheCatchesUp'
<1> DEFINE Obj == BD \cup {NoObj}
<1>1. SUFFICES ASSUME NEW m \in Device
               PROVE  store[m] = IF watch'[m] = <<>> THEN cache'[m] ELSE watch'[m][Len(watch'[m])]
  BY DEF CacheCatchesUp, Deliver
<1>2. store[m] = IF watch[m] = <<>> THEN cache[m] ELSE watch[m][Len(watch[m])]
  BY DEF CacheCatchesUp, Deliver
<1>3. watch \in [Device -> Seq(Obj)] /\ cache \in [Device -> Obj]
  BY DEF KubeTypeOK
<1> HIDE DEF Obj
<1>4. /\ cache' = [cache EXCEPT ![n] = Head(watch[n])] /\ watch[n] # <<>>
      /\ watch' = [watch EXCEPT ![n] = Tail(@)]
  BY DEF Deliver
<1>5. CASE m = n
  <2> DEFINE w == watch[n]
  <2>1. w \in Seq(Obj) /\ w # <<>>
    BY <1>3, <1>4
  <2>2. /\ Tail(w) \in Seq(Obj) /\ Len(Tail(w)) = Len(w) - 1
        /\ \A i \in 1..Len(Tail(w)) : Tail(w)[i] = w[i + 1]
        /\ Len(w) \in Nat /\ Len(w) # 0 /\ Head(w) = w[1]
    BY <2>1, HeadTailProperties, EmptySeq
  <2>3. cache'[n] = Head(w) /\ watch'[n] = Tail(w)
    BY <1>3, <1>4
  <2>4. CASE Tail(w) = <<>>
    <3>1. Len(Tail(w)) = 0
      BY <2>4, EmptySeq
    <3>2. Len(w) = 1
      BY <2>2, <3>1
    <3> QED BY <1>2, <1>4, <1>5, <2>2, <2>3, <2>4, <3>2
  <2>5. CASE Tail(w) # <<>>
    <3>1. Len(Tail(w)) \in 1..Len(Tail(w))
      BY <2>2, <2>5, EmptySeq
    <3>2. Tail(w)[Len(Tail(w))] = w[Len(w)]
      BY <2>2, <3>1
    <3> QED BY <1>2, <1>4, <1>5, <2>3, <2>5, <3>2
  <2> QED BY <2>4, <2>5
<1>6. CASE m # n
  BY <1>2, <1>3, <1>4, <1>6
<1> QED BY <1>5, <1>6

\* A step that writes nothing.
LEMMA NoWrite ==
  ASSUME CacheCatchesUp, UNCHANGED <<store, watch, cache, synced>>, fresh' \subseteq fresh
  PROVE  CacheCatchesUp' /\ Kept
BY DEF CacheCatchesUp, Kept

\* A write after which every copy of the object is stale.
LEMMA StaleWrite ==
  ASSUME KubeTypeOK, CacheCatchesUp, NEW n \in Device, NEW obj \in BD \cup {NoObj},
         Commit(n, obj), fresh' = Stale(n), UNCHANGED <<cache, synced>>
  PROVE  CacheCatchesUp' /\ Kept
<1>1. \A h \in Holder, m \in Device : <<h, m>> \in Stale(n) => <<h, m>> \in fresh /\ m # n
  BY DEF Stale
<1>2. \A m \in Device : m # n => store'[m] = store[m]
  BY DEF Commit, KubeTypeOK
<1> QED BY <1>1, <1>2, CommitCaught DEF Kept

\* Update: the caller alone may come out of it with a current copy, and then
\* it is the object it wrote.
LEMMA UpdateKept ==
  ASSUME KubeTypeOK, CacheCatchesUp, NEW h \in Holder, NEW n \in Device, NEW new \in BD,
         NEW keep \in BOOLEAN, NEW ok \in BOOLEAN, Update(h, n, new, keep, ok)
  PROVE  /\ CacheCatchesUp'
         /\ ~keep \/ ~ok => Kept
         /\ KeptBut(h)
         /\ \A m \in Device : m # n /\ <<h, m>> \in fresh' => <<h, m>> \in fresh /\ store'[m] = store[m]
         /\ keep /\ ok /\ Settled(new) = new => store'[n] = new
<1>1. UNCHANGED <<cache, synced>>
  BY DEF Update
<1>2. \/ UNCHANGED <<store, watch, fresh>> /\ (ok => new = store[n])
      \/ /\ Commit(n, Settled(new))
         /\ \/ keep /\ ok /\ fresh' = Stale(n) \cup {<<h, n>>}
            \/ (~keep \/ ~ok) /\ fresh' = Stale(n)
  BY DEF Update, ApplyUpdate
<1>3. CASE UNCHANGED <<store, watch, fresh>> /\ (ok => new = store[n])
  <2>1. CacheCatchesUp' /\ Kept
    BY <1>1, <1>3, NoWrite
  <2> QED BY <1>3, <2>1 DEF Kept, KeptBut
<1>4. CASE Commit(n, Settled(new)) /\ fresh' = Stale(n) /\ (~keep \/ ~ok)
  <2>1. CacheCatchesUp' /\ Kept
    BY <1>1, <1>4, StaleWrite, SettledType
  <2> QED BY <1>4, <2>1 DEF Kept, KeptBut
<1>5. CASE Commit(n, Settled(new)) /\ fresh' = Stale(n) \cup {<<h, n>>} /\ keep /\ ok
  <2>1. CacheCatchesUp'
    BY <1>1, <1>5, CommitCaught, SettledType
  <2>2. \A g \in Holder, m \in Device :
          <<g, m>> \in Stale(n) => <<g, m>> \in fresh /\ m # n
    BY DEF Stale
  <2>3. store'[n] = Settled(new) /\ \A m \in Device : m # n => store'[m] = store[m]
    BY <1>5 DEF Commit, KubeTypeOK
  <2> QED BY <1>5, <2>1, <2>2, <2>3 DEF KeptBut
<1> QED BY <1>2, <1>3, <1>4, <1>5

\* Create and Delete, by whomever.
LEMMA CreateKept ==
  ASSUME KubeTypeOK, CacheCatchesUp, NEW n \in Device, NEW new \in BD, NEW ok,
         Create(n, new, ok)
  PROVE  CacheCatchesUp' /\ Kept
<1>1. UNCHANGED <<cache, synced>>
  BY DEF Create
<1>2. UNCHANGED <<store, watch, fresh>> \/ (Commit(n, new) /\ fresh' = Stale(n))
  BY DEF Create, ApplyCreate
<1> QED BY <1>1, <1>2, NoWrite, StaleWrite

\* What a deletion does to the stored object keeps the cache and the copies.
LEMMA ApplyDeleteKept ==
  ASSUME KubeTypeOK, CacheCatchesUp, NEW n \in Device, ApplyDelete(n),
         UNCHANGED <<cache, synced>>
  PROVE  CacheCatchesUp' /\ Kept
<1>1. CASE UNCHANGED <<store, watch, fresh>>
  BY <1>1, NoWrite
<1>2. CASE ~UNCHANGED <<store, watch, fresh>>
  <2>1. store[n] \in BD /\ Commit(n, Settled([store[n] EXCEPT !.deleting = TRUE]))
        /\ fresh' = Stale(n)
    BY <1>2 DEF ApplyDelete, KubeTypeOK
  <2>2. [store[n] EXCEPT !.deleting = TRUE] \in BD
    BY <2>1 DEF BD
  <2> QED BY <2>1, <2>2, SettledType, StaleWrite
<1> QED BY <1>1, <1>2

\* So does the call, when it fails too.
LEMMA DeleteKept ==
  ASSUME KubeTypeOK, CacheCatchesUp, NEW n \in Device, NEW reply, Delete(n, reply)
  PROVE  CacheCatchesUp' /\ Kept
<1>1. UNCHANGED <<cache, synced>>
  BY DEF Delete
<1>2. UNCHANGED <<store, watch, fresh>> \/ ApplyDelete(n)
  BY DEF Delete
<1> QED BY <1>1, <1>2, NoWrite, ApplyDeleteKept

\* The two functions that save a scanned object: their caller goes on with
\* the copy it had.
LEMMA SaveKept ==
  ASSUME KubeTypeOK, CacheCatchesUp, NEW h \in Holder, NEW n \in Device, NEW new \in BD,
         NEW existing \in BD \cup {NoObj}, NEW ok \in BOOLEAN,
         \/ SaveBlockDevice(h, n, new, existing, ok)
         \/ SaveBlockDeviceByList(h, n, new, existing, ok)
  PROVE  CacheCatchesUp' /\ Kept
<1>1. CASE existing = NoObj
  BY <1>1, CreateKept DEF SaveBlockDevice, SaveBlockDeviceByList
<1>2. CASE existing # NoObj
  <2>1. existing \in BD
    BY <1>2
  <2>2. new.spec \in FilesystemInfo /\ new.deviceStatus \in DeviceStatus
    BY DEF BD
  <2>3. /\ [existing EXCEPT !.spec = new.spec, !.deviceStatus = new.deviceStatus] \in BD
        /\ [existing EXCEPT !.deviceStatus = new.deviceStatus] \in BD
    BY <2>1, <2>2 DEF BD
  <2>4. PICK obj \in BD : Update(h, n, obj, FALSE, ok)
    BY <1>2, <2>3 DEF SaveBlockDevice, SaveBlockDeviceByList
  <2> QED BY <2>4, UpdateKept
<1> QED BY <1>1, <1>2

-----------------------------------------------------------------------------
(* What OnBlockDeviceChange is about to save.                              *)

\* Each change it makes to its copy keeps the rest.
LEMMA CopyKeepsTheRest ==
  ASSUME NEW old \in BD, NEW new \in BD, KeepsTheRest(old, new)
  PROVE  /\ KeepsTheRest(old, Stamped(new))
         /\ \A err : KeepsTheRest(old, SetMounted(new, err))
         /\ \A d, entries : KeepsTheRest(old, Rescanned(new, d, entries))
<1> USE DEF KeepsTheRest
<1>1. new.deviceStatus \in DeviceStatus
  BY DEF BD
<1>2. new.deviceStatus.fileSystem \in FilesystemStatus
  BY <1>1 DEF DeviceStatus
<1>3. KeepsTheRest(old, Stamped(new))
  BY <1>1, <1>2 DEF Stamped, BD, DeviceStatus, FilesystemStatus
<1>4. \A err : KeepsTheRest(old, SetMounted(new, err))
  BY DEF SetMounted, BD
<1>5. \A d, entries : KeepsTheRest(old, Rescanned(new, d, entries))
  <2> TAKE d, entries
  <2> DEFINE fs == DiskFileSystem(d, entries, d \in plugged)
  <2>1. Rescanned(new, d, entries) =
          [new EXCEPT !.deviceStatus.fileSystem.mountPoint = fs.mountPoint,
                      !.deviceStatus.fileSystem.type = fs.type]
    BY DEF Rescanned
  <2> HIDE DEF fs
  <2> DEFINE status == [new.deviceStatus.fileSystem EXCEPT !.mountPoint = fs.mountPoint,
                                                           !.type = fs.type]
  <2>2. Rescanned(new, d, entries) =
          [new EXCEPT !.deviceStatus = [new.deviceStatus EXCEPT !.fileSystem = status]]
    BY <1>1, <1>2, <2>1 DEF BD, DeviceStatus, FilesystemStatus
  <2>3. status.lastFormattedAt = new.deviceStatus.fileSystem.lastFormattedAt
    BY <1>2 DEF FilesystemStatus
  <2> HIDE DEF status
  <2> QED BY <1>1, <2>2, <2>3 DEF BD, DeviceStatus
<1> QED BY <1>3, <1>4, <1>5

\* Finishing keeps all but the label.
LEMMA FinishKeeps ==
  ASSUME worker \in [Worker -> WorkerState], NEW w \in Worker, NEW failed, Finish(w, failed)
  PROVE  /\ worker'[w].pc = "done"
         /\ worker'[w].key = worker[w].key /\ worker'[w].obj = worker[w].obj
         /\ \A v \in Worker \ {w} : worker'[v] = worker[v]
<1> DEFINE either == worker[w].failed \/ failed
           s == [worker[w] EXCEPT !.pc = "done", !.failed = either]
<1>1. worker' = [worker EXCEPT ![w] = s]
  BY DEF Finish
<1>2. s.pc = "done" /\ s.key = worker[w].key /\ s.obj = worker[w].obj
  <2> HIDE DEF either
  <2> QED BY DEF WorkerState
<1> HIDE DEF s
<1> QED BY <1>1, <1>2

\* Saving the change does, but for the object the server returned.
LEMMA SaveChangeKeeps ==
  ASSUME WorkerTypeOK, NEW w \in Worker, SaveChange(w)
  PROVE  \E ok, keep \in BOOLEAN :
           /\ keep => ok
           /\ Update(w, worker[w].key, worker[w].copy, keep, ok)
           /\ worker'[w].pc = "remove" /\ worker'[w].key = worker[w].key
           /\ worker'[w].obj = IF keep THEN worker[w].copy ELSE worker[w].obj
           /\ \A v \in Worker \ {w} : worker'[v] = worker[v]
<1>1. PICK ok \in BOOLEAN :
        LET keep == worker[w].pc = "saveError" /\ ok
        IN  /\ Update(w, worker[w].key, worker[w].copy, keep, ok)
            /\ worker' = [worker EXCEPT ![w] =
                 [@ EXCEPT !.pc = "remove", !.failed = ~ok,
                           !.obj = IF keep THEN worker[w].copy ELSE worker[w].obj]]
  BY DEF SaveChange
<1> DEFINE failed == ~ok
           keep == worker[w].pc = "saveError" /\ ok
           obj == IF keep THEN worker[w].copy ELSE worker[w].obj
           s == [worker[w] EXCEPT !.pc = "remove", !.failed = failed, !.obj = obj]
<1>2. worker' = [worker EXCEPT ![w] = s] /\ Update(w, worker[w].key, worker[w].copy, keep, ok)
  BY <1>1
<1>3. s.pc = "remove" /\ s.key = worker[w].key /\ s.obj = obj
  <2> HIDE DEF failed, obj
  <2> QED BY DEF WorkerTypeOK, WorkerState
<1>4. keep \in BOOLEAN /\ (keep => ok)
  OBVIOUS
<1> HIDE DEF s, keep
<1> QED BY <1>2, <1>3, <1>4 DEF WorkerTypeOK

\* A worker's step keeps what is to be saved that way.
LEMMA WorkKeepsTheRest ==
  ASSUME Control, SavesKeepTheRest, NEW w \in Worker,
         Work(w) \/ \E n \in Device : Take(w, n)
  PROVE  SavesKeepTheRest' /\ \A v \in Worker \ {w} : worker'[v] = worker[v]
<1>1. worker[w] \in WorkerState /\ WorkerReady(worker[w]) /\ worker \in [Worker -> WorkerState]
  BY DEF Control, TypeOK, Ready, ControllerTypeOK, WorkersReady
<1>2. SUFFICES /\ \A v \in Worker \ {w} : worker'[v] = worker[v]
               /\ worker'[w].pc \in {"rescan", "save", "saveError"}
                    => KeepsTheRest(worker'[w].obj, worker'[w].copy)
  BY DEF SavesKeepTheRest
<1>3. CASE CheckMounted(w) \/ MountDevice(w) \/ Rescan(w)
  <2> DEFINE obj == worker[w].obj
  <2>1. obj \in BD /\ worker[w].key \in Device
    BY <1>1, <1>3 DEF CheckMounted, MountDevice, Rescan, NeedsNothing, WorkerState, WorkerReady
  <2>2. PICK final \in BD, pc \in {"remove", "rescan", "save", "saveError"} :
          /\ KeepsTheRest(obj, final)
          /\ worker' = [worker EXCEPT ![w] = [@ EXCEPT !.copy = final, !.pc = pc]]
    <3>1. ASSUME NEW copy \in BD, KeepsTheRest(obj, copy), Conclude(w, copy)
          PROVE  \E final \in BD, pc \in {"remove", "rescan", "save", "saveError"} :
                   /\ KeepsTheRest(obj, final)
                   /\ worker' = [worker EXCEPT ![w] = [@ EXCEPT !.copy = final, !.pc = pc]]
      <4> DEFINE final == SetMounted(copy, FileSystemError(copy))
                 pc == IF final = obj THEN "remove" ELSE "save"
      <4>1. FileSystemError(copy) \in Error
        BY <3>1, FileSystemErrorType
      <4>2. final \in BD /\ KeepsTheRest(obj, final)
        BY <2>1, <3>1, <4>1, CopyKeepsTheRest, SetMountedType
      <4>3. worker' = [worker EXCEPT ![w] = [@ EXCEPT !.copy = final, !.pc = pc]]
        BY <3>1 DEF Conclude
      <4>4. pc \in {"remove", "rescan", "save", "saveError"}
        OBVIOUS
      <4> HIDE DEF final, pc
      <4> QED BY <4>2, <4>3, <4>4
    <3>2. CASE CheckMounted(w)
      BY <2>1, <3>1, <3>2 DEF CheckMounted, NeedsNothing, KeepsTheRest
    <3>3. CASE MountDevice(w)
      <4> DEFINE stamped == Stamped(obj)
                 failed(errno) == <<"mount", obj.spec.mountPoint, errno>>
      <4>1. ~obj.deleting
        BY <3>3 DEF MountDevice, NeedsNothing
      <4>2. KeepsTheRest(obj, obj)
        BY <4>1 DEF KeepsTheRest
      <4>3. /\ stamped \in BD /\ KeepsTheRest(obj, stamped)
            /\ \A errno \in Errno : failed(errno) \in Error
        BY <2>1, <4>2, StampedType, FileSystemErrorType, CopyKeepsTheRest
      <4>4. CASE worker' = [worker EXCEPT ![w] = [@ EXCEPT !.pc = "rescan", !.copy = stamped]]
        <5> DEFINE s == [worker[w] EXCEPT !.copy = stamped, !.pc = "rescan"]
        <5>1. worker' = [worker EXCEPT ![w] = s]
          <6> HIDE DEF stamped
          <6> QED BY <1>1, <4>4 DEF WorkerState
        <5> QED BY <4>3, <5>1
      <4>5. CASE \E errno \in Errno : worker' = [worker EXCEPT ![w] =
                   [@ EXCEPT !.pc = "saveError", !.copy = SetMounted(stamped, failed(errno))]]
        <5>1. PICK errno \in Errno : worker' = [worker EXCEPT ![w] =
                [@ EXCEPT !.pc = "saveError", !.copy = SetMounted(stamped, failed(errno))]]
          BY <4>5
        <5> DEFINE final == SetMounted(stamped, failed(errno))
                   s == [worker[w] EXCEPT !.copy = final, !.pc = "saveError"]
        <5>2. final \in BD /\ KeepsTheRest(obj, final)
          BY <2>1, <4>3, CopyKeepsTheRest, SetMountedType
        <5>3. worker' = [worker EXCEPT ![w] = s]
          BY <1>1, <5>1 DEF WorkerState
        <5> QED BY <5>2, <5>3
      <4> QED BY <3>3, <4>4, <4>5 DEF MountDevice
    <3>4. CASE Rescan(w)
      <4> DEFINE key == worker[w].key
                 copy == worker[w].copy
                 entries == mtab[key]
                 again == Rescanned(copy, key, entries)
      <4>1. copy \in BD /\ KeepsTheRest(obj, copy) /\ Conclude(w, again)
        BY <1>1, <3>4 DEF Rescan, SavesKeepTheRest, WorkerState, WorkerReady
      <4>2. key \in Device /\ entries \in Seq(Dir)
        BY <2>1 DEF Control, TypeOK, Ready, ControllerTypeOK
      <4> HIDE DEF key, copy, entries
      <4>3. again \in BD /\ KeepsTheRest(obj, again)
        BY <2>1, <4>1, <4>2, RescannedType, CopyKeepsTheRest
      <4> QED BY <3>1, <4>1, <4>3
    <3> QED BY <1>3, <3>2, <3>3, <3>4
  <2> DEFINE s == [worker[w] EXCEPT !.copy = final, !.pc = pc]
  <2>3. worker' = [worker EXCEPT ![w] = s]
    BY <2>2
  <2>4. s.obj = obj /\ s.copy = final
    BY <1>1 DEF WorkerState
  <2> HIDE DEF s
  <2> QED BY <1>1, <2>2, <2>3, <2>4
<1>4. CASE ~CheckMounted(w) /\ ~MountDevice(w) /\ ~Rescan(w)
  <2>1. /\ worker'[w].pc \notin {"rescan", "save", "saveError"}
        /\ \A v \in Worker \ {w} : worker'[v] = worker[v]
    <3>1. CASE \E n \in Device : Take(w, n)
      BY <1>1, <3>1 DEF Take, Idle
    <3>2. CASE SkipChange(w) \/ SkipRemove(w) \/ ChildrenDeleted(w)
      BY <1>1, <3>2 DEF SkipChange, SkipRemove, ChildrenDeleted, Goto, WorkerState
    <3>3. CASE ListChildren(w) \/ Done(w)
      <4>1. CASE Done(w)
        BY <1>1, <4>1 DEF Done, Idle
      <4>2. CASE ListChildren(w)
        <5>1. PICK kids : worker' = [worker EXCEPT ![w] =
                [@ EXCEPT !.pc = "children", !.kids = kids]]
          BY <4>2 DEF ListChildren
        <5> QED BY <1>1, <5>1 DEF WorkerState
      <4> QED BY <3>3, <4>1, <4>2
    <3>4. CASE AddFinalizer(w) \/ RemoveFinalizer(w)
      <4>1. PICK failed : Finish(w, failed)
        BY <3>4 DEF AddFinalizer, RemoveFinalizer
      <4> QED BY <1>1, <4>1, FinishKeeps
    <3>5. CASE DeleteChild(w)
      <4>1. CASE Finish(w, TRUE)
        BY <1>1, <4>1, FinishKeeps
      <4>2. CASE ~Finish(w, TRUE)
        BY <1>1, <3>5, <4>2 DEF DeleteChild, WorkerState
      <4> QED BY <4>1, <4>2
    <3>6. CASE SaveChange(w)
      BY <3>6, SaveChangeKeeps DEF WorkerTypeOK, Control, TypeOK, Ready, ControllerTypeOK
    <3> QED BY <1>4, <3>1, <3>2, <3>3, <3>4, <3>5, <3>6 DEF Work
  <2> QED BY <2>1
<1> QED BY <1>3, <1>4

-----------------------------------------------------------------------------
(* The copies, step by step.                                               *)

\* A holder of copies is a worker, a call of the monitor or the start-up code,
\* and only one of them.
LEMMA HoldersDiffer ==
  ASSUME Control
  PROVE  /\ DOMAIN frames \subseteq 1..MaxDepth
         /\ \A i \in DOMAIN frames : i \in Holder /\ i \notin Worker /\ i # Boot
         /\ Worker \subseteq Holder /\ Boot \in Holder /\ Boot \notin Worker
<1>1. DOMAIN frames = 1..Len(frames) /\ Len(frames) \in Nat /\ Len(frames) <= MaxDepth
  BY LenProperties DEF Control, TypeOK, Ready, UdevTypeOK, FramesReady
<1>2. DOMAIN frames \subseteq 1..MaxDepth
  BY <1>1, UdevAssumption
<1> QED BY <1>2, UdevAssumption, WorkerAssumption, SystemAssumption

\* When only g gains copies, and those are current, all are.
LEMMA StillCurrent ==
  ASSUME Control, Control', CopiesAreCurrent, NEW g, KeptBut(g),
         \A w \in Worker \ {g} : worker'[w] = worker[w],
         \A i \in DOMAIN frames' : i # g /\ frames'[i].pc = "save"
           => i \in DOMAIN frames /\ frames[i].pc = "save" /\ frames'[i].list = frames[i].list,
         g # Boot /\ phase' = "register" => phase = "register" /\ boot' = boot,
         \A n \in Device : <<g, n>> \in fresh' =>
           /\ g \in Worker => worker'[g].key = n /\ worker'[g].obj = store'[n]
           /\ g \in DOMAIN frames' /\ frames'[g].pc = "save" => frames'[g].list[n] = store'[n]
           /\ g = Boot /\ phase' = "register" => boot'.list[n] = store'[n]
  PROVE  CopiesAreCurrent'
<1>1. WorkersCurrent'
  BY HoldersDiffer DEF CopiesAreCurrent, WorkersCurrent, KeptBut
<1>2. FramesCurrent'
  <2>1. DOMAIN frames' \subseteq Holder
    <3>1. DOMAIN frames' = 1..Len(frames') /\ Len(frames') \in Nat /\ Len(frames') <= MaxDepth
      BY LenProperties DEF Control, TypeOK, Ready, UdevTypeOK, FramesReady
    <3> QED BY <3>1, UdevAssumption
  <2> QED BY <2>1 DEF CopiesAreCurrent, FramesCurrent, KeptBut
<1>3. BootCurrent'
  BY HoldersDiffer DEF CopiesAreCurrent, BootCurrent, KeptBut
<1> QED BY <1>1, <1>2, <1>3 DEF CopiesAreCurrent

\* A step by which nobody gains a copy: the lists of the monitor's calls stay.
LEMMA StillCurrentKept ==
  ASSUME Control, Control', CopiesAreCurrent, Kept, UNCHANGED <<worker, phase, boot>>,
         \A i \in DOMAIN frames' : frames'[i].pc = "save"
           => i \in DOMAIN frames /\ frames[i].pc = "save" /\ frames'[i].list = frames[i].list
  PROVE  CopiesAreCurrent'
<1>1. KeptBut(Boot) /\ \A n \in Device : <<Boot, n>> \in fresh' /\ phase' = "register"
        => boot'.list[n] = store'[n]
  BY HoldersDiffer DEF Kept, KeptBut, CopiesAreCurrent, BootCurrent
<1>2. Boot \notin DOMAIN frames' /\ Boot \notin Worker
  <2>1. DOMAIN frames' = 1..Len(frames') /\ Len(frames') \in Nat /\ Len(frames') <= MaxDepth
    BY LenProperties DEF Control, TypeOK, Ready, UdevTypeOK, FramesReady
  <2> QED BY <2>1, SystemAssumption, UdevAssumption
<1> QED BY <1>1, <1>2, StillCurrent

\* Taking a key: the copy from the cache is current when nothing is on its way.
LEMMA TakeCurrent ==
  ASSUME IInv, Control', NEW w \in Worker, NEW n \in Device, Take(w, n),
         UNCHANGED <<udevVars, sysVars>>
  PROVE  CopiesAreCurrent' /\ CacheCatchesUp'
<1> USE DEF IInv
<1>1. CacheCatchesUp'
  BY DEF Take, CacheCatchesUp
<1>2. synced
  BY AwakeWhenWorking DEF Take
<1>3. \A h, m : <<h, m>> \in fresh' =>
        \/ <<h, m>> \in fresh /\ h # w
        \/ h = w /\ m = n /\ watch[n] = <<>>
  BY DEF Take, TakeFromCache
<1>4. KeptBut(w)
  BY <1>3 DEF KeptBut, Take
<1>5. /\ worker'[w].key = n /\ worker'[w].obj = cache[n]
      /\ \A v \in Worker \ {w} : worker'[v] = worker[v]
  BY DEF Take, Idle, Control, TypeOK, ControllerTypeOK
<1>6. watch[n] = <<>> => cache[n] = store'[n]
  BY <1>2 DEF CacheCatchesUp, Take
<1> QED BY <1>1, <1>3, <1>4, <1>5, <1>6, HoldersDiffer, StillCurrent DEF udevVars, sysVars

\* A worker that keeps its key and its object keeps its copies.
LEMMA WorkerStillCurrent ==
  ASSUME IInv, Control', NEW w \in Worker, Kept, worker'[w].key = worker[w].key,
         worker'[w].obj = worker[w].obj, \A v \in Worker \ {w} : worker'[v] = worker[v],
         UNCHANGED <<frames, phase, boot>>
  PROVE  CopiesAreCurrent'
<1>1. \A n \in Device : <<w, n>> \in fresh' =>
        worker'[w].key = n /\ worker'[w].obj = store'[n]
  BY HoldersDiffer DEF IInv, Kept, CopiesAreCurrent, WorkersCurrent
<1>2. KeptBut(w) /\ CopiesAreCurrent /\ Control
  BY DEF IInv, Kept, KeptBut
<1> QED BY <1>1, <1>2, HoldersDiffer, StillCurrent

\* Saving the change: the one case in which a worker's object is replaced.
LEMMA SaveChangeCurrent ==
  ASSUME IInv, Control', NEW w \in Worker, SaveChange(w), UNCHANGED <<udevVars, sysVars>>
  PROVE  CopiesAreCurrent' /\ CacheCatchesUp'
<1> USE DEF IInv
<1>1. /\ WorkerTypeOK /\ KubeTypeOK /\ w \in Holder
      /\ worker[w].key \in Device /\ worker[w].copy \in BD
  BY WorkerAssumption
     DEF Control, TypeOK, Ready, ControllerTypeOK, WorkerTypeOK, WorkersReady, WorkerReady,
         WorkerState, SaveChange
<1>2. PICK ok \in BOOLEAN, keep \in BOOLEAN :
        /\ keep => ok
        /\ Update(w, worker[w].key, worker[w].copy, keep, ok)
        /\ worker'[w].pc = "remove" /\ worker'[w].key = worker[w].key
        /\ worker'[w].obj = IF keep THEN worker[w].copy ELSE worker[w].obj
        /\ \A v \in Worker \ {w} : worker'[v] = worker[v]
  BY <1>1, SaveChangeKeeps
<1> DEFINE n == worker[w].key
           new == worker[w].copy
<1>3. /\ CacheCatchesUp'
      /\ ~keep \/ ~ok => Kept
      /\ KeptBut(w)
      /\ \A m \in Device : m # n /\ <<w, m>> \in fresh' => <<w, m>> \in fresh /\ store'[m] = store[m]
      /\ keep /\ ok /\ Settled(new) = new => store'[n] = new
  BY <1>1, <1>2, UpdateKept
<1>4. UNCHANGED <<frames, phase, boot>>
  BY DEF udevVars, sysVars
<1>5. CASE ~keep
  BY <1>2, <1>3, <1>4, <1>5, WorkerStillCurrent
<1>6. CASE keep
  <2>1. ~new.deleting
    BY DEF SaveChange, SavesKeepTheRest, KeepsTheRest
  <2>2. store'[n] = new
    BY <1>2, <1>3, <1>6, <2>1 DEF Settled
  <2>3. \A m \in Device : <<w, m>> \in fresh' => m = n
    BY <1>3 DEF CopiesAreCurrent, WorkersCurrent
  <2> QED BY <1>2, <1>3, <1>4, <1>6, <2>2, <2>3, HoldersDiffer, StillCurrent
<1> QED BY <1>5, <1>6

\* The steps of a worker that has a key.
LEMMA WorkCurrent ==
  ASSUME IInv, Control', NEW w \in Worker, Reconcile(w)
  PROVE  CopiesAreCurrent' /\ CacheCatchesUp'
<1> USE DEF IInv
<1>1. UNCHANGED <<frames, phase, boot>> /\ Work(w)
  BY DEF Reconcile, udevVars, sysVars
<1>2. /\ worker \in [Worker -> WorkerState] /\ worker[w] \in WorkerState
      /\ WorkerReady(worker[w]) /\ w \in Holder /\ KubeTypeOK
  BY WorkerAssumption DEF Control, TypeOK, Ready, ControllerTypeOK, WorkersReady
<1>3. CASE SaveChange(w)
  BY <1>3, SaveChangeCurrent DEF Reconcile
<1>4. CASE Done(w)
  <2>1. KeptBut(w) /\ \A m \in Device : <<w, m>> \notin fresh'
    BY <1>4 DEF Done, KeptBut
  <2>2. CacheCatchesUp' /\ \A v \in Worker \ {w} : worker'[v] = worker[v]
    BY <1>2, <1>4 DEF Done, CacheCatchesUp
  <2> QED BY <1>1, <2>1, <2>2, HoldersDiffer, StillCurrent
<1>5. CASE ~SaveChange(w) /\ ~Done(w)
  <2>1. /\ worker'[w].key = worker[w].key /\ worker'[w].obj = worker[w].obj
        /\ \A v \in Worker \ {w} : worker'[v] = worker[v]
    <3>1. CASE SkipChange(w) \/ SkipRemove(w) \/ ChildrenDeleted(w)
      BY <1>2, <3>1 DEF SkipChange, SkipRemove, ChildrenDeleted, Goto, WorkerState
    <3>2. CASE \E failed : Finish(w, failed)
      BY <1>2, <3>2, FinishKeeps
    <3>3. CASE \E kids, pc : worker' = [worker EXCEPT ![w] = [@ EXCEPT !.pc = pc, !.kids = kids]]
      BY <1>2, <3>3 DEF WorkerState
    <3>4. CASE \E copy, pc : worker' = [worker EXCEPT ![w] = [@ EXCEPT !.copy = copy, !.pc = pc]]
      BY <1>2, <3>4 DEF WorkerState
    <3>5. CASE CheckMounted(w) \/ Rescan(w)
      BY <3>4, <3>5 DEF CheckMounted, Rescan, Conclude
    <3>6. CASE MountDevice(w)
      <4>1. PICK copy : \/ worker' = [worker EXCEPT ![w] =
                                [@ EXCEPT !.pc = "rescan", !.copy = copy]]
                        \/ worker' = [worker EXCEPT ![w] =
                                [@ EXCEPT !.pc = "saveError", !.copy = copy]]
        BY <3>6 DEF MountDevice
      <4> DEFINE s(pc) == [worker[w] EXCEPT !.copy = copy, !.pc = pc]
      <4>2. worker' = [worker EXCEPT ![w] = s("rescan")]
              \/ worker' = [worker EXCEPT ![w] = s("saveError")]
        BY <1>2, <4>1 DEF WorkerState
      <4> QED BY <3>4, <4>2
    <3>7. CASE ListChildren(w)
      BY <3>3, <3>7 DEF ListChildren
    <3>8. CASE DeleteChild(w)
      <4>1. CASE Finish(w, TRUE)
        BY <3>2, <4>1
      <4>2. CASE ~Finish(w, TRUE)
        <5>1. PICK k : worker' = [worker EXCEPT ![w].kids = @ \ {k}]
          BY <3>8, <4>2 DEF DeleteChild
        <5> QED BY <1>2, <5>1 DEF WorkerState
      <4> QED BY <4>1, <4>2
    <3>9. CASE AddFinalizer(w) \/ RemoveFinalizer(w)
      BY <3>2, <3>9 DEF AddFinalizer, RemoveFinalizer
    <3> QED BY <1>1, <1>5, <3>1, <3>5, <3>6, <3>7, <3>8, <3>9 DEF Work
  <2>2. CacheCatchesUp' /\ Kept
    <3>1. CASE SkipChange(w) \/ SkipRemove(w) \/ ChildrenDeleted(w) \/ ListChildren(w)
               \/ CheckMounted(w) \/ MountDevice(w) \/ Rescan(w)
      BY <3>1, NoWrite DEF SkipChange, SkipRemove, ChildrenDeleted, ListChildren,
         CheckMounted, MountDevice, Rescan, kubeVars
    <3>2. CASE DeleteChild(w)
      <4>1. PICK k \in worker[w].kids, reply \in {"OK", "NotFound", "Failed"} :
              Delete(k, reply)
        BY <3>2 DEF DeleteChild
      <4>2. k \in Device
        BY <1>2 DEF WorkerState
      <4> QED BY <1>2, <4>1, <4>2, DeleteKept
    <3>3. CASE AddFinalizer(w) \/ RemoveFinalizer(w)
      <4>1. worker[w].key \in Device /\ worker[w].obj \in BD
        BY <1>2, <3>3 DEF AddFinalizer, RemoveFinalizer, WorkerReady, WorkerState
      <4>2. /\ [worker[w].obj EXCEPT !.finalizer = TRUE] \in BD
            /\ [worker[w].obj EXCEPT !.finalizer = FALSE] \in BD
        BY <4>1 DEF BD
      <4>3. PICK ok \in BOOLEAN, new \in BD : Update(w, worker[w].key, new, FALSE, ok)
        BY <3>3, <4>2 DEF AddFinalizer, RemoveFinalizer
      <4> DEFINE n == worker[w].key
      <4>4. n \in Device /\ Update(w, n, new, FALSE, ok)
        BY <4>1, <4>3
      <4> HIDE DEF n
      <4> QED BY <1>2, <4>4, UpdateKept
    <3> QED BY <1>1, <1>5, <3>1, <3>2, <3>3 DEF Work
  <2> QED BY <1>1, <2>1, <2>2, WorkerStillCurrent
<1> QED BY <1>3, <1>4, <1>5

\* The monitor's steps: AddList alone takes copies, all from the cache.
LEMMA HandleCurrent ==
  ASSUME IInv, Control', HandleUevent
  PROVE  CopiesAreCurrent' /\ CacheCatchesUp'
<1> USE DEF IInv
<1>1. UNCHANGED <<worker, phase, boot>> /\ Handle
  BY HandleType DEF HandleUevent, sysVars, Control, TypeOK, Ready
<1>2. KubeTypeOK /\ ControllerTypeOK /\ UdevTypeOK /\ FramesReady /\ frames \in Seq(Frame)
  BY DEF Control, TypeOK, Ready, UdevTypeOK
<1>3. frames # <<>> =>
        /\ Depth \in DOMAIN frames /\ Depth \in Holder /\ DOMAIN frames = 1..Depth
        /\ Depth = Len(frames) /\ Depth \in Nat /\ Depth # 0
        /\ Top \in Frame /\ Top.event \in UEvent /\ Top.event.device \in Device /\ FrameReady(Top)
  BY <1>2, TopType, LenProperties DEF Depth
<1>4. CASE ActionHandler \/ LogError \/ AddScan \/ UpdateRead \/ UpdatePut \/ RemoveBlockDevice
  <2>1. CacheCatchesUp' /\ Kept
    <3>1. CASE RemoveBlockDevice
      <4>1. PICK reply : Delete(Top.event.device, reply)
        BY <3>1 DEF RemoveBlockDevice
      <4>2. Top.event.device \in Device
        BY <1>3, <3>1 DEF RemoveBlockDevice, At
      <4> QED BY <1>2, <4>1, <4>2, DeleteKept
    <3>2. CASE ActionHandler \/ LogError \/ AddScan \/ UpdateRead \/ UpdatePut
      BY <3>2, NoWrite DEF ActionHandler, LogError, AddScan, UpdateRead, UpdatePut,
         UpdateStatusFails, kubeVars
    <3> QED BY <1>4, <3>1, <3>2
  <2>2. \A i \in DOMAIN frames' : frames'[i].pc = "save" =>
          i \in DOMAIN frames /\ frames[i].pc = "save" /\ frames'[i].list = frames[i].list
    <3>1. CASE frames' = frames
      BY <3>1
    <3>2. CASE \E event : frames' \in {<<>>, <<Call(event)>>}
      BY <3>2 DEF Call
    <3>3. CASE UpdateRead /\ frames' = [frames EXCEPT ![Depth].pc = "put"]
      BY <1>2, <1>3, <3>3 DEF UpdateRead, At, Top, Frame
    <3>4. CASE AddScan
      <4>1. PICK todo, scanned : frames' = [frames EXCEPT ![Depth] =
              [@ EXCEPT !.pc = "list", !.todo = todo, !.scanned = scanned]]
        BY <3>4 DEF AddScan
      <4> QED BY <1>2, <1>3, <3>4, <4>1 DEF AddScan, At, Top, Frame
    <3> QED BY <1>4, <3>1, <3>2, <3>3, <3>4
        DEF ActionHandler, LogError, UpdateRead, UpdatePut, RemoveBlockDevice
  <2> QED BY <1>1, <2>1, <2>2, StillCurrentKept
<1>5. CASE AddList
  <2>1. frames # <<>> /\ watch' = watch /\ store' = store /\ CacheCatchesUp' /\ synced
    BY <1>5, AwakeWhenWorking DEF AddList, At, CacheCatchesUp
  <2>2. \A h, n : <<h, n>> \in fresh' =>
          \/ <<h, n>> \in fresh /\ h # Depth
          \/ h = Depth /\ watch[n] = <<>> /\ n \in Device
    BY <1>5 DEF AddList
  <2>3. KeptBut(Depth)
    BY <2>1, <2>2 DEF KeptBut
  <2>4. /\ \A i \in DOMAIN frames' : i # Depth => i \in DOMAIN frames /\ frames'[i] = frames[i]
        /\ Depth \in DOMAIN frames => frames'[Depth].list = cache
    <3>1. frames' = [frames EXCEPT ![Depth] = [@ EXCEPT !.pc = "save", !.list = cache]]
      BY <1>5 DEF AddList
    <3> QED BY <1>2, <1>3, <2>1, <3>1 DEF Top, Frame
  <2>5. \A n \in Device : watch[n] = <<>> => cache[n] = store'[n]
    BY <2>1 DEF CacheCatchesUp
  <2>6. Depth # Boot /\ Depth \notin Worker /\ Depth \in DOMAIN frames
    BY <1>3, <2>1, HoldersDiffer
  <2> QED BY <1>1, <2>1, <2>2, <2>3, <2>4, <2>5, <2>6, StillCurrent
<1>6. CASE AddSave
  <2>1. PICK x \in NextToSave(Top.todo), ok \in BOOLEAN :
          LET rest == [frames EXCEPT ![Depth].todo = @ \ {x}]
          IN  /\ SaveBlockDevice(Depth, x, Top.scanned[x], Top.list[x], ok)
              /\ frames' = IF ok THEN rest
                           ELSE IF Depth < MaxDepth
                             THEN Append(rest, Call(Top.event))
                             ELSE [frames EXCEPT ![Depth] = Call(Top.event)]
    BY <1>6 DEF AddSave
  <2>2. frames # <<>>
    BY <1>6 DEF AddSave, At
  <2>3. CacheCatchesUp' /\ Kept
    <3>1. /\ x \in Device /\ Top.scanned[x] \in BD /\ Top.list[x] \in BD \cup {NoObj}
      BY <1>3, <2>2 DEF NextToSave, Frame, FrameReady
    <3> QED BY <1>2, <1>3, <2>1, <2>2, <3>1, SaveKept
  <2> DEFINE f == [Top EXCEPT !.todo = Top.todo \ {x}]
             rest == [frames EXCEPT ![Depth] = f]
  <2>4. rest = [frames EXCEPT ![Depth].todo = @ \ {x}]
    BY DEF Top
  <2>5. f.pc = Top.pc /\ f.list = Top.list /\ f \in Frame
    BY <1>3, <2>2 DEF Frame
  <2>6. \A i \in DOMAIN frames' : frames'[i].pc = "save" =>
          i \in DOMAIN frames /\ frames[i].pc = "save" /\ frames'[i].list = frames[i].list
    <3> HIDE DEF f
    <3>1. /\ DOMAIN rest = DOMAIN frames /\ rest \in Seq(Frame) /\ Len(rest) = Depth
          /\ \A i \in DOMAIN rest : rest[i].pc = frames[i].pc /\ rest[i].list = frames[i].list
      BY <1>2, <1>3, <2>2, <2>5, ExceptSeq, LenProperties DEF Top
    <3>2. CASE frames' = rest
      BY <3>1, <3>2
    <3>3. CASE frames' = Append(rest, Call(Top.event))
      <4>1. Call(Top.event).pc = "enter"
        BY DEF Call
      <4>2. /\ DOMAIN frames' = 1..(Depth + 1)
            /\ frames'[Depth + 1] = Call(Top.event)
            /\ \A i \in 1..Depth : frames'[i] = rest[i]
        BY <1>3, <2>2, <3>1, <3>3
      <4> QED BY <1>3, <2>2, <3>1, <4>1, <4>2
    <3>4. CASE frames' = [frames EXCEPT ![Depth] = Call(Top.event)]
      BY <1>2, <1>3, <2>2, <3>4 DEF Call
    <3> QED BY <2>1, <2>4, <3>2, <3>3, <3>4
  <2> QED BY <1>1, <2>3, <2>6, StillCurrentKept
<1>7. CASE AddReturn
  <2>1. CacheCatchesUp' /\ Kept
    BY <1>7, NoWrite DEF AddReturn, Return
  <2>2. /\ frames' \in Seq(Frame) /\ Len(frames') = Depth - 1
        /\ \A i \in 1..(Depth - 1) : frames'[i] = frames[i]
    BY <1>2, <1>7, TopPopped DEF AddReturn, Return, At
  <2>3. \A i \in DOMAIN frames' : i \in DOMAIN frames /\ frames'[i] = frames[i]
    BY <1>3, <1>7, <2>2, LenProperties DEF AddReturn, At
  <2> QED BY <1>1, <2>1, <2>3, StillCurrentKept
<1> QED BY <1>1, <1>4, <1>5, <1>6, <1>7 DEF Handle

\* The start-up code: the list registration works from is the stored one.
LEMMA StartCurrent ==
  ASSUME IInv, Control', Start
  PROVE  CopiesAreCurrent' /\ CacheCatchesUp'
<1> USE DEF IInv
<1>1. KubeTypeOK /\ boot \in BootState /\ BootReady
  BY DEF Control, TypeOK, Ready
<1>2. CASE BlockNew \/ StartMonitor
  <2>1. UNCHANGED <<store, watch, cache, synced, fresh, worker, frames>>
    BY <1>2 DEF BlockNew, StartMonitor, Connect, kubeVars, udevVars
  <2>2. CacheCatchesUp'
    BY <2>1, NoWrite
  <2>3. phase' = "register" => phase = "register" /\ boot' = boot
    BY <1>2 DEF BlockNew, StartMonitor, sysVars
  <2> QED BY <2>1, <2>2, <2>3
      DEF CopiesAreCurrent, WorkersCurrent, FramesCurrent, BootCurrent
<1>3. CASE RegisterNodeBlockDevices
  <2>1. /\ UNCHANGED <<store, watch, cache, synced, worker, frames>> /\ fresh' = {Boot} \X Device
        /\ boot'.list = store
    BY <1>1, <1>3 DEF RegisterNodeBlockDevices, udevVars, BootState
  <2>2. CacheCatchesUp'
    BY <2>1 DEF CacheCatchesUp
  <2> QED BY <2>1, <2>2, HoldersDiffer
      DEF CopiesAreCurrent, WorkersCurrent, FramesCurrent, BootCurrent
<1>4. CASE RegisterSave
  <2>1. PICK n \in NextToSave(boot.todo), ok \in BOOLEAN :
          /\ SaveBlockDeviceByList(Boot, n, boot.scan[n], boot.list[n], ok)
          /\ IF ok THEN boot' = [boot EXCEPT !.todo = @ \ {n}] /\ UNCHANGED phase
                   ELSE boot' = NoBoot /\ phase' = "down"
    BY <1>4 DEF RegisterSave
  <2>2. n \in Device /\ boot.scan[n] \in BD /\ boot.list[n] \in BD \cup {NoObj}
    BY <1>1 DEF NextToSave, BootState, BootReady
  <2>3. CacheCatchesUp' /\ Kept
    BY <1>1, <2>1, <2>2, HoldersDiffer, SaveKept
  <2>4. phase' = "register" => phase = "register" /\ boot'.list = boot.list
    BY <1>1, <2>1 DEF BootState
  <2>5. UNCHANGED <<worker, frames>>
    BY <1>4 DEF RegisterSave, udevVars
  <2> QED BY <2>3, <2>4, <2>5, HoldersDiffer
      DEF Kept, CopiesAreCurrent, WorkersCurrent, FramesCurrent, BootCurrent
<1>5. CASE StartControllers
  <2>1. fresh' = {} /\ cache' = store' /\ \A n \in Device : watch'[n] = <<>>
    BY <1>5 DEF StartControllers, StartInformer
  <2> QED BY <2>1
      DEF CopiesAreCurrent, WorkersCurrent, FramesCurrent, BootCurrent, CacheCatchesUp
<1> QED BY <1>2, <1>3, <1>4, <1>5 DEF Start

\* Users, the host and the end of the process.
LEMMA EnvironmentCurrent ==
  ASSUME IInv, Control', Environment \/ Panic
  PROVE  CopiesAreCurrent' /\ CacheCatchesUp'
<1> USE DEF IInv
<1>1. KubeTypeOK
  BY DEF Control, TypeOK
<1>2. CASE Crash \/ Panic
  <2>1. fresh' = {} /\ ~synced'
    BY <1>2 DEF Crash, Panic, Die, StopInformer
  <2> QED BY <2>1
      DEF CopiesAreCurrent, WorkersCurrent, FramesCurrent, BootCurrent, CacheCatchesUp
<1>3. CASE \E n \in Device : DeleteObject(n) \/ \E request \in Requests : EditSpec(n, request)
  <2>1. PICK n \in Device : DeleteObject(n) \/ \E request \in Requests : EditSpec(n, request)
    BY <1>3
  <2>2. UNCHANGED <<cache, synced, worker, frames, phase, boot>>
    BY <2>1 DEF DeleteObject, EditSpec, udevVars
  <2>3. CacheCatchesUp' /\ Kept
    <3>1. CASE DeleteObject(n)
      BY <1>1, <2>2, <3>1, ApplyDeleteKept DEF DeleteObject
    <3>2. CASE \E request \in Requests : EditSpec(n, request)
      <4>1. PICK request \in Requests : EditSpec(n, request)
        BY <3>2
      <4>2. store[n] \in BD /\ request \in FilesystemInfo
        BY <1>1, <4>1, SystemAssumption DEF EditSpec, KubeTypeOK
      <4>3. [store[n] EXCEPT !.spec = request] \in BD
        BY <4>2 DEF BD
      <4> QED BY <1>1, <2>2, <4>1, <4>3, StaleWrite DEF EditSpec
    <3> QED BY <2>1, <3>1, <3>2
  <2> QED BY <2>2, <2>3, StillCurrentKept
<1>4. CASE \E d \in Device :
             \/ Plug(d) \/ Unplug(d)
             \/ \E action \in Signals : Signal(d, action)
             \/ \E dir \in Dir : MountByHand(d, dir)
             \/ UnmountByHand(d)
  <2>1. UNCHANGED <<kubeVars, worker, frames, phase, boot>>
    BY <1>4 DEF Plug, Unplug, Signal, MountByHand, UnmountByHand, udevVars
  <2>2. CacheCatchesUp' /\ Kept
    BY <2>1, NoWrite DEF kubeVars
  <2> QED BY <2>1, <2>2, StillCurrentKept
<1> QED BY <1>2, <1>3, <1>4 DEF Environment

-----------------------------------------------------------------------------
(* The inductive invariant.                                                *)

\* It holds at the start and no step leaves it.
LEMMA Inductive == (Init => IInv) /\ (IInv /\ [Next]_vars => IInv')
<1>1. Init => IInv
  <2> SUFFICES ASSUME Init PROVE IInv
    OBVIOUS
  <2>1. SavesKeepTheRest
    BY DEF Init, AllIdle, Idle, SavesKeepTheRest
  <2>2. CopiesAreCurrent /\ CacheCatchesUp
    BY DEF Init, KubeInit, CopiesAreCurrent, WorkersCurrent, FramesCurrent, BootCurrent,
           CacheCatchesUp
  <2> QED BY <2>1, <2>2, InitControl DEF IInv
<1>2. ASSUME IInv, [Next]_vars PROVE IInv'
  <2> USE DEF IInv
  <2>1. Control'
    BY <1>2, NextControl
  <2>2. CopiesAreCurrent' /\ CacheCatchesUp'
    <3>1. CASE Start
      BY <1>2, <2>1, <3>1, StartCurrent
    <3>2. CASE \E n \in Device : TakeKey(n)
      BY <1>2, <2>1, <3>2, TakeCurrent DEF TakeKey
    <3>3. CASE \E n \in Device : WatchEvent(n)
      <4>1. PICK n \in Device : WatchEvent(n)
        BY <3>3
      <4>2. UNCHANGED <<store, fresh, worker, frames, phase, boot>>
        BY <4>1 DEF WatchEvent, Deliver, udevVars, sysVars
      <4>3. CopiesAreCurrent'
        BY <1>2, <4>2 DEF CopiesAreCurrent, WorkersCurrent, FramesCurrent, BootCurrent
      <4>4. CacheCatchesUp'
        BY <1>2, <4>1, DeliverCaught DEF WatchEvent, Control, TypeOK
      <4> QED BY <4>3, <4>4
    <3>4. CASE \E w \in Worker : Reconcile(w)
      BY <1>2, <2>1, <3>4, WorkCurrent
    <3>5. CASE HandleUevent
      BY <1>2, <2>1, <3>5, HandleCurrent
    <3>6. CASE PeriodicResync \/ ReadSocket \/ UNCHANGED vars
      <4>1. UNCHANGED <<store, watch, cache, synced, fresh, worker, frames, phase, boot>>
        BY <3>6 DEF PeriodicResync, Resync, ReadSocket, ReadUevent, vars, kubeVars, udevVars,
           sysVars
      <4> QED BY <1>2, <4>1, NoWrite
          DEF CopiesAreCurrent, WorkersCurrent, FramesCurrent, BootCurrent
    <3>7. CASE Environment \/ Panic
      BY <1>2, <2>1, <3>7, EnvironmentCurrent
    <3> QED BY <1>2, <3>1, <3>2, <3>3, <3>4, <3>5, <3>6, <3>7 DEF Next
  <2>3. SavesKeepTheRest'
    <3>1. CASE \E w \in Worker : Work(w) \/ \E n \in Device : Take(w, n)
      BY <1>2, <3>1, WorkKeepsTheRest
    <3>2. CASE worker' = worker
      BY <1>2, <3>2 DEF SavesKeepTheRest
    <3>3. CASE worker' = AllIdle
      BY <3>3 DEF AllIdle, Idle, SavesKeepTheRest
    <3>4. CASE HandleUevent
      BY <1>2, <3>2, <3>4, HandleType DEF HandleUevent, Control, TypeOK, Ready
    <3>5. CASE Start \/ PeriodicResync \/ ReadSocket \/ \E n \in Device : WatchEvent(n)
      BY <3>2, <3>5 DEF Start, BlockNew, RegisterNodeBlockDevices, RegisterSave,
         StartControllers, StartMonitor, PeriodicResync, ReadSocket, ReadUevent, WatchEvent
    <3>6. CASE Environment \/ Panic
      BY <3>2, <3>3, <3>6 DEF Environment, EditSpec, DeleteObject, Plug, Unplug, Signal,
         MountByHand, UnmountByHand, Crash, Panic, Die
    <3> QED BY <1>2, <3>1, <3>2, <3>4, <3>5, <3>6 DEF Next, TakeKey, Reconcile, vars
  <2> QED BY <2>1, <2>2, <2>3
<1> QED BY <1>1, <1>2

\* The inductive invariant: of all workers, calls of the monitor and the
\* start-up code, however they interleave with users, crashes and faults.
THEOREM InvariantHolds == Spec => []IInv
BY Inductive, PTL DEF Spec

\* Whoever may still write an object has the stored one in hand.
THEOREM CopiesCurrent == Spec => []CopiesAreCurrent
<1>1. IInv => CopiesAreCurrent
  BY DEF IInv
<1> QED BY <1>1, InvariantHolds, PTL

\* The cache lags behind the API server and never diverges from it.
THEOREM CacheLags == Spec => []CacheCatchesUp
<1>1. IInv => CacheCatchesUp
  BY DEF IInv
<1> QED BY <1>1, InvariantHolds, PTL

=============================================================================
