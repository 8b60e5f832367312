---------------------------- MODULE LifecycleProofs ----------------------------
(***************************************************************************)
(* The finalizer handling implements Lifecycle, for all interleavings:     *)
(* every write takes one object one stage further or leaves it in its      *)
(* stage, because the writer's copy is current and what it is written from *)
(* is as RemovalsAreDue says.  From the same invariants: children go       *)
(* before their parent, and nothing the handler has to do is forgotten.    *)
(***************************************************************************)
EXTENDS ActionProofs

\* The writes there may be: an object appears untouched, is saved or comes
\* under protection, is marked while it is protected, or goes.
DueWrite(old, new) ==
  \/ old = NoObj /\ new # NoObj /\ Untouched(new)
  \/ /\ old # NoObj /\ new # NoObj
     /\ new.deleting <=> old.deleting
     /\ old.finalizer => new.finalizer
  \/ /\ old # NoObj /\ new # NoObj
     /\ ~old.deleting /\ new.deleting /\ old.finalizer /\ new.finalizer
  \/ /\ old # NoObj /\ new = NoObj
     /\ old.deleting \/ ~old.finalizer

DueAt(m) ==
  /\ store' = [store EXCEPT ![m] = store'[m]]
  /\ store'[m] = store[m] \/ DueWrite(store[m], store'[m])

Due == UNCHANGED store \/ \E m \in Device : DueAt(m)

\* A write to one object alone.
LEMMA WriteDue ==
  ASSUME KubeTypeOK, NEW m \in Device, NEW obj, store' = [store EXCEPT ![m] = obj],
         obj = store[m] \/ DueWrite(store[m], obj)
  PROVE  Due
<1>1. store'[m] = obj
  BY DEF KubeTypeOK
<1> QED BY <1>1 DEF Due, DueAt

\* An Update of a current copy that keeps the mark and the finalizer.
LEMMA UpdateDue ==
  ASSUME KubeTypeOK, NEW m \in Device, NEW h, NEW new \in BD, NEW keep, NEW ok,
         Update(h, m, new, keep, ok),
         <<h, m>> \in fresh /\ store[m] # NoObj =>
           store[m] = Settled(new) \/ DueWrite(store[m], Settled(new))
  PROVE  Due
<1>1. CASE UNCHANGED store
  BY <1>1 DEF Due
<1>2. CASE CanUpdate(h, m) /\ store' = [store EXCEPT ![m] = Settled(new)]
  <2> DEFINE obj == Settled(new)
  <2>1. store[m] = obj \/ DueWrite(store[m], obj)
    BY <1>2 DEF CanUpdate
  <2>2. store' = [store EXCEPT ![m] = obj]
    BY <1>2
  <2> HIDE DEF obj
  <2> QED BY <2>1, <2>2, WriteDue
<1> QED BY <1>1, <1>2 DEF Update, ApplyUpdate, Commit

\* A Create of an untouched object.
LEMMA CreateDue ==
  ASSUME KubeTypeOK, NEW m \in Device, NEW new \in BD, Untouched(new), NEW ok,
         Create(m, new, ok)
  PROVE  Due
<1>1. UNCHANGED store \/ (store[m] = NoObj /\ store' = [store EXCEPT ![m] = new])
  BY DEF Create, ApplyCreate, Commit
<1> QED BY <1>1, NoObjAssumption, WriteDue DEF DueWrite, Due

\* A deletion of a guarded object marks it, and of another one removes it.
LEMMA DeleteDue ==
  ASSUME KubeTypeOK, NEW m \in Device, Guarded(store[m]), ApplyDelete(m)
  PROVE  Due
<1>1. CASE UNCHANGED store
  BY <1>1 DEF Due
<1> DEFINE marked == [store[m] EXCEPT !.deleting = TRUE]
<1>2. CASE /\ store[m] # NoObj /\ ~(store[m].finalizer /\ store[m].deleting)
           /\ store' = [store EXCEPT ![m] = Settled(marked)]
  <2>1. store[m] \in BD /\ ~store[m].deleting
    BY <1>2 DEF KubeTypeOK, Guarded
  <2>2. marked.deleting /\ marked.finalizer = store[m].finalizer /\ marked # NoObj
    BY <2>1, NoObjAssumption DEF BD
  <2>3. DueWrite(store[m], Settled(marked))
    <3> HIDE DEF marked
    <3> QED BY <1>2, <2>1, <2>2 DEF Settled, DueWrite
  <2> HIDE DEF marked
  <2> QED BY <1>2, <2>3, WriteDue
<1> QED BY <1>1, <1>2 DEF ApplyDelete, Commit

\* The two functions that save scanned objects.
LEMMA SaveDue ==
  ASSUME KubeTypeOK, NEW h, NEW m \in Device, NEW new \in BD, Untouched(new),
         NEW existing \in BD \cup {NoObj}, NEW ok, Guarded(store[m]),
         <<h, m>> \in fresh => existing = store[m],
         \/ SaveBlockDevice(h, m, new, existing, ok)
         \/ SaveBlockDeviceByList(h, m, new, existing, ok)
  PROVE  Due
<1>1. CASE existing = NoObj
  BY <1>1, CreateDue DEF SaveBlockDevice, SaveBlockDeviceByList
<1>2. CASE existing # NoObj
  <2>1. PICK saved \in BD : /\ Update(h, m, saved, FALSE, ok)
                            /\ saved.deleting = existing.deleting
                            /\ saved.finalizer = existing.finalizer
    <3> DEFINE whole == [existing EXCEPT !.spec = new.spec, !.deviceStatus = new.deviceStatus]
               status == [existing EXCEPT !.deviceStatus = new.deviceStatus]
    <3>1. /\ whole \in BD /\ status \in BD
          /\ whole.deleting = existing.deleting /\ whole.finalizer = existing.finalizer
          /\ status.deleting = existing.deleting /\ status.finalizer = existing.finalizer
      BY <1>2 DEF BD
    <3>2. Update(h, m, whole, FALSE, ok) \/ Update(h, m, status, FALSE, ok)
      BY <1>2 DEF SaveBlockDevice, SaveBlockDeviceByList
    <3> HIDE DEF whole, status
    <3> QED BY <3>1, <3>2
  <2>2. <<h, m>> \in fresh /\ store[m] # NoObj => DueWrite(store[m], Settled(saved))
    BY <2>1, NoObjAssumption DEF Guarded, Settled, DueWrite
  <2> QED BY <2>1, <2>2, UpdateDue
<1> QED BY <1>1, <1>2

-----------------------------------------------------------------------------
(* Every step is due.                                                      *)

\* A worker's step.
LEMMA WorkDue ==
  ASSUME IInv, RemovalsAreDue, NEW w \in Worker, Work(w)
  PROVE  Due
<1> USE DEF IInv
<1>1. /\ KubeTypeOK /\ WorkerReady(worker[w]) /\ worker[w] \in WorkerState
      /\ \A n \in Device : Guarded(store[n])
  BY DEF Control, TypeOK, ControllerTypeOK, Ready, WorkersReady, RemovalsAreDue, StoreGuarded
<1>2. \A n \in Device : <<w, n>> \in fresh => worker[w].key = n /\ worker[w].obj = store[n]
  BY DEF CopiesAreCurrent, WorkersCurrent
<1> DEFINE key == worker[w].key
           obj == worker[w].obj
<1>3. CASE SaveChange(w)
  <2> DEFINE copy == worker[w].copy
  <2>1. PICK ok, keep : Update(w, key, copy, keep, ok)
    BY <1>3 DEF SaveChange
  <2>2. key \in Device /\ copy \in BD /\ KeepsTheRest(obj, copy)
    BY <1>1, <1>3 DEF SaveChange, WorkerReady, WorkerState, SavesKeepTheRest
  <2>3. <<w, key>> \in fresh /\ store[key] # NoObj => DueWrite(store[key], Settled(copy))
    <3>1. <<w, key>> \in fresh => obj = store[key]
      BY <1>2, <2>2
    <3> HIDE DEF key, obj, copy
    <3> QED BY <2>2, <3>1, NoObjAssumption DEF KeepsTheRest, Settled, DueWrite
  <2> HIDE DEF key, copy
  <2> QED BY <1>1, <2>1, <2>2, <2>3, UpdateDue
<1>4. CASE AddFinalizer(w) \/ RemoveFinalizer(w)
  <2>1. key \in Device /\ obj \in BD
    BY <1>1, <1>4 DEF AddFinalizer, RemoveFinalizer, WorkerReady, WorkerState
  <2>2. PICK ok, b \in BOOLEAN :
          /\ Update(w, key, [obj EXCEPT !.finalizer = b], FALSE, ok)
          /\ b \/ obj.deleting
    BY <1>4 DEF AddFinalizer, RemoveFinalizer, RemovalsAreDue, WorkersRemoveMarked
  <2> DEFINE new == [obj EXCEPT !.finalizer = b]
  <2>3. new \in BD /\ new.deleting = obj.deleting /\ new.finalizer = b
    BY <2>1 DEF BD
  <2>4. <<w, key>> \in fresh /\ store[key] # NoObj => DueWrite(store[key], Settled(new))
    <3>1. <<w, key>> \in fresh => obj = store[key]
      BY <1>2, <2>1
    <3> HIDE DEF new, key, obj
    <3> QED BY <2>2, <2>3, <3>1, NoObjAssumption DEF Settled, DueWrite
  <2>5. Update(w, key, new, FALSE, ok)
    BY <2>2
  <2> HIDE DEF new, key, obj
  <2> QED BY <1>1, <2>1, <2>3, <2>4, <2>5, UpdateDue
<1>5. CASE DeleteChild(w)
  <2>1. UNCHANGED store \/ \E k \in Device : ApplyDelete(k)
    BY <1>1, <1>5 DEF DeleteChild, Delete, WorkerState
  <2> QED BY <1>1, <2>1, DeleteDue DEF Due
<1>6. CASE ~SaveChange(w) /\ ~AddFinalizer(w) /\ ~RemoveFinalizer(w) /\ ~DeleteChild(w)
  BY <1>6 DEF Work, SkipChange, CheckMounted, MountDevice, Rescan, SkipRemove, ListChildren,
     ChildrenDeleted, Done, kubeVars, Due
<1> QED BY <1>3, <1>4, <1>5, <1>6

\* The monitor's step.
LEMMA HandleDue ==
  ASSUME IInv, RemovalsAreDue, HandleUevent
  PROVE  Due
<1> USE DEF IInv
<1>1. /\ KubeTypeOK /\ UdevTypeOK /\ FramesReady
      /\ \A n \in Device : Guarded(store[n])
  BY DEF Control, TypeOK, Ready, RemovalsAreDue, StoreGuarded
<1>2. frames # <<>> =>
        /\ Depth \in DOMAIN frames
        /\ Top \in Frame /\ Top.event.device \in Device /\ FrameReady(Top)
  BY <1>1, TopType, LenProperties DEF UdevTypeOK
<1>3. CASE RemoveBlockDevice
  <2>1. UNCHANGED store \/ \E m \in Device : ApplyDelete(m)
    BY <1>2, <1>3 DEF RemoveBlockDevice, At, Delete
  <2> QED BY <1>1, <2>1, DeleteDue DEF Due
<1>4. CASE AddSave
  <2>1. PICK x \in NextToSave(Top.todo), ok \in BOOLEAN :
          SaveBlockDevice(Depth, x, Top.scanned[x], Top.list[x], ok)
    BY <1>4 DEF AddSave
  <2>2. frames # <<>> /\ Top.pc = "save"
    BY <1>4 DEF AddSave, At
  <2>3. /\ x \in Device /\ Top.scanned[x] \in BD /\ Top.list[x] \in BD \cup {NoObj}
        /\ Untouched(Top.scanned[x])
    BY <1>2, <2>2 DEF NextToSave, Frame, FrameReady, RemovalsAreDue, ScansUntouched, Top
  <2>4. <<Depth, x>> \in fresh => Top.list[x] = store[x]
    BY <1>2, <2>2, <2>3 DEF CopiesAreCurrent, FramesCurrent, Top
  <2> DEFINE new == Top.scanned[x]
             existing == Top.list[x]
  <2>5. /\ SaveBlockDevice(Depth, x, new, existing, ok) /\ Untouched(new)
        /\ new \in BD /\ existing \in BD \cup {NoObj}
        /\ <<Depth, x>> \in fresh => existing = store[x]
    BY <2>1, <2>3, <2>4
  <2> HIDE DEF new, existing
  <2> QED BY <1>1, <2>3, <2>5, SaveDue
<1>5. CASE ~RemoveBlockDevice /\ ~AddSave
  BY <1>5 DEF HandleUevent, Handle, ActionHandler, LogError, AddScan, AddList, AddReturn, UpdateRead,
     UpdatePut, UpdateStatusFails, kubeVars, Due
<1> QED BY <1>3, <1>4, <1>5

\* Every step.
LEMMA NextDue ==
  ASSUME IInv, RemovalsAreDue, [Next]_vars
  PROVE  Due
<1>1. KubeTypeOK /\ \A n \in Device : Guarded(store[n])
  BY DEF IInv, Control, TypeOK, RemovalsAreDue, StoreGuarded
<1>2. CASE \E w \in Worker : Reconcile(w)
  BY <1>2, WorkDue DEF Reconcile
<1>3. CASE HandleUevent
  BY <1>3, HandleDue
<1>4. CASE RegisterSave
  <2>1. PICK x \in NextToSave(boot.todo), ok \in BOOLEAN :
          SaveBlockDeviceByList(Boot, x, boot.scan[x], boot.list[x], ok)
    BY <1>4 DEF RegisterSave
  <2>2. /\ x \in Device /\ boot.scan[x] \in BD /\ boot.list[x] \in BD \cup {NoObj}
        /\ Untouched(boot.scan[x]) /\ phase = "register"
    BY <1>4 DEF IInv, Control, TypeOK, Ready, NextToSave, BootState, BootReady, RegisterSave,
       RemovalsAreDue, ScansUntouched
  <2>3. <<Boot, x>> \in fresh => boot.list[x] = store[x]
    BY <2>2 DEF IInv, CopiesAreCurrent, BootCurrent
  <2> DEFINE new == boot.scan[x]
             existing == boot.list[x]
  <2>4. /\ SaveBlockDeviceByList(Boot, x, new, existing, ok) /\ Untouched(new)
        /\ new \in BD /\ existing \in BD \cup {NoObj}
        /\ <<Boot, x>> \in fresh => existing = store[x]
    BY <2>1, <2>2, <2>3
  <2> HIDE DEF new, existing
  <2> QED BY <1>1, <2>2, <2>4, SaveDue
<1>5. CASE \E m \in Device : DeleteObject(m)
  BY <1>1, <1>5, DeleteDue DEF DeleteObject
<1>6. CASE \E m \in Device, request \in Requests : EditSpec(m, request)
  <2>1. PICK m \in Device, request \in Requests : EditSpec(m, request)
    BY <1>6
  <2> DEFINE new == [store[m] EXCEPT !.spec = request]
  <2>2. store' = [store EXCEPT ![m] = new] /\ store[m] \in BD
    BY <1>1, <2>1 DEF EditSpec, Commit, KubeTypeOK
  <2>3. new \in BD /\ new.deleting = store[m].deleting /\ new.finalizer = store[m].finalizer
    BY <2>2, SystemAssumption DEF BD
  <2>4. DueWrite(store[m], new)
    <3> HIDE DEF new
    <3> QED BY <2>2, <2>3, NoObjAssumption DEF DueWrite
  <2> HIDE DEF new
  <2> QED BY <1>1, <2>2, <2>4, WriteDue
<1>7. CASE UNCHANGED store
  BY <1>7 DEF Due
<1>8. CASE \E m \in Device : TakeKey(m) \/ WatchEvent(m)
  BY <1>7, <1>8 DEF TakeKey, WatchEvent, Take, Deliver
<1>9. CASE PeriodicResync \/ ReadSocket \/ Panic \/ UNCHANGED vars
  BY <1>7, <1>9 DEF PeriodicResync, Resync, ReadSocket, ReadUevent, Panic, Die, StopInformer,
     vars, kubeVars
<1>10. CASE BlockNew \/ RegisterNodeBlockDevices \/ StartControllers \/ StartMonitor
  BY <1>7, <1>10 DEF BlockNew, RegisterNodeBlockDevices, StartControllers, StartInformer,
     StartMonitor, kubeVars
<1>11. CASE Crash \/ \E d \in Device :
             \/ Plug(d) \/ Unplug(d)
             \/ \E action \in Signals : Signal(d, action)
             \/ \E dir \in Dir : MountByHand(d, dir)
             \/ UnmountByHand(d)
  BY <1>7, <1>11 DEF Crash, Die, StopInformer, Plug, Unplug, Signal, MountByHand,
     UnmountByHand, kubeVars
<1> QED BY <1>2, <1>3, <1>4, <1>5, <1>6, <1>8, <1>9, <1>10, <1>11 DEF Next, Start, Environment

-----------------------------------------------------------------------------
(* RemovalsAreDue is inductive, beside IInv.                               *)

\* What a scan of the host yields has no mark and no finalizer.
LEMMA ScanUntouched ==
  ASSUME NEW d \in Device, NEW mounts, NEW present,
         NEW n \in DOMAIN GetNewBlockDevices(d, mounts, present)
  PROVE  Untouched(GetNewBlockDevices(d, mounts, present)[n])
<1>1. \A label, type, fs : Untouched(NewObject(label, type, fs))
  BY DEF Untouched, NewObject
<1> QED BY <1>1 DEF GetNewBlockDevices, NewDisk, NewPartition

\* A due write leaves no object marked and unguarded.
LEMMA DueGuarded ==
  ASSUME KubeTypeOK, KubeTypeOK', StoreGuarded, Due
  PROVE  StoreGuarded'
<1>1. CASE UNCHANGED store
  BY <1>1 DEF StoreGuarded
<1>2. ASSUME NEW m \in Device, DueAt(m) PROVE StoreGuarded'
  <2>1. Guarded(store'[m])
    BY <1>2, NoObjAssumption DEF StoreGuarded, Guarded, Untouched, DueAt, DueWrite
  <2>2. \A n \in Device \ {m} : store'[n] = store[n]
    BY <1>2 DEF DueAt, KubeTypeOK
  <2> QED BY <2>1, <2>2 DEF StoreGuarded
<1> QED BY <1>1, <1>2 DEF Due

\* A step of worker w that does not take it into OnBlockDeviceDelete, and one
\* that deletes a child.
Elsewhere(w) ==
  \E s : worker' = [worker EXCEPT ![w] = s] /\ s.pc \notin {"children", "unfinalize"}

ChildDeleted(w) ==
  /\ worker[w].pc = "children"
  /\ \E k \in worker[w].kids :
       Delete(k, "OK") /\ worker' = [worker EXCEPT ![w].kids = @ \ {k}]

\* The way through OnBlockDeviceDelete to removeFinalizer.
LEMMA RemovalSteps ==
  ASSUME Control, NEW w \in Worker, Work(w) \/ \E n \in Device : Take(w, n)
  PROVE  Elsewhere(w) \/ ListChildren(w) \/ ChildDeleted(w) \/ ChildrenDeleted(w)
<1>1. worker \in [Worker -> WorkerState] /\ worker[w] \in WorkerState
  BY DEF Control, TypeOK, ControllerTypeOK
<1>2. ASSUME NEW s, worker' = [worker EXCEPT ![w] = s], s.pc \notin {"children", "unfinalize"}
      PROVE  Elsewhere(w)
  BY <1>2 DEF Elsewhere
<1>3. CASE SkipChange(w) \/ SkipRemove(w)
  <2> DEFINE s(pc) == [worker[w] EXCEPT !.pc = pc]
  <2>1. PICK pc \in {"remove", "done"} : worker' = [worker EXCEPT ![w] = s(pc)]
    BY <1>3 DEF SkipChange, SkipRemove, Goto
  <2>2. s(pc).pc = pc
    BY <1>1 DEF WorkerState
  <2> HIDE DEF s
  <2> QED BY <1>2, <2>1, <2>2
<1>4. CASE Done(w) \/ \E n \in Device : Take(w, n)
  <2> DEFINE s(n) == [Idle EXCEPT !.pc = "change", !.key = n, !.obj = cache[n]]
  <2>1. worker' = [worker EXCEPT ![w] = Idle] \/ \E n \in Device : worker' = [worker EXCEPT ![w] = s(n)]
    BY <1>4 DEF Done, Take
  <2>2. Idle.pc = "idle" /\ \A n : s(n).pc = "change"
    BY DEF Idle
  <2> HIDE DEF s
  <2> QED BY <1>2, <2>1, <2>2
<1>5. CASE CheckMounted(w) \/ MountDevice(w) \/ Rescan(w) \/ SaveChange(w)
  <2> DEFINE Later == {"rescan", "save", "saveError", "remove"}
  <2>1. PICK s : worker' = [worker EXCEPT ![w] = s] /\ s.pc \in Later
    <3>1. ASSUME NEW copy, Conclude(w, copy)
          PROVE  \E s : worker' = [worker EXCEPT ![w] = s] /\ s.pc \in Later
      <4> DEFINE pc == IF SetMounted(copy, FileSystemError(copy)) = worker[w].obj
                         THEN "remove" ELSE "save"
                 s == [worker[w] EXCEPT !.copy = SetMounted(copy, FileSystemError(copy)), !.pc = pc]
      <4>1. worker' = [worker EXCEPT ![w] = s]
        BY <3>1 DEF Conclude
      <4>2. s.pc = pc /\ pc \in {"remove", "save"}
        BY <1>1 DEF WorkerState
      <4> HIDE DEF s, pc
      <4> QED BY <4>1, <4>2
    <3>2. ASSUME NEW pc \in Later, NEW copy,
                 worker' = [worker EXCEPT ![w] = [@ EXCEPT !.pc = pc, !.copy = copy]]
          PROVE  \E s : worker' = [worker EXCEPT ![w] = s] /\ s.pc \in Later
      <4> DEFINE s == [worker[w] EXCEPT !.pc = pc, !.copy = copy]
      <4>1. worker' = [worker EXCEPT ![w] = s]
        BY <3>2
      <4>2. s.pc = pc
        BY <1>1 DEF WorkerState
      <4> HIDE DEF s
      <4> QED BY <4>1, <4>2
    <3>3. CASE SaveChange(w)
      <4>1. PICK failed, obj : worker' = [worker EXCEPT ![w] =
              [@ EXCEPT !.pc = "remove", !.failed = failed, !.obj = obj]]
        BY <3>3 DEF SaveChange
      <4> DEFINE s == [worker[w] EXCEPT !.pc = "remove", !.failed = failed, !.obj = obj]
      <4>2. worker' = [worker EXCEPT ![w] = s]
        BY <4>1
      <4>3. s.pc = "remove"
        BY <1>1 DEF WorkerState
      <4> HIDE DEF s
      <4> QED BY <4>2, <4>3
    <3>4. CASE CheckMounted(w) \/ Rescan(w)
      BY <3>1, <3>4 DEF CheckMounted, Rescan
    <3>5. CASE MountDevice(w)
      <4>1. \E copy : \/ worker' = [worker EXCEPT ![w] =
                             [@ EXCEPT !.pc = "rescan", !.copy = copy]]
                      \/ worker' = [worker EXCEPT ![w] =
                             [@ EXCEPT !.pc = "saveError", !.copy = copy]]
        BY <3>5 DEF MountDevice
      <4> QED BY <3>2, <4>1
    <3> QED BY <1>5, <3>3, <3>4, <3>5
  <2> QED BY <1>2, <2>1
<1>6. ASSUME NEW failed, Finish(w, failed) PROVE Elsewhere(w)
  <2> DEFINE s == [worker[w] EXCEPT !.pc = "done", !.failed = worker[w].failed \/ failed]
  <2>1. worker' = [worker EXCEPT ![w] = s]
    BY <1>6 DEF Finish
  <2>2. s.pc = "done"
    BY <1>1 DEF WorkerState
  <2> HIDE DEF s
  <2> QED BY <1>2, <2>1, <2>2
<1>7. CASE AddFinalizer(w) \/ RemoveFinalizer(w)
  BY <1>6, <1>7 DEF AddFinalizer, RemoveFinalizer
<1>8. CASE DeleteChild(w)
  BY <1>6, <1>8 DEF DeleteChild, ChildDeleted
<1> QED BY <1>3, <1>4, <1>5, <1>7, <1>8 DEF Work

\* OnBlockDeviceDelete is entered for a marked and guarded object, and keeps
\* it until removeFinalizer.
LEMMA WorkersStayDue ==
  ASSUME Control, WorkersRemoveMarked,
         NEW w \in Worker, Work(w) \/ \E n \in Device : Take(w, n)
  PROVE  WorkersRemoveMarked'
<1> DEFINE OK(s) == s.pc \in {"children", "unfinalize"} => s.obj.deleting /\ s.obj.finalizer
<1>1. worker \in [Worker -> WorkerState] /\ worker[w] \in WorkerState
  BY DEF Control, TypeOK, ControllerTypeOK
<1>2. ASSUME NEW s, worker' = [worker EXCEPT ![w] = s], OK(s) PROVE WorkersRemoveMarked'
  <2>1. \A v \in Worker : worker'[v] = IF v = w THEN s ELSE worker[v]
    BY <1>1, <1>2
  <2> QED BY <1>2, <2>1 DEF WorkersRemoveMarked
<1>3. CASE Elsewhere(w)
  BY <1>2, <1>3 DEF Elsewhere
<1>4. CASE ListChildren(w)
  <2>1. PICK s : worker' = [worker EXCEPT ![w] = s] /\ s.obj = worker[w].obj
    <3> DEFINE t(kids) == [worker[w] EXCEPT !.pc = "children", !.kids = kids]
    <3>1. \E kids : worker' = [worker EXCEPT ![w] = t(kids)]
      BY <1>4 DEF ListChildren
    <3>2. \A kids : t(kids).obj = worker[w].obj
      BY <1>1 DEF WorkerState
    <3> HIDE DEF t
    <3> QED BY <3>1, <3>2
  <2> QED BY <1>2, <1>4, <2>1 DEF ListChildren
<1>5. CASE ChildrenDeleted(w) \/ ChildDeleted(w)
  <2>1. PICK s : worker' = [worker EXCEPT ![w] = s] /\ s.obj = worker[w].obj
    <3> DEFINE t(kids) == [worker[w] EXCEPT !.kids = kids]
               u == [worker[w] EXCEPT !.pc = "unfinalize"]
    <3>1. \/ worker' = [worker EXCEPT ![w] = u]
          \/ \E kids : worker' = [worker EXCEPT ![w] = t(kids)]
      BY <1>5 DEF ChildrenDeleted, ChildDeleted, Goto
    <3>2. u.obj = worker[w].obj /\ \A kids : t(kids).obj = worker[w].obj
      BY <1>1 DEF WorkerState
    <3> HIDE DEF t, u
    <3> QED BY <3>1, <3>2
  <2>2. OK(s)
    BY <1>5, <2>1 DEF ChildrenDeleted, ChildDeleted, WorkersRemoveMarked
  <2> QED BY <1>2, <2>1, <2>2
<1> QED BY <1>3, <1>4, <1>5, RemovalSteps

FrameUntouched(f) == \A n \in Device : Untouched(f.scanned[n])

FramesUntouched == \A i \in DOMAIN frames : FrameUntouched(frames[i])

\* The monitor's calls keep what they have scanned, and scan such objects.
LEMMA HandleUntouched ==
  ASSUME Control, FramesUntouched, HandleUevent
  PROVE  FramesUntouched'
<1>1. UdevTypeOK /\ FramesReady /\ ControllerTypeOK /\ frames \in Seq(Frame)
  BY DEF Control, TypeOK, Ready, UdevTypeOK
<1>2. frames # <<>> =>
        /\ Depth \in DOMAIN frames /\ DOMAIN frames = 1..Depth /\ Depth \in Nat /\ Depth # 0
        /\ Depth = Len(frames)
        /\ Top \in Frame /\ Top.event.device \in Device /\ FrameUntouched(Top)
  BY <1>1, TopType, LenProperties DEF Depth, Top, FramesUntouched
<1>3. \A event : FrameUntouched(Call(event))
  BY DEF FrameUntouched, Untouched, Call, Nothing
<1>4. ASSUME NEW f, frames # <<>>, frames' = [frames EXCEPT ![Depth] = f], FrameUntouched(f)
      PROVE  FramesUntouched'
  BY <1>1, <1>2, <1>4 DEF FramesUntouched, FrameUntouched
<1>5. CASE ActionHandler \/ LogError \/ RemoveBlockDevice \/ UpdatePut
  <2>1. frames' = frames \/ \E event : frames' \in {<<>>, <<Call(event)>>}
    BY <1>5 DEF ActionHandler, LogError, RemoveBlockDevice, UpdatePut
  <2> QED BY <1>3, <2>1 DEF FramesUntouched, FrameUntouched
<1>6. CASE UpdateRead
  <2>1. CASE frames' = <<>>
    BY <2>1 DEF FramesUntouched
  <2>2. CASE frames' = [frames EXCEPT ![Depth].pc = "put"]
    <3>1. PICK f : frames' = [frames EXCEPT ![Depth] = f] /\ f.scanned = Top.scanned
      BY <1>2, <1>6, <2>2 DEF UpdateRead, At, Top, Frame
    <3> QED BY <1>2, <1>4, <1>6, <3>1 DEF UpdateRead, At, FrameUntouched
  <2> QED BY <1>6, <2>1, <2>2 DEF UpdateRead
<1>7. CASE AddScan
  <2> DEFINE new == GetNewBlockDevices(Top.event.device, mtab, plugged)
             scanned == [n \in Device |-> IF n \in DOMAIN new THEN new[n] ELSE NoObj]
  <2>1. frames # <<>>
    BY <1>7 DEF AddScan, At
  <2>2. \A n \in DOMAIN new : Untouched(new[n])
    BY <1>2, <2>1, ScanUntouched
  <2>3. \A n \in Device : Untouched(scanned[n])
    <3> HIDE DEF new
    <3> QED BY <2>2 DEF Untouched
  <2>4. PICK todo : frames' = [frames EXCEPT ![Depth] =
          [@ EXCEPT !.pc = "list", !.todo = todo, !.scanned = scanned]]
    BY <1>7 DEF AddScan
  <2>5. PICK f : frames' = [frames EXCEPT ![Depth] = f] /\ f.scanned = scanned
    <3> DEFINE f == [Top EXCEPT !.pc = "list", !.todo = todo, !.scanned = scanned]
    <3> HIDE DEF scanned
    <3>1. frames' = [frames EXCEPT ![Depth] = f]
      BY <2>4 DEF Top
    <3>2. f.scanned = scanned
      BY <1>2, <2>1 DEF Frame
    <3> HIDE DEF f
    <3> QED BY <3>1, <3>2
  <2> HIDE DEF scanned
  <2> QED BY <1>4, <2>1, <2>3, <2>5 DEF FrameUntouched
<1>8. CASE AddList
  <2>1. PICK f : frames' = [frames EXCEPT ![Depth] = f] /\ f.scanned = Top.scanned
    <3> DEFINE f == [Top EXCEPT !.pc = "save", !.list = cache]
    <3>1. frames' = [frames EXCEPT ![Depth] = f] /\ f.scanned = Top.scanned
      BY <1>2, <1>8 DEF AddList, At, Top, Frame
    <3> HIDE DEF f
    <3> QED BY <3>1
  <2> QED BY <1>2, <1>4, <1>8, <2>1 DEF AddList, At, FrameUntouched
<1>9. CASE AddSave
  <2>1. PICK x : LET rest == [frames EXCEPT ![Depth].todo = @ \ {x}]
                 IN  \/ frames' = rest
                     \/ frames' = Append(rest, Call(Top.event))
                     \/ frames' = [frames EXCEPT ![Depth] = Call(Top.event)]
    BY <1>9 DEF AddSave
  <2> DEFINE f == [Top EXCEPT !.todo = Top.todo \ {x}]
             rest == [frames EXCEPT ![Depth] = f]
  <2>2. rest = [frames EXCEPT ![Depth].todo = @ \ {x}]
    BY DEF Top
  <2>3. f.scanned = Top.scanned /\ f \in Frame /\ frames # <<>>
    BY <1>2, <1>9 DEF Frame, AddSave, At
  <2>4. FrameUntouched(f)
    BY <1>2, <2>3 DEF FrameUntouched
  <2> HIDE DEF f
  <2>5. CASE frames' = Append(rest, Call(Top.event))
    <3>1. /\ rest \in Seq(Frame) /\ Len(rest) = Depth
          /\ \A i \in 1..Depth : FrameUntouched(rest[i])
      BY <1>1, <1>2, <2>3, <2>4, ExceptSeq, LenProperties DEF FramesUntouched
    <3>2. /\ DOMAIN frames' = 1..(Depth + 1)
          /\ frames'[Depth + 1] = Call(Top.event)
          /\ \A i \in 1..Depth : frames'[i] = rest[i]
      BY <1>2, <2>3, <2>5, <3>1
    <3>3. \A i \in 1..(Depth + 1) : FrameUntouched(frames'[i])
      BY <1>2, <1>3, <2>3, <3>1, <3>2
    <3> QED BY <3>2, <3>3 DEF FramesUntouched, FrameUntouched
  <2> QED BY <1>3, <1>4, <2>1, <2>2, <2>3, <2>4, <2>5
<1>10. CASE AddReturn
  <2>1. \A i \in DOMAIN frames' : i \in DOMAIN frames /\ frames'[i] = frames[i]
    <3>1. /\ frames' \in Seq(Frame) /\ Len(frames') = Depth - 1
          /\ \A i \in 1..(Depth - 1) : frames'[i] = frames[i]
      BY <1>1, <1>10, TopPopped DEF AddReturn, Return, At
    <3> QED BY <1>2, <1>10, <3>1, LenProperties DEF AddReturn, At
  <2> QED BY <2>1 DEF FramesUntouched, FrameUntouched
<1> QED BY <1>5, <1>6, <1>7, <1>8, <1>9, <1>10 DEF HandleUevent, Handle

\* The scan of block.New, too.
LEMMA SnapshotUntouched ==
  ASSUME NEW ignored, NEW n \in Device
  PROVE  Untouched(Snapshot(ignored)[n])
<1> DEFINE Of == IF Parent[n] = NoDevice THEN n ELSE Parent[n]
           new == GetNewBlockDevices(Of, mtab, plugged)
<1>1. CASE n \in plugged /\ Of \in Disks
  <2>1. n \in DOMAIN new
    BY <1>1 DEF GetNewBlockDevices, Children
  <2>2. Of \in Device /\ Untouched(new[n])
    BY <1>1, <2>1, ScanUntouched DEF Disks
  <2> HIDE DEF new
  <2> QED BY <1>1, <2>2 DEF Snapshot, Untouched, new
<1>2. CASE ~(n \in plugged /\ Of \in Disks)
  BY <1>2 DEF Snapshot, Untouched
<1> QED BY <1>1, <1>2

\* RemovalsAreDue holds at first and is kept by every step.
LEMMA DueInductive ==
  /\ Init => RemovalsAreDue
  /\ IInv /\ IInv' /\ RemovalsAreDue /\ [Next]_vars => RemovalsAreDue'
<1>1. Init => RemovalsAreDue
  BY DEF Init, KubeInit, UdevInit, AllIdle, Idle, NoBoot, Nothing, RemovalsAreDue,
     StoreGuarded, WorkersRemoveMarked, ScansUntouched, Guarded, Untouched
<1>2. ASSUME IInv, IInv', RemovalsAreDue, [Next]_vars PROVE RemovalsAreDue'
  <2> USE DEF IInv, RemovalsAreDue
  <2> DEFINE BootUntouched == \A n \in Device : Untouched(boot.scan[n])
  <2>1. StoreGuarded'
    BY <1>2, NextDue, DueGuarded DEF Control, TypeOK
  <2>2. /\ HandleUevent => UNCHANGED <<worker, boot>>
        /\ Die => /\ worker' = AllIdle /\ frames' = <<>>
                  /\ \A n \in Device : Untouched(boot'.scan[n])
    BY HandleType, <1>2 DEF HandleUevent, sysVars, Control, TypeOK, Ready, Die, StopMonitor,
       NoBoot, Nothing, Untouched
  <2>3. CASE UNCHANGED <<worker, frames, boot>>
    BY <1>2, <2>1, <2>3 DEF WorkersRemoveMarked, ScansUntouched
  <2>4. CASE Die
    BY <2>1, <2>2, <2>4 DEF AllIdle, Idle, WorkersRemoveMarked, ScansUntouched
  <2>5. CASE (\E w \in Worker : Reconcile(w)) \/ \E n \in Device : TakeKey(n)
    <3>1. UNCHANGED <<frames, boot>>
      BY <2>5 DEF Reconcile, TakeKey, udevVars, sysVars
    <3>2. WorkersRemoveMarked'
      BY <1>2, <2>5, WorkersStayDue DEF Reconcile, TakeKey
    <3> QED BY <1>2, <2>1, <3>1, <3>2 DEF ScansUntouched
  <2>6. CASE HandleUevent
    <3>1. FramesUntouched'
      BY <1>2, <2>6, HandleUntouched DEF FramesUntouched, FrameUntouched, ScansUntouched
    <3> QED BY <1>2, <2>1, <2>2, <2>6, <3>1
        DEF FramesUntouched, FrameUntouched, ScansUntouched, WorkersRemoveMarked
  <2>7. CASE Start
    <3>1. \A n \in Device : Untouched(boot'.scan[n])
      <4>1. CASE BlockNew
        BY <4>1, SnapshotUntouched DEF BlockNew, NoBoot
      <4>2. CASE StartControllers \/ (RegisterSave /\ boot' = NoBoot)
        BY <4>2 DEF StartControllers, NoBoot, Nothing, Untouched
      <4>3. CASE boot'.scan = boot.scan
        BY <1>2, <4>3 DEF ScansUntouched
      <4>4. CASE RegisterNodeBlockDevices \/ StartMonitor \/ (RegisterSave /\ boot' # NoBoot)
        BY <1>2, <4>3, <4>4 DEF RegisterNodeBlockDevices, RegisterSave, StartMonitor, sysVars,
           Control, TypeOK, BootState
      <4> QED BY <2>7, <4>1, <4>2, <4>4 DEF Start
    <3>2. UNCHANGED <<worker, frames>>
      BY <2>7 DEF Start, BlockNew, RegisterNodeBlockDevices, RegisterSave, StartControllers,
         StartMonitor, Connect, udevVars
    <3> QED BY <1>2, <2>1, <3>1, <3>2 DEF ScansUntouched, WorkersRemoveMarked
  <2>8. CASE PeriodicResync \/ ReadSocket \/ UNCHANGED vars \/ \E n \in Device : WatchEvent(n)
    BY <2>3, <2>8 DEF PeriodicResync, ReadSocket, ReadUevent, WatchEvent, vars, udevVars, sysVars
  <2>9. CASE Environment \/ Panic
    BY <2>3, <2>4, <2>9 DEF Environment, EditSpec, DeleteObject, Plug, Unplug, Signal,
       MountByHand, UnmountByHand, Crash, Panic, udevVars
  <2> QED BY <1>2, <2>5, <2>6, <2>7, <2>8, <2>9 DEF Next
<1> QED BY <1>1, <1>2

-----------------------------------------------------------------------------
(* The theorems.                                                           *)

\* OnBlockDeviceDelete runs for marked objects, and every marked object still
\* has its finalizer.
THEOREM RemovalsDue == Spec => []RemovalsAreDue
BY DueInductive, InvariantHolds, PTL DEF Spec

\* A due write takes one object from a stage of Lifecycle to itself or the next.
LEMMA DueIsNext ==
  ASSUME KubeTypeOK, KubeTypeOK', StoreGuarded, Due
  PROVE  [Life!Next]_([n \in Device |-> StageOf(store[n])])
<1> DEFINE life == [n \in Device |-> StageOf(store[n])]
<1>1. CASE UNCHANGED store
  BY <1>1
<1>2. ASSUME NEW m \in Device, DueAt(m) PROVE [Life!Next]_life
  <2>1. life' = [life EXCEPT ![m] = StageOf(store'[m])]
    BY <1>2 DEF DueAt, KubeTypeOK
  <2>2. life[m] = StageOf(store[m]) /\ store[m] \in BD \cup {NoObj}
    BY DEF KubeTypeOK
  <2>3. \/ StageOf(store'[m]) = StageOf(store[m])
        \/ StageOf(store[m]) = "absent" /\ StageOf(store'[m]) = "unguarded"
        \/ StageOf(store[m]) = "unguarded" /\ StageOf(store'[m]) = "guarded"
        \/ StageOf(store[m]) = "guarded" /\ StageOf(store'[m]) = "terminating"
        \/ StageOf(store[m]) \in {"unguarded", "terminating"} /\ StageOf(store'[m]) = "absent"
    BY <1>2, <2>2 DEF DueAt, DueWrite, StageOf, Untouched, StoreGuarded, Guarded
  <2>4. StageOf(store'[m]) = StageOf(store[m]) => life' = life
    BY <2>1, <2>2
  <2>5. Life!Becomes(m, StageOf(store'[m]))
    BY <2>1 DEF Life!Becomes
  <2>6. StageOf(store'[m]) # StageOf(store[m]) => Life!Next
    BY <2>2, <2>3, <2>5 DEF Life!Next, Life!Create, Life!Protect, Life!Delete, Life!Release
  <2> QED BY <2>4, <2>6
<1> QED BY <1>1, <1>2 DEF Due

\* Refinement: users of the API see every object live its life.
THEOREM LifecycleImplemented == Spec => ImplementsLifecycle
<1>1. Init => Life!Init
  BY DEF Init, KubeInit, StageOf, Life!Init
<1>2. IInv /\ IInv' /\ RemovalsAreDue /\ [Next]_vars
        => [Life!Next]_([n \in Device |-> StageOf(store[n])])
  BY NextDue, DueIsNext DEF IInv, Control, TypeOK, RemovalsAreDue
<1> QED BY <1>1, <1>2, InvariantHolds, RemovalsDue, PTL
    DEF Spec, ImplementsLifecycle, Life!Spec

-----------------------------------------------------------------------------
(* The cascade, while nothing new is created.                              *)

StillThere == synced => \A n \in Device : Exists(n)' => Exists(n)

\* A write that the informer is told of, or none.
Informed ==
  cache' = cache /\ (UNCHANGED <<store, watch>> \/ \E m \in Device : \E obj : Commit(m, obj))

\* Every call of the API server is one.
LEMMA CallInforms ==
  ASSUME NEW m \in Device, NEW h, NEW new, NEW existing, NEW keep, NEW ok, NEW reply,
         \/ Update(h, m, new, keep, ok) \/ Create(m, new, ok) \/ Delete(m, reply)
         \/ SaveBlockDevice(h, m, new, existing, ok)
         \/ SaveBlockDeviceByList(h, m, new, existing, ok)
  PROVE  Informed
BY DEF Update, ApplyUpdate, Create, ApplyCreate, Delete, ApplyDelete, SaveBlockDevice,
       SaveBlockDeviceByList, Informed

\* What a step tells an informer that runs.
LEMMA NextInforms ==
  ASSUME Control, [Next]_vars, synced'
  PROVE  (~synced /\ StartInformer) \/ (synced /\ (Informed \/ \E n \in Device : Deliver(n)))
<1>1. \A w \in Worker : worker[w] \in WorkerState /\ WorkerReady(worker[w])
  BY DEF Control, TypeOK, ControllerTypeOK, Ready, WorkersReady
<1>2. CASE \E w \in Worker : Reconcile(w)
  <2>1. PICK w \in Worker : Work(w)
    BY <1>2 DEF Reconcile
  <2>2. synced
    <3>1. worker[w].pc # "idle"
      BY <2>1 DEF Work, SkipChange, CheckMounted, MountDevice, Rescan, SaveChange, SkipRemove,
         AddFinalizer, ListChildren, DeleteChild, ChildrenDeleted, RemoveFinalizer, Done
    <3> QED BY <3>1, AwakeWhenWorking
  <2>3. CASE SaveChange(w) \/ AddFinalizer(w) \/ RemoveFinalizer(w)
    <3>1. worker[w].key \in Device
      BY <1>1, <2>3 DEF SaveChange, AddFinalizer, RemoveFinalizer, WorkerReady
    <3>2. \E new, keep, ok : Update(w, worker[w].key, new, keep, ok)
      BY <2>3 DEF SaveChange, AddFinalizer, RemoveFinalizer
    <3> QED BY <2>2, <3>1, <3>2, CallInforms
  <2>4. CASE DeleteChild(w)
    <3>1. \E k \in Device : \E reply : Delete(k, reply)
      BY <1>1, <2>4 DEF DeleteChild, WorkerState
    <3> QED BY <2>2, <3>1, CallInforms
  <2>5. CASE ~SaveChange(w) /\ ~AddFinalizer(w) /\ ~RemoveFinalizer(w) /\ ~DeleteChild(w)
    BY <2>1, <2>2, <2>5 DEF Work, SkipChange, CheckMounted, MountDevice, Rescan, SkipRemove, ListChildren,
       ChildrenDeleted, Done, kubeVars, Informed
  <2> QED BY <2>3, <2>4, <2>5
<1>3. CASE HandleUevent
  <2>1. synced /\ frames # <<>> => Top.event.device \in Device /\ Top \in Frame
    BY TopType DEF Control, TypeOK, Ready
  <2>2. synced' = synced
    BY <1>3 DEF HandleUevent, Handle, ActionHandler, LogError, AddScan, AddList, AddSave, AddReturn,
       RemoveBlockDevice, UpdateRead, UpdatePut, UpdateStatusFails, kubeVars, SaveBlockDevice,
       Update, Create, Delete
  <2>3. CASE RemoveBlockDevice
    <3>1. frames # <<>> /\ \E reply : Delete(Top.event.device, reply)
      BY <2>3 DEF RemoveBlockDevice, At
    <3> QED BY <2>1, <2>2, <3>1, CallInforms
  <2>4. CASE AddSave
    <3>1. frames # <<>> /\ \E x \in Top.todo : \E new, existing, ok :
            SaveBlockDevice(Depth, x, new, existing, ok)
      BY <2>4 DEF AddSave, At, NextToSave
    <3>2. \A x \in Top.todo : x \in Device
      BY <2>1, <2>2, <3>1 DEF Frame
    <3> QED BY <2>2, <3>1, <3>2, CallInforms
  <2>5. CASE ~RemoveBlockDevice /\ ~AddSave
    BY <1>3, <2>2, <2>5 DEF HandleUevent, Handle, ActionHandler, LogError, AddScan, AddList, AddReturn,
       UpdateRead, UpdatePut, UpdateStatusFails, kubeVars, Informed
  <2> QED BY <2>3, <2>4, <2>5
<1>4. CASE Start
  <2>1. CASE StartControllers
    BY <2>1 DEF StartControllers, Control, Asleep
  <2>2. CASE RegisterSave
    <3>1. ~synced /\ synced' = synced
      BY <2>2 DEF RegisterSave, Control, Asleep, SaveBlockDeviceByList, Update, Create
    <3> QED BY <3>1
  <2>3. CASE BlockNew \/ RegisterNodeBlockDevices \/ StartMonitor
    BY <2>3 DEF BlockNew, RegisterNodeBlockDevices, StartMonitor, Control, Asleep, Connect,
       kubeVars, Informed
  <2> QED BY <1>4, <2>1, <2>2, <2>3 DEF Start
<1>5. CASE \E n \in Device : WatchEvent(n)
  BY <1>5 DEF WatchEvent, Deliver
<1>6. CASE \E n \in Device : DeleteObject(n) \/ \E request \in Requests : EditSpec(n, request)
  BY <1>6 DEF DeleteObject, EditSpec, ApplyDelete, Informed
<1>7. CASE Panic \/ Crash
  BY <1>7 DEF Panic, Crash, Die, StopInformer
<1>8. CASE UNCHANGED <<store, watch, cache, synced>>
  BY <1>8 DEF Informed
<1>9. CASE PeriodicResync \/ ReadSocket \/ UNCHANGED vars \/ \E n \in Device : TakeKey(n)
  BY <1>8, <1>9 DEF PeriodicResync, Resync, ReadSocket, ReadUevent, vars, kubeVars, TakeKey, Take
<1>10. CASE \E d \in Device :
             \/ Plug(d) \/ Unplug(d)
             \/ \E action \in Signals : Signal(d, action)
             \/ \E dir \in Dir : MountByHand(d, dir)
             \/ UnmountByHand(d)
  BY <1>8, <1>10 DEF Plug, Unplug, Signal, MountByHand, UnmountByHand, kubeVars
<1> QED BY <1>2, <1>3, <1>4, <1>5, <1>6, <1>7, <1>9, <1>10 DEF Next, Environment

\* What stays of an object that stays.
LEMMA LabelStays ==
  ASSUME IInv, [Next]_vars, NEW n, Stays(n)
  PROVE  /\ store'[n].parentLabel = store[n].parentLabel
         /\ store[n].deleting => store'[n].deleting
<1>1. store[n] \in BD
  BY DEF Stays, Exists, IInv, Control, TypeOK, KubeTypeOK
<1>2. Written(n)
  BY NextWrites
<1>3. (Edited(n) \/ Registered(n) \/ Rediscovered(n)) =>
        store'[n].parentLabel = store[n].parentLabel /\ store'[n].deleting = store[n].deleting
  BY <1>1 DEF Edited, Registered, Rediscovered, BD
<1>4. (FinalizerSet(n) \/ Marked(n)) =>
        /\ store'[n].parentLabel = store[n].parentLabel
        /\ store[n].deleting => store'[n].deleting
  BY <1>1 DEF FinalizerSet, Marked, BD
<1> QED BY <1>2, <1>3, <1>4 DEF Written, ChangeSaved, KeepsTheRest

\* The informer goes on knowing the labels.
LEMMA LabelsKept ==
  ASSUME IInv, LabelsKnown, [Next]_vars, StillThere
  PROVE  LabelsKnown'
<1> DEFINE Obj == BD \cup {NoObj}
           Shows(k, obj) == obj # NoObj /\ obj.parentLabel = store'[k].parentLabel
<1>1. SUFFICES ASSUME synced', NEW k \in Device, Exists(k)'
               PROVE  Shows(k, cache'[k]) /\ \A i \in DOMAIN watch'[k] : Shows(k, watch'[k][i])
  BY DEF LabelsKnown
<1>2. watch \in [Device -> Seq(Obj)] /\ cache \in [Device -> Obj] /\ store \in [Device -> Obj]
  BY DEF IInv, Control, TypeOK, KubeTypeOK
<1>3. CASE ~synced /\ StartInformer
  BY <1>1, <1>3 DEF StartInformer, Exists
<1>4. CASE synced /\ (Informed \/ \E n \in Device : Deliver(n))
  <2>1. Stays(k) /\ store'[k].parentLabel = store[k].parentLabel
    BY <1>1, <1>4, LabelStays DEF StillThere, Stays
  <2>2. Shows(k, cache[k]) /\ \A i \in DOMAIN watch[k] : Shows(k, watch[k][i])
    BY <1>4, <2>1 DEF LabelsKnown, Stays
  <2>3. Shows(k, store'[k])
    BY <1>1 DEF Exists
  <2> HIDE DEF Shows, Obj
  <2>4. CASE cache'[k] = cache[k] /\ watch'[k] = watch[k]
    BY <2>2, <2>4
  <2>5. CASE cache'[k] = cache[k] /\ watch'[k] = Append(watch[k], store'[k])
    <3>1. watch[k] \in Seq(Obj) /\ Len(watch[k]) \in Nat /\ DOMAIN watch[k] = 1..Len(watch[k])
      BY <1>2, LenProperties
    <3>2. /\ DOMAIN watch'[k] = 1..(Len(watch[k]) + 1)
          /\ watch'[k][Len(watch[k]) + 1] = store'[k]
          /\ \A i \in 1..Len(watch[k]) : watch'[k][i] = watch[k][i]
      BY <2>5, <3>1
    <3>3. ASSUME NEW i \in DOMAIN watch'[k] PROVE Shows(k, watch'[k][i])
      <4>1. i \in 1..Len(watch[k]) \/ i = Len(watch[k]) + 1
        BY <3>1, <3>2
      <4> QED BY <2>2, <2>3, <3>1, <3>2, <4>1
    <3> QED BY <2>2, <2>5, <3>3
  <2>6. CASE watch[k] # <<>> /\ cache'[k] = Head(watch[k]) /\ watch'[k] = Tail(watch[k])
    <3>1. watch[k] \in Seq(Obj)
      BY <1>2
    <3>2. /\ Tail(watch[k]) \in Seq(Obj) /\ Len(Tail(watch[k])) = Len(watch[k]) - 1
          /\ \A i \in 1..Len(Tail(watch[k])) : Tail(watch[k])[i] = watch[k][i + 1]
          /\ Head(watch[k]) = watch[k][1]
          /\ Len(watch[k]) \in Nat /\ Len(watch[k]) # 0 /\ DOMAIN watch[k] = 1..Len(watch[k])
          /\ DOMAIN Tail(watch[k]) = 1..Len(Tail(watch[k]))
      BY <2>6, <3>1, HeadTailProperties, EmptySeq, LenProperties
    <3>3. Shows(k, Head(watch[k]))
      BY <2>2, <3>2
    <3>4. \A i \in DOMAIN Tail(watch[k]) : Shows(k, Tail(watch[k])[i])
      BY <2>2, <3>2
    <3> QED BY <2>6, <3>3, <3>4
  <2>7. CASE \E n \in Device : Deliver(n)
    BY <1>2, <2>4, <2>6, <2>7 DEF Deliver
  <2>8. CASE Informed
    <3>1. cache' = cache
      BY <2>8 DEF Informed
    <3>2. ASSUME NEW m \in Device, NEW obj, Commit(m, obj)
          PROVE  watch'[k] = watch[k] \/ watch'[k] = Append(watch[k], store'[k])
      BY <1>2, <1>4, <3>2 DEF Commit
    <3> QED BY <2>4, <2>5, <2>8, <3>1, <3>2 DEF Informed
  <2> QED BY <1>4, <2>7, <2>8
<1> QED BY <1>1, <1>3, <1>4, NextInforms DEF IInv

\* The steps that change what a worker is at.
LEMMA WorkerSteps ==
  ASSUME Control, [Next]_vars, NEW w \in Worker
  PROVE  \/ worker'[w] = worker[w]
         \/ worker'[w].pc \notin {"children", "unfinalize"}
         \/ ListChildren(w) \/ ChildDeleted(w) \/ ChildrenDeleted(w)
<1>1. worker \in [Worker -> WorkerState]
  BY DEF Control, TypeOK, ControllerTypeOK
<1>2. CASE UNCHANGED worker
  BY <1>2
<1>3. CASE worker' = AllIdle
  BY <1>3 DEF AllIdle, Idle
<1>4. ASSUME NEW v \in Worker, Work(v) \/ \E n \in Device : Take(v, n)
      PROVE  \/ worker'[w] = worker[w]
             \/ worker'[w].pc \notin {"children", "unfinalize"}
             \/ ListChildren(w) \/ ChildDeleted(w) \/ ChildrenDeleted(w)
  <2>1. Elsewhere(v) \/ ListChildren(v) \/ ChildDeleted(v) \/ ChildrenDeleted(v)
    BY <1>4, RemovalSteps
  <2>2. PICK s : worker' = [worker EXCEPT ![v] = s] /\ (Elsewhere(v) => s.pc \notin {"children", "unfinalize"})
    <3>1. CASE Elsewhere(v)
      BY <3>1 DEF Elsewhere
    <3>2. CASE ~Elsewhere(v)
      BY <2>1, <3>2 DEF ListChildren, ChildDeleted, ChildrenDeleted, Goto
    <3> QED BY <3>1, <3>2
  <2>3. v # w => worker'[w] = worker[w]
    BY <1>1, <2>2
  <2>4. v = w => worker'[w] = s
    BY <1>1, <2>2
  <2> QED BY <2>1, <2>2, <2>3, <2>4
<1>5. CASE (\E v \in Worker : Reconcile(v)) \/ \E n \in Device : TakeKey(n)
  BY <1>4, <1>5 DEF Reconcile, TakeKey
<1>6. CASE HandleUevent
  BY <1>2, <1>6, HandleType DEF HandleUevent, Control, TypeOK, Ready
<1>7. CASE Start \/ PeriodicResync \/ ReadSocket \/ \E n \in Device : WatchEvent(n)
  BY <1>2, <1>7 DEF Start, BlockNew, RegisterNodeBlockDevices, RegisterSave,
     StartControllers, StartMonitor, PeriodicResync, ReadSocket, ReadUevent, WatchEvent
<1>8. CASE Environment \/ Panic
  BY <1>2, <1>3, <1>8 DEF Environment, EditSpec, DeleteObject, Plug, Unplug, Signal,
     MountByHand, UnmountByHand, Crash, Panic, Die
<1> QED BY <1>2, <1>5, <1>6, <1>7, <1>8 DEF Next, vars

\* A deleted child does not live on.
LEMMA DeletedIsDead ==
  ASSUME KubeTypeOK, NEW k \in Device, Delete(k, "OK")
  PROVE  ~Live(k)'
<1>1. store[k] \in BD /\ ApplyDelete(k)
  BY DEF Delete, KubeTypeOK
<1>2. CASE store[k].finalizer /\ store[k].deleting
  BY <1>1, <1>2, NoObjAssumption DEF ApplyDelete, Live, Exists
<1>3. CASE ~(store[k].finalizer /\ store[k].deleting)
  <2> DEFINE marked == [store[k] EXCEPT !.deleting = TRUE]
  <2>1. store' = [store EXCEPT ![k] = Settled(marked)] /\ marked.deleting
    BY <1>1, <1>3, NoObjAssumption DEF ApplyDelete, Commit, BD
  <2> HIDE DEF marked
  <2>2. store'[k] = Settled(marked)
    BY <2>1 DEF KubeTypeOK
  <2> QED BY <2>1, <2>2 DEF Settled, Live, Exists
<1> QED BY <1>2, <1>3

\* The children that live stay on the list until they are deleted.
LEMMA ListedKept ==
  ASSUME IInv, LabelsKnown, ChildrenListed, [Next]_vars, StillThere
  PROVE  ChildrenListed'
<1> DEFINE Listed(k, s) == (s.pc = "children" => k \in s.kids) /\ s.pc # "unfinalize"
<1>1. SUFFICES ASSUME NEW w \in Worker, NEW k \in Device, Live(k)',
                      store'[k].parentLabel = worker'[w].key
               PROVE  Listed(k, worker'[w])
  BY DEF ChildrenListed
<1>2. worker \in [Worker -> WorkerState] /\ worker[w] \in WorkerState /\ KubeTypeOK /\ Control
  BY DEF IInv, Control, TypeOK, ControllerTypeOK
<1>3. CASE worker'[w].pc \notin {"children", "unfinalize"}
  BY <1>3
<1>4. ASSUME worker[w].pc # "idle", worker'[w].key = worker[w].key
      PROVE  Live(k) /\ store[k].parentLabel = worker[w].key /\ Listed(k, worker[w]) /\ synced
  <2>1. synced
    BY <1>2, <1>4, AwakeWhenWorking
  <2>2. Stays(k)
    BY <1>1, <2>1 DEF StillThere, Live, Stays
  <2>3. store'[k].parentLabel = store[k].parentLabel /\ Live(k)
    BY <1>1, <2>2, LabelStays DEF Live, Stays
  <2> QED BY <1>1, <1>4, <2>1, <2>3 DEF ChildrenListed
<1>5. CASE worker'[w] = worker[w]
  BY <1>3, <1>4, <1>5
<1>6. CASE ListChildren(w)
  <2> DEFINE kids == {j \in CachedKeys : cache[j].parentLabel = worker[w].key}
  <2>1. worker'[w] = [worker[w] EXCEPT !.pc = "children", !.kids = kids]
    BY <1>2, <1>6 DEF ListChildren
  <2> HIDE DEF kids
  <2>2. worker'[w].pc = "children" /\ worker'[w].kids = kids /\ worker'[w].key = worker[w].key
    BY <1>2, <2>1 DEF WorkerState
  <2>3. Live(k) /\ store[k].parentLabel = worker[w].key /\ synced
    BY <1>4, <1>6, <2>2 DEF ListChildren
  <2>4. k \in kids
    BY <2>3 DEF LabelsKnown, Live, CachedKeys, kids
  <2> QED BY <2>2, <2>4
<1>7. CASE ChildDeleted(w)
  <2>1. PICK j \in worker[w].kids :
          Delete(j, "OK") /\ worker' = [worker EXCEPT ![w].kids = @ \ {j}]
    BY <1>7 DEF ChildDeleted
  <2>2. worker'[w] = [worker[w] EXCEPT !.kids = @ \ {j}]
    BY <1>2, <2>1
  <2>3. /\ worker'[w].pc = worker[w].pc /\ worker'[w].key = worker[w].key
        /\ worker'[w].kids = worker[w].kids \ {j} /\ j \in Device
    BY <1>2, <2>2 DEF WorkerState
  <2>4. Listed(k, worker[w]) /\ worker[w].pc = "children"
    BY <1>4, <1>7, <2>3 DEF ChildDeleted
  <2>5. k # j
    BY <1>1, <1>2, <2>1, <2>3, DeletedIsDead
  <2> QED BY <2>3, <2>4, <2>5
<1>8. CASE ChildrenDeleted(w)
  <2>1. worker'[w] = [worker[w] EXCEPT !.pc = "unfinalize"]
    BY <1>2, <1>8 DEF ChildrenDeleted, Goto
  <2>2. worker'[w].key = worker[w].key
    BY <1>2, <2>1 DEF WorkerState
  <2>3. k \in worker[w].kids
    BY <1>4, <1>8, <2>2 DEF ChildrenDeleted
  <2> QED BY <1>8, <2>3 DEF ChildrenDeleted
<1> QED BY <1>2, <1>3, <1>5, <1>6, <1>7, <1>8, WorkerSteps

\* Step by step, a guarded object goes with its finalizer alone.
Goes(d) == d \in Device /\ Exists(d) /\ store[d].finalizer /\ ~Exists(d)'

\* An Update that makes it go takes the finalizer off a current copy.
LEMMA UpdateReleases ==
  ASSUME KubeTypeOK, NEW h, NEW m \in Device, NEW new \in BD, NEW keep, NEW ok,
         Update(h, m, new, keep, ok), NEW d, Goes(d)
  PROVE  d = m /\ <<h, d>> \in fresh /\ new.deleting /\ ~new.finalizer
<1>1. CanUpdate(h, m) /\ store' = [store EXCEPT ![m] = Settled(new)]
  BY DEF Update, ApplyUpdate, Commit, Goes, Exists
<1>2. d = m /\ store'[d] = Settled(new)
  BY <1>1 DEF Goes, Exists, KubeTypeOK
<1> QED BY <1>1, <1>2, NoObjAssumption DEF CanUpdate, Settled, Goes, Exists

\* A deletion leaves a guarded object there.
LEMMA DeleteReleases ==
  ASSUME KubeTypeOK, NEW m \in Device, NEW reply, NEW d, ApplyDelete(m) \/ Delete(m, reply)
  PROVE  ~Goes(d)
<1>1. CASE UNCHANGED store
  BY <1>1 DEF Goes, Exists
<1>2. CASE ApplyDelete(m) /\ ~UNCHANGED store
  <2> DEFINE marked == [store[m] EXCEPT !.deleting = TRUE]
  <2>1. store[m] \in BD /\ store' = [store EXCEPT ![m] = Settled(marked)]
    BY <1>2 DEF ApplyDelete, Commit, KubeTypeOK
  <2>2. marked \in BD /\ marked.finalizer = store[m].finalizer
    BY <2>1 DEF BD
  <2> HIDE DEF marked
  <2> QED BY <2>1, <2>2, NoObjAssumption DEF Goes, Exists, Settled, KubeTypeOK
<1> QED BY <1>1, <1>2 DEF Delete

\* A Create removes nothing.
LEMMA CreateReleases ==
  ASSUME KubeTypeOK, NEW m \in Device, NEW new \in BD, NEW ok, NEW d, Create(m, new, ok)
  PROVE  ~Goes(d)
<1>1. UNCHANGED store \/ (store[m] = NoObj /\ store' = [store EXCEPT ![m] = new])
  BY DEF Create, ApplyCreate, Commit
<1> QED BY <1>1, NoObjAssumption DEF Goes, Exists, KubeTypeOK

\* Saving a scanned object over a current copy keeps the finalizer.
LEMMA SaveReleases ==
  ASSUME KubeTypeOK, NEW h, NEW m \in Device, NEW new \in BD,
         NEW existing \in BD \cup {NoObj}, NEW ok, NEW d,
         <<h, m>> \in fresh => existing = store[m],
         \/ SaveBlockDevice(h, m, new, existing, ok)
         \/ SaveBlockDeviceByList(h, m, new, existing, ok)
  PROVE  ~Goes(d)
<1>1. CASE existing = NoObj
  BY <1>1, CreateReleases DEF SaveBlockDevice, SaveBlockDeviceByList
<1>2. CASE existing # NoObj
  <2>1. PICK saved \in BD : /\ Update(h, m, saved, FALSE, ok)
                            /\ saved.finalizer = existing.finalizer
    <3> DEFINE whole == [existing EXCEPT !.spec = new.spec, !.deviceStatus = new.deviceStatus]
               status == [existing EXCEPT !.deviceStatus = new.deviceStatus]
    <3>1. /\ whole \in BD /\ status \in BD
          /\ whole.finalizer = existing.finalizer /\ status.finalizer = existing.finalizer
      BY <1>2 DEF BD
    <3>2. Update(h, m, whole, FALSE, ok) \/ Update(h, m, status, FALSE, ok)
      BY <1>2 DEF SaveBlockDevice, SaveBlockDeviceByList
    <3> HIDE DEF whole, status
    <3> QED BY <3>1, <3>2
  <2>2. SUFFICES ASSUME Goes(d) PROVE FALSE
    OBVIOUS
  <2>3. d = m /\ <<h, d>> \in fresh /\ ~saved.finalizer
    BY <2>1, <2>2, UpdateReleases
  <2> QED BY <2>1, <2>2, <2>3 DEF Goes
<1> QED BY <1>1, <1>2

\* What makes a guarded object go is the removeFinalizer of its worker.
LEMMA GoesByRelease ==
  ASSUME IInv, [Next]_vars, NEW d, Goes(d)
  PROVE  \E w \in Worker : worker[w].pc = "unfinalize" /\ worker[w].key = d
<1>1. KubeTypeOK /\ ~UNCHANGED store
  BY DEF IInv, Control, TypeOK, Goes, Exists
<1>2. CASE \E w \in Worker : Reconcile(w)
  <2>1. PICK w \in Worker : Work(w)
    BY <1>2 DEF Reconcile
  <2>2. worker[w] \in WorkerState /\ WorkerReady(worker[w])
    BY DEF IInv, Control, TypeOK, ControllerTypeOK, Ready, WorkersReady
  <2>3. CASE SaveChange(w)
    <3> DEFINE key == worker[w].key
               copy == worker[w].copy
    <3>1. \E keep, ok : Update(w, key, copy, keep, ok)
      BY <2>3 DEF SaveChange
    <3>2. key \in Device /\ copy \in BD /\ ~copy.deleting
      BY <2>2, <2>3 DEF SaveChange, WorkerReady, WorkerState, IInv, SavesKeepTheRest, KeepsTheRest
    <3> HIDE DEF key, copy
    <3> QED BY <1>1, <3>1, <3>2, UpdateReleases
  <2>4. CASE AddFinalizer(w)
    <3> DEFINE key == worker[w].key
               new == [worker[w].obj EXCEPT !.finalizer = TRUE]
    <3>1. \E ok : Update(w, key, new, FALSE, ok)
      BY <2>4 DEF AddFinalizer
    <3>2. key \in Device /\ new \in BD /\ new.finalizer
      BY <2>2, <2>4 DEF AddFinalizer, WorkerReady, WorkerState, BD
    <3> HIDE DEF key, new
    <3> QED BY <1>1, <3>1, <3>2, UpdateReleases
  <2>5. CASE RemoveFinalizer(w)
    <3> DEFINE key == worker[w].key
               new == [worker[w].obj EXCEPT !.finalizer = FALSE]
    <3>1. \E ok : Update(w, key, new, FALSE, ok)
      BY <2>5 DEF RemoveFinalizer
    <3>2. key \in Device /\ new \in BD
      BY <2>2, <2>5 DEF RemoveFinalizer, WorkerReady, WorkerState, BD
    <3>3. key = d
      <4> HIDE DEF key, new
      <4>1. \A ok : Update(w, key, new, FALSE, ok) => d = key
        BY <1>1, <3>2, UpdateReleases
      <4> QED BY <3>1, <4>1
    <3> QED BY <2>5, <3>3 DEF RemoveFinalizer
  <2>6. CASE DeleteChild(w)
    <3>1. \E k \in Device : \E reply : Delete(k, reply)
      BY <2>2, <2>6 DEF DeleteChild, WorkerState
    <3> QED BY <1>1, <3>1, DeleteReleases
  <2>7. CASE ~SaveChange(w) /\ ~AddFinalizer(w) /\ ~RemoveFinalizer(w) /\ ~DeleteChild(w)
    BY <1>1, <2>1, <2>7 DEF Work, SkipChange, CheckMounted, MountDevice, Rescan, SkipRemove, ListChildren,
       ChildrenDeleted, Done, kubeVars
  <2> QED BY <2>3, <2>4, <2>5, <2>6, <2>7
<1>3. CASE HandleUevent
  <2>1. UdevTypeOK /\ FramesReady /\ CopiesAreCurrent
    BY DEF IInv, Control, TypeOK, Ready
  <2>2. frames # <<>> =>
          /\ Depth \in DOMAIN frames
          /\ Top \in Frame /\ Top.event.device \in Device /\ FrameReady(Top)
    BY <2>1, TopType, LenProperties DEF UdevTypeOK
  <2>3. CASE RemoveBlockDevice
    <3>1. \E m \in Device : ApplyDelete(m)
      BY <1>1, <2>2, <2>3 DEF RemoveBlockDevice, At, Delete
    <3> QED BY <1>1, <3>1, DeleteReleases
  <2>4. CASE AddSave
    <3>1. PICK x \in NextToSave(Top.todo), ok \in BOOLEAN :
            SaveBlockDevice(Depth, x, Top.scanned[x], Top.list[x], ok)
      BY <2>4 DEF AddSave
    <3>2. frames # <<>> /\ Top.pc = "save"
      BY <2>4 DEF AddSave, At
    <3>3. /\ x \in Device /\ Top.scanned[x] \in BD /\ Top.list[x] \in BD \cup {NoObj}
      BY <2>2, <3>2 DEF NextToSave, Frame, FrameReady
    <3>4. <<Depth, x>> \in fresh => Top.list[x] = store[x]
      BY <2>1, <2>2, <3>2, <3>3 DEF CopiesAreCurrent, FramesCurrent, Top
    <3> QED BY <1>1, <3>1, <3>3, <3>4, SaveReleases
  <2>5. CASE ~RemoveBlockDevice /\ ~AddSave
    BY <1>1, <1>3, <2>5 DEF HandleUevent, Handle, ActionHandler, LogError, AddScan, AddList, AddReturn,
       UpdateRead, UpdatePut, UpdateStatusFails, kubeVars
  <2> QED BY <2>3, <2>4, <2>5
<1>4. CASE RegisterSave
  <2>1. PICK x \in NextToSave(boot.todo), ok \in BOOLEAN :
          SaveBlockDeviceByList(Boot, x, boot.scan[x], boot.list[x], ok)
    BY <1>4 DEF RegisterSave
  <2>2. /\ x \in Device /\ boot.scan[x] \in BD /\ boot.list[x] \in BD \cup {NoObj}
        /\ phase = "register"
    BY <1>4 DEF IInv, Control, TypeOK, Ready, NextToSave, BootState, BootReady, RegisterSave
  <2>3. <<Boot, x>> \in fresh => boot.list[x] = store[x]
    BY <2>2 DEF IInv, CopiesAreCurrent, BootCurrent
  <2> QED BY <1>1, <2>1, <2>2, <2>3, SaveReleases
<1>5. CASE \E m \in Device : DeleteObject(m)
  BY <1>1, <1>5, DeleteReleases DEF DeleteObject
<1>6. CASE \E m \in Device, request \in Requests : EditSpec(m, request)
  <2>1. PICK m \in Device, request \in Requests : EditSpec(m, request)
    BY <1>6
  <2> DEFINE new == [store[m] EXCEPT !.spec = request]
  <2>2. store' = [store EXCEPT ![m] = new] /\ new \in BD
    BY <1>1, <2>1, SystemAssumption DEF EditSpec, Commit, KubeTypeOK, BD
  <2> HIDE DEF new
  <2> QED BY <1>1, <2>2, NoObjAssumption DEF Goes, Exists, KubeTypeOK
<1>7. CASE (\E n \in Device : TakeKey(n) \/ WatchEvent(n)) \/ PeriodicResync \/ ReadSocket
           \/ Panic \/ Crash
  BY <1>1, <1>7 DEF TakeKey, WatchEvent, Take, Deliver, PeriodicResync, Resync, ReadSocket,
     ReadUevent, Panic, Crash, Die, StopInformer, kubeVars
<1>8. CASE BlockNew \/ RegisterNodeBlockDevices \/ StartControllers \/ StartMonitor
  BY <1>1, <1>8 DEF BlockNew, RegisterNodeBlockDevices, StartControllers, StartInformer,
     StartMonitor, kubeVars
<1>9. CASE \E e \in Device :
             \/ Plug(e) \/ Unplug(e)
             \/ \E action \in Signals : Signal(e, action)
             \/ \E dir \in Dir : MountByHand(e, dir)
             \/ UnmountByHand(e)
  BY <1>1, <1>9 DEF Plug, Unplug, Signal, MountByHand, UnmountByHand, kubeVars
<1> QED BY <1>1, <1>2, <1>3, <1>4, <1>5, <1>6, <1>7, <1>8, <1>9 DEF Next, Start, Environment, vars, kubeVars

\* While no object is created, an object with the finalizer goes after
\* OnBlockDeviceDelete has deleted every object labelled with it, over retries,
\* stale lists, concurrent saves and restarts.
THEOREM ChildrenGoFirst == Spec /\ NothingNew => CascadeBeforeGone
<1> DEFINE Listed == LabelsKnown /\ ChildrenListed
           Cascade == \A d \in Device :
             Exists(d) /\ store[d].finalizer /\ ~Exists(d)' =>
               \A k \in Device : Live(k) => store[k].parentLabel # d
<1>1. Init => Listed
  BY DEF Init, KubeInit, AllIdle, Idle, LabelsKnown, ChildrenListed
<1>2. IInv /\ Listed /\ [Next]_vars /\ [StillThere]_vars => Listed'
  <2>1. UNCHANGED vars => StillThere
    BY DEF vars, kubeVars, StillThere, Exists
  <2> QED BY <2>1, LabelsKept, ListedKept
<1>3. IInv /\ Listed /\ [Next]_vars => [Cascade]_vars
  BY GoesByRelease DEF Goes, ChildrenListed
<1> HIDE DEF Listed, Cascade
<1>4. NothingNew <=> [][StillThere]_vars
  BY PTL DEF NothingNew, StillThere
<1>5. CascadeBeforeGone <=> [][Cascade]_vars
  BY PTL DEF CascadeBeforeGone, Cascade
<1> QED BY <1>1, <1>2, <1>3, <1>4, <1>5, InvariantHolds, PTL DEF Spec

-----------------------------------------------------------------------------
(* Nothing is forgotten.                                                   *)

\* A watch event that is on its way stays there until it is delivered.
LEMMA CommitTells ==
  ASSUME KubeTypeOK, synced, NEW m \in Device, NEW obj \in BD \cup {NoObj}, Commit(m, obj)
  PROVE  watch'[m] # <<>> /\ \A n \in Device : watch[n] # <<>> => watch'[n] # <<>>
<1> DEFINE Obj == BD \cup {NoObj}
<1>1. watch \in [Device -> Seq(Obj)] /\ obj \in Obj /\ watch[m] \in Seq(Obj)
  BY DEF KubeTypeOK
<1> HIDE DEF Obj
<1>2. watch' = [watch EXCEPT ![m] = Append(@, obj)]
  BY DEF Commit
<1>3. Append(watch[m], obj) # <<>>
  <2>1. Len(Append(watch[m], obj)) = Len(watch[m]) + 1 /\ Len(watch[m]) + 1 # 0
    BY <1>1, LenProperties
  <2> QED BY <2>1, EmptySeq
<1> QED BY <1>1, <1>2, <1>3

\* An Update that goes through and changes the object is told.
LEMMA UpdateTells ==
  ASSUME KubeTypeOK, synced, NEW h, NEW m \in Device, NEW new \in BD, NEW keep,
         Update(h, m, new, keep, TRUE), <<h, m>> \in fresh => new # store[m]
  PROVE  watch'[m] # <<>>
<1>1. CanUpdate(h, m) /\ ApplyUpdate(h, m, new, keep)
  BY DEF Update
<1>2. Commit(m, Settled(new))
  BY <1>1 DEF CanUpdate, ApplyUpdate
<1> QED BY <1>2, SettledType, CommitTells

\* The next state of a worker that finishes.
LEMMA FinishFails ==
  ASSUME Control, NEW w \in Worker, NEW failed \in BOOLEAN, Finish(w, failed)
  PROVE  /\ worker'[w].pc = "done" /\ worker'[w].key = worker[w].key
         /\ failed => worker'[w].failed
<1> DEFINE either == worker[w].failed \/ failed
           s == [worker[w] EXCEPT !.pc = "done", !.failed = either]
<1>1. worker \in [Worker -> WorkerState] /\ worker[w] \in WorkerState
  BY DEF Control, TypeOK, ControllerTypeOK
<1>2. worker' = [worker EXCEPT ![w] = s]
  BY DEF Finish
<1>3. s.pc = "done" /\ s.key = worker[w].key /\ s.failed = either
  <2> HIDE DEF either
  <2> QED BY <1>1 DEF WorkerState
<1>4. worker'[w] = s
  BY <1>1, <1>2
<1> HIDE DEF s
<1> QED BY <1>3, <1>4

\* A worker that attends to an object goes on doing so, or leaves it where it
\* is found again: a write that succeeds is told, one that fails is an error.
LEMMA WorkAttends ==
  ASSUME IInv, RemovalsAreDue, NEW w \in Worker, Work(w), NEW n \in Device, Attends(w, n)
  PROVE  n \in queue' \/ watch'[n] # <<>> \/ Attends(w, n)'
<1> DEFINE Goal == n \in queue' \/ watch'[n] # <<>> \/ Attends(w, n)'
<1> USE DEF IInv
<1>1. /\ worker \in [Worker -> WorkerState] /\ worker[w] \in WorkerState
      /\ worker[w].key = n /\ KubeTypeOK /\ Control /\ WorkerReady(worker[w])
  BY DEF Control, TypeOK, ControllerTypeOK, Attends, Ready, WorkersReady
<1>2. synced /\ worker[w].pc # "idle"
  <2>1. worker[w].pc # "idle"
    BY DEF Attends
  <2> QED BY <1>1, <2>1, AwakeWhenWorking
<1>3. <<w, n>> \in fresh => worker[w].obj = store[n]
  BY DEF CopiesAreCurrent, WorkersCurrent
<1>4. ASSUME NEW ok \in BOOLEAN, NEW new \in BD, Update(w, n, new, FALSE, ok), Finish(w, ~ok),
             new # worker[w].obj
      PROVE  Goal
  <2>1. CASE ok
    BY <1>1, <1>2, <1>3, <1>4, <2>1, UpdateTells
  <2>2. CASE ~ok
    BY <1>1, <1>4, <2>2, FinishFails DEF Attends
  <2> QED BY <2>1, <2>2
<1>5. CASE worker[w].pc \in {"change", "rescan"}
  <2>1. \/ SkipChange(w)
        \/ \E copy : Conclude(w, copy)
        \/ \E copy : worker' = [worker EXCEPT ![w] = [@ EXCEPT !.pc = "rescan", !.copy = copy]]
        \/ \E copy : worker' = [worker EXCEPT ![w] = [@ EXCEPT !.pc = "saveError", !.copy = copy]]
    BY <1>5 DEF Work, SkipChange, CheckMounted, MountDevice, Rescan, SaveChange, SkipRemove, AddFinalizer,
       ListChildren, DeleteChild, ChildrenDeleted, RemoveFinalizer, Done
  <2>2. ASSUME NEW s, worker' = [worker EXCEPT ![w] = s], s.key = n, s.obj = worker[w].obj,
               s.pc \in {"rescan", "remove", "save", "saveError"}
        PROVE  Attends(w, n)'
    <3>1. worker'[w] = s
      BY <1>1, <2>2
    <3>2. HasWork(worker[w].obj)
      BY <1>5 DEF Attends
    <3> QED BY <2>2, <3>1, <3>2 DEF Attends
  <2>3. ASSUME NEW copy, Conclude(w, copy) PROVE Attends(w, n)'
    <3> DEFINE final == SetMounted(copy, FileSystemError(copy))
               pc == IF final = worker[w].obj THEN "remove" ELSE "save"
               s == [worker[w] EXCEPT !.copy = final, !.pc = pc]
    <3>1. worker' = [worker EXCEPT ![w] = s]
      BY <2>3 DEF Conclude
    <3>2. s.key = n /\ s.obj = worker[w].obj /\ s.pc = pc
      <4> HIDE DEF final, pc
      <4> QED BY <1>1 DEF WorkerState
    <3>3. pc \in {"remove", "save", "saveError"}
      OBVIOUS
    <3> HIDE DEF pc, s
    <3> QED BY <2>2, <3>1, <3>2, <3>3
  <2>4. CASE SkipChange(w)
    <3> DEFINE s == [worker[w] EXCEPT !.pc = "remove"]
    <3>1. worker' = [worker EXCEPT ![w] = s]
      BY <2>4 DEF SkipChange, Goto
    <3>2. s.key = n /\ s.obj = worker[w].obj /\ s.pc = "remove"
      BY <1>1 DEF WorkerState
    <3> HIDE DEF s
    <3> QED BY <2>2, <3>1, <3>2
  <2>5. ASSUME NEW copy, NEW pc \in {"rescan", "saveError"},
               worker' = [worker EXCEPT ![w] = [@ EXCEPT !.pc = pc, !.copy = copy]]
        PROVE  Attends(w, n)'
    <3> DEFINE s == [worker[w] EXCEPT !.pc = pc, !.copy = copy]
    <3>1. worker' = [worker EXCEPT ![w] = s]
      BY <2>5
    <3>2. s.key = n /\ s.obj = worker[w].obj /\ s.pc = pc
      BY <1>1 DEF WorkerState
    <3> HIDE DEF s
    <3> QED BY <2>2, <3>1, <3>2
  <2> QED BY <2>1, <2>3, <2>4, <2>5
<1>6. CASE worker[w].pc \in {"save", "saveError"}
  <2>1. SaveChange(w)
    BY <1>6 DEF Work, SkipChange, CheckMounted, MountDevice, Rescan, SkipRemove, AddFinalizer,
       ListChildren, DeleteChild, ChildrenDeleted, RemoveFinalizer, Done
  <2>2. /\ worker'[w].pc = "remove" /\ worker'[w].key = n
        /\ worker'[w].obj \in {worker[w].copy, worker[w].obj}
    BY <1>1, <2>1, SaveChangeKeeps DEF Control, TypeOK, Ready, WorkerTypeOK
  <2>3. HasWork(worker[w].obj) /\ KeepsTheRest(worker[w].obj, worker[w].copy)
    BY <1>6 DEF Attends, SavesKeepTheRest
  <2>4. HasWork(worker[w].copy)
    <3>1. worker[w].copy # NoObj
      BY <1>1, <1>6 DEF WorkerReady
    <3>2. worker[w].copy.deleting = worker[w].copy.finalizer
      <4>1. /\ worker[w].obj \in BD /\ worker[w].copy \in BD
            /\ worker[w].obj.deleting = worker[w].obj.finalizer
        BY <1>1, <2>3, <3>1 DEF HasWork, WorkerState
      <4>2. {worker[w].obj.deleting, worker[w].obj.finalizer, worker[w].copy.deleting,
             worker[w].copy.finalizer} \subseteq BOOLEAN
        BY <4>1 DEF BD
      <4> QED BY <2>3, <4>1, <4>2 DEF KeepsTheRest
    <3> QED BY <3>1, <3>2 DEF HasWork
  <2> QED BY <2>2, <2>3, <2>4 DEF Attends
<1>7. CASE worker[w].pc = "remove"
  <2>1. HasWork(worker[w].obj) /\ worker[w].obj \in BD
    BY <1>1, <1>7 DEF Attends, HasWork, WorkerState
  <2>2. AddFinalizer(w) \/ ListChildren(w)
    BY <1>7, <2>1 DEF Work, SkipChange, CheckMounted, MountDevice, Rescan, SaveChange, SkipRemove,
       DeleteChild, ChildrenDeleted, RemoveFinalizer, Done, HasWork
  <2>3. CASE AddFinalizer(w)
    <3> DEFINE new == [worker[w].obj EXCEPT !.finalizer = TRUE]
    <3>1. new \in BD /\ new # worker[w].obj
      BY <2>1, <2>3 DEF AddFinalizer, BD
    <3>2. \E ok \in BOOLEAN : Update(w, n, new, FALSE, ok) /\ Finish(w, ~ok)
      BY <1>1, <2>3 DEF AddFinalizer
    <3> HIDE DEF new
    <3> QED BY <1>4, <3>1, <3>2
  <2>4. CASE ListChildren(w)
    <3>1. \E kids : worker' = [worker EXCEPT ![w] =
                      [worker[w] EXCEPT !.pc = "children", !.kids = kids]]
      BY <2>4 DEF ListChildren
    <3>2. worker'[w].pc = "children" /\ worker'[w].key = n
      BY <1>1, <3>1 DEF WorkerState
    <3> QED BY <3>2 DEF Attends
  <2> QED BY <2>2, <2>3, <2>4
<1>8. CASE worker[w].pc = "children"
  <2>1. DeleteChild(w) \/ ChildrenDeleted(w)
    BY <1>8 DEF Work, SkipChange, CheckMounted, MountDevice, Rescan, SaveChange, SkipRemove,
       AddFinalizer, ListChildren, RemoveFinalizer, Done
  <2>2. CASE Finish(w, TRUE)
    BY <1>1, <2>2, FinishFails DEF Attends
  <2>3. CASE \E kids : \/ worker' = [worker EXCEPT ![w] = [worker[w] EXCEPT !.kids = kids]]
                       \/ worker' = [worker EXCEPT ![w] = [worker[w] EXCEPT !.pc = "unfinalize"]]
    <3>1. worker'[w].pc \in {"children", "unfinalize"} /\ worker'[w].key = n
      BY <1>1, <1>8, <2>3 DEF WorkerState
    <3> QED BY <3>1 DEF Attends
  <2> QED BY <2>1, <2>2, <2>3 DEF DeleteChild, ChildrenDeleted, Goto
<1>9. CASE worker[w].pc = "unfinalize"
  <2> DEFINE new == [worker[w].obj EXCEPT !.finalizer = FALSE]
  <2>1. worker[w].obj \in BD /\ worker[w].obj.finalizer
    BY <1>1, <1>9 DEF WorkerState, WorkerReady, RemovalsAreDue, WorkersRemoveMarked
  <2>2. new \in BD /\ new # worker[w].obj
    BY <2>1 DEF BD
  <2>3. RemoveFinalizer(w)
    BY <1>9 DEF Work, SkipChange, CheckMounted, MountDevice, Rescan, SaveChange, SkipRemove,
       AddFinalizer, ListChildren, DeleteChild, ChildrenDeleted, Done
  <2>4. \E ok \in BOOLEAN : Update(w, n, new, FALSE, ok) /\ Finish(w, ~ok)
    BY <1>1, <2>3 DEF RemoveFinalizer
  <2> HIDE DEF new
  <2> QED BY <1>4, <2>2, <2>4
<1>10. CASE worker[w].pc = "done"
  <2>1. Done(w) /\ worker[w].failed
    BY <1>10 DEF Attends, Work, SkipChange, CheckMounted, MountDevice, Rescan, SaveChange, SkipRemove,
       AddFinalizer, ListChildren, DeleteChild, ChildrenDeleted, RemoveFinalizer
  <2> QED BY <1>1, <2>1 DEF Done
<1> QED BY <1>5, <1>6, <1>7, <1>8, <1>9, <1>10 DEF Attends

\* A key leaves the queue of a process that stays up with a worker.
LEMMA QueueKept ==
  ASSUME Control, [Next]_vars, synced, synced', NEW n \in queue
  PROVE  n \in queue' \/ \E w \in Worker : Take(w, n)
<1>1. CASE \E w \in Worker : Reconcile(w)
  BY <1>1 DEF Reconcile, Work, SkipChange, CheckMounted, MountDevice, Rescan, SaveChange, SkipRemove,
     AddFinalizer, ListChildren, DeleteChild, ChildrenDeleted, RemoveFinalizer, Done, Update,
     Delete, kubeVars
<1>2. CASE \E m \in Device : TakeKey(m) \/ WatchEvent(m)
  BY <1>2 DEF TakeKey, Take, WatchEvent, Deliver
<1>3. CASE HandleUevent
  BY <1>3 DEF HandleUevent, Handle, ActionHandler, LogError, AddScan, AddList, AddSave, AddReturn,
     RemoveBlockDevice, UpdateRead, UpdatePut, UpdateStatusFails, kubeVars, SaveBlockDevice,
     Update, Create, Delete
<1>4. CASE Start
  <2>1. phase = "up"
    BY AwakeWhenWorking
  <2> QED BY <1>4, <2>1 DEF Start, BlockNew, RegisterNodeBlockDevices, RegisterSave,
       StartControllers, StartMonitor, kubeVars
<1>5. CASE PeriodicResync \/ ReadSocket \/ UNCHANGED vars
  BY <1>5 DEF PeriodicResync, Resync, ReadSocket, ReadUevent, vars, kubeVars
<1>6. CASE Environment \/ Panic
  BY <1>6 DEF Environment, EditSpec, DeleteObject, Plug, Unplug, Signal, MountByHand,
     UnmountByHand, Crash, Panic, Die, StopInformer, kubeVars
<1> QED BY <1>1, <1>2, <1>3, <1>4, <1>5, <1>6 DEF Next

\* A worker that has a key goes on with it, or the process ends.
LEMMA WorkersGoOn ==
  ASSUME Control, [Next]_vars, synced', NEW w \in Worker, worker[w].pc # "idle"
  PROVE  worker'[w] = worker[w] \/ Work(w)
<1>1. worker \in [Worker -> WorkerState]
  BY DEF Control, TypeOK, ControllerTypeOK
<1>2. CASE UNCHANGED worker
  BY <1>2
<1>3. CASE \E v \in Worker : Reconcile(v)
  <2>1. PICK v \in Worker : Work(v)
    BY <1>3 DEF Reconcile
  <2>2. \E s : worker' = [worker EXCEPT ![v] = s]
    BY <2>1, RemovalSteps DEF Elsewhere, ListChildren, ChildDeleted, ChildrenDeleted, Goto
  <2> QED BY <1>1, <2>1, <2>2
<1>4. CASE \E n \in Device : TakeKey(n)
  <2>1. PICK v \in Worker, n \in Device : Take(v, n)
    BY <1>4 DEF TakeKey
  <2> QED BY <1>1, <2>1 DEF Take
<1>5. CASE HandleUevent
  BY <1>2, <1>5, HandleType DEF HandleUevent, Control, TypeOK, Ready
<1>6. CASE Start \/ PeriodicResync \/ ReadSocket \/ \E n \in Device : WatchEvent(n)
  BY <1>2, <1>6 DEF Start, BlockNew, RegisterNodeBlockDevices, RegisterSave,
     StartControllers, StartMonitor, PeriodicResync, ReadSocket, ReadUevent, WatchEvent
<1>7. CASE Environment \/ Panic
  BY <1>2, <1>7 DEF Environment, EditSpec, DeleteObject, Plug, Unplug, Signal, MountByHand,
     UnmountByHand, Crash, Panic, Die, StopInformer
<1> QED BY <1>2, <1>3, <1>4, <1>5, <1>6, <1>7 DEF Next, vars

\* What is to be handled is found by the handler: every step leaves it where it
\* is, or passes it on.
LEMMA NothingLost ==
  ASSUME IInv, RemovalsAreDue, NothingForgotten, [Next]_vars
  PROVE  NothingForgotten'
<1> DEFINE Found(n) == n \in queue' \/ watch'[n] # <<>> \/ \E w \in Worker : Attends(w, n)'
<1>1. SUFFICES ASSUME synced', NEW n \in Device, HasWork(cache'[n]) PROVE Found(n)
  BY DEF NothingForgotten
<1>2. Control /\ KubeTypeOK /\ worker \in [Worker -> WorkerState]
  BY DEF IInv, Control, TypeOK, ControllerTypeOK
<1>3. CASE StartInformer
  BY <1>1, <1>3 DEF StartInformer, HasWork
<1>4. CASE synced /\ (Informed \/ \E m \in Device : Deliver(m))
  <2>1. \/ n \in queue'
        \/ cache'[n] = cache[n] /\ (watch[n] # <<>> => watch'[n] # <<>>)
    <3>1. CASE Informed
      <4>1. CASE \E m \in Device : \E obj : Commit(m, obj)
        <5> PICK m \in Device : \E obj : Commit(m, obj)
          BY <4>1
        <5>1. PICK obj : Commit(m, obj)
          OBVIOUS
        <5>2. store'[m] = obj /\ KubeTypeOK'
          BY <1>2, <5>1, NextControl DEF Commit, KubeTypeOK, Control, TypeOK
        <5>3. obj \in BD \cup {NoObj}
          BY <5>2 DEF KubeTypeOK
        <5> QED BY <1>2, <1>4, <3>1, <5>1, <5>3, CommitTells DEF Informed
      <4> QED BY <3>1, <4>1 DEF Informed
    <3>2. CASE \E m \in Device : Deliver(m)
      BY <1>2, <3>2 DEF Deliver, KubeTypeOK
    <3> QED BY <1>4, <3>1, <3>2
  <2>2. CASE cache'[n] = cache[n] /\ (watch[n] # <<>> => watch'[n] # <<>>)
    <3>1. n \in queue \/ watch[n] # <<>> \/ \E w \in Worker : Attends(w, n)
      BY <1>1, <1>4, <2>2 DEF NothingForgotten
    <3>2. CASE n \in queue
      <4>1. ASSUME NEW w \in Worker, Take(w, n) PROVE Attends(w, n)'
        <5> DEFINE s == [Idle EXCEPT !.pc = "change", !.key = n, !.obj = cache[n]]
        <5>1. worker'[w] = s
          BY <1>2, <4>1 DEF Take
        <5>2. s.pc = "change" /\ s.key = n /\ s.obj = cache[n]
          BY DEF Idle
        <5> HIDE DEF s
        <5> QED BY <1>1, <2>2, <5>1, <5>2 DEF Attends
      <4> QED BY <1>1, <1>2, <1>4, <3>2, <4>1, QueueKept
    <3>3. ASSUME NEW w \in Worker, Attends(w, n) PROVE Found(n)
      <4>1. worker'[w] = worker[w] \/ Work(w)
        BY <1>1, <1>2, <3>3, WorkersGoOn DEF Attends
      <4>2. CASE Work(w)
        BY <3>3, <4>2, WorkAttends
      <4>3. CASE worker'[w] = worker[w]
        BY <3>3, <4>3 DEF Attends
      <4> QED BY <4>1, <4>2, <4>3
    <3> QED BY <2>2, <3>1, <3>2, <3>3
  <2> QED BY <2>1, <2>2
<1> QED BY <1>1, <1>2, <1>3, <1>4, NextInforms

\* An object that the finalizer handler has to look at is queued, about to be
\* queued, or with a worker that will write it or fail: for any number of
\* workers, whatever conflicts, faults, concurrent writes and restarts they meet.
THEOREM NothingIsForgotten == Spec => []NothingForgotten
<1>1. Init => NothingForgotten
  BY DEF Init, KubeInit, NothingForgotten
<1>2. IInv /\ RemovalsAreDue /\ NothingForgotten /\ [Next]_vars => NothingForgotten'
  BY NothingLost
<1> QED BY <1>1, <1>2, InvariantHolds, RemovalsDue, PTL DEF Spec

=============================================================================
