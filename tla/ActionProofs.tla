----------------------------- MODULE ActionProofs -----------------------------
(***************************************************************************)
(* What a step may do to a stored object, for all interleavings: since     *)
(* every copy that may still be written is current, a writer changes the   *)
(* fields it means to change and no other.                                 *)
(***************************************************************************)
EXTENDS ConcurrencyProofs

\* The ways in which an object that stays there is written: by
\* OnBlockDeviceChange, the finalizer handler, a deletion, a user, the
\* registration, and AddBlockDevice.
ChangeSaved(n) == KeepsTheRest(store[n], store'[n])

FinalizerSet(n) == \E b \in BOOLEAN : store'[n] = [store[n] EXCEPT !.finalizer = b]

Marked(n) == store'[n] = [store[n] EXCEPT !.deleting = TRUE]

Edited(n) ==
  /\ \E request \in Requests : store'[n] = [store[n] EXCEPT !.spec = request]
  /\ spent'.edits # spent.edits /\ worker' = worker

Registered(n) ==
  /\ \E s \in DeviceStatus : store'[n] = [store[n] EXCEPT !.deviceStatus = s]
  /\ worker' = worker

Rediscovered(n) ==
  /\ \E spec \in FilesystemInfo, s \in DeviceStatus :
       store'[n] = [store[n] EXCEPT !.spec = spec, !.deviceStatus = s]
  /\ HandlingAdd /\ worker' = worker

Written(n) ==
  \/ store'[n] = store[n]
  \/ ChangeSaved(n) \/ FinalizerSet(n) \/ Marked(n)
  \/ Edited(n) \/ Registered(n) \/ Rediscovered(n)

Stays(n) == n \in Device /\ Exists(n) /\ Exists(n)'

\* An Update writes over the copy its caller has, if it writes at all.
LEMMA UpdateWrites ==
  ASSUME KubeTypeOK, NEW h \in Holder, NEW m \in Device, NEW new \in BD, NEW keep, NEW ok,
         Update(h, m, new, keep, ok), NEW n, Stays(n), store'[n] # store[n]
  PROVE  n = m /\ <<h, n>> \in fresh /\ store'[n] = new
<1>1. CanUpdate(h, m) /\ Commit(m, Settled(new))
  BY DEF Update, ApplyUpdate
<1>2. store' = [store EXCEPT ![m] = Settled(new)]
  BY <1>1 DEF Commit
<1>3. n = m /\ store'[n] = Settled(new)
  BY <1>2 DEF Stays, KubeTypeOK
<1> QED BY <1>1, <1>3 DEF CanUpdate, Settled, Stays, Exists

\* A Create writes no object that was there.
LEMMA CreateWrites ==
  ASSUME KubeTypeOK, NEW m \in Device, NEW new, NEW ok, Create(m, new, ok), NEW n, Stays(n)
  PROVE  store'[n] = store[n]
<1>1. UNCHANGED store \/ (store[m] = NoObj /\ store' = [store EXCEPT ![m] = new])
  BY DEF Create, ApplyCreate, Commit
<1> QED BY <1>1 DEF Stays, Exists, KubeTypeOK

\* A deletion marks the object.
LEMMA DeleteWrites ==
  ASSUME KubeTypeOK, NEW m \in Device, ApplyDelete(m), NEW n, Stays(n), store'[n] # store[n]
  PROVE  Marked(n)
<1>1. store' = [store EXCEPT ![m] = Settled([store[m] EXCEPT !.deleting = TRUE])]
  BY DEF ApplyDelete, Commit
<1>2. n = m /\ store'[n] = Settled([store[n] EXCEPT !.deleting = TRUE])
  BY <1>1 DEF Stays, KubeTypeOK
<1> QED BY <1>2 DEF Settled, Stays, Exists, Marked

\* A worker's step.
LEMMA WorkWrites ==
  ASSUME IInv, NEW w \in Worker, Work(w), NEW n, Stays(n)
  PROVE  store'[n] = store[n] \/ ChangeSaved(n) \/ FinalizerSet(n) \/ Marked(n)
<1> USE DEF IInv
<1>1. SUFFICES ASSUME store'[n] # store[n]
               PROVE  ChangeSaved(n) \/ FinalizerSet(n) \/ Marked(n)
  OBVIOUS
<1>2. /\ worker \in [Worker -> WorkerState] /\ worker[w] \in WorkerState
      /\ WorkerReady(worker[w]) /\ w \in Holder /\ KubeTypeOK /\ n \in Device
  BY WorkerAssumption DEF Control, TypeOK, Ready, ControllerTypeOK, WorkersReady, Stays
<1>3. <<w, n>> \in fresh => worker[w].obj = store[n]
  BY <1>2 DEF CopiesAreCurrent, WorkersCurrent
<1>4. CASE SaveChange(w)
  <2>1. PICK ok, keep : Update(w, worker[w].key, worker[w].copy, keep, ok)
    BY <1>4 DEF SaveChange
  <2>2. worker[w].key \in Device /\ worker[w].copy \in BD /\ KeepsTheRest(worker[w].obj, worker[w].copy)
    BY <1>2, <1>4 DEF SaveChange, WorkerReady, WorkerState, SavesKeepTheRest
  <2>3. <<w, n>> \in fresh /\ store'[n] = worker[w].copy
    BY <1>1, <1>2, <2>1, <2>2, UpdateWrites
  <2> QED BY <1>3, <2>2, <2>3 DEF ChangeSaved
<1>5. CASE AddFinalizer(w) \/ RemoveFinalizer(w)
  <2>1. worker[w].key \in Device /\ worker[w].obj \in BD
    BY <1>2, <1>5 DEF AddFinalizer, RemoveFinalizer, WorkerReady, WorkerState
  <2>2. PICK ok, b \in BOOLEAN :
          Update(w, worker[w].key, [worker[w].obj EXCEPT !.finalizer = b], FALSE, ok)
    BY <1>5 DEF AddFinalizer, RemoveFinalizer
  <2>3. [worker[w].obj EXCEPT !.finalizer = b] \in BD
    BY <2>1 DEF BD
  <2>4. <<w, n>> \in fresh /\ store'[n] = [worker[w].obj EXCEPT !.finalizer = b]
    <3> DEFINE new == [worker[w].obj EXCEPT !.finalizer = b]
    <3>1. new \in BD /\ Update(w, worker[w].key, new, FALSE, ok)
      BY <2>2, <2>3
    <3> DEFINE key == worker[w].key
    <3>2. <<w, n>> \in fresh /\ store'[n] = new
      <4>1. key \in Device /\ Update(w, key, new, FALSE, ok)
        BY <2>1, <3>1
      <4> HIDE DEF new, key
      <4> QED BY <1>1, <1>2, <3>1, <4>1, UpdateWrites
    <3> QED BY <3>2
  <2> QED BY <1>3, <2>4 DEF FinalizerSet
<1>6. CASE DeleteChild(w)
  <2>1. PICK k \in worker[w].kids, reply \in {"OK", "NotFound", "Failed"} : Delete(k, reply)
    BY <1>6 DEF DeleteChild
  <2>2. ApplyDelete(k) /\ k \in Device
    BY <1>1, <1>2, <2>1 DEF Delete, WorkerState
  <2> QED BY <1>1, <1>2, <2>2, DeleteWrites
<1>7. CASE ~SaveChange(w) /\ ~AddFinalizer(w) /\ ~RemoveFinalizer(w) /\ ~DeleteChild(w)
  BY <1>1, <1>7 DEF Work, SkipChange, CheckMounted, MountDevice, Rescan, SkipRemove, ListChildren,
     ChildrenDeleted, Done, kubeVars
<1> QED BY <1>4, <1>5, <1>6, <1>7

\* SaveBlockDeviceByList writes the device status.
LEMMA SaveByListWrites ==
  ASSUME KubeTypeOK, NEW h \in Holder, NEW m \in Device, NEW new \in BD,
         NEW existing \in BD \cup {NoObj}, NEW ok, NEW n, Stays(n), store'[n] # store[n],
         <<h, n>> \in fresh /\ n = m => existing = store[n],
         SaveBlockDeviceByList(h, m, new, existing, ok)
  PROVE  store'[n] = [store[n] EXCEPT !.deviceStatus = new.deviceStatus]
<1>1. CASE existing = NoObj
  BY <1>1, CreateWrites DEF SaveBlockDeviceByList
<1>2. CASE existing # NoObj
  <2> DEFINE saved == [existing EXCEPT !.deviceStatus = new.deviceStatus]
  <2>1. saved \in BD
    BY <1>2 DEF BD
  <2>2. Update(h, m, saved, FALSE, ok)
    BY <1>2 DEF SaveBlockDeviceByList
  <2>3. n = m /\ <<h, n>> \in fresh /\ store'[n] = saved
    <3> HIDE DEF saved
    <3> QED BY <2>1, <2>2, UpdateWrites
  <2> QED BY <2>3
<1> QED BY <1>1, <1>2

\* What AddBlockDevice leaves of a stored object.
Overwritten(old, new) ==
  [old EXCEPT !.spec = new.spec, !.deviceStatus = new.deviceStatus]

\* SaveBlockDevice writes the spec as well.
LEMMA SaveWrites ==
  ASSUME KubeTypeOK, NEW h \in Holder, NEW m \in Device, NEW new \in BD,
         NEW existing \in BD \cup {NoObj}, NEW ok, NEW n, Stays(n), store'[n] # store[n],
         <<h, n>> \in fresh /\ n = m => existing = store[n],
         SaveBlockDevice(h, m, new, existing, ok)
  PROVE  store'[n] = Overwritten(store[n], new)
<1>1. CASE existing = NoObj
  BY <1>1, CreateWrites DEF SaveBlockDevice
<1>2. CASE existing # NoObj
  <2> DEFINE saved == Overwritten(existing, new)
  <2>1. saved \in BD
    BY <1>2 DEF BD, Overwritten
  <2>2. Update(h, m, saved, FALSE, ok)
    BY <1>2 DEF SaveBlockDevice, Overwritten
  <2>3. n = m /\ <<h, n>> \in fresh /\ store'[n] = saved
    <3> HIDE DEF saved
    <3> QED BY <2>1, <2>2, UpdateWrites
  <2> QED BY <2>3
<1> QED BY <1>1, <1>2

\* The monitor's step.
LEMMA HandleWrites ==
  ASSUME IInv, HandleUevent, NEW n, Stays(n)
  PROVE  store'[n] = store[n] \/ Marked(n) \/ Rediscovered(n)
<1> USE DEF IInv
<1>1. SUFFICES ASSUME store'[n] # store[n]
               PROVE  Marked(n) \/ Rediscovered(n)
  OBVIOUS
<1>2. KubeTypeOK /\ UdevTypeOK /\ FramesReady /\ n \in Device
  BY DEF Control, TypeOK, Ready, Stays
<1>3. frames # <<>> =>
        /\ Depth \in DOMAIN frames /\ Depth \in Holder
        /\ Top \in Frame /\ Top.event.device \in Device /\ FrameReady(Top)
  BY <1>2, TopType, LenProperties DEF UdevTypeOK
<1>4. CASE RemoveBlockDevice
  <2>1. ApplyDelete(Top.event.device) /\ frames # <<>>
    BY <1>1, <1>4 DEF RemoveBlockDevice, At, Delete
  <2> QED BY <1>1, <1>2, <1>3, <2>1, DeleteWrites
<1>5. CASE AddSave
  <2>1. PICK x \in NextToSave(Top.todo), ok \in BOOLEAN :
          SaveBlockDevice(Depth, x, Top.scanned[x], Top.list[x], ok)
    BY <1>5 DEF AddSave
  <2>2. frames # <<>> /\ Top.pc = "save" /\ Top.event.action = "add" /\ worker' = worker
    BY <1>5 DEF AddSave, At
  <2>3. /\ x \in Device /\ Top.scanned[x] \in BD /\ Top.list[x] \in BD \cup {NoObj}
    BY <1>3, <2>2 DEF NextToSave, Frame, FrameReady
  <2>4. <<Depth, n>> \in fresh /\ n = x => Top.list[x] = store[n]
    BY <1>2, <1>3, <2>2 DEF CopiesAreCurrent, FramesCurrent, Top
  <2>5. store'[n] = [store[n] EXCEPT !.spec = Top.scanned[x].spec,
                                     !.deviceStatus = Top.scanned[x].deviceStatus]
    <3> DEFINE new == Top.scanned[x]
               existing == Top.list[x]
    <3>1. /\ new \in BD /\ existing \in BD \cup {NoObj} /\ Depth \in Holder
          /\ SaveBlockDevice(Depth, x, new, existing, ok)
          /\ <<Depth, n>> \in fresh /\ n = x => existing = store[n]
      BY <1>3, <2>1, <2>2, <2>3, <2>4
    <3>2. store'[n] = Overwritten(store[n], new)
      <4> HIDE DEF new, existing
      <4> QED BY <1>1, <1>2, <2>3, <3>1, SaveWrites
    <3> QED BY <3>2 DEF Overwritten
  <2>6. Top.scanned[x].spec \in FilesystemInfo /\ Top.scanned[x].deviceStatus \in DeviceStatus
    BY <2>3 DEF BD
  <2> QED BY <2>2, <2>5, <2>6 DEF Rediscovered, HandlingAdd
<1>6. CASE ~RemoveBlockDevice /\ ~AddSave
  BY <1>1, <1>6 DEF HandleUevent, Handle, ActionHandler, LogError, AddScan, AddList, AddReturn, UpdateRead,
     UpdatePut, UpdateStatusFails, kubeVars
<1> QED BY <1>4, <1>5, <1>6

\* Every step.  Only workers change objects while they change themselves.
LEMMA NextWrites ==
  ASSUME IInv, [Next]_vars, NEW n, Stays(n)
  PROVE  /\ Written(n)
         /\ worker' # worker =>
              store'[n] = store[n] \/ ChangeSaved(n) \/ FinalizerSet(n) \/ Marked(n)
<1> USE DEF Written
<1>1. KubeTypeOK /\ n \in Device
  BY DEF IInv, Control, TypeOK, Stays
<1>2. CASE \E w \in Worker : Reconcile(w)
  <2>1. PICK w \in Worker : Work(w)
    BY <1>2 DEF Reconcile
  <2> QED BY <2>1, WorkWrites
<1>3. CASE HandleUevent
  BY <1>3, HandleWrites DEF Rediscovered
<1>4. CASE RegisterSave
  <2>1. PICK x \in NextToSave(boot.todo), ok \in BOOLEAN :
          SaveBlockDeviceByList(Boot, x, boot.scan[x], boot.list[x], ok)
    BY <1>4 DEF RegisterSave
  <2>2. /\ x \in Device /\ boot.scan[x] \in BD /\ boot.list[x] \in BD \cup {NoObj}
        /\ Boot \in Holder /\ phase = "register" /\ worker' = worker
    BY <1>4, SystemAssumption
       DEF IInv, Control, TypeOK, Ready, NextToSave, BootState, BootReady, RegisterSave
  <2>3. <<Boot, n>> \in fresh /\ n = x => boot.list[x] = store[n]
    BY <1>1, <2>2 DEF IInv, CopiesAreCurrent, BootCurrent
  <2>4. store'[n] # store[n] =>
          store'[n] = [store[n] EXCEPT !.deviceStatus = boot.scan[x].deviceStatus]
    <3> SUFFICES ASSUME store'[n] # store[n]
                 PROVE  store'[n] = [store[n] EXCEPT !.deviceStatus = boot.scan[x].deviceStatus]
      OBVIOUS
    <3> DEFINE new == boot.scan[x]
               existing == boot.list[x]
    <3>1. /\ new \in BD /\ existing \in BD \cup {NoObj}
          /\ SaveBlockDeviceByList(Boot, x, new, existing, ok)
          /\ <<Boot, n>> \in fresh /\ n = x => existing = store[n]
      BY <2>1, <2>2, <2>3
    <3>2. store'[n] = [store[n] EXCEPT !.deviceStatus = new.deviceStatus]
      <4> HIDE DEF new, existing
      <4> QED BY <1>1, <2>2, <3>1, SaveByListWrites
    <3> QED BY <3>2
  <2>5. boot.scan[x].deviceStatus \in DeviceStatus
    BY <2>2 DEF BD
  <2> QED BY <2>2, <2>4, <2>5 DEF Registered
<1>5. CASE \E m \in Device : DeleteObject(m) \/ \E request \in Requests : EditSpec(m, request)
  <2>1. PICK m \in Device : DeleteObject(m) \/ \E request \in Requests : EditSpec(m, request)
    BY <1>5
  <2>2. worker' = worker
    BY <2>1 DEF DeleteObject, EditSpec
  <2>3. CASE DeleteObject(m)
    BY <1>1, <2>2, <2>3, DeleteWrites DEF DeleteObject
  <2>4. CASE \E request \in Requests : EditSpec(m, request)
    <3>1. PICK request \in Requests : EditSpec(m, request)
      BY <2>4
    <3>2. store' = [store EXCEPT ![m] = [store[m] EXCEPT !.spec = request]]
      BY <3>1 DEF EditSpec, Commit
    <3>3. store'[n] # store[n] => store'[n] = [store[n] EXCEPT !.spec = request]
      BY <1>1, <3>2 DEF KubeTypeOK
    <3>4. spent'.edits # spent.edits
      <4>1. spent \in [Mishaps -> Nat] /\ spent' = [spent EXCEPT !["edits"] = @ + 1]
        BY <3>1 DEF IInv, Control, TypeOK, EditSpec, Spend
      <4>2. spent'["edits"] = spent["edits"] + 1 /\ spent["edits"] \in Nat
        BY <4>1 DEF Mishaps
      <4> QED BY <4>2
    <3> QED BY <2>2, <3>3, <3>4 DEF Edited
  <2> QED BY <2>1, <2>3, <2>4
<1>6. CASE UNCHANGED store
  BY <1>6
<1>7. CASE \E m \in Device : TakeKey(m) \/ WatchEvent(m)
  BY <1>6, <1>7 DEF TakeKey, WatchEvent, Take, Deliver
<1>8. CASE PeriodicResync \/ ReadSocket \/ Panic \/ UNCHANGED vars
  BY <1>6, <1>8 DEF PeriodicResync, Resync, ReadSocket, ReadUevent, Panic, Die, StopInformer, vars, kubeVars
<1>9. CASE BlockNew \/ RegisterNodeBlockDevices \/ StartControllers \/ StartMonitor
  BY <1>6, <1>9 DEF BlockNew, RegisterNodeBlockDevices, StartControllers, StartInformer,
     StartMonitor, kubeVars
<1>10. CASE Crash \/ \E d \in Device :
             \/ Plug(d) \/ Unplug(d)
             \/ \E action \in Signals : Signal(d, action)
             \/ \E dir \in Dir : MountByHand(d, dir)
             \/ UnmountByHand(d)
  BY <1>6, <1>10 DEF Crash, Die, StopInformer, Plug, Unplug, Signal, MountByHand,
     UnmountByHand, kubeVars
<1> QED BY <1>2, <1>3, <1>4, <1>5, <1>7, <1>8, <1>9, <1>10 DEF Next, Start, Environment

-----------------------------------------------------------------------------
(* The theorems.                                                           *)

\* No step takes the mark for deletion off an object: what a worker saves was
\* read before the mark only if the save is refused.
THEOREM DeletionFinal == Spec => DeletionIsFinal
<1>1. ASSUME IInv, [Next]_vars, NEW n \in Device, Exists(n), Exists(n)', store[n].deleting
      PROVE  store'[n].deleting
  <2>1. Stays(n) /\ store[n] \in BD
    BY <1>1 DEF Stays, Exists, IInv, Control, TypeOK, KubeTypeOK
  <2>2. Written(n)
    BY <1>1, <2>1, NextWrites
  <2>3. ~ChangeSaved(n)
    BY <1>1 DEF ChangeSaved, KeepsTheRest
  <2> QED BY <1>1, <2>1, <2>2, <2>3
      DEF Written, FinalizerSet, Marked, Edited, Registered, Rediscovered, BD
<1>2. IInv /\ [Next]_vars =>
        [\A n \in Device :
           Exists(n) /\ Exists(n)' /\ store[n].deleting => store'[n].deleting]_vars
  BY <1>1
<1> QED BY <1>2, InvariantHolds, PTL DEF Spec, DeletionIsFinal

\* Specs are changed by users, and by AddBlockDevice, alone.
THEOREM SpecsAreTheUsers == Spec => UsersOwnSpec
<1>1. ASSUME IInv, [Next]_vars, NEW n \in Device, Exists(n), Exists(n)',
             store'[n].spec # store[n].spec
      PROVE  spent'.edits # spent.edits \/ (HandlingAdd /\ worker' = worker)
  <2>1. Stays(n) /\ store[n] \in BD
    BY <1>1 DEF Stays, Exists, IInv, Control, TypeOK, KubeTypeOK
  <2>2. Written(n)
    BY <1>1, <2>1, NextWrites
  <2> QED BY <1>1, <2>1, <2>2
      DEF Written, ChangeSaved, KeepsTheRest, FinalizerSet, Marked, Edited, Registered,
          Rediscovered, BD
<1>2. IInv /\ [Next]_vars =>
        [\A n \in Device :
           Exists(n) /\ Exists(n)' /\ store'[n].spec # store[n].spec
             => spent'.edits # spent.edits \/ (HandlingAdd /\ worker' = worker)]_vars
  BY <1>1
<1> QED BY <1>2, InvariantHolds, PTL DEF Spec, UsersOwnSpec

\* Reconciliation keeps the label, the state and the format stamp.
THEOREM ReconcileKeeps == Spec => ReconcileKeepsTheRest
<1> DEFINE KeptRest(n) ==
             LET old == store[n]  new == store'[n]
             IN  /\ new.parentLabel = old.parentLabel
                 /\ new.state = old.state
                 /\ new.deviceStatus.parentDevice = old.deviceStatus.parentDevice
                 /\ old.deviceStatus.fileSystem.lastFormattedAt
                      => new.deviceStatus.fileSystem.lastFormattedAt
<1>1. ASSUME IInv, [Next]_vars, NEW n \in Device, worker' # worker, Exists(n), Exists(n)'
      PROVE  KeptRest(n)
  <2>1. Stays(n) /\ store[n] \in BD
    BY <1>1 DEF Stays, Exists, IInv, Control, TypeOK, KubeTypeOK
  <2>2. store'[n] = store[n] \/ ChangeSaved(n) \/ FinalizerSet(n) \/ Marked(n)
    BY <1>1, <2>1, NextWrites
  <2> QED BY <2>1, <2>2 DEF ChangeSaved, KeepsTheRest, FinalizerSet, Marked, BD
<1>2. IInv /\ [Next]_vars =>
        [\A n \in Device : worker' # worker /\ Exists(n) /\ Exists(n)' => KeptRest(n)]_vars
  <2> HIDE DEF KeptRest
  <2> QED BY <1>1
<1> QED BY <1>2, InvariantHolds, PTL DEF Spec, ReconcileKeepsTheRest

=============================================================================
