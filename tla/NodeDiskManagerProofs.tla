------------------------ MODULE NodeDiskManagerProofs ------------------------
(***************************************************************************)
(* Control is inductive: type correctness of the disk manager, for any set *)
(* of devices, workers and requests and any bounds.  First the steps of    *)
(* the udev monitor, then those of the whole.                              *)
(***************************************************************************)
EXTENDS ControllerProofs, SequenceTheorems

-----------------------------------------------------------------------------
(* The udev monitor's stack of calls.                                      *)

\* A new call is a frame, with nothing to save.
LEMMA CallType ==
  ASSUME NEW event \in UEvent
  PROVE  Call(event) \in Frame /\ FrameReady(Call(event))
BY DEF Call, Frame, Nothing, FrameReady

\* The innermost call is a frame; its depth names a holder of copies.
LEMMA TopType ==
  ASSUME UdevTypeOK, FramesReady, frames # <<>>
  PROVE  /\ Depth \in 1..Len(frames) /\ Depth \in 1..MaxDepth /\ Depth \in Holder
         /\ Top \in Frame /\ FrameReady(Top)
         /\ Top.event \in UEvent /\ Top.event.device \in Device
<1>1. frames \in Seq(Frame) /\ Len(frames) \in Nat /\ Len(frames) # 0
  BY EmptySeq DEF UdevTypeOK
<1>2. Depth \in 1..Len(frames) /\ Depth \in 1..MaxDepth /\ Depth \in Holder
  BY <1>1, UdevAssumption DEF Depth, FramesReady
<1>3. Top \in Frame /\ FrameReady(Top)
  BY <1>1, <1>2, LenProperties DEF Top, FramesReady
<1> QED BY <1>2, <1>3 DEF Frame, UEvent

\* The innermost call goes on.
LEMMA TopReplaced ==
  ASSUME UdevTypeOK, FramesReady, frames # <<>>,
         NEW f \in Frame, FrameReady(f), frames' = [frames EXCEPT ![Depth] = f]
  PROVE  /\ frames' \in Seq(Frame) /\ FramesReady'
         /\ Len(frames') = Len(frames) /\ frames'[Depth] = f
         /\ \A i \in 1..Len(frames) : i # Depth => frames'[i] = frames[i]
<1>1. frames \in Seq(Frame) /\ Depth \in 1..Len(frames)
  BY TopType DEF UdevTypeOK
<1>2. /\ frames' \in Seq(Frame) /\ Len(frames') = Len(frames)
      /\ \A j \in 1..Len(frames) : frames'[j] = IF j = Depth THEN f ELSE frames[j]
  BY <1>1, ExceptSeq
<1>3. DOMAIN frames' = 1..Len(frames) /\ DOMAIN frames = 1..Len(frames)
  BY <1>1, <1>2, LenProperties
<1> QED BY <1>1, <1>2, <1>3 DEF FramesReady, FrameReady

\* A call within the innermost one.
LEMMA TopPushed ==
  ASSUME NEW s \in Seq(Frame), Len(s) < MaxDepth, \A i \in 1..Len(s) : FrameReady(s[i]),
         NEW f \in Frame, FrameReady(f), frames' = Append(s, f)
  PROVE  /\ frames' \in Seq(Frame) /\ FramesReady'
         /\ Len(frames') = Len(s) + 1 /\ frames'[Len(s) + 1] = f
         /\ \A i \in 1..Len(s) : frames'[i] = s[i]
<1>1. /\ frames' \in Seq(Frame) /\ Len(frames') = Len(s) + 1
      /\ \A i \in 1..Len(s) : frames'[i] = s[i]
      /\ frames'[Len(s) + 1] = f
  OBVIOUS
<1>2. DOMAIN frames' = 1..(Len(s) + 1) /\ Len(s) \in Nat
  BY <1>1, LenProperties
<1>3. Len(frames') <= MaxDepth
  BY <1>1, <1>2, UdevAssumption
<1> QED BY <1>1, <1>2, <1>3 DEF FramesReady, FrameReady

\* The innermost call returns.
LEMMA TopPopped ==
  ASSUME UdevTypeOK, FramesReady, frames # <<>>, frames' = SubSeq(frames, 1, Depth - 1)
  PROVE  /\ frames' \in Seq(Frame) /\ FramesReady'
         /\ Len(frames') = Depth - 1
         /\ \A i \in 1..(Depth - 1) : frames'[i] = frames[i]
<1>1. frames \in Seq(Frame) /\ Depth \in 1..Len(frames) /\ Depth = Len(frames)
  BY TopType DEF UdevTypeOK, Depth
<1>2. \A i \in 1..(Depth - 1) : frames[i] \in Frame
  BY <1>1, ElementOfSeq
<1>3. /\ frames' \in Seq(Frame)
      /\ Len(frames') = Depth - 1
      /\ \A i \in 1..(Depth - 1) : frames'[i] = frames[i]
  BY <1>1, <1>2, SubSeqProperties
<1>4. DOMAIN frames' = 1..(Depth - 1) /\ DOMAIN frames = 1..Len(frames)
  BY <1>1, <1>3, LenProperties
<1> QED BY <1>1, <1>3, <1>4, UdevAssumption DEF FramesReady, FrameReady

\* A stack of at most one new call.
LEMMA FreshStack ==
  ASSUME NEW event \in UEvent, frames' \in {<<>>, <<Call(event)>>}
  PROVE  frames' \in Seq(Frame) /\ FramesReady' /\ Len(frames') <= 1
<1>1. frames' \in Seq(Frame) /\ Len(frames') \in {0, 1}
  <2>1. <<Call(event)>> \in Seq(Frame) /\ Len(<<Call(event)>>) = 1
    BY CallType
  <2>2. <<>> \in Seq(Frame) /\ Len(<<>>) = 0
    OBVIOUS
  <2> QED BY <2>1, <2>2
<1>2. \A i \in DOMAIN frames' : frames'[i] = Call(event)
  OBVIOUS
<1> QED BY <1>1, <1>2, CallType, UdevAssumption DEF FramesReady

-----------------------------------------------------------------------------
(* The monitor's steps: each keeps the types, and every object it is about *)
(* to save is there.                                                       *)

\* Taking an event from the socket.
LEMMA ActionHandlerType ==
  ASSUME UdevTypeOK, FramesReady, ActionHandler
  PROVE  UdevTypeOK' /\ FramesReady'
<1>1. Head(uevents) \in UEvent /\ Tail(uevents) \in Seq(UEvent)
  BY HeadTailProperties DEF ActionHandler, UdevTypeOK
<1>2. frames' \in {<<>>, <<Call(Head(uevents))>>}
  BY DEF ActionHandler
<1> QED BY <1>1, <1>2, FreshStack DEF ActionHandler, UdevTypeOK, Reader

\* The reader's step, and the monitor's with an error of it.
LEMMA ReaderType ==
  ASSUME UdevTypeOK, FramesReady, ReadUevent \/ LogError
  PROVE  UdevTypeOK' /\ FramesReady' /\ UNCHANGED <<frames, kubeVars, hostVars, worker>>
<1>1. UNCHANGED <<frames, kubeVars, hostVars, worker>>
  BY DEF ReadUevent, LogError
<1>2. uevents' \in Seq(UEvent)
  <2>1. uevents' = uevents \/ (uevents # <<>> /\ uevents' = Tail(uevents))
    BY DEF ReadUevent, LogError
  <2> QED BY <2>1, HeadTailProperties DEF UdevTypeOK
<1>3. reader' \in Reader /\ overrun' \in BOOLEAN
  BY DEF ReadUevent, LogError, UdevTypeOK, Reader
<1> QED BY <1>1, <1>2, <1>3 DEF UdevTypeOK, FramesReady, FrameReady

\* Scanning the device.
LEMMA AddScanType ==
  ASSUME KubeTypeOK, ControllerTypeOK, UdevTypeOK, FramesReady, AddScan
  PROVE  KubeTypeOK' /\ UdevTypeOK' /\ FramesReady'
<1> DEFINE new == GetNewBlockDevices(Top.event.device, mtab, plugged)
           scanned == [n \in Device |-> IF n \in DOMAIN new THEN new[n] ELSE NoObj]
           todo == DOMAIN new
           f == [Top EXCEPT !.pc = "list", !.todo = todo, !.scanned = scanned]
<1>1. frames # <<>> /\ Top \in Frame /\ Depth \in Holder /\ Top.event.device \in Device
  BY TopType DEF AddScan, At
<1>2. DOMAIN new \subseteq Device /\ \A n \in DOMAIN new : new[n] \in BD
  BY <1>1, ScanType DEF ControllerTypeOK
<1>3. todo \in SUBSET Device /\ scanned \in [Device -> BD \cup {NoObj}]
  <2> HIDE DEF new
  <2> QED BY <1>2
<1>4. \A n \in todo : scanned[n] # NoObj
  <2> HIDE DEF new
  <2> QED BY <1>2, NoObjAssumption
<1>5. frames' = [frames EXCEPT ![Depth] = f]
  BY DEF AddScan, Top
<1>6. f \in Frame /\ FrameReady(f)
  <2> HIDE DEF todo, scanned
  <2> QED BY <1>1, <1>3, <1>4 DEF KubeTypeOK, Frame, FrameReady
<1>7. frames' \in Seq(Frame) /\ FramesReady'
  <2> HIDE DEF f
  <2> QED BY <1>1, <1>5, <1>6, TopReplaced
<1> QED BY <1>7 DEF AddScan, kubeVars, KubeTypeOK, UdevTypeOK

\* Listing the cache.
LEMMA AddListType ==
  ASSUME KubeTypeOK, UdevTypeOK, FramesReady, AddList
  PROVE  KubeTypeOK' /\ UdevTypeOK' /\ FramesReady'
<1> DEFINE f == [Top EXCEPT !.pc = "save", !.list = cache]
<1>1. frames # <<>> /\ Top \in Frame /\ FrameReady(Top) /\ Depth \in Holder
  BY TopType DEF AddList, At
<1>2. frames' = [frames EXCEPT ![Depth] = f]
  BY DEF AddList, Top
<1>3. f \in Frame /\ FrameReady(f)
  BY <1>1 DEF KubeTypeOK, Frame, FrameReady, AddList, At
<1>4. frames' \in Seq(Frame) /\ FramesReady'
  <2> HIDE DEF f
  <2> QED BY <1>1, <1>2, <1>3, TopReplaced
<1>5. fresh' \subseteq Holder \X Device
  BY <1>1 DEF AddList, KubeTypeOK
<1> QED BY <1>4, <1>5 DEF AddList, KubeTypeOK, UdevTypeOK

\* Saving one object of the scan.
LEMMA AddSaveType ==
  ASSUME KubeTypeOK, UdevTypeOK, FramesReady, AddSave
  PROVE  KubeTypeOK' /\ UdevTypeOK' /\ FramesReady'
<1>1. /\ frames # <<>> /\ Top \in Frame /\ FrameReady(Top)
      /\ Depth \in Holder /\ Depth \in 1..Len(frames) /\ Top.event \in UEvent
  BY TopType DEF AddSave, At
<1>2. PICK x \in NextToSave(Top.todo), ok \in BOOLEAN :
        LET rest == [frames EXCEPT ![Depth].todo = @ \ {x}]
        IN  /\ SaveBlockDevice(Depth, x, Top.scanned[x], Top.list[x], ok)
            /\ frames' = IF ok THEN rest
                         ELSE IF Depth < MaxDepth
                           THEN Append(rest, Call(Top.event))
                           ELSE [frames EXCEPT ![Depth] = Call(Top.event)]
  BY DEF AddSave
<1> DEFINE f == [Top EXCEPT !.todo = Top.todo \ {x}]
           rest == [frames EXCEPT ![Depth] = f]
<1>3. /\ x \in Top.todo /\ x \in Device
      /\ Top.scanned[x] \in BD /\ Top.list[x] \in BD \cup {NoObj}
  BY <1>1 DEF NextToSave, Frame, FrameReady
<1>4. KubeTypeOK'
  BY <1>1, <1>2, <1>3, SaveType
<1>5. f \in Frame /\ FrameReady(f)
  BY <1>1 DEF Frame, FrameReady
<1>6. rest = [frames EXCEPT ![Depth].todo = @ \ {x}]
  BY DEF Top
<1>7. frames' \in Seq(Frame) /\ FramesReady'
  <2> HIDE DEF f
  <2>1. CASE frames' = rest
    BY <1>1, <1>5, <2>1, TopReplaced
  <2>2. CASE Depth < MaxDepth /\ frames' = Append(rest, Call(Top.event))
    <3>1. frames \in Seq(Frame) /\ \A i \in 1..Len(frames) : FrameReady(frames[i])
      BY LenProperties DEF UdevTypeOK, FramesReady
    <3>2. /\ rest \in Seq(Frame) /\ Len(rest) = Depth
          /\ \A i \in 1..Len(rest) : FrameReady(rest[i])
      BY <1>1, <1>5, <3>1, ExceptSeq DEF Depth
    <3> QED BY <1>1, <2>2, <3>2, CallType, TopPushed
  <2>3. CASE frames' = [frames EXCEPT ![Depth] = Call(Top.event)]
    BY <1>1, <2>3, CallType, TopReplaced
  <2> QED BY <1>2, <1>6, <2>1, <2>2, <2>3
<1> QED BY <1>4, <1>7 DEF AddSave, UdevTypeOK

\* Returning from a call.
LEMMA AddReturnType ==
  ASSUME KubeTypeOK, UdevTypeOK, FramesReady, AddReturn
  PROVE  KubeTypeOK' /\ UdevTypeOK' /\ FramesReady'
<1>1. frames' \in Seq(Frame) /\ FramesReady'
  BY TopPopped DEF AddReturn, At, Return
<1> QED BY <1>1 DEF AddReturn, Return, KubeTypeOK, UdevTypeOK

\* Handling a remove event.
LEMMA RemoveBlockDeviceType ==
  ASSUME KubeTypeOK, UdevTypeOK, FramesReady, RemoveBlockDevice
  PROVE  KubeTypeOK' /\ UdevTypeOK' /\ FramesReady'
<1>1. Top.event \in UEvent /\ Top.event.device \in Device
  BY TopType DEF RemoveBlockDevice, At
<1>2. KubeTypeOK'
  BY <1>1, DeleteType DEF RemoveBlockDevice
<1>3. frames' = frames \/ frames' = <<>>
  BY DEF RemoveBlockDevice
<1>4. frames' \in Seq(Frame) /\ FramesReady'
  <2>1. CASE frames' = frames
    BY <2>1 DEF UdevTypeOK, FramesReady, FrameReady
  <2>2. CASE frames' = <<>>
    BY <1>1, <2>2, FreshStack
  <2> QED BY <1>3, <2>1, <2>2
<1> QED BY <1>2, <1>4 DEF RemoveBlockDevice, UdevTypeOK

\* Handling an online or offline event.
LEMMA UpdateBlockDeviceType ==
  ASSUME KubeTypeOK, UdevTypeOK, FramesReady, UpdateRead \/ UpdatePut
  PROVE  KubeTypeOK' /\ UdevTypeOK' /\ FramesReady'
<1>1. frames # <<>> /\ Top \in Frame /\ FrameReady(Top) /\ Top.event \in UEvent
  BY TopType DEF UpdateRead, UpdatePut, At
<1> DEFINE f == [Top EXCEPT !.pc = "put"]
<1>2. \/ frames' \in {<<>>, <<Call(Top.event)>>}
      \/ frames' = [frames EXCEPT ![Depth] = f]
  BY DEF UpdateRead, UpdatePut, Top
<1>3. f \in Frame /\ FrameReady(f)
  BY <1>1 DEF Frame, FrameReady
<1>4. frames' \in Seq(Frame) /\ FramesReady'
  <2> HIDE DEF f
  <2> QED BY <1>1, <1>2, <1>3, FreshStack, TopReplaced
<1>5. UNCHANGED kubeVars /\ UNCHANGED <<reader, overrun, uevents>>
  BY DEF UpdateRead, UpdatePut, UpdateStatusFails
<1> QED BY <1>4, <1>5 DEF UdevTypeOK, KubeTypeOK, kubeVars

\* Every step of the monitor.
LEMMA HandleType ==
  ASSUME KubeTypeOK, ControllerTypeOK, UdevTypeOK, FramesReady, Handle
  PROVE  /\ KubeTypeOK' /\ ControllerTypeOK' /\ UdevTypeOK' /\ FramesReady'
         /\ UNCHANGED <<hostVars, worker>>
<1>1. KubeTypeOK' /\ UdevTypeOK' /\ FramesReady'
  <2>1. ActionHandler \/ LogError => KubeTypeOK'
    BY DEF ActionHandler, LogError, kubeVars, KubeTypeOK
  <2> QED BY <2>1, ActionHandlerType, ReaderType, AddScanType, AddListType, AddSaveType,
             AddReturnType, RemoveBlockDeviceType, UpdateBlockDeviceType DEF Handle
<1>2. UNCHANGED <<hostVars, worker>>
  BY DEF Handle, ActionHandler, LogError, AddScan, AddList, AddSave, AddReturn, RemoveBlockDevice,
         UpdateRead, UpdatePut
<1> QED BY <1>1, <1>2 DEF hostVars, ControllerTypeOK

-----------------------------------------------------------------------------
(* Control: types, nothing runs in a process that is not up, and nothing   *)
(* is used before it is there.                                             *)

\* The initial state.
LEMMA InitControl == Init => Control
<1> SUFFICES ASSUME Init PROVE Control
  OBVIOUS
<1> USE DEF Init
<1>1. KubeTypeOK
  <2> DEFINE Obj == BD \cup {NoObj}
  <2>1. <<>> \in Seq(Obj) /\ NoObj \in Obj
    OBVIOUS
  <2>2. 0 \in 0..MaxFaults
    BY FaultAssumption
  <2> HIDE DEF Obj
  <2>3. /\ store \in [Device -> Obj] /\ watch \in [Device -> Seq(Obj)]
        /\ cache \in [Device -> Obj]
    BY <2>1 DEF KubeInit
  <2> QED BY <2>2, <2>3 DEF Obj, KubeInit, KubeTypeOK
<1>2. ControllerTypeOK /\ WorkersReady
  <2>1. Idle \in WorkerState /\ WorkerReady(Idle)
    BY DEF Idle, WorkerState, WorkerReady
  <2> QED BY <2>1, SystemAssumption DEF AllIdle, ControllerTypeOK, WorkersReady
<1>3. UdevTypeOK /\ FramesReady
  <2>1. <<>> \in Seq(UEvent) /\ <<>> \in Seq(Frame) /\ Len(<<>>) = 0
    OBVIOUS
  <2>2. \A i \in DOMAIN <<>> : FrameReady(<<>>[i])
    OBVIOUS
  <2>3. 0 <= MaxDepth
    BY UdevAssumption
  <2> QED BY <2>1, <2>2, <2>3 DEF UdevInit, UdevTypeOK, Reader, FramesReady
<1>4. boot \in BootState /\ BootReady
  BY DEF NoBoot, Nothing, BootState, BootReady
<1>5. Asleep
  BY DEF KubeInit, UdevInit, Asleep
<1> QED BY <1>1, <1>2, <1>3, <1>4, <1>5 DEF Control, TypeOK, Ready

\* A process in which something happens is up.
LEMMA AwakeWhenWorking ==
  ASSUME Control
  PROVE  /\ \A w \in Worker : worker[w].pc # "idle" => synced
         /\ (queue # {} \/ Connected \/ overrun \/ uevents # <<>> \/ frames # <<>>) => synced
         /\ synced => phase = "up"
<1>1. Asleep
  BY DEF Control
<1>2. worker = AllIdle => \A w \in Worker : worker[w].pc = "idle"
  BY DEF AllIdle, Idle
<1>3. ~synced => /\ worker = AllIdle /\ queue = {} /\ ~Connected /\ ~overrun
                 /\ uevents = <<>> /\ frames = <<>>
  BY <1>1 DEF Asleep, Connected
<1>4. synced => phase = "up"
  BY <1>1 DEF Asleep
<1> QED BY <1>2, <1>3, <1>4

\* What happens while the process is up, and leaves it up.
LEMMA StillAwake ==
  ASSUME Control, synced, UNCHANGED <<synced, phase>>
  PROVE  Asleep'
BY DEF Control, Asleep

\* A worker's step, and taking a key.
LEMMA ReconcileControl ==
  ASSUME Control, NEW w \in Worker,
         Reconcile(w) \/ \E n \in Device : Take(w, n) /\ UNCHANGED <<udevVars, sysVars>>
  PROVE  Control'
<1> USE DEF Control, TypeOK, Ready
<1>1. synced /\ UNCHANGED <<synced, udevVars, sysVars>>
  <2>1. CASE Reconcile(w)
    <3>1. worker[w].pc # "idle"
      BY <2>1 DEF Reconcile, Work, SkipChange, CheckMounted, MountDevice, Rescan, SaveChange,
                  SkipRemove, AddFinalizer, ListChildren, DeleteChild, ChildrenDeleted,
                  RemoveFinalizer, Done
    <3>2. UNCHANGED synced
      BY <2>1 DEF Reconcile, Work, SkipChange, CheckMounted, MountDevice, Rescan, SaveChange,
                  SkipRemove, AddFinalizer, ListChildren, DeleteChild, ChildrenDeleted,
                  RemoveFinalizer, Done, Update, Delete, kubeVars
    <3> QED BY <2>1, <3>1, <3>2, AwakeWhenWorking DEF Reconcile
  <2>2. CASE \E n \in Device : Take(w, n) /\ UNCHANGED <<udevVars, sysVars>>
    BY <2>2, AwakeWhenWorking DEF Take
  <2> QED BY <2>1, <2>2
<1>2. KubeTypeOK' /\ ControllerTypeOK' /\ WorkersReady'
  BY WorkType, TakeType DEF Reconcile
<1>3. Asleep'
  BY <1>1, StillAwake DEF sysVars
<1> QED BY <1>1, <1>2, <1>3 DEF udevVars, sysVars, UdevTypeOK, FramesReady, FrameReady, BootReady

\* The informer's steps.
LEMMA InformerControl ==
  ASSUME Control, PeriodicResync \/ \E n \in Device : WatchEvent(n)
  PROVE  Control'
<1> USE DEF Control, TypeOK, Ready
<1>1. synced /\ UNCHANGED <<synced, hostVars, worker, udevVars, sysVars>>
  BY DEF PeriodicResync, WatchEvent, Resync, Deliver
<1>2. KubeTypeOK'
  BY InformerType DEF PeriodicResync, WatchEvent
<1>3. Asleep'
  BY <1>1, StillAwake DEF sysVars
<1> QED BY <1>1, <1>2, <1>3
    DEF hostVars, udevVars, sysVars, ControllerTypeOK, WorkersReady, WorkerReady,
        UdevTypeOK, FramesReady, FrameReady, BootReady

\* The monitor's steps, and those of its reader.
LEMMA HandleControl ==
  ASSUME Control, HandleUevent \/ ReadSocket
  PROVE  Control'
<1> USE DEF Control, TypeOK, Ready
<1>1. /\ KubeTypeOK' /\ ControllerTypeOK' /\ UdevTypeOK' /\ FramesReady'
      /\ UNCHANGED <<hostVars, worker, sysVars>>
  <2>1. CASE HandleUevent
    BY <2>1, HandleType DEF HandleUevent
  <2>2. CASE ReadSocket
    BY <2>2, ReaderType DEF ReadSocket, kubeVars, hostVars, KubeTypeOK, ControllerTypeOK
  <2> QED BY <2>1, <2>2
<1>2. synced /\ UNCHANGED synced
  <2>1. frames # <<>> \/ uevents # <<>> \/ Connected
    BY DEF HandleUevent, Handle, ReadSocket, ReadUevent, Connected, ActionHandler, LogError,
           AddScan, AddList, AddSave, AddReturn, RemoveBlockDevice, UpdateRead, UpdatePut, At
  <2>2. UNCHANGED synced
    BY DEF HandleUevent, Handle, ReadSocket, ReadUevent, ActionHandler, LogError, AddScan,
           AddList, AddSave, AddReturn, RemoveBlockDevice, UpdateRead, UpdatePut, UpdateStatusFails, SaveBlockDevice,
           Create, Update, Delete, kubeVars
  <2> QED BY <2>1, <2>2, AwakeWhenWorking
<1>3. Asleep'
  BY <1>1, <1>2, StillAwake DEF sysVars
<1> QED BY <1>1, <1>3 DEF sysVars, WorkersReady, BootReady

\* The scan of block.New yields objects.
LEMMA SnapshotType ==
  ASSUME ControllerTypeOK, NEW ignored
  PROVE  Snapshot(ignored) \in [Device -> BD \cup {NoObj}]
<1> DEFINE found == {d \in Disks \cap plugged : d \notin ignored}
           Of(n) == IF Parent[n] = NoDevice THEN n ELSE Parent[n]
           obj(n) == GetNewBlockDevices(Of(n), mtab, plugged)[n]
<1>1. ASSUME NEW n \in Device, n \in plugged, Of(n) \in found
      PROVE  obj(n) \in BD
  <2> DEFINE new == GetNewBlockDevices(Of(n), mtab, plugged)
  <2>1. Of(n) \in Device /\ DOMAIN new = {Of(n)} \cup (Children(Of(n)) \cap plugged)
    BY <1>1 DEF Disks, GetNewBlockDevices
  <2>2. n \in DOMAIN new
    BY <1>1, <2>1 DEF Children
  <2>3. \A x \in DOMAIN new : new[x] \in BD
    BY <2>1, ScanType DEF ControllerTypeOK
  <2> QED BY <2>2, <2>3
<1>2. Snapshot(ignored) =
        [n \in Device |-> IF n \in plugged /\ Of(n) \in found THEN obj(n) ELSE NoObj]
  BY DEF Snapshot
<1> HIDE DEF found, Of, obj
<1> QED BY <1>1, <1>2

\* The steps of the start-up code.
LEMMA StartControl ==
  ASSUME Control, Start
  PROVE  Control'
<1> USE DEF Control, TypeOK, Ready
<1>1. CASE BlockNew
  <2>1. PICK unsettled \in SUBSET (plugged \cap Longhorn) :
          boot' = [NoBoot EXCEPT !.scan = Snapshot(Longhorn \ unsettled)]
    BY <1>1 DEF BlockNew
  <2> DEFINE scan == Snapshot(Longhorn \ unsettled)
  <2>2. scan \in [Device -> BD \cup {NoObj}]
    BY SnapshotType
  <2>3. boot' \in BootState /\ BootReady'
    <3> HIDE DEF scan
    <3>1. boot' = [NoBoot EXCEPT !.scan = scan]
      BY <2>1 DEF scan
    <3> QED BY <2>2, <3>1 DEF NoBoot, Nothing, BootState, BootReady
  <2> QED BY <1>1, <2>3
      DEF BlockNew, kubeVars, hostVars, udevVars, KubeTypeOK, ControllerTypeOK,
          UdevTypeOK, WorkersReady, FramesReady, Asleep
<1>2. CASE RegisterNodeBlockDevices
  <2>1. boot' \in BootState /\ BootReady'
    BY <1>2 DEF RegisterNodeBlockDevices, KubeTypeOK, BootState, BootReady
  <2>2. fresh' \subseteq Holder \X Device
    BY <1>2, SystemAssumption DEF RegisterNodeBlockDevices
  <2> QED BY <1>2, <2>1, <2>2
      DEF RegisterNodeBlockDevices, hostVars, udevVars, KubeTypeOK, ControllerTypeOK,
          UdevTypeOK, WorkersReady, FramesReady, Asleep
<1>3. CASE RegisterSave
  <2>1. PICK n \in NextToSave(boot.todo), ok \in BOOLEAN :
          /\ SaveBlockDeviceByList(Boot, n, boot.scan[n], boot.list[n], ok)
          /\ IF ok THEN boot' = [boot EXCEPT !.todo = @ \ {n}] /\ UNCHANGED phase
                   ELSE boot' = NoBoot /\ phase' = "down"
    BY <1>3 DEF RegisterSave
  <2>2. n \in Device /\ boot.scan[n] \in BD /\ boot.list[n] \in BD \cup {NoObj}
    BY DEF NextToSave, BootState, BootReady
  <2>3. KubeTypeOK'
    BY <2>1, <2>2, SaveType, SystemAssumption
  <2>4. boot' \in BootState /\ BootReady' /\ phase' \in {"down", "register"}
    <3>1. CASE ok
      BY <1>3, <2>1, <3>1 DEF RegisterSave, BootState, BootReady
    <3>2. CASE ~ok
      BY <2>1, <3>2 DEF NoBoot, Nothing, BootState, BootReady
    <3> QED BY <3>1, <3>2
  <2>5. ~synced /\ UNCHANGED <<queue, synced>> /\ watch' = watch
    <3>1. ~synced /\ phase = "register"
      BY <1>3 DEF RegisterSave, Asleep
    <3>2. UNCHANGED <<queue, synced>> /\ watch' = watch
      BY <2>1, <3>1 DEF SaveBlockDeviceByList, Create, Update, ApplyCreate, ApplyUpdate, Commit
    <3> QED BY <3>1, <3>2
  <2>6. Asleep'
    BY <1>3, <2>4, <2>5 DEF RegisterSave, udevVars, Asleep
  <2> QED BY <1>3, <2>3, <2>4, <2>6
      DEF RegisterSave, hostVars, udevVars, ControllerTypeOK, UdevTypeOK, WorkersReady,
          FramesReady
<1>4. CASE StartControllers
  <2>1. KubeTypeOK'
    BY <1>4, InformerType DEF StartControllers
  <2>2. boot' \in BootState /\ BootReady'
    BY <1>4 DEF StartControllers, NoBoot, Nothing, BootState, BootReady
  <2> QED BY <1>4, <2>1, <2>2
      DEF StartControllers, StartInformer, hostVars, udevVars, ControllerTypeOK,
          UdevTypeOK, WorkersReady, FramesReady, Asleep
<1>5. CASE StartMonitor
  BY <1>5 DEF StartMonitor, Connect, kubeVars, hostVars, sysVars, KubeTypeOK,
     ControllerTypeOK, UdevTypeOK, Reader, WorkersReady, FramesReady, BootReady, Asleep
<1> QED BY <1>1, <1>2, <1>3, <1>4, <1>5 DEF Start

\* The end of the process.
LEMMA DieControl ==
  ASSUME Control, Die, UNCHANGED spent \/ spent' \in [Mishaps -> Nat]
  PROVE  Control'
<1> USE DEF Control, TypeOK, Ready
<1>1. KubeTypeOK'
  BY InformerType DEF Die
<1>2. ControllerTypeOK' /\ WorkersReady'
  <2>1. Idle \in WorkerState /\ WorkerReady(Idle)
    BY DEF Idle, WorkerState, WorkerReady
  <2> QED BY <2>1 DEF Die, hostVars, AllIdle, ControllerTypeOK, WorkersReady
<1>3. UdevTypeOK' /\ FramesReady'
  <2>1. <<>> \in Seq(UEvent) /\ <<>> \in Seq(Frame) /\ Len(<<>>) = 0
    OBVIOUS
  <2>2. \A i \in DOMAIN <<>> : FrameReady(<<>>[i])
    OBVIOUS
  <2>3. 0 <= MaxDepth
    BY UdevAssumption
  <2> QED BY <2>1, <2>2, <2>3 DEF Die, StopMonitor, UdevTypeOK, Reader, FramesReady
<1>4. boot' \in BootState /\ BootReady' /\ Asleep'
  BY DEF Die, StopInformer, StopMonitor, NoBoot, Nothing, BootState, BootReady, Asleep
<1> QED BY <1>1, <1>2, <1>3, <1>4 DEF Die

\* Spending the budget.
LEMMA SpendType ==
  ASSUME spent \in [Mishaps -> Nat], NEW m \in Mishaps, Spend(m)
  PROVE  spent' \in [Mishaps -> Nat]
BY DEF Spend

\* Users' writes: they do not run in the process.
LEMMA UserControl ==
  ASSUME Control, NEW n \in Device,
         DeleteObject(n) \/ \E request \in Requests : EditSpec(n, request)
  PROVE  Control'
<1> USE DEF Control, TypeOK, Ready
<1>1. spent' \in [Mishaps -> Nat]
  BY SpendType DEF DeleteObject, EditSpec, Mishaps
<1>2. /\ UNCHANGED <<cache, queue, synced, faults, hostVars, worker, udevVars, phase, boot>>
      /\ ~synced => watch' = watch
  BY DEF DeleteObject, EditSpec, ApplyDelete, Commit
<1>3. KubeTypeOK'
  <2>1. CASE DeleteObject(n)
    BY <2>1, <1>2, ApplyDeleteType DEF DeleteObject, KubeTypeOK
  <2>2. CASE \E request \in Requests : EditSpec(n, request)
    <3>1. PICK request \in Requests : EditSpec(n, request)
      BY <2>2
    <3>2. store[n] \in BD /\ request \in FilesystemInfo
      BY <3>1, SystemAssumption DEF EditSpec, KubeTypeOK
    <3>3. [store[n] EXCEPT !.spec = request] \in BD
      BY <3>2 DEF BD
    <3> QED BY <3>1, <3>3, <1>2, CommitType DEF EditSpec, Stale, KubeTypeOK
  <2> QED BY <2>1, <2>2
<1>4. Asleep'
  BY <1>2 DEF udevVars, Asleep
<1> QED BY <1>1, <1>2, <1>3, <1>4
    DEF hostVars, udevVars, ControllerTypeOK, UdevTypeOK, WorkersReady, FramesReady, BootReady

\* An event the kernel sends reaches a monitor that runs.
LEMMA EmitType ==
  ASSUME Control, NEW d \in Device, NEW action \in {"add", "remove", "online", "offline"},
         Emit(action, d)
  PROVE  /\ uevents' \in Seq(UEvent) /\ overrun' \in BOOLEAN
         /\ ~synced => UNCHANGED <<overrun, uevents>>
<1>1. [action |-> action, device |-> d] \in UEvent
  BY DEF UEvent
<1>2. uevents \in Seq(UEvent) /\ overrun \in BOOLEAN /\ (Connected => synced)
  BY AwakeWhenWorking DEF Control, TypeOK, UdevTypeOK
<1>3. \/ UNCHANGED <<overrun, uevents>>
      \/ Connected /\ UNCHANGED overrun
                    /\ uevents' = Append(uevents, [action |-> action, device |-> d])
      \/ Connected /\ overrun' = TRUE /\ UNCHANGED uevents
  BY DEF Emit
<1>4. Append(uevents, [action |-> action, device |-> d]) \in Seq(UEvent)
  BY <1>1, <1>2
<1> QED BY <1>2, <1>3, <1>4

\* What happens to the host.
LEMMA HostControl ==
  ASSUME Control, NEW d \in Device,
         \/ Plug(d) \/ Unplug(d)
         \/ \E action \in Signals : Signal(d, action)
         \/ \E dir \in Dir : MountByHand(d, dir)
         \/ UnmountByHand(d)
  PROVE  Control'
<1> USE DEF Control, TypeOK, Ready
<1>1. UNCHANGED <<kubeVars, worker, reader, frames, phase, boot>>
  BY DEF Plug, Unplug, Signal, MountByHand, UnmountByHand, udevVars, hostVars
<1>2. spent' \in [Mishaps -> Nat]
  BY SpendType DEF Plug, Unplug, Signal, MountByHand, UnmountByHand, Mishaps
<1>3. /\ uevents' \in Seq(UEvent) /\ overrun' \in BOOLEAN
      /\ ~synced => UNCHANGED <<overrun, uevents>>
  <2>1. \/ UNCHANGED <<overrun, uevents>>
        \/ \E action \in {"add", "remove", "online", "offline"} : Emit(action, d)
    BY SystemAssumption DEF Plug, Unplug, Signal, MountByHand, UnmountByHand, udevVars
  <2> QED BY <2>1, EmitType DEF UdevTypeOK
<1>4. plugged' \subseteq Device /\ mtab' \in [Device -> Seq(Dir)]
  <2>1. CASE \E dir \in Dir : MountByHand(d, dir)
    <3>1. PICK dir \in Dir : MountByHand(d, dir)
      BY <2>1
    <3>2. Append(mtab[d], dir) \in Seq(Dir)
      BY DEF ControllerTypeOK
    <3> QED BY <3>1, <3>2 DEF MountByHand, ControllerTypeOK
  <2>2. CASE UnmountByHand(d)
    <3>1. PICK i \in DOMAIN mtab[d] :
            mtab' = [mtab EXCEPT ![d] = SubSeq(@, 1, i - 1) \o SubSeq(@, i + 1, Len(@))]
      BY <2>2 DEF UnmountByHand
    <3>2. mtab[d] \in Seq(Dir) /\ Len(mtab[d]) \in Nat /\ i \in 1..Len(mtab[d])
      BY <3>1, LenProperties DEF ControllerTypeOK
    <3>3. \A k \in 1..Len(mtab[d]) : mtab[d][k] \in Dir
      BY <3>2, ElementOfSeq
    <3>4. SubSeq(mtab[d], 1, i - 1) \in Seq(Dir)
      BY <3>2, <3>3, SubSeqProperties
    <3>5. SubSeq(mtab[d], i + 1, Len(mtab[d])) \in Seq(Dir)
      BY <3>2, <3>3, SubSeqProperties
    <3>6. SubSeq(mtab[d], 1, i - 1) \o SubSeq(mtab[d], i + 1, Len(mtab[d])) \in Seq(Dir)
      BY <3>4, <3>5, ConcatProperties
    <3> QED BY <2>2, <3>1, <3>6 DEF UnmountByHand, ControllerTypeOK
  <2>3. CASE Plug(d) \/ Unplug(d) \/ \E action \in Signals : Signal(d, action)
    BY <2>3 DEF Plug, Unplug, Signal, hostVars, ControllerTypeOK
  <2> QED BY <2>1, <2>2, <2>3
<1>5. Asleep'
  BY <1>1, <1>3 DEF kubeVars, Asleep
<1> QED BY <1>1, <1>2, <1>3, <1>4, <1>5
    DEF kubeVars, KubeTypeOK, ControllerTypeOK, UdevTypeOK, WorkersReady, FramesReady,
        BootReady

\* Every step.
LEMMA NextControl == Control /\ [Next]_vars => Control'
<1> SUFFICES ASSUME Control, [Next]_vars PROVE Control'
  OBVIOUS
<1>1. CASE Start
  BY <1>1, StartControl
<1>2. CASE \E n \in Device : TakeKey(n) \/ WatchEvent(n)
  BY <1>2, ReconcileControl, InformerControl DEF TakeKey
<1>3. CASE \E w \in Worker : Reconcile(w)
  BY <1>3, ReconcileControl
<1>4. CASE PeriodicResync
  BY <1>4, InformerControl
<1>5. CASE HandleUevent \/ ReadSocket
  BY <1>5, HandleControl
<1>6. CASE Panic \/ Crash
  BY <1>6, DieControl, SpendType DEF Panic, Crash, Mishaps, Control, TypeOK
<1>7. CASE Environment /\ ~Crash
  BY <1>7, UserControl, HostControl DEF Environment
<1>8. CASE UNCHANGED vars
  BY <1>8 DEF vars, kubeVars, hostVars, udevVars, sysVars, Control, TypeOK, Ready, Asleep,
     KubeTypeOK, ControllerTypeOK, UdevTypeOK, WorkersReady, FramesReady, BootReady
<1> QED BY <1>1, <1>2, <1>3, <1>4, <1>5, <1>6, <1>7, <1>8 DEF Next

\* Every variable stays in its type.  Types alone are not inductive: a worker
\* must have its key and object, and a sleeping process nothing to do.
THEOREM TypeCorrect == Spec => []TypeOK
<1>1. Control => TypeOK
  BY DEF Control
<1> QED BY <1>1, InitControl, NextControl, PTL DEF Spec

=============================================================================
