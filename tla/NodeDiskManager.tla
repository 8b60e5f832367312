--------------------------- MODULE NodeDiskManager ---------------------------
(***************************************************************************)
(* One node's disk manager from start to crash: the process of main.go,    *)
(* the host whose devices it manages, and the users who edit the objects.  *)
(***************************************************************************)
EXTENDS UdevMonitor

CONSTANTS
  Boot,              \* the start-up code, as a holder of copies
  InitiallyPlugged,  \* devices the kernel has when the process first starts
  InitialMtab,       \* and where they are mounted
  Requests,          \* the file systems users may ask for in a spec
  Signals,           \* the kernel may send these of "online", "offline"
  Budget             \* bound: how often each thing the process cannot
                     \* influence happens

Mishaps == {"edits", "deletes", "plugs", "mounts", "crashes"}

ASSUME SystemAssumption ==
  /\ Boot \in Holder
  /\ Boot \notin Worker /\ Boot \notin 1..MaxDepth
  /\ Worker \cap (1..MaxDepth) = {}
  /\ InitiallyPlugged \subseteq Device
  /\ InitialMtab \in [Device -> Seq(Dir)]
  /\ Requests \subseteq FilesystemInfo
  /\ Signals \subseteq {"online", "offline"}
  /\ Budget \in [Mishaps -> Nat]

VARIABLES
  phase,   \* "down", "standby" (scanned, not leading), "register" or "up"
  boot,    \* what the start-up code knows
  spent    \* how much of the Budget is used up

sysVars == <<phase, boot, spent>>
vars == <<kubeVars, hostVars, worker, udevVars, sysVars>>

\* scan is block.New's snapshot of the host, list the objects the API server
\* had at registration, todo the devices registration has not saved yet.
BootState ==
  [scan : [Device -> BD \cup {NoObj}],
   list : [Device -> BD \cup {NoObj}],
   todo : SUBSET Device]

NoBoot == [scan |-> Nothing, list |-> Nothing, todo |-> {}]

TypeOK ==
  /\ KubeTypeOK
  /\ ControllerTypeOK
  /\ UdevTypeOK
  /\ phase \in {"down", "standby", "register", "up"}
  /\ boot \in BootState
  /\ spent \in [Mishaps -> Nat]

Init ==
  /\ KubeInit
  /\ plugged = InitiallyPlugged
  /\ mtab = InitialMtab
  /\ worker = AllIdle
  /\ UdevInit
  /\ phase = "down"
  /\ boot = NoBoot
  /\ spent = [m \in Mishaps |-> 0]

Spend(m) == spent[m] < Budget[m] /\ spent' = [spent EXCEPT ![m] = @ + 1]

-----------------------------------------------------------------------------
(* Starting.                                                               *)

Disks == {d \in Device : Parent[d] = NoDevice}

\* The objects of the snapshot: every disk of /sys/block with its partitions,
\* but for those whose udev record says that they are Longhorn's.
Snapshot(ignored) ==
  LET found == {d \in Disks \cap plugged : d \notin ignored}
      \* the disk whose scan reports n
      Of(n) == IF Parent[n] = NoDevice THEN n ELSE Parent[n]
  IN  [n \in Device |-> IF n \in plugged /\ Of(n) \in found
                          THEN GetNewBlockDevices(Of(n), mtab, plugged)[n]
                          ELSE NoObj]

\* udev may not have written its record of a Longhorn volume yet: the volume
\* then looks like any other disk.
BlockNew ==
  \E unsettled \in SUBSET (plugged \cap Longhorn) :
    /\ phase = "down"
    /\ phase' = "standby"
    /\ boot' = [NoBoot EXCEPT !.scan = Snapshot(Longhorn \ unsettled)]
    /\ UNCHANGED <<kubeVars, hostVars, worker, udevVars, spent>>

\* Once this process leads, registration lists the objects straight from the
\* API server ...
RegisterNodeBlockDevices ==
  /\ phase = "standby"
  /\ phase' = "register"
  /\ boot' = [boot EXCEPT !.list = store,
                          !.todo = {n \in Device : boot.scan[n] # NoObj}]
  /\ fresh' = {Boot} \X Device
  /\ UNCHANGED <<store, watch, cache, queue, synced, faults, hostVars, worker,
                 udevVars, spent>>

\* ... and saves what the snapshot holds.  A failure ends the process.
RegisterSave ==
  \E n \in NextToSave(boot.todo), ok \in BOOLEAN :
    /\ phase = "register"
    /\ SaveBlockDeviceByList(Boot, n, boot.scan[n], boot.list[n], ok)
    /\ IF ok THEN boot' = [boot EXCEPT !.todo = @ \ {n}] /\ UNCHANGED phase
             ELSE boot' = NoBoot /\ phase' = "down"
    /\ UNCHANGED <<hostVars, worker, udevVars, spent>>

\* start.All fills the cache and starts the workers.
StartControllers ==
  /\ phase = "register"
  /\ boot.todo = {}
  /\ phase' = "up"
  /\ boot' = NoBoot
  /\ StartInformer
  /\ UNCHANGED <<hostVars, worker, udevVars, spent>>

StartMonitor ==
  /\ Connect
  /\ UNCHANGED <<kubeVars, hostVars, worker, sysVars>>

\* The process ends; the daemon set starts it again.
Die ==
  /\ phase # "down"
  /\ phase' = "down"
  /\ boot' = NoBoot
  /\ StopInformer
  /\ worker' = AllIdle
  /\ StopMonitor
  /\ UNCHANGED hostVars

Crash == Die /\ Spend("crashes")

Panic == UpdatePanics /\ Die /\ UNCHANGED spent

-----------------------------------------------------------------------------
(* Users of the API.                                                       *)

EditSpec(n, request) ==
  /\ Spend("edits")
  /\ store[n] # NoObj /\ Room(n)
  /\ store[n].spec # request
  /\ Commit(n, [store[n] EXCEPT !.spec = request])
  /\ fresh' = Stale(n)
  /\ UNCHANGED <<cache, queue, synced, faults, hostVars, worker, udevVars,
                 phase, boot>>

DeleteObject(n) ==
  /\ Spend("deletes")
  /\ store[n] # NoObj /\ Room(n)
  /\ ApplyDelete(n)
  /\ UNCHANGED <<cache, queue, synced, faults, hostVars, worker, udevVars,
                 phase, boot>>

-----------------------------------------------------------------------------
(* The host.  A disk appears before its partitions, and goes after them.   *)

Plug(d) ==
  /\ Spend("plugs")
  /\ d \notin plugged
  /\ Parent[d] \in plugged \cup {NoDevice}
  /\ plugged' = plugged \cup {d}
  /\ Emit("add", d)
  /\ UNCHANGED <<kubeVars, mtab, worker, reader, frames, phase, boot>>

\* A mount outlives the device it shows.
Unplug(d) ==
  /\ Spend("plugs")
  /\ d \in plugged
  /\ Children(d) \cap plugged = {}
  /\ plugged' = plugged \ {d}
  /\ Emit("remove", d)
  /\ UNCHANGED <<kubeVars, mtab, worker, reader, frames, phase, boot>>

Signal(d, action) ==
  /\ Spend("plugs")
  /\ d \in plugged /\ action \in Signals /\ Connected
  /\ Emit(action, d)
  /\ UNCHANGED <<kubeVars, hostVars, worker, reader, frames, phase, boot>>

MountByHand(d, dir) ==
  /\ Spend("mounts")
  /\ Mountable(d, dir)
  /\ mtab' = [mtab EXCEPT ![d] = Append(@, dir)]
  /\ UNCHANGED <<kubeVars, plugged, worker, udevVars, phase, boot>>

UnmountByHand(d) ==
  /\ Spend("mounts")
  /\ \E i \in DOMAIN mtab[d] :
       mtab' = [mtab EXCEPT ![d] = SubSeq(@, 1, i - 1) \o SubSeq(@, i + 1, Len(@))]
  /\ UNCHANGED <<kubeVars, plugged, worker, udevVars, phase, boot>>

-----------------------------------------------------------------------------
(* The whole.                                                              *)

Reconcile(w) == Work(w) /\ UNCHANGED <<udevVars, sysVars>>

TakeKey(n) == \E w \in Worker : Take(w, n) /\ UNCHANGED <<udevVars, sysVars>>

WatchEvent(n) == Deliver(n) /\ UNCHANGED <<hostVars, worker, udevVars, sysVars>>

PeriodicResync == Resync /\ UNCHANGED <<hostVars, worker, udevVars, sysVars>>

HandleUevent == Handle /\ UNCHANGED sysVars

ReadSocket == ReadUevent /\ UNCHANGED sysVars

Start ==
  \/ BlockNew
  \/ RegisterNodeBlockDevices
  \/ RegisterSave
  \/ StartControllers
  \/ StartMonitor

Environment ==
  \/ \E n \in Device, request \in Requests : EditSpec(n, request)
  \/ \E n \in Device : DeleteObject(n)
  \/ \E d \in Device : Plug(d) \/ Unplug(d)
  \/ \E d \in Device, action \in Signals : Signal(d, action)
  \/ \E d \in Device, dir \in Dir : MountByHand(d, dir)
  \/ \E d \in Device : UnmountByHand(d)
  \/ Crash

Next ==
  \/ Start
  \/ \E n \in Device : TakeKey(n) \/ WatchEvent(n)
  \/ \E w \in Worker : Reconcile(w)
  \/ PeriodicResync
  \/ HandleUevent
  \/ ReadSocket
  \/ Panic
  \/ Environment

Spec == Init /\ [][Next]_vars

\* The process keeps running and is started again when it dies, watch events
\* arrive, and the queue is first in first out, so that no key is passed over
\* for ever.  Users, the host, crashes and faults owe nothing.
Fairness ==
  /\ WF_vars(Start \/ Panic)
  /\ \A n \in Device : SF_vars(TakeKey(n)) /\ WF_vars(WatchEvent(n))
  /\ \A w \in Worker : WF_vars(Reconcile(w))
  /\ WF_vars(PeriodicResync)
  /\ WF_vars(HandleUevent)
  /\ WF_vars(ReadSocket)

FairSpec == Spec /\ Fairness

=============================================================================
