----------------------------- MODULE UdevMonitor -----------------------------
(***************************************************************************)
(* The udev monitor: go-udev's reader goroutine takes events from a        *)
(* netlink socket and hands them, or its errors, to the monitor goroutine  *)
(* over unbuffered channels; the monitor handles one at a time.  Its       *)
(* handlers retry by calling themselves, so an unfinished event is a stack *)
(* of calls.                                                               *)
(***************************************************************************)
EXTENDS BlockDeviceController

CONSTANTS
  Untyped,    \* devices udev knows no ID_TYPE of a disk for (virtio, loop)
  Garbled,    \* devices with a "=" in the value of a udev property
  MaxDepth,   \* bound: nested AddBlockDevice calls
  MaxEvents   \* how many events the socket's buffer holds

ASSUME UdevAssumption ==
  /\ Untyped \subseteq Device
  /\ Garbled \subseteq Device
  /\ MaxDepth \in Nat \ {0}
  /\ MaxEvents \in Nat
  /\ 1..MaxDepth \subseteq Holder

VARIABLES
  reader,     \* what the reader goroutine is doing
  overrun,    \* the socket has dropped an event and not told yet
  uevents,    \* events sent and not handled, oldest first
  frames      \* the calls in progress, outermost first

udevVars == <<reader, overrun, uevents, frames>>

\* reader  "off"       there is no socket
\*         "reading"   waits for the socket
\*         "sending"   hands the oldest event to the monitor
\*         "dropping"  hands it the error of an event that cannot be parsed
\*         "failing"   hands it the error of a read, and ends
\*         "gone"      has ended: nobody reads the socket any more
Reader == {"off", "reading", "sending", "dropping", "failing", "gone"}

UEvent == [action : {"add", "remove", "online", "offline"}, device : Device]

\* pc       "enter"  the call has not read anything yet
\*          "list"   AddBlockDevice has scanned the device
\*          "save"   AddBlockDevice is saving the devices in todo
\*          "put"    UpdateBlockDevice is about to call UpdateStatus
\* scanned  the objects built from the scan
\* list     what the cache had when it was listed
Frame ==
  [event : UEvent,
   pc : {"enter", "list", "save", "put"},
   todo : SUBSET Device,
   scanned : [Device -> BD \cup {NoObj}],
   list : [Device -> BD \cup {NoObj}]]

Nothing == [n \in Device |-> NoObj]

Call(event) == [event |-> event, pc |-> "enter", todo |-> {},
                scanned |-> Nothing, list |-> Nothing]

UdevTypeOK ==
  /\ reader \in Reader
  /\ overrun \in BOOLEAN
  /\ uevents \in Seq(UEvent)
  /\ frames \in Seq(Frame)

UdevInit == reader = "off" /\ overrun = FALSE /\ uevents = <<>> /\ frames = <<>>

StopMonitor == reader' = "off" /\ overrun' = FALSE /\ uevents' = <<>> /\ frames' = <<>>

Connected == reader # "off"

Depth == Len(frames)
Top   == frames[Depth]

\* The innermost call returns to its caller.
Return ==
  /\ frames' = SubSeq(frames, 1, Depth - 1)
  /\ fresh' = {c \in fresh : c[1] # Depth}

At(actions, pc) ==
  /\ frames # <<>>
  /\ Top.event.action \in actions
  /\ Top.pc = pc

-----------------------------------------------------------------------------

\* Monitor opens the socket; what the kernel sent before is lost.
Connect ==
  /\ synced /\ ~Connected
  /\ reader' = "reading"
  /\ UNCHANGED <<overrun, uevents, frames>>

\* The events the socket itself holds: all but the one in the reader's hand.
Buffered == IF reader = "sending" THEN Tail(uevents) ELSE uevents

\* The kernel does not wait for a listener: what does not fit is dropped, and
\* the next read of the socket fails.
Emit(action, d) ==
  \/ ~Connected /\ UNCHANGED <<overrun, uevents>>
  \/ /\ Connected /\ Len(Buffered) < MaxEvents
     /\ uevents' = Append(uevents, [action |-> action, device |-> d])
     /\ UNCHANGED overrun
  \/ /\ Connected /\ Len(Buffered) >= MaxEvents
     /\ overrun' = TRUE
     /\ UNCHANGED uevents

\* The reader peeks, reads and parses.  An event that cannot be parsed is lost.
ReadUevent ==
  /\ reader = "reading"
  /\ \/ /\ overrun
        /\ reader' = "failing"
        /\ overrun' = FALSE
        /\ UNCHANGED uevents
     \/ /\ ~overrun /\ uevents # <<>>
        /\ Head(uevents).device \notin Garbled
        /\ reader' = "sending"
        /\ UNCHANGED <<overrun, uevents>>
     \/ /\ ~overrun /\ uevents # <<>>
        /\ Head(uevents).device \in Garbled
        /\ reader' = "dropping"
        /\ uevents' = Tail(uevents)
        /\ UNCHANGED overrun
  /\ UNCHANGED <<frames, kubeVars, hostVars, worker>>

\* The monitor logs an error.  After that of a read the reader is no more.
LogError ==
  /\ frames = <<>>
  /\ reader \in {"dropping", "failing"}
  /\ reader' = IF reader = "dropping" THEN "reading" ELSE "gone"
  /\ UNCHANGED <<overrun, uevents, frames, kubeVars, hostVars, worker>>

\* The monitor takes an event.  ActionHandler drops those of Longhorn's own
\* devices and of devices that are not known to be disks.
ActionHandler ==
  LET event == Head(uevents)
  IN  /\ frames = <<>>
      /\ reader = "sending" /\ uevents # <<>>
      /\ reader' = "reading"
      /\ uevents' = Tail(uevents)
      /\ frames' = IF event.device \in Longhorn \cup Untyped
                     THEN frames ELSE <<Call(event)>>
      /\ UNCHANGED <<overrun, kubeVars, hostVars, worker>>

-----------------------------------------------------------------------------
(* AddBlockDevice: scan the device, list the cache, save every object of   *)
(* the scan.  After a failed save it calls itself, and when that call      *)
(* returns goes on with the rest of its own scan and list.                 *)

AddScan ==
  LET new == GetNewBlockDevices(Top.event.device, mtab, plugged)
  IN  /\ At({"add"}, "enter")
      /\ frames' = [frames EXCEPT ![Depth] =
           [@ EXCEPT !.pc = "list",
                     !.todo = DOMAIN new,
                     !.scanned = [n \in Device |->
                        IF n \in DOMAIN new THEN new[n] ELSE NoObj]]]
      /\ UNCHANGED <<kubeVars, hostVars, worker, reader, overrun, uevents>>

AddList ==
  /\ At({"add"}, "list")
  /\ frames' = [frames EXCEPT ![Depth] = [@ EXCEPT !.pc = "save", !.list = cache]]
  /\ fresh' = {c \in fresh : c[1] # Depth}
                \cup {<<Depth, n>> : n \in {m \in Device : watch[m] = <<>>}}
  /\ UNCHANGED <<store, watch, cache, queue, synced, faults, hostVars, worker,
                 reader, overrun, uevents>>

\* Mutant: a failed save is logged and not retried.
AddSaveOnce ==
  /\ At({"add"}, "save")
  /\ \E x \in NextToSave(Top.todo), ok \in BOOLEAN :
       /\ SaveBlockDevice(Depth, x, Top.scanned[x], Top.list[x], ok)
       /\ frames' = [frames EXCEPT ![Depth].todo = @ \ {x}]
  /\ UNCHANGED <<hostVars, worker, reader, overrun, uevents>>

AddSave ==
  /\ At({"add"}, "save")
  /\ \E x \in NextToSave(Top.todo), ok \in BOOLEAN :
       LET rest == [frames EXCEPT ![Depth].todo = @ \ {x}]
       IN  /\ SaveBlockDevice(Depth, x, Top.scanned[x], Top.list[x], ok)
           /\ frames' = IF ok THEN rest
                        ELSE IF Depth < MaxDepth
                          THEN Append(rest, Call(Top.event))
                          ELSE [frames EXCEPT ![Depth] = Call(Top.event)]
  /\ UNCHANGED <<hostVars, worker, reader, overrun, uevents>>

AddReturn ==
  /\ At({"add"}, "save")
  /\ Top.todo = {}
  /\ Return
  /\ UNCHANGED <<store, watch, cache, queue, synced, faults, hostVars, worker,
                 reader, overrun, uevents>>

\* Mutant: a failed Delete is logged and not retried.
RemoveBlockDeviceOnce ==
  /\ At({"remove"}, "enter")
  /\ \E reply \in {"OK", "NotFound", "Failed"} : Delete(Top.event.device, reply)
  /\ frames' = <<>>
  /\ UNCHANGED <<hostVars, worker, reader, overrun, uevents>>

\* RemoveBlockDevice calls itself until the object is deleted or not found.
RemoveBlockDevice ==
  /\ At({"remove"}, "enter")
  /\ \E reply \in {"OK", "NotFound", "Failed"} :
       /\ Delete(Top.event.device, reply)
       /\ frames' = IF reply = "Failed" THEN frames ELSE <<>>
  /\ UNCHANGED <<hostVars, worker, reader, overrun, uevents>>

-----------------------------------------------------------------------------
(* UpdateBlockDevice, for online and offline events.  It reads the cached  *)
(* object without minding whether there is one.                            *)

Updated(obj, event) ==
  [obj EXCEPT
     !.state = IF event.action = "online" THEN "Active" ELSE "Inactive",
     !.mounted.status = IF mtab[event.device] # <<>> THEN "True" ELSE "False"]

\* A missing object is a nil pointer, and the process panics.
UpdatePanics ==
  /\ At({"online", "offline"}, "enter")
  /\ cache[Top.event.device] = NoObj

UpdateRead ==
  LET obj == cache[Top.event.device]
  IN  /\ At({"online", "offline"}, "enter")
      /\ obj # NoObj
      /\ frames' = IF Updated(obj, Top.event) = obj THEN <<>>
                   ELSE [frames EXCEPT ![Depth].pc = "put"]
      /\ UNCHANGED <<kubeVars, hostVars, worker, reader, overrun, uevents>>

\* The UpdateStatus fails; the call is repeated and reads everything again.
UpdatePut ==
  /\ At({"online", "offline"}, "put")
  /\ UpdateStatusFails
  /\ frames' = <<Call(Top.event)>>
  /\ UNCHANGED <<hostVars, worker, reader, overrun, uevents>>

-----------------------------------------------------------------------------

Handle ==
  \/ ActionHandler
  \/ LogError
  \/ AddScan
  \/ AddList
  \/ AddSave
  \/ AddReturn
  \/ RemoveBlockDevice
  \/ UpdateRead
  \/ UpdatePut

=============================================================================
