------------------------------- MODULE KubeApi -------------------------------
(***************************************************************************)
(* The BlockDevice objects in the API server, and what the process keeps   *)
(* of them: the informer's cache and the controller's work queue.          *)
(*                                                                         *)
(* resourceVersion is abstracted to the one question the API server asks   *)
(* of it: is the copy a writer holds still the stored one?  fresh holds a  *)
(* pair <<h, n>> for every holder h whose copy of n is.  Every write to n  *)
(* makes the other copies of n stale.                                      *)
(***************************************************************************)
EXTENDS BlockDevice

CONSTANTS
  Holder,     \* whoever may hold a copy of an object it will write back
  MaxLag,     \* bound: watch events not yet delivered, per object
  MaxFaults,  \* bound: calls that fail for reasons outside the process
  Faulty      \* the calls of the API, and mount(2), that may

ASSUME LagAssumption == MaxLag \in Nat \ {0}
ASSUME FaultAssumption ==
  MaxFaults \in Nat /\ Faulty \subseteq {"update", "create", "delete", "mount"}

VARIABLES
  store,      \* store[n]: the object in the API server, or NoObj
  watch,      \* watch[n]: versions written and not yet delivered, oldest first
  cache,      \* cache[n]: the informer's version of n
  queue,      \* keys the work queue holds (its dirty set)
  synced,     \* the informer is running
  fresh,      \* <<h, n>>: the copy of n held by h has the stored version
  faults      \* calls that have failed that way so far

kubeVars == <<store, watch, cache, queue, synced, fresh, faults>>

KubeTypeOK ==
  /\ store \in [Device -> BD \cup {NoObj}]
  /\ watch \in [Device -> Seq(BD \cup {NoObj})]
  /\ cache \in [Device -> BD \cup {NoObj}]
  /\ queue \subseteq Device
  /\ synced \in BOOLEAN
  /\ fresh \subseteq Holder \X Device
  /\ faults \in 0..MaxFaults

KubeInit ==
  /\ store = [n \in Device |-> NoObj]
  /\ watch = [n \in Device |-> <<>>]
  /\ cache = [n \in Device |-> NoObj]
  /\ queue = {}
  /\ synced = FALSE
  /\ fresh = {}
  /\ faults = 0

-----------------------------------------------------------------------------
(* The API server.                                                         *)

Room(n) == Len(watch[n]) < MaxLag

Stale(n) == {c \in fresh : c[2] # n}

Commit(n, obj) ==
  /\ store' = [store EXCEPT ![n] = obj]
  /\ watch' = IF synced THEN [watch EXCEPT ![n] = Append(@, obj)] ELSE watch

\* An object marked for deletion goes away with its last finalizer.
Settled(obj) == IF obj.deleting /\ ~obj.finalizer THEN NoObj ELSE obj

\* Mutant: the server does not compare versions.
UpdateAnyVersion(h, n) == store[n] # NoObj

CanUpdate(h, n) == store[n] # NoObj /\ <<h, n>> \in fresh

\* A PUT that changes nothing writes nothing: no new version, no watch event.
ApplyUpdate(h, n, new, keep) ==
  IF CanUpdate(h, n) /\ new # store[n]
    THEN /\ Commit(n, Settled(new))
         /\ fresh' = Stale(n) \cup (IF keep THEN {<<h, n>>} ELSE {})
    ELSE UNCHANGED <<store, watch, fresh>>

\* A call fails because the server refuses it, or because of a fault; the
\* fault may strike before the write or lose the reply to it.
Fault(call) == call \in Faulty /\ faults < MaxFaults /\ faults' = faults + 1

\* keep: the caller goes on with the object the server returned.
Update(h, n, new, keep, ok) ==
  /\ Room(n)
  /\ \/ /\ ok = CanUpdate(h, n)
        /\ ApplyUpdate(h, n, new, keep)
        /\ UNCHANGED faults
     \/ /\ ~ok /\ Fault("update")
        /\ \/ ApplyUpdate(h, n, new, FALSE)
           \/ UNCHANGED <<store, watch, fresh>>
  /\ UNCHANGED <<cache, queue, synced>>

ApplyCreate(n, new) ==
  IF store[n] = NoObj
    THEN Commit(n, new) /\ fresh' = Stale(n)
    ELSE UNCHANGED <<store, watch, fresh>>

Create(n, new, ok) ==
  /\ Room(n)
  /\ \/ /\ ok = (store[n] = NoObj)
        /\ ApplyCreate(n, new)
        /\ UNCHANGED faults
     \/ /\ ~ok /\ Fault("create")
        /\ ApplyCreate(n, new) \/ UNCHANGED <<store, watch, fresh>>
  /\ UNCHANGED <<cache, queue, synced>>

\* A guarded object is only marked; marking it twice changes nothing.
ApplyDelete(n) ==
  IF store[n] = NoObj \/ (store[n].finalizer /\ store[n].deleting)
    THEN UNCHANGED <<store, watch, fresh>>
    ELSE /\ Commit(n, Settled([store[n] EXCEPT !.deleting = TRUE]))
         /\ fresh' = Stale(n)

Delete(n, reply) ==
  /\ Room(n)
  /\ \/ /\ reply = IF store[n] = NoObj THEN "NotFound" ELSE "OK"
        /\ ApplyDelete(n)
        /\ UNCHANGED faults
     \/ /\ reply = "Failed" /\ Fault("delete")
        /\ ApplyDelete(n) \/ UNCHANGED <<store, watch, fresh>>
  /\ UNCHANGED <<cache, queue, synced>>

\* The CRD declares no status subresource: there is no /status to PUT to.
UpdateStatusFails == UNCHANGED kubeVars

-----------------------------------------------------------------------------
(* The informer and the work queue.                                        *)

CachedKeys == {n \in Device : cache[n] # NoObj}

\* The next version of n reaches the cache, and its key the queue.
Deliver(n) ==
  /\ synced /\ watch[n] # <<>>
  /\ cache' = [cache EXCEPT ![n] = Head(watch[n])]
  /\ watch' = [watch EXCEPT ![n] = Tail(@)]
  /\ queue' = queue \cup {n}
  /\ UNCHANGED <<store, synced, fresh, faults>>

\* Mutant: the factory is given no resync period.
NoResync == synced /\ UNCHANGED kubeVars

\* Every ten hours the informer hands all cached objects to the handlers again.
Resync ==
  /\ synced
  /\ queue' = queue \cup CachedKeys
  /\ UNCHANGED <<store, watch, cache, synced, fresh, faults>>

\* Mutant: start.All does not wait for the caches.
StartUnsynced ==
  /\ synced' = TRUE
  /\ UNCHANGED <<store, watch, cache, faults>>
  /\ queue' = {n \in Device : store[n] # NoObj}
  /\ fresh' = {}

\* start.All lists the objects into the cache before any worker runs.
StartInformer ==
  /\ synced' = TRUE
  /\ cache' = store
  /\ watch' = [n \in Device |-> <<>>]
  /\ queue' = {n \in Device : store[n] # NoObj}
  /\ fresh' = {}
  /\ UNCHANGED <<store, faults>>

\* The process dies: everything but the API server's state is lost.
StopInformer ==
  /\ synced' = FALSE
  /\ cache' = [n \in Device |-> NoObj]
  /\ watch' = [n \in Device |-> <<>>]
  /\ queue' = {}
  /\ fresh' = {}
  /\ UNCHANGED <<store, faults>>

\* The copy of n that h takes from the cache is the stored version when no
\* later one is on its way.
TakeFromCache(h, n) ==
  {c \in fresh : c[1] # h} \cup (IF watch[n] = <<>> THEN {<<h, n>>} ELSE {})

=============================================================================
