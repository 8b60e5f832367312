------------------------------- MODULE Cluster -------------------------------
(***************************************************************************)
(* The disk managers of all nodes together, around one API server.  Each   *)
(* waits in leader.RunOrDie; the one that leads registers its own host's   *)
(* disks, starts the informers of both resources and looks after the       *)
(* objects of every node: the BlockDevices, and Longhorn's Node objects,   *)
(* whose removal takes the node's BlockDevices with it (OnNodeDelete).     *)
(*                                                                         *)
(* The parts that have modules of their own appear here as what they       *)
(* promise: the election is Leadership, which LeaderElection implements,   *)
(* and an object's life is Lifecycle, which NodeDiskManager implements.    *)
(***************************************************************************)
EXTENDS Leadership, Naturals

CONSTANTS
  Device,        \* the names of disks
  Host,          \* the nodes with disks: one by each name
  Member,        \* the nodes that have a Node object
  Wanting,       \* the nodes whose disks ask for a mount
  NoJob,         \* no removal of the node is in progress
  MaxMishaps,    \* bound: crashes, lost leases, failed requests
  MaxRequests    \* bound: deletions by users, hot-plugs, nodes that rejoin

\* A process, its node and the node's object have one name.
Disk == Host \X Device
Object == Process \cup Disk

ASSUME ClusterAssumption ==
  /\ Host \subseteq Process /\ Member \subseteq Process /\ Wanting \subseteq Host
  /\ MaxMishaps \in Nat /\ MaxRequests \in Nat

VARIABLES
  life,       \* the stage of each stored object
  uid,        \* how often it has been created
  todo,       \* todo[p]: disks p has yet to register
  up,         \* the processes whose controllers have been started
  cache,      \* cache[p]: the objects as p's informers know them
  job,        \* job[p][n]: p's removal of node n
  host,       \* host[p]: disks for which p has mounted its own device
  mishaps, requests

storeVars == <<life, uid>>
vars == <<role, life, uid, todo, up, cache, job, host, mishaps, requests>>

Obj == INSTANCE Lifecycle

Live == {"unguarded", "guarded"}

Unknown == [stage |-> "absent", uid |-> 0]

Stored(o) ==
  IF life[o] = "absent" THEN Unknown ELSE [stage |-> life[o], uid |-> uid[o]]

Version == [stage : Obj!Stage, uid : Nat]

\* The object OnNodeDelete was called with, the versions of the disks it
\* listed, and the disks it has left to delete.
Job == [node : Version, listed : SUBSET (Disk \X Nat), left : SUBSET Disk]

NoJobs == [n \in Process |-> NoJob]

TypeOK ==
  /\ RoleTypeOK /\ OneLeader /\ Obj!TypeOK
  /\ uid \in [Object -> Nat]
  /\ todo \in [Process -> SUBSET Disk]
  /\ up \subseteq {p \in Process : role[p] \in {"leading", "lost"}}
  /\ cache \in [Process -> [Object -> Version]]
  /\ job \in [Process -> [Process -> Job \cup {NoJob}]]
  /\ \A p \in Process : job[p] # NoJobs => p \in up
  /\ host \in [Process -> SUBSET Disk]
  /\ mishaps \in 0..MaxMishaps /\ requests \in 0..MaxRequests

Init ==
  /\ RoleInit
  /\ life = [o \in Object |-> IF o \in Member THEN "unguarded" ELSE "absent"]
  /\ uid = [o \in Object |-> IF o \in Member THEN 1 ELSE 0]
  /\ todo = [p \in Process |-> {}]
  /\ up = {}
  /\ cache = [p \in Process |-> [o \in Object |-> Unknown]]
  /\ job = [p \in Process |-> NoJobs]
  /\ host = [p \in Process |-> {}]
  /\ mishaps = 0 /\ requests = 0

Mishap == mishaps < MaxMishaps /\ mishaps' = mishaps + 1
Request == requests < MaxRequests /\ requests' = requests + 1
Calm == UNCHANGED <<mishaps, requests>>

Created(o) == Obj!Create(o) /\ uid' = [uid EXCEPT ![o] = @ + 1]

-----------------------------------------------------------------------------
(* A process from its start to its end.                                    *)

StandBy(p) ==
  /\ Join(p)
  /\ UNCHANGED <<storeVars, todo, up, cache, job, host, mishaps, requests>>

\* The callback of leader.RunOrDie begins with RegisterNodeBlockDevices, for
\* the disks of the process's own host, and no other.
StartLeading(p) ==
  /\ Lead(p)
  /\ todo' = [todo EXCEPT ![p] = {o \in Disk : o[1] = p}]
  /\ UNCHANGED <<storeVars, up, cache, job, host, mishaps, requests>>

\* An error is fatal: that is a Crash here.
RegisterDisk(p, o) ==
  /\ o \in todo[p]
  /\ todo' = [todo EXCEPT ![p] = @ \ {o}]
  /\ \/ Created(o)
     \/ life[o] # "absent" /\ UNCHANGED storeVars
  /\ UNCHANGED <<role, up, cache, job, host, mishaps, requests>>

\* start.All fills the caches before a worker starts.
StartControllers(p) ==
  /\ role[p] \in {"leading", "lost"}
  /\ p \notin up /\ todo[p] = {}
  /\ up' = up \cup {p}
  /\ cache' = [cache EXCEPT ![p] = [o \in Object |-> Stored(o)]]
  /\ UNCHANGED <<role, storeVars, todo, job, host, mishaps, requests>>

LoseLease(p) ==
  /\ Mishap
  /\ Lose(p)
  /\ UNCHANGED <<storeVars, todo, up, cache, job, host, requests>>

\* What a process knows ends with it; what it has mounted stays.
Ends(p) ==
  /\ Leave(p)
  /\ todo' = [todo EXCEPT ![p] = {}]
  /\ up' = up \ {p}
  /\ cache' = [cache EXCEPT ![p] = [o \in Object |-> Unknown]]
  /\ job' = [job EXCEPT ![p] = NoJobs]
  /\ UNCHANGED <<storeVars, host, requests>>

Exit(p) == role[p] = "lost" /\ Ends(p) /\ UNCHANGED mishaps

Crash(p) == Mishap /\ Ends(p)

-----------------------------------------------------------------------------
(* Its informers and workers.  The objects of all nodes are treated alike. *)

Sync(p, o) ==
  /\ p \in up
  /\ cache[p][o] # Stored(o)
  /\ cache' = [cache EXCEPT ![p][o] = Stored(o)]
  /\ UNCHANGED <<role, storeVars, todo, up, job, host, mishaps, requests>>

\* An Update of the cached object takes only if it is the stored one.
Current(p, o) == p \in up /\ cache[p][o] = Stored(o)

\* A worker's visit to a live object.  OnBlockDeviceChange mounts the device at
\* DevPath, on the host it runs on; the finalizer is added next.
Visit(p, o) ==
  /\ p \in up /\ cache[p][o].stage \in Live
  /\ host' = IF o \in Disk /\ p \in Host /\ o[1] \in Wanting
               THEN [host EXCEPT ![p] = @ \cup {o}] ELSE host
  /\ \/ Current(p, o) /\ Obj!Protect(o)
     \/ ~(Current(p, o) /\ life[o] = "unguarded") /\ UNCHANGED life
  /\ UNCHANGED <<role, uid, todo, up, cache, job, mishaps, requests>>

\* OnBlockDeviceDelete has been through, and the finalizer is removed.
ReleaseDisk(p, o) ==
  /\ Current(p, o)
  /\ Obj!Release(o)
  /\ UNCHANGED <<role, uid, todo, up, cache, job, host, mishaps, requests>>

NewJob(p, n) ==
  LET disks == {o \in Disk : o[1] = n /\ cache[p][o].stage # "absent"}
  IN  [node |-> cache[p][n], left |-> disks,
       listed |-> {<<o, cache[p][o].uid>> : o \in disks}]

\* Mutant: a process looks after its own node.
ListDisksOfOwnNode(p, n) ==
  /\ p \in up /\ p = n
  /\ job[p][n] = NoJob
  /\ cache[p][n].stage = "terminating"
  /\ job' = [job EXCEPT ![p][n] = NewJob(p, n)]
  /\ UNCHANGED <<role, storeVars, todo, up, cache, host, mishaps, requests>>

\* OnNodeDelete lists the cached BlockDevices that carry the node's label ...
ListDisks(p, n) ==
  /\ p \in up
  /\ job[p][n] = NoJob
  /\ cache[p][n].stage = "terminating"
  /\ job' = [job EXCEPT ![p][n] = NewJob(p, n)]
  /\ UNCHANGED <<role, storeVars, todo, up, cache, host, mishaps, requests>>

\* Mutant: a disk that could not be deleted is passed over.
DeleteDiskAnyway(p, n, o) ==
  /\ job[p][n] # NoJob /\ o \in job[p][n].left
  /\ job' = [job EXCEPT ![p][n].left = @ \ {o}]
  /\ \/ Obj!Delete(o) /\ Calm
     \/ life[o] \in {"absent", "terminating"} /\ UNCHANGED life /\ Calm
     \/ Mishap /\ UNCHANGED <<life, requests>>
  /\ UNCHANGED <<role, uid, todo, up, cache, host>>

\* ... and deletes them by name; any error, NotFound too, ends the handler,
\* which the queue calls again.
DeleteDisk(p, n, o) ==
  /\ job[p][n] # NoJob /\ o \in job[p][n].left
  /\ \/ /\ \/ Obj!Delete(o)
           \/ life[o] = "terminating" /\ UNCHANGED life
        /\ job' = [job EXCEPT ![p][n].left = @ \ {o}]
        /\ Calm
     \/ /\ \/ life[o] = "absent" /\ Calm
           \/ Mishap /\ UNCHANGED requests
        /\ job' = [job EXCEPT ![p][n] = NoJob]
        /\ UNCHANGED life
  /\ UNCHANGED <<role, uid, todo, up, cache, host>>

\* The adapter removes the node's finalizer from the object it was called with.
FinishNode(p, n) ==
  /\ job[p][n] # NoJob /\ job[p][n].left = {}
  /\ job' = [job EXCEPT ![p][n] = NoJob]
  /\ \/ job[p][n].node = Stored(n) /\ Obj!Release(n) /\ UNCHANGED mishaps
     \/ job[p][n].node # Stored(n) /\ UNCHANGED <<life, mishaps>>
     \/ Mishap /\ UNCHANGED life
  /\ UNCHANGED <<role, uid, todo, up, cache, host, requests>>

-----------------------------------------------------------------------------
(* Users, hosts and Longhorn.                                              *)

\* A udev "add" event for a disk the cache does not have.
PlugDisk(p, o) ==
  /\ Request
  /\ p \in up /\ o[1] = p
  /\ cache[p][o].stage = "absent"
  /\ Created(o)
  /\ UNCHANGED <<role, todo, up, cache, job, host, mishaps>>

DeleteObject(o) ==
  /\ Request
  /\ Obj!Delete(o)
  /\ UNCHANGED <<role, uid, todo, up, cache, job, host, mishaps>>

\* A node that was removed comes back under its name.
Rejoin(n) ==
  /\ Request
  /\ n \in Member
  /\ Created(n)
  /\ UNCHANGED <<role, todo, up, cache, job, host, mishaps>>

-----------------------------------------------------------------------------

Run(p) ==
  \/ StandBy(p) \/ StartLeading(p) \/ StartControllers(p) \/ Exit(p)
  \/ \E o \in Disk : RegisterDisk(p, o)

Handle(p, o) ==
  \/ Sync(p, o) \/ Visit(p, o)
  \/ o \in Disk /\ (ReleaseDisk(p, o) \/ PlugDisk(p, o))

RemoveNode(p, n) ==
  \/ ListDisks(p, n)
  \/ \E o \in Disk : DeleteDisk(p, n, o)
  \/ FinishNode(p, n)

Next ==
  \/ \E p \in Process :
       \/ Run(p) \/ LoseLease(p) \/ Crash(p)
       \/ \E o \in Object : Handle(p, o)
       \/ \E n \in Process : RemoveNode(p, n)
  \/ \E o \in Object : DeleteObject(o)
  \/ \E n \in Process : Rejoin(n)

Spec == Init /\ [][Next]_vars

\* Processes run and are restarted, informers deliver and keys are retried.
Fairness ==
  \A p \in Process :
    /\ WF_vars(Run(p))
    /\ \A o \in Object : WF_vars(Sync(p, o) \/ (o \in Disk /\ ReleaseDisk(p, o)))
    /\ \A n \in Process : WF_vars(RemoveNode(p, n))

FairSpec == Spec /\ Fairness

-----------------------------------------------------------------------------
(* What is promised.                                                       *)

\* The step with which p removes n's Node object.
Removes(p, n) == life[n] = "terminating" /\ life'[n] = "absent" /\ job'[p][n] # job[p][n]

\* A Node object that goes leaves no live BlockDevice behind that its remover
\* had in the cache, whoever else is at work, and whatever failed before
\* (OnNodeDelete and the finalizer around it).
NodeRemovalCascades ==
  [][\A p, n \in Process, o \in Disk :
       Removes(p, n) /\ <<o, uid[o]>> \in job[p][n].listed => life'[o] \notin Live]_vars

\* What NodeRemovalCascades rests on.  A cached object is the stored one or an
\* earlier one of its name ...
CachesLag == \A p \in Process, o \in Object : cache[p][o].uid <= uid[o]

\* ... and of the disks a removal listed, those it has passed are not live any
\* more: the listed object is marked for deletion or gone, whoever writes to it
\* and even if another one has taken its name (OnNodeDelete's loop).
PassedAreDeleted ==
  \A p, n \in Process : job[p][n] # NoJob =>
    \A d \in job[p][n].listed :
      /\ d[2] <= uid[d[1]]
      /\ d[1] \in job[p][n].left \/ d[2] # uid[d[1]] \/ life[d[1]] \notin Live

\* The inductive invariant: types, caches that lag, removals that go on as
\* they were listed.
IInv == TypeOK /\ CachesLag /\ PassedAreDeleted

\* What is marked for deletion goes, over losses of the leadership, crashes and
\* failed requests: the next leader takes the removal up.
DeletionCompletes ==
  \A o \in Object : life[o] = "terminating" ~> life[o] # "terminating"

\* The BlockDevice's node is the one "the BD is attached to": only there is
\* its device mounted.
MountsAtHome == \A p \in Process : \A o \in host[p] : o[1] = p

=============================================================================
