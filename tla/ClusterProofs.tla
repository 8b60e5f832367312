---------------------------- MODULE ClusterProofs ----------------------------
(***************************************************************************)
(* A removed node takes its disks along, for any number of nodes, disks    *)
(* and processes that lead one after the other, and for any failures: the  *)
(* disks a removal has passed stay deleted until it is through.            *)
(***************************************************************************)
EXTENDS Cluster, TLAPS

-----------------------------------------------------------------------------
(* What the steps are made of.                                             *)

\* A step of an object's life keeps the type of life; no object but a new one
\* comes alive.
LEMMA LifeSteps ==
  ASSUME TypeOK, NEW o \in Object
  PROVE  /\ Obj!Create(o) \/ Obj!Protect(o) \/ Obj!Delete(o) \/ Obj!Release(o)
              => /\ Obj!TypeOK'
                 /\ \A x \in Object : x # o => life'[x] = life[x]
         /\ Obj!Protect(o) => life[o] \in Live
         /\ Obj!Delete(o) \/ Obj!Release(o) => life'[o] \notin Live
         /\ Created(o) => life[o] = "absent" /\ uid'[o] = uid[o] + 1
BY DEF TypeOK, Created, Live, Obj!TypeOK, Obj!Stage, Obj!Create, Obj!Protect, Obj!Delete,
       Obj!Release, Obj!Becomes

\* What the caches are filled with has the type of a version.
LEMMA StoredType ==
  ASSUME TypeOK, NEW o \in Object
  PROVE  Stored(o) \in Version /\ Stored(o).uid <= uid[o]
BY DEF TypeOK, Stored, Unknown, Version, Obj!TypeOK, Obj!Stage

\* No object comes alive under the UID it had, and no UID comes back.
Ages ==
  \A o \in Object :
    /\ uid[o] <= uid'[o]
    /\ uid'[o] = uid[o] /\ life[o] \notin Live => life'[o] \notin Live

\* Every step makes the stored objects older, or leaves them.
LEMMA NextAges ==
  ASSUME TypeOK, [Next]_vars PROVE Ages
<1>1. CASE UNCHANGED storeVars
  BY <1>1 DEF storeVars, Ages, TypeOK
<1>2. ASSUME NEW o \in Object, Created(o) PROVE Ages
  BY <1>2, LifeSteps DEF Created, Ages, TypeOK
<1>3. ASSUME NEW o \in Object, UNCHANGED uid,
             Obj!Protect(o) \/ Obj!Delete(o) \/ Obj!Release(o)
      PROVE  Ages
  BY <1>3, LifeSteps DEF Ages, TypeOK
<1>4. ASSUME NEW p \in Process, Run(p) \/ LoseLease(p) \/ Crash(p) PROVE Ages
  <2>1. UNCHANGED storeVars \/ \E o \in Disk : Created(o)
    BY <1>4 DEF Run, StandBy, StartLeading, StartControllers, Exit, LoseLease, Crash, Ends,
                RegisterDisk
  <2> QED BY <1>1, <1>2, <2>1 DEF Object
<1>5. ASSUME NEW p \in Process, NEW o \in Object, Handle(p, o) PROVE Ages
  BY <1>1, <1>2, <1>3, <1>5 DEF Handle, Sync, Visit, ReleaseDisk, PlugDisk, storeVars
<1>6. ASSUME NEW p \in Process, NEW n \in Process, RemoveNode(p, n) PROVE Ages
  <2>1. UNCHANGED storeVars \/ (UNCHANGED uid /\ \E o \in Object : Obj!Delete(o) \/ Obj!Release(o))
    BY <1>6 DEF RemoveNode, ListDisks, DeleteDisk, FinishNode, storeVars, Object
  <2> QED BY <1>1, <1>3, <2>1
<1>7. ASSUME NEW o \in Object, DeleteObject(o) PROVE Ages
  BY <1>3, <1>7 DEF DeleteObject
<1>8. ASSUME NEW n \in Process, Rejoin(n) PROVE Ages
  BY <1>2, <1>8 DEF Rejoin, Object
<1>9. CASE UNCHANGED vars
  BY <1>1, <1>9 DEF vars, storeVars
<1> QED BY <1>4, <1>5, <1>6, <1>7, <1>8, <1>9 DEF Next

-----------------------------------------------------------------------------
(* Types, and one leader.                                                  *)

\* The initial state.
LEMMA InitInv == Init => IInv
<1> SUFFICES ASSUME Init PROVE IInv
  OBVIOUS
<1>1. Unknown \in Version /\ Unknown.uid = 0
  BY DEF Unknown, Version, Obj!Stage
<1>2. RoleTypeOK /\ OneLeader /\ Obj!TypeOK
  BY DEF Init, RoleInit, RoleTypeOK, Role, OneLeader, Obj!TypeOK, Obj!Stage
<1>3. NoJobs \in [Process -> Job \cup {NoJob}]
  BY DEF NoJobs
<1>4. TypeOK
  BY <1>1, <1>2, <1>3, ClusterAssumption DEF Init, TypeOK
<1>5. CachesLag
  BY <1>1 DEF Init, CachesLag
<1>6. PassedAreDeleted
  BY DEF Init, PassedAreDeleted, NoJobs
<1> QED BY <1>4, <1>5, <1>6 DEF IInv

\* Roles: nobody begins to lead beside another.
LEMMA RolesKept ==
  ASSUME TypeOK, [Next]_vars PROVE RoleTypeOK' /\ OneLeader'
<1> USE DEF RoleTypeOK, OneLeader, Role, Become
<1>0. RoleTypeOK /\ OneLeader
  BY DEF TypeOK
<1>1. CASE UNCHANGED role
  BY <1>0, <1>1
<1>2. ASSUME NEW p \in Process, Join(p) \/ Lead(p) \/ Lose(p) \/ Leave(p)
      PROVE  RoleTypeOK' /\ OneLeader'
  BY <1>0, <1>2 DEF Join, Lead, Lose, Leave
<1>3. UNCHANGED role \/ \E p \in Process : Join(p) \/ Lead(p) \/ Lose(p) \/ Leave(p)
  BY DEF Next, vars, Run, StandBy, StartLeading, StartControllers, Exit, LoseLease, Crash, Ends,
         RegisterDisk, Handle, Sync, Visit, ReleaseDisk, PlugDisk, RemoveNode, ListDisks,
         DeleteDisk, FinishNode, DeleteObject, Rejoin
<1> QED BY <1>1, <1>2, <1>3

\* Objects and their UIDs.
LEMMA ObjectsKept ==
  ASSUME TypeOK, [Next]_vars PROVE Obj!TypeOK' /\ uid' \in [Object -> Nat]
<1>0. Obj!TypeOK /\ uid \in [Object -> Nat]
  BY DEF TypeOK
<1>1. CASE UNCHANGED storeVars
  BY <1>0, <1>1 DEF storeVars, Obj!TypeOK
<1>2. ASSUME NEW o \in Object,
             Created(o) \/ (UNCHANGED uid /\ (Obj!Protect(o) \/ Obj!Delete(o) \/ Obj!Release(o)))
      PROVE  Obj!TypeOK' /\ uid' \in [Object -> Nat]
  BY <1>0, <1>2, LifeSteps DEF Created
<1>3. \/ UNCHANGED storeVars
      \/ \E o \in Object :
           Created(o) \/ (UNCHANGED uid /\ (Obj!Protect(o) \/ Obj!Delete(o) \/ Obj!Release(o)))
  <2>1. CASE \E p \in Process : Run(p) \/ LoseLease(p) \/ Crash(p)
    BY <2>1 DEF Run, StandBy, StartLeading, StartControllers, Exit, LoseLease, Crash, Ends,
                RegisterDisk, Object
  <2>2. CASE \E p \in Process, o \in Object : Handle(p, o)
    BY <2>2 DEF Handle, Sync, Visit, ReleaseDisk, PlugDisk, storeVars
  <2>3. CASE \E p \in Process, n \in Process : RemoveNode(p, n)
    BY <2>3 DEF RemoveNode, ListDisks, DeleteDisk, FinishNode, storeVars, Object
  <2>4. CASE (\E o \in Object : DeleteObject(o)) \/ (\E n \in Process : Rejoin(n)) \/ UNCHANGED vars
    BY <2>4 DEF DeleteObject, Rejoin, vars, storeVars, Object
  <2> QED BY <2>1, <2>2, <2>3, <2>4 DEF Next
<1> QED BY <1>1, <1>2, <1>3

\* A removal begins with the cached disks of the node, none of them passed.
LEMMA NewJobType ==
  ASSUME TypeOK, NEW p \in Process, NEW n \in Process
  PROVE  /\ NewJob(p, n) \in Job
         /\ NewJob(p, n).listed =
              {<<o, cache[p][o].uid>> : o \in {x \in Disk : x[1] = n /\ cache[p][x].stage # "absent"}}
         /\ \A d \in NewJob(p, n).listed :
              d[1] \in Object /\ d[1] \in NewJob(p, n).left /\ d[2] = cache[p][d[1]].uid
<1> DEFINE disks == {o \in Disk : o[1] = n /\ cache[p][o].stage # "absent"}
           seen  == {<<o, cache[p][o].uid>> : o \in disks}
<1>1. \A o \in Object : cache[p][o] \in Version
  BY DEF TypeOK
<1>2. seen \in SUBSET (Disk \X Nat) /\ disks \in SUBSET Disk /\ cache[p][n] \in Version
  BY <1>1 DEF Object, Version
<1>3. \A d \in seen : d[1] \in disks /\ d[2] = cache[p][d[1]].uid
  OBVIOUS
<1>4. NewJob(p, n) = [node |-> cache[p][n], left |-> disks, listed |-> seen]
  BY DEF NewJob
<1> HIDE DEF disks, seen
<1>5. NewJob(p, n) \in Job /\ NewJob(p, n).left = disks /\ NewJob(p, n).listed = seen
  BY <1>2, <1>4 DEF Job
<1> QED BY <1>2, <1>3, <1>5 DEF disks, seen, Object

\* What the processes know, and what they are doing.
ProcessTypeOK ==
  /\ todo \in [Process -> SUBSET Disk]
  /\ up \subseteq {p \in Process : role[p] \in {"leading", "lost"}}
  /\ cache \in [Process -> [Object -> Version]]
  /\ job \in [Process -> [Process -> Job \cup {NoJob}]]
  /\ \A p \in Process : job[p] # NoJobs => p \in up
  /\ host \in [Process -> SUBSET Disk]
  /\ mishaps \in 0..MaxMishaps /\ requests \in 0..MaxRequests

\* A removal that goes on, or ends, is one.
LEMMA JobKept ==
  ASSUME TypeOK, NEW p \in Process, NEW n \in Process, NEW j \in Job \cup {NoJob},
         p \in up, job' = [job EXCEPT ![p][n] = j]
  PROVE  /\ job' \in [Process -> [Process -> Job \cup {NoJob}]]
         /\ \A q \in Process : job'[q] # NoJobs => q \in up
         /\ \A q, m \in Process : job'[q][m] = IF q = p /\ m = n THEN j ELSE job[q][m]
BY DEF TypeOK

\* A removal in progress: whose it is, and what it listed.
LEMMA JobType ==
  ASSUME TypeOK, NEW p \in Process, NEW n \in Process, job[p][n] # NoJob
  PROVE  /\ p \in up /\ job[p][n] \in Job
         /\ \A d \in job[p][n].listed : d[1] \in Disk /\ d[2] \in Nat
<1>1. job[p][n] \in Job /\ (job[p] # NoJobs => p \in up)
  BY DEF TypeOK
<1>2. job[p] # NoJobs
  BY DEF NoJobs
<1>3. job[p][n].listed \in SUBSET (Disk \X Nat)
  BY <1>1 DEF Job
<1> QED BY <1>1, <1>2, <1>3

Without(j, o) == [j EXCEPT !.left = @ \ {o}]

\* A removal that has passed a disk.
LEMMA WithoutType ==
  ASSUME NEW j \in Job, NEW o
  PROVE  Without(j, o) \in Job /\ Without(j, o).listed = j.listed /\ Without(j, o).left = j.left \ {o}
BY DEF Without, Job

\* What a step of a removal does to it.
LEMMA RemovalSteps ==
  ASSUME TypeOK, NEW p \in Process, NEW n \in Process, RemoveNode(p, n)
  PROVE  /\ p \in up
         /\ \E j \in Job \cup {NoJob} :
              /\ job' = [job EXCEPT ![p][n] = j]
              /\ \/ j = NoJob
                 \/ j = NewJob(p, n) /\ UNCHANGED storeVars
                 \/ \E o \in Disk :
                      /\ job[p][n] # NoJob /\ j # NoJob
                      /\ j = Without(job[p][n], o)
                      /\ UNCHANGED uid
                      /\ Obj!Delete(o) \/ (life[o] = "terminating" /\ UNCHANGED life)
<1>1. CASE ListDisks(p, n)
  BY <1>1, NewJobType DEF ListDisks
<1>2. ASSUME NEW o \in Disk, DeleteDisk(p, n, o)
      PROVE  /\ p \in up
             /\ \E j \in Job \cup {NoJob} :
                  /\ job' = [job EXCEPT ![p][n] = j]
                  /\ \/ j = NoJob
                     \/ /\ job[p][n] # NoJob /\ j # NoJob
                        /\ j = Without(job[p][n], o)
                        /\ UNCHANGED uid
                        /\ Obj!Delete(o) \/ (life[o] = "terminating" /\ UNCHANGED life)
  <2> DEFINE rest == Without(job[p][n], o)
  <2>1. job[p][n] # NoJob /\ UNCHANGED uid
    BY <1>2 DEF DeleteDisk
  <2>2. p \in up /\ rest \in Job /\ job[p][n] \in Job /\ rest.left = job[p][n].left \ {o}
    BY <2>1, JobType, WithoutType
  <2>3. CASE job' = [job EXCEPT ![p][n] = NoJob]
    BY <2>2, <2>3
  <2>4. CASE /\ job' = [job EXCEPT ![p][n].left = @ \ {o}]
             /\ Obj!Delete(o) \/ (life[o] = "terminating" /\ UNCHANGED life)
    <3>1. job' = [job EXCEPT ![p][n] = rest]
      BY <2>4 DEF TypeOK, Without
    <3>2. CASE rest = NoJob
      BY <2>2, <3>1, <3>2
    <3>3. CASE rest # NoJob
      BY <2>1, <2>2, <2>4, <3>1, <3>3
    <3> QED BY <3>2, <3>3
  <2> QED BY <1>2, <2>3, <2>4 DEF DeleteDisk
<1>3. CASE FinishNode(p, n)
  BY <1>3, JobType DEF FinishNode
<1> QED BY <1>1, <1>2, <1>3 DEF RemoveNode

\* The processes, their caches and their removals keep their types.
LEMMA ProcessesKept ==
  ASSUME TypeOK, [Next]_vars PROVE ProcessTypeOK'
<1>0. ProcessTypeOK /\ RoleTypeOK /\ MaxMishaps \in Nat /\ MaxRequests \in Nat
  BY ClusterAssumption DEF TypeOK, ProcessTypeOK
<1>1. /\ Mishap => mishaps' \in 0..MaxMishaps
      /\ Request => requests' \in 0..MaxRequests
  BY <1>0 DEF ProcessTypeOK, Mishap, Request
<1>2. \A o \in Object : Stored(o) \in Version /\ Unknown \in Version
  BY StoredType DEF Unknown, Version, Obj!Stage
<1>3. NoJobs \in [Process -> Job \cup {NoJob}]
  BY DEF NoJobs
<1> USE DEF ProcessTypeOK
<1>4. ASSUME NEW p \in Process, Run(p) \/ LoseLease(p) \/ Crash(p) PROVE ProcessTypeOK'
  <2> USE DEF RoleTypeOK, Role, Become
  <2>1. CASE StandBy(p)
    BY <1>0, <2>1 DEF StandBy, Join
  <2>2. CASE StartLeading(p)
    BY <1>0, <2>2 DEF StartLeading, Lead
  <2>3. CASE StartControllers(p)
    BY <1>0, <1>2, <2>3 DEF StartControllers
  <2>4. CASE Exit(p) \/ Crash(p)
    <3>1. Ends(p) /\ mishaps' \in 0..MaxMishaps
      BY <1>0, <1>1, <2>4 DEF Exit, Crash
    <3> QED BY <1>0, <1>2, <1>3, <3>1 DEF Ends, Leave
  <2>5. ASSUME NEW o \in Disk, RegisterDisk(p, o) PROVE ProcessTypeOK'
    BY <1>0, <2>5 DEF RegisterDisk
  <2>6. CASE LoseLease(p)
    BY <1>0, <1>1, <2>6 DEF LoseLease, Lose
  <2> QED BY <1>4, <2>1, <2>2, <2>3, <2>4, <2>5, <2>6 DEF Run
<1>5. ASSUME NEW p \in Process, NEW o \in Object, Handle(p, o) PROVE ProcessTypeOK'
  <2>1. CASE Sync(p, o)
    BY <1>0, <1>2, <2>1 DEF Sync
  <2>2. CASE Visit(p, o)
    BY <1>0, <2>2 DEF Visit
  <2>3. CASE ReleaseDisk(p, o) \/ PlugDisk(p, o)
    BY <1>0, <1>1, <2>3 DEF ReleaseDisk, PlugDisk
  <2> QED BY <1>5, <2>1, <2>2, <2>3 DEF Handle
<1>6. ASSUME NEW p \in Process, NEW n \in Process, RemoveNode(p, n) PROVE ProcessTypeOK'
  <2>1. /\ UNCHANGED <<role, todo, up, cache, host>>
        /\ mishaps' \in 0..MaxMishaps /\ requests' \in 0..MaxRequests
    BY <1>0, <1>1, <1>6 DEF RemoveNode, ListDisks, DeleteDisk, FinishNode, Calm
  <2>2. /\ job' \in [Process -> [Process -> Job \cup {NoJob}]]
        /\ \A q \in Process : job'[q] # NoJobs => q \in up
    BY <1>6, RemovalSteps, JobKept
  <2>3. \A q \in Process : job'[q] # NoJobs' => q \in up'
    BY <2>1, <2>2 DEF NoJobs
  <2> QED BY <1>0, <2>1, <2>2, <2>3
<1>7. CASE (\E o \in Object : DeleteObject(o)) \/ (\E n \in Process : Rejoin(n)) \/ UNCHANGED vars
  BY <1>0, <1>1, <1>7 DEF DeleteObject, Rejoin, vars
<1> QED BY <1>4, <1>5, <1>6, <1>7 DEF Next

\* Every step keeps the types.
LEMMA NextType ==
  ASSUME TypeOK, [Next]_vars PROVE TypeOK'
BY RolesKept, ObjectsKept, ProcessesKept DEF TypeOK, ProcessTypeOK

-----------------------------------------------------------------------------
(* The caches and the removals.                                            *)

\* What a cache takes over is the stored version.
LEMMA CacheSteps ==
  ASSUME TypeOK, [Next]_vars, NEW p \in Process, NEW o \in Object
  PROVE  cache'[p][o] = cache[p][o] \/ cache'[p][o] = Unknown
           \/ (cache'[p][o] = Stored(o) /\ UNCHANGED uid)
<1>0. cache \in [Process -> [Object -> Version]]
  BY DEF TypeOK
<1>1. CASE UNCHANGED cache
  BY <1>1
<1>2. ASSUME NEW q \in Process, StartControllers(q) \/ Ends(q) \/ \E x \in Object : Sync(q, x)
      PROVE  cache'[p][o] = cache[p][o] \/ cache'[p][o] = Unknown
               \/ (cache'[p][o] = Stored(o) /\ UNCHANGED uid)
  BY <1>0, <1>2 DEF StartControllers, Ends, Sync, storeVars
<1>3. UNCHANGED cache
        \/ \E q \in Process : StartControllers(q) \/ Ends(q) \/ \E x \in Object : Sync(q, x)
  BY DEF Next, vars, Run, StandBy, StartLeading, Exit, LoseLease, Crash, RegisterDisk, Handle,
         Visit, ReleaseDisk, PlugDisk, RemoveNode, ListDisks, DeleteDisk, FinishNode,
         DeleteObject, Rejoin
<1> QED BY <1>1, <1>2, <1>3

\* No cache gets ahead of the API server.
LEMMA CachesKept ==
  ASSUME TypeOK, CachesLag, [Next]_vars PROVE CachesLag'
<1> SUFFICES ASSUME NEW p \in Process, NEW o \in Object PROVE cache'[p][o].uid <= uid'[o]
  BY DEF CachesLag
<1>1. uid[o] \in Nat /\ uid'[o] \in Nat /\ uid[o] <= uid'[o]
  BY ObjectsKept, NextAges DEF TypeOK, Ages
<1>2. cache[p][o].uid \in Nat /\ cache[p][o].uid <= uid[o]
  BY DEF TypeOK, CachesLag, Version
<1>3. Stored(o).uid <= uid[o] /\ Unknown.uid = 0
  BY StoredType DEF Unknown
<1> QED BY <1>1, <1>2, <1>3, CacheSteps

\* The steps that are none of a removal end it or leave it alone.
LEMMA OtherSteps ==
  ASSUME TypeOK, [Next]_vars,
         ~\E p \in Process, n \in Process : RemoveNode(p, n),
         NEW p \in Process, NEW n \in Process
  PROVE  job'[p][n] = job[p][n] \/ job'[p][n] = NoJob
<1>1. UNCHANGED job \/ \E q \in Process : job' = [job EXCEPT ![q] = NoJobs]
  BY DEF Next, vars, Run, StandBy, StartLeading, StartControllers, Exit, LoseLease, Crash, Ends,
         RegisterDisk, Handle, Sync, Visit, ReleaseDisk, PlugDisk, DeleteObject, Rejoin
<1> QED BY <1>1 DEF TypeOK, NoJobs

\* The listed object is marked for deletion or gone.
Gone(d) == d[2] # uid[d[1]] \/ life[d[1]] \notin Live

\* It stays so, whatever happens.
LEMMA GoneStays ==
  ASSUME TypeOK, [Next]_vars, NEW d, d[1] \in Object, d[2] \in Nat, d[2] <= uid[d[1]]
  PROVE  d[2] <= uid'[d[1]] /\ (Gone(d) => Gone(d)')
<1>1. uid[d[1]] \in Nat /\ uid'[d[1]] \in Nat
  BY ObjectsKept DEF TypeOK
<1>2. /\ uid[d[1]] <= uid'[d[1]]
      /\ uid'[d[1]] = uid[d[1]] /\ life[d[1]] \notin Live => life'[d[1]] \notin Live
  BY NextAges DEF Ages
<1> QED BY <1>1, <1>2 DEF Gone, Live

\* The disks a removal has passed stay deleted, whatever comes back under their names.
LEMMA PassedKept ==
  ASSUME TypeOK, CachesLag, PassedAreDeleted, [Next]_vars PROVE PassedAreDeleted'
<1> SUFFICES ASSUME NEW p \in Process, NEW n \in Process, job'[p][n] # NoJob,
                    NEW d \in job'[p][n].listed
             PROVE  d[2] <= uid'[d[1]] /\ (d[1] \in job'[p][n].left \/ Gone(d)')
  BY DEF PassedAreDeleted, Gone
<1>1. job[p][n] # NoJob => \A x \in job[p][n].listed :
        /\ x[1] \in Object /\ x[2] \in Nat
        /\ x[2] <= uid[x[1]] /\ (x[1] \in job[p][n].left \/ Gone(x))
  BY JobType DEF PassedAreDeleted, Gone, Object
<1>2. CASE job'[p][n] = job[p][n]
  BY <1>1, <1>2, GoneStays
<1>3. CASE RemoveNode(p, n)
  <2>1. PICK j \in Job \cup {NoJob} :
          /\ job' = [job EXCEPT ![p][n] = j]
          /\ \/ j = NoJob
             \/ j = NewJob(p, n) /\ UNCHANGED storeVars
             \/ \E o \in Disk :
                  /\ job[p][n] # NoJob /\ j # NoJob
                  /\ j = Without(job[p][n], o)
                  /\ UNCHANGED uid
                  /\ Obj!Delete(o) \/ (life[o] = "terminating" /\ UNCHANGED life)
    BY <1>3, RemovalSteps
  <2>2. job'[p][n] = j
    BY <2>1 DEF TypeOK
  <2>3. CASE j = NewJob(p, n) /\ UNCHANGED storeVars
    <3>1. d[1] \in Object /\ d[1] \in job'[p][n].left /\ d[2] = cache[p][d[1]].uid
      BY <2>2, <2>3, NewJobType
    <3> QED BY <2>3, <3>1 DEF CachesLag, storeVars
  <2>4. ASSUME NEW o \in Disk, job[p][n] # NoJob, j = Without(job[p][n], o), UNCHANGED uid,
               Obj!Delete(o) \/ (life[o] = "terminating" /\ UNCHANGED life)
        PROVE  d[2] <= uid'[d[1]] /\ (d[1] \in job'[p][n].left \/ Gone(d)')
    <3>1. j.listed = job[p][n].listed /\ j.left = job[p][n].left \ {o}
      BY <2>4, JobType, WithoutType
    <3>2. /\ d[1] \in Object /\ d[2] \in Nat
          /\ d[2] <= uid[d[1]] /\ (d[1] \in job[p][n].left \/ Gone(d))
      BY <1>1, <2>2, <2>4, <3>1
    <3>3. d[2] <= uid'[d[1]] /\ (Gone(d) => Gone(d)')
      BY <3>2, GoneStays
    <3>4. life'[o] \notin Live
      BY <2>4, LifeSteps DEF Object, Live
    <3> QED BY <2>2, <3>1, <3>2, <3>3, <3>4 DEF Gone
  <2> QED BY <2>1, <2>2, <2>3, <2>4
<1>4. CASE \E q \in Process, m \in Process : RemoveNode(q, m) /\ ~(q = p /\ m = n)
  <2>1. job'[p][n] = job[p][n]
    BY <1>4, RemovalSteps DEF TypeOK
  <2> QED BY <1>2, <2>1
<1>5. CASE ~\E q \in Process, m \in Process : RemoveNode(q, m)
  BY <1>2, <1>5, OtherSteps
<1> QED BY <1>3, <1>4, <1>5

-----------------------------------------------------------------------------
(* The theorems.                                                           *)

\* The inductive invariant, of any cluster: types, one leader, caches that lag
\* behind the store, and passed disks that stay deleted (OnNodeDelete's loop).
THEOREM PassedStayDeleted == Spec => []IInv
<1>1. IInv /\ [Next]_vars => IInv'
  BY NextType, CachesKept, PassedKept DEF IInv
<1> QED BY InitInv, <1>1, PTL DEF Spec

\* The step with which a Node object goes is the removal of its finalizer.
LEMMA RemovesWhenDone ==
  ASSUME TypeOK, [Next]_vars, NEW p \in Process, NEW n \in Process, Removes(p, n)
  PROVE  /\ job[p][n] # NoJob /\ job[p][n].left = {}
         /\ \A o \in Object : o # n => life'[o] = life[o]
<1>1. job'[p][n] # job[p][n] /\ life'[n] # life[n] /\ life[n] = "terminating"
  BY DEF Removes
<1>2. PICK q \in Process, m \in Process : RemoveNode(q, m)
  <2>1. SUFFICES ASSUME ~\E q \in Process, m \in Process : RemoveNode(q, m) PROVE FALSE
    OBVIOUS
  <2>2. UNCHANGED job \/ UNCHANGED life
    BY <2>1 DEF Next, vars, storeVars, Run, StandBy, StartLeading, StartControllers, Exit,
                LoseLease, Crash, Ends, RegisterDisk, Handle, Sync, Visit, ReleaseDisk, PlugDisk,
                DeleteObject, Rejoin
  <2> QED BY <1>1, <2>2
<1>3. q = p /\ m = n
  BY <1>1, <1>2, RemovalSteps DEF TypeOK
<1>4. ~ListDisks(p, n)
  BY <1>1 DEF ListDisks, storeVars
<1>5. ASSUME NEW o \in Disk PROVE ~DeleteDisk(p, n, o)
  <2>1. Obj!Delete(o) => life'[n] = life[n]
    BY <1>1 DEF Obj!Delete, Obj!Becomes, TypeOK, Obj!TypeOK, Object
  <2> QED BY <1>1, <2>1 DEF DeleteDisk
<1>6. FinishNode(p, n) /\ Obj!Release(n)
  BY <1>1, <1>2, <1>3, <1>4, <1>5 DEF RemoveNode, FinishNode
<1> QED BY <1>6, LifeSteps DEF FinishNode, Object

\* A Node object that goes leaves no live BlockDevice behind that its removal
\* had listed, in any cluster, over changes of the leader, failed requests and
\* disks that come back (OnNodeDelete and the finalizer around it).
THEOREM NodesTakeTheirDisks == Spec => NodeRemovalCascades
<1>1. ASSUME IInv, [Next]_vars, NEW p \in Process, NEW n \in Process, NEW o \in Disk,
             Removes(p, n), <<o, uid[o]>> \in job[p][n].listed
      PROVE  life'[o] \notin Live
  <2>1. /\ job[p][n] # NoJob /\ job[p][n].left = {}
        /\ \A x \in Object : x # n => life'[x] = life[x]
    BY <1>1, RemovesWhenDone DEF IInv
  <2>2. life[o] \notin Live
    BY <1>1, <2>1 DEF IInv, PassedAreDeleted
  <2>3. CASE o = n
    BY <1>1, <2>3 DEF Removes, Live
  <2>4. CASE o # n
    BY <2>1, <2>2, <2>4 DEF Object, Live
  <2> QED BY <2>3, <2>4
<1>2. IInv /\ [Next]_vars =>
        [\A p, n \in Process, o \in Disk :
           Removes(p, n) /\ <<o, uid[o]>> \in job[p][n].listed => life'[o] \notin Live]_vars
  BY <1>1
<1> QED BY PassedStayDeleted, <1>2, PTL DEF Spec, NodeRemovalCascades

=============================================================================
