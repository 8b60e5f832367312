---------------------------- MODULE LeaderElection ----------------------------
(***************************************************************************)
(* The lease behind main.go's leader.RunOrDie: a record in a ConfigMap,    *)
(* written with optimistic concurrency, whose age every process measures   *)
(* on its own clock from the moment it first saw the record (client-go's   *)
(* leaderelection).  The server checks nothing but versions: that one      *)
(* process leads at a time rests on the durations alone.                   *)
(*                                                                         *)
(* A tick is one unit of time, the same for all clocks; drift is part of   *)
(* MaxReply.                                                               *)
(***************************************************************************)
EXTENDS Naturals

CONSTANTS
  Process,         \* the disk managers, one per node
  Nobody,          \* the holder of a released lease, or of none
  Gone,            \* the name of a pod that has been replaced
  NoCall,          \* no Update has landed whose reply is under way
  LeaseDuration,   \* 45 s
  RenewDeadline,   \* 30 s
  RetryPeriod,     \* 2 s
  MaxReply,        \* the longest an Update's reply is under way
  MaxMishaps       \* bound: crashes, signals, lost replies, failed releases

\* With the durations of leader.RunOrDie: replies take less than 13 s.  The code
\* does not enforce this: it bounds the wait for a renewal by its context of
\* RenewDeadline, and that for an acquisition not at all.
ASSUME DurationAssumption ==
  /\ Nobody \notin Process /\ Gone \notin Process /\ NoCall \notin Nat
  /\ LeaseDuration \in Nat /\ RenewDeadline \in Nat
  /\ RetryPeriod \in Nat /\ MaxReply \in Nat /\ MaxMishaps \in Nat
  /\ RetryPeriod + RenewDeadline + MaxReply < LeaseDuration

VARIABLES
  holder,    \* whom the stored record names
  mode,      \* what each process is doing
  seen,      \* seen[p]: the record p last observed is the stored one
  age,       \* age[p]: how long p has observed it, up to LeaseDuration
  since,     \* since[p]: when p last renewed, so that it gives up at Window
  call,      \* call[p]: how long ago p's Update landed, if the reply is out
  mishaps

vars == <<holder, mode, seen, age, since, call, mishaps>>

\* A "lost" process has given up or been told to stop; it still runs its
\* controllers while it releases the lease, until it exits.
Mode == {"off", "standby", "leading", "lost", "released"}

\* renew waits for RetryPeriod after a success, then tries for RenewDeadline.
Window == RetryPeriod + RenewDeadline

TypeOK ==
  /\ holder \in Process \cup {Nobody, Gone}
  /\ mode \in [Process -> Mode]
  /\ seen \in [Process -> BOOLEAN]
  /\ age \in [Process -> 0..LeaseDuration]
  /\ since \in [Process -> 0..Window]
  /\ call \in [Process -> (0..MaxReply) \cup {NoCall}]
  /\ mishaps \in 0..MaxMishaps

Init ==
  /\ holder = Nobody
  /\ mode = [p \in Process |-> "off"]
  /\ seen = [p \in Process |-> FALSE]
  /\ age = [p \in Process |-> 0]
  /\ since = [p \in Process |-> 0]
  /\ call = [p \in Process |-> NoCall]
  /\ mishaps = 0

Mishap == mishaps < MaxMishaps /\ mishaps' = mishaps + 1

-----------------------------------------------------------------------------

Campaign(p) ==
  /\ mode[p] = "off"
  /\ mode' = [mode EXCEPT ![p] = "standby"]
  /\ seen' = [seen EXCEPT ![p] = FALSE]
  /\ age' = [age EXCEPT ![p] = 0]
  /\ UNCHANGED <<holder, since, call, mishaps>>

\* Every write makes a new record, which nobody has observed yet.
Write(h) == holder' = h /\ seen' = [q \in Process |-> FALSE]

Trying(p) == mode[p] \in {"standby", "leading"} /\ call[p] = NoCall

\* Mutant: the time of an observation is not that of the record.
ObserveKeepingAge(p) ==
  /\ Trying(p)
  /\ ~seen[p]
  /\ seen' = [seen EXCEPT ![p] = TRUE]
  /\ UNCHANGED <<holder, mode, age, since, call, mishaps>>

\* tryAcquireOrRenew, when Get returns a record it has not observed before.
Observe(p) ==
  /\ Trying(p)
  /\ ~seen[p]
  /\ seen' = [seen EXCEPT ![p] = TRUE]
  /\ age' = [age EXCEPT ![p] = 0]
  /\ UNCHANGED <<holder, mode, since, call, mishaps>>

\* Mutant: a lease is taken over only when it has been released.
AvailableReleased(p) == holder \in {Nobody, p}

\* The record is free: nobody's, one's own, or not renewed for so long.
Available(p) ==
  \/ holder \in {Nobody, p}
  \/ seen[p] /\ age[p] = LeaseDuration

\* tryAcquireOrRenew goes on to Update the record, which succeeds only if it is
\* still the one Get returned; the reply is under way, or is lost.
Acquire(p) ==
  /\ Trying(p) /\ Available(p)
  /\ Write(p)
  /\ \/ call' = [call EXCEPT ![p] = 0] /\ UNCHANGED mishaps
     \/ Mishap /\ UNCHANGED call
  /\ UNCHANGED <<mode, age, since>>

\* acquire has succeeded, and the controllers are started; or a renewal has.
Reply(p) ==
  /\ call[p] # NoCall
  /\ call' = [call EXCEPT ![p] = NoCall]
  /\ mode' = [mode EXCEPT ![p] = "leading"]
  /\ since' = [since EXCEPT ![p] = IF mode[p] = "standby" THEN RetryPeriod ELSE 0]
  /\ UNCHANGED <<holder, seen, age, mishaps>>

Lost(p) ==
  /\ mode[p] = "leading"
  /\ mode' = [mode EXCEPT ![p] = "lost"]
  /\ call' = [call EXCEPT ![p] = NoCall]

\* No renewal for RenewDeadline.
GiveUp(p) ==
  /\ since[p] = Window
  /\ Lost(p)
  /\ UNCHANGED <<holder, seen, age, since, mishaps>>

Stopped(p) ==
  /\ mode[p] = "standby"
  /\ mode' = [mode EXCEPT ![p] = "off"]
  /\ call' = [call EXCEPT ![p] = NoCall]

\* SIGTERM cancels the context.
Terminate(p) ==
  /\ Mishap
  /\ Lost(p) \/ Stopped(p)
  /\ UNCHANGED <<holder, seen, age, since>>

\* ReleaseOnCancel; an Update that fails is not repeated.
Release(p) ==
  /\ mode[p] = "lost"
  /\ mode' = [mode EXCEPT ![p] = "released"]
  /\ \/ holder = p /\ Write(Nobody) /\ UNCHANGED mishaps
     \/ holder # p /\ UNCHANGED <<holder, seen, mishaps>>
     \/ Mishap /\ UNCHANGED <<holder, seen>>
  /\ UNCHANGED <<age, since, call>>

\* OnStoppedLeading is a logrus.Fatalf.
Exit(p) ==
  /\ mode[p] = "released"
  /\ mode' = [mode EXCEPT ![p] = "off"]
  /\ UNCHANGED <<holder, seen, age, since, call, mishaps>>

\* The container is restarted in its pod and keeps the name, which is the
\* pod's; or the pod is replaced, and the record names none that exists.
Crash(p) ==
  /\ Mishap
  /\ mode[p] # "off"
  /\ mode' = [mode EXCEPT ![p] = "off"]
  /\ call' = [call EXCEPT ![p] = NoCall]
  /\ holder' \in IF holder = p THEN {p, Gone} ELSE {holder}
  /\ UNCHANGED <<seen, age, since>>

-----------------------------------------------------------------------------
(* Time.                                                                   *)

Up(n, limit) == IF n < limit THEN n + 1 ELSE limit

Due(p) == mode[p] = "leading" /\ since[p] = Window

\* Mutant: the renewal's deadline is not enforced.
TickPastDeadline ==
  /\ \A p \in Process : call[p] # MaxReply
  /\ age' = [p \in Process |-> IF mode[p] = "off" THEN age[p] ELSE Up(age[p], LeaseDuration)]
  /\ since' = [p \in Process |-> IF mode[p] = "leading" THEN Up(since[p], Window) ELSE since[p]]
  /\ call' = [p \in Process |-> IF call[p] = NoCall THEN NoCall ELSE call[p] + 1]
  /\ UNCHANGED <<holder, mode, seen, mishaps>>

\* A deadline is met, and a reply comes, before time goes on.
Tick ==
  /\ \A p \in Process : ~Due(p) /\ call[p] # MaxReply
  /\ age' = [p \in Process |-> IF mode[p] = "off" THEN age[p] ELSE Up(age[p], LeaseDuration)]
  /\ since' = [p \in Process |-> IF mode[p] = "leading" THEN Up(since[p], Window) ELSE since[p]]
  /\ call' = [p \in Process |-> IF call[p] = NoCall THEN NoCall ELSE call[p] + 1]
  /\ UNCHANGED <<holder, mode, seen, mishaps>>

-----------------------------------------------------------------------------

Elect(p) ==
  \/ Campaign(p)
  \/ Observe(p)
  \/ Acquire(p)
  \/ Reply(p)
  \/ GiveUp(p)
  \/ Release(p)
  \/ Exit(p)

Next ==
  \/ Tick
  \/ \E p \in Process : Elect(p) \/ Terminate(p) \/ Crash(p)

Spec == Init /\ [][Next]_vars

\* Time passes, processes run and are restarted, and requests are answered.
Fairness ==
  /\ WF_vars(Tick)
  /\ \A p \in Process :
       /\ WF_vars(Campaign(p)) /\ WF_vars(Observe(p)) /\ WF_vars(Acquire(p))
       /\ WF_vars(Reply(p)) /\ WF_vars(GiveUp(p))
       /\ WF_vars(Release(p)) /\ WF_vars(Exit(p))

FairSpec == Spec /\ Fairness

-----------------------------------------------------------------------------
(* The inductive invariant.                                                *)

\* How long the stored record has been there at most, for one who holds it.
Held(p) == IF call[p] # NoCall THEN call[p] ELSE since[p] + MaxReply

Holds(p) == mode[p] = "leading" \/ call[p] # NoCall

\* Who leads, or will when the reply comes, is named in the record, and nobody
\* has observed the record for longer than its holder may have had it.
LeaseHeld ==
  \A p \in Process :
    /\ call[p] # NoCall => mode[p] \in {"standby", "leading"}
    /\ Holds(p) => holder = p
    /\ Holds(p) => \A q \in Process \ {p} : seen[q] => age[q] <= Held(p)

IInv == TypeOK /\ LeaseHeld

-----------------------------------------------------------------------------
(* What is promised.                                                       *)

RoleOf(m) ==
  CASE m = "off" -> "out"
    [] m = "standby" -> "standby"
    [] m = "leading" -> "leading"
    [] m \in {"lost", "released"} -> "lost"

L == INSTANCE Leadership WITH role <- [p \in Process |-> RoleOf(mode[p])]

\* Mutual exclusion, over lost replies, crashes, restarts under the same name
\* and a lease that is released and taken while its holder still works.
ImplementsLeadership == L!LeaderSpec

\* No crash, lost reply or failed release leaves the cluster without a leader.
SomeoneLeads == []<>(\E p \in Process : mode[p] = "leading")

=============================================================================
