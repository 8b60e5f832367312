------------------------- MODULE LeaderElectionProofs -------------------------
(***************************************************************************)
(* One process leads at a time, for any number of processes and any        *)
(* durations that leave a reply room between RenewDeadline and             *)
(* LeaseDuration: a process that holds the lease gives it up before anyone *)
(* has seen its record for LeaseDuration.                                  *)
(***************************************************************************)
EXTENDS LeaderElection, TLAPS

\* Deadlines and ages stay within their bounds.
LEMMA UpType ==
  ASSUME NEW limit \in Nat, NEW n \in 0..limit
  PROVE  Up(n, limit) \in 0..limit /\ Up(n, limit) <= n + 1 /\ n <= Up(n, limit)
BY DEF Up

\* The durations.
LEMMA Durations ==
  /\ Window \in Nat /\ RetryPeriod \in 0..Window /\ 0 \in 0..Window
  /\ Window + MaxReply < LeaseDuration /\ 0 \in 0..LeaseDuration /\ 0 \in 0..MaxReply
BY DurationAssumption DEF Window

\* The initial state.
LEMMA InitInv == Init => IInv
BY Durations, DurationAssumption DEF Init, IInv, TypeOK, LeaseHeld, Mode, Holds

\* Types.
LEMMA NextType ==
  ASSUME TypeOK, [Next]_vars PROVE TypeOK'
<1> USE DEF TypeOK
<1>1. Mishap => mishaps' \in 0..MaxMishaps
  BY DurationAssumption DEF Mishap
<1>2. CASE Tick
  <2>1. \A p \in Process : Up(age[p], LeaseDuration) \in 0..LeaseDuration
    BY UpType, DurationAssumption
  <2>2. \A p \in Process : Up(since[p], Window) \in 0..Window
    BY UpType, Durations
  <2>3. \A p \in Process : call[p] # NoCall => call[p] + 1 \in 0..MaxReply
    BY <1>2, DurationAssumption DEF Tick
  <2> QED BY <1>2, <2>1, <2>2, <2>3 DEF Tick
<1>3. ASSUME NEW p \in Process, Elect(p) \/ Terminate(p) \/ Crash(p) PROVE TypeOK'
  <2>1. CASE Campaign(p)
    BY <2>1, Durations DEF Campaign, Mode
  <2>2. CASE Observe(p)
    BY <2>2, Durations DEF Observe
  <2>3. CASE Acquire(p)
    BY <1>1, <2>3, Durations DEF Acquire, Write
  <2>4. CASE Reply(p)
    BY <2>4, Durations DEF Reply, Mode
  <2>5. CASE GiveUp(p) \/ Exit(p)
    BY <2>5 DEF GiveUp, Lost, Exit, Mode
  <2>6. CASE Release(p)
    BY <1>1, <2>6 DEF Release, Write, Mode
  <2>7. CASE Terminate(p)
    BY <1>1, <2>7 DEF Terminate, Lost, Stopped, Mode
  <2>8. CASE Crash(p)
    BY <1>1, <2>8 DEF Crash, Mode
  <2> QED BY <1>3, <2>1, <2>2, <2>3, <2>4, <2>5, <2>6, <2>7, <2>8 DEF Elect
<1>4. CASE UNCHANGED vars
  BY <1>4 DEF vars
<1> QED BY <1>2, <1>3, <1>4 DEF Next

\* How long a holder may have had the record is less than the lease.
LEMMA HeldBound ==
  ASSUME TypeOK, NEW p \in Process
  PROVE  Held(p) \in Nat /\ Held(p) < LeaseDuration
<1>1. since[p] \in 0..Window /\ (call[p] # NoCall => call[p] \in 0..MaxReply)
  BY DEF TypeOK
<1> QED BY <1>1, Durations, DurationAssumption DEF Held

\* There is at most one who holds the lease.
LEMMA OneHolder ==
  ASSUME IInv, NEW p \in Process, NEW q \in Process, Holds(p), Holds(q)
  PROVE  p = q
BY DEF IInv, LeaseHeld

\* Whoever finds the lease free finds that nobody else holds it.
LEMMA AvailableMeansFree ==
  ASSUME IInv, NEW p \in Process, Available(p), NEW q \in Process, Holds(q)
  PROVE  p = q
<1>1. holder = q /\ (p # q /\ seen[p] => age[p] <= Held(q))
  BY DEF IInv, LeaseHeld
<1>2. age[p] = LeaseDuration => ~(age[p] <= Held(q))
  BY HeldBound, DurationAssumption DEF IInv
<1> QED BY <1>1, <1>2, DurationAssumption DEF Available

\* Time passes for all alike.
LEMMA TickHeld ==
  ASSUME IInv, Tick PROVE LeaseHeld'
<1> USE DEF IInv
<1>1. UNCHANGED <<holder, mode, seen>> /\ \A p \in Process : call'[p] # NoCall <=> call[p] # NoCall
  BY DurationAssumption DEF Tick, TypeOK
<1>2. ASSUME NEW p \in Process, NEW q \in Process \ {p}, Holds(p), seen[q]
      PROVE  age'[q] <= Held(p)'
  <2>1. age[q] \in 0..LeaseDuration /\ age[q] <= Held(p) /\ Held(p) \in Nat
    BY <1>2, HeldBound DEF LeaseHeld, TypeOK
  <2>2. age'[q] \in Nat /\ age'[q] <= age[q] + 1
    <3>1. Up(age[q], LeaseDuration) \in Nat /\ Up(age[q], LeaseDuration) <= age[q] + 1
      BY <2>1, DurationAssumption DEF Up
    <3>2. age'[q] = age[q] \/ age'[q] = Up(age[q], LeaseDuration)
      BY DEF Tick
    <3> QED BY <2>1, <3>1, <3>2
  <2>3. Held(p)' = Held(p) + 1
    <3>1. CASE call[p] # NoCall
      BY <1>1, <3>1 DEF Tick, Held
    <3>2. CASE call[p] = NoCall
      <4>1. mode[p] = "leading" /\ since[p] \in 0..Window /\ since[p] # Window
        BY <1>2, <3>2 DEF Holds, Tick, Due, TypeOK
      <4>2. since'[p] = since[p] + 1
        BY <4>1, Durations DEF Tick, Up
      <4> QED BY <1>1, <3>2, <4>1, <4>2, DurationAssumption DEF Held
    <3> QED BY <3>1, <3>2
  <2> QED BY <2>1, <2>2, <2>3
<1>3. \A p \in Process : Holds(p)' <=> Holds(p)
  BY <1>1 DEF Holds
<1> QED BY <1>1, <1>2, <1>3 DEF LeaseHeld

\* What a process does leaves the others' lease as it was.
LEMMA ProcessHeld ==
  ASSUME IInv, TypeOK', NEW p \in Process, Elect(p) \/ Terminate(p) \/ Crash(p)
  PROVE  LeaseHeld'
<1> USE DEF IInv, TypeOK
<1>1. CASE Campaign(p)
  BY <1>1 DEF Campaign, LeaseHeld, Holds, Held
<1>2. CASE Observe(p)
  <2>1. \A q \in Process : Held(q) \in Nat /\ Held(q)' = Held(q) /\ (Holds(q)' <=> Holds(q))
    BY <1>2, HeldBound DEF Observe, Held, Holds
  <2> QED BY <1>2, <2>1 DEF Observe, LeaseHeld
<1>3. CASE Acquire(p)
  <2>1. \A q \in Process \ {p} : ~Holds(q)
    BY <1>3, AvailableMeansFree DEF Acquire
  <2>2. \A q \in Process \ {p} : ~Holds(q)' /\ call'[q] = call[q]
    BY <1>3, <2>1 DEF Acquire, Holds
  <2> QED BY <1>3, <2>2 DEF Acquire, Write, Trying, LeaseHeld, Holds
<1>4. CASE Reply(p)
  <2>1. \A q \in Process \ {p} : ~Holds(q)
    BY <1>4, OneHolder DEF Reply, Holds
  <2>2. \A q \in Process \ {p} : ~Holds(q)' /\ call'[q] = call[q]
    BY <1>4, <2>1 DEF Reply, Holds
  <2>3. Held(p) <= Held(p)' /\ Held(p) \in Nat /\ Held(p)' \in Nat
    <3>1. call[p] \in 0..MaxReply /\ Held(p) = call[p]
      BY <1>4 DEF Reply, Held
    <3>2. since'[p] \in 0..Window /\ Held(p)' = since'[p] + MaxReply
      BY <1>4 DEF Reply, Held
    <3> QED BY <3>1, <3>2, Durations, DurationAssumption
  <2>4. holder = p /\ \A q \in Process \ {p} : seen[q] => age[q] <= Held(p)
    BY <1>4 DEF Reply, LeaseHeld, Holds
  <2>5. \A q \in Process \ {p} : seen'[q] => age'[q] <= Held(p)'
    <3>1. \A q \in Process : age[q] \in Nat
      OBVIOUS
    <3> QED BY <1>4, <2>3, <2>4, <3>1 DEF Reply
  <2> QED BY <1>4, <2>2, <2>4, <2>5 DEF Reply, LeaseHeld
<1>5. ASSUME mode' = [mode EXCEPT ![p] = mode'[p]], mode'[p] \notin {"leading"},
             call' = [call EXCEPT ![p] = NoCall], UNCHANGED <<seen, age, since>>,
             \A q \in Process \ {p} : holder = q => holder' = q
      PROVE  LeaseHeld'
  <2>1. ~Holds(p)' /\ call'[p] = NoCall
    BY <1>5 DEF Holds
  <2>2. \A q \in Process \ {p} : /\ Holds(q)' <=> Holds(q)
                                 /\ Held(q)' = Held(q)
                                 /\ call'[q] = call[q] /\ mode'[q] = mode[q]
    BY <1>5 DEF Holds, Held
  <2> QED BY <1>5, <2>1, <2>2 DEF LeaseHeld
<1>6. CASE GiveUp(p) \/ Terminate(p) \/ Crash(p)
  BY <1>5, <1>6 DEF GiveUp, Terminate, Lost, Stopped, Crash
<1>7. call[p] = NoCall \/ mode[p] \in {"standby", "leading"}
  BY DEF LeaseHeld
<1>8. CASE Exit(p)
  BY <1>5, <1>7, <1>8 DEF Exit
<1>9. CASE Release(p)
  <2>1. CASE UNCHANGED <<holder, seen>>
    BY <1>5, <1>7, <1>9, <2>1 DEF Release
  <2>2. CASE holder = p /\ Write(Nobody)
    <3>1. \A q \in Process : ~Holds(q)
      BY <1>7, <1>9, <2>2 DEF Release, Holds, LeaseHeld
    <3>2. \A q \in Process : ~Holds(q)' /\ call'[q] = call[q]
      BY <1>9, <3>1 DEF Release, Holds
    <3> QED BY <3>2 DEF LeaseHeld, Holds
  <2> QED BY <1>9, <2>1, <2>2 DEF Release
<1> QED BY <1>1, <1>2, <1>3, <1>4, <1>6, <1>8, <1>9 DEF Elect

\* Every step.
LEMMA NextInv == IInv /\ [Next]_vars => IInv'
<1> SUFFICES ASSUME IInv, [Next]_vars PROVE IInv'
  OBVIOUS
<1>1. TypeOK'
  BY NextType DEF IInv
<1>2. CASE UNCHANGED vars
  BY <1>1, <1>2 DEF vars, IInv, LeaseHeld, Holds, Held
<1> QED BY <1>1, <1>2, TickHeld, ProcessHeld DEF Next, IInv

\* The process that leads is the one the record names, and nobody can take the
\* lease over before it has given up.
THEOREM LeaseIsHeld == Spec => []IInv
BY InitInv, NextInv, PTL DEF Spec

-----------------------------------------------------------------------------

\* A step of one process is a step of its role.
LEMMA RoleStep ==
  ASSUME IInv, NEW p \in Process, mode' = [mode EXCEPT ![p] = mode'[p]],
         LET r == RoleOf(mode[p])  s == RoleOf(mode'[p])
         IN  \/ r = s
             \/ r = "out" /\ s = "standby"
             \/ r = "standby" /\ s = "leading" /\ \A q \in Process : mode[q] # "leading"
             \/ r = "leading" /\ s = "lost"
             \/ r # "out" /\ s = "out"
  PROVE  [L!Step]_([q \in Process |-> RoleOf(mode[q])])
<1>1. [q \in Process |-> RoleOf(mode[q])]'
        = [[q \in Process |-> RoleOf(mode[q])] EXCEPT ![p] = RoleOf(mode'[p])]
  BY DEF IInv, TypeOK
<1>2. L!Become(p, RoleOf(mode'[p]))
  BY <1>1 DEF L!Become
<1>3. CASE RoleOf(mode'[p]) = RoleOf(mode[p])
  BY <1>1, <1>3
<1>4. (\A q \in Process : mode[q] # "leading") => \A q \in Process : RoleOf(mode[q]) # "leading"
  BY DEF IInv, TypeOK, Mode, RoleOf
<1>5. CASE RoleOf(mode'[p]) # RoleOf(mode[p])
  BY <1>2, <1>4, <1>5 DEF L!Step, L!Join, L!Lead, L!Lose, L!Leave
<1> QED BY <1>3, <1>5

\* The election implements Leadership: a process begins to lead only while no
\* other one leads.
THEOREM LeadershipImplemented == Spec => ImplementsLeadership
<1> DEFINE role == [p \in Process |-> RoleOf(mode[p])]
<1>1. Init => L!RoleInit
  BY DEF Init, L!RoleInit, RoleOf
<1>2. ASSUME IInv, IInv', [Next]_vars PROVE [L!Step]_role
  <2>1. CASE UNCHANGED mode
    BY <2>1
  <2>2. ASSUME NEW p \in Process, Elect(p) \/ Terminate(p) \/ Crash(p), mode' # mode
        PROVE  [L!Step]_role
    <3>1. mode' = [mode EXCEPT ![p] = mode'[p]]
      BY <2>2 DEF IInv, TypeOK, Elect, Campaign, Observe, Acquire, Reply, GiveUp, Release, Exit,
         Terminate, Lost, Stopped, Crash
    <3>2. CASE Reply(p)
      <4>1. mode[p] # "leading" => \A q \in Process : mode[q] # "leading"
        BY <1>2, <3>2, OneHolder DEF Reply, Holds
      <4>2. mode[p] \in {"standby", "leading"} /\ mode'[p] = "leading"
        BY <1>2, <3>2 DEF Reply, IInv, TypeOK, LeaseHeld
      <4> QED BY <1>2, <3>1, <4>1, <4>2, RoleStep DEF RoleOf
    <3>3. CASE ~Reply(p)
      <4>1. \/ mode[p] = "off" /\ mode'[p] = "standby"
            \/ mode[p] = "leading" /\ mode'[p] = "lost"
            \/ mode[p] = "lost" /\ mode'[p] = "released"
            \/ mode[p] # "off" /\ mode'[p] = "off"
        BY <1>2, <2>2, <3>3 DEF IInv, TypeOK, Elect, Campaign, Observe, Acquire, GiveUp, Release, Exit,
           Terminate, Lost, Stopped, Crash
      <4>2. mode[p] \in Mode
        BY <1>2 DEF IInv, TypeOK
      <4> QED BY <1>2, <3>1, <4>1, <4>2, RoleStep DEF RoleOf, Mode
    <3> QED BY <3>2, <3>3
  <2> QED BY <1>2, <2>1, <2>2 DEF Next, Tick, vars
<1> QED BY <1>1, <1>2, LeaseIsHeld, PTL DEF Spec, ImplementsLeadership, L!LeaderSpec

=============================================================================
