------------------------------ MODULE Leadership ------------------------------
(***************************************************************************)
(* What leader election promises the disk managers of a cluster: a process *)
(* begins to lead only while no other one leads.  A process that has lost  *)
(* the leadership may go on working for a while, until it has left.        *)
(***************************************************************************)
CONSTANT Process

VARIABLE role

Role == {"out", "standby", "leading", "lost"}

RoleTypeOK == role \in [Process -> Role]

OneLeader ==
  \A p, q \in Process : role[p] = "leading" /\ role[q] = "leading" => p = q

RoleInit == role = [p \in Process |-> "out"]

Become(p, r) == role' = [role EXCEPT ![p] = r]

\* block.New has scanned the host; the process asks for the lease.
Join(p) == role[p] = "out" /\ Become(p, "standby")

\* Mutant: whoever asks leads.
LeadAnyway(p) ==
  /\ role[p] = "standby"
  /\ Become(p, "leading")

Lead(p) ==
  /\ role[p] = "standby"
  /\ \A q \in Process : role[q] # "leading"
  /\ Become(p, "leading")

Lose(p) == role[p] = "leading" /\ Become(p, "lost")

Leave(p) == role[p] # "out" /\ Become(p, "out")

Step == \E p \in Process : Join(p) \/ Lead(p) \/ Lose(p) \/ Leave(p)

LeaderSpec == RoleInit /\ [][Step]_role

=============================================================================
