------------------------------ MODULE Lifecycle ------------------------------
(***************************************************************************)
(* What the finalizer handling promises of every object it looks after, to *)
(* a user of the API who sees no versions, caches, queues or retries: an   *)
(* object that is guarded goes only after it was marked for deletion, and  *)
(* it stays marked until it is gone.                                       *)
(***************************************************************************)
CONSTANT Object

VARIABLE life

\* "unguarded" objects have no finalizer yet; only "terminating" ones carry
\* the mark for deletion.
Stage == {"absent", "unguarded", "guarded", "terminating"}

TypeOK == life \in [Object -> Stage]

Init == life = [o \in Object |-> "absent"]

Becomes(o, stage) == life' = [life EXCEPT ![o] = stage]

Create(o) == life[o] = "absent" /\ Becomes(o, "unguarded")

Protect(o) == life[o] = "unguarded" /\ Becomes(o, "guarded")

\* Deleting an object that nothing guards removes it at once.
Delete(o) ==
  \/ life[o] = "unguarded" /\ Becomes(o, "absent")
  \/ life[o] = "guarded"   /\ Becomes(o, "terminating")

Release(o) == life[o] = "terminating" /\ Becomes(o, "absent")

Next == \E o \in Object : Create(o) \/ Protect(o) \/ Delete(o) \/ Release(o)

Spec == Init /\ [][Next]_life

=============================================================================
