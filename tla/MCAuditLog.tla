----------------------------- MODULE MCAuditLog -----------------------------
(* Instances of AuditLog for TLC: two threads share one object, a third    *)
(* uses an object of its own on the same trail.                            *)
EXTENDS AuditLog, TLC

CONSTANTS t1, t2, t3, l1, l2

MCLogOf == (t1 :> l1) @@ (t2 :> l1) @@ (t3 :> l2)

\* The two threads of one object are interchangeable, and so are events.
Symmetry == Permutations(Event) \cup Permutations({t1, t2})
==============================================================================
