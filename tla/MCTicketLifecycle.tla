-------------------------- MODULE MCTicketLifecycle --------------------------
(* Instances of TicketLifecycle for TLC. *)
EXTENDS TicketLifecycle, TLC

CONSTANTS s1, s2, s3, s4, t1, t2, t3, k1, k2, c1, c2

\* Three supervisors, a ticket each: t1 and t2 conflict, t3 shares t2's lane.
TicketOf3 == [s \in Sup |-> CASE s = s1 -> t1 [] s = s2 -> t2 [] s = s3 -> t3]
KeyOf3 == [t \in Ticket |-> IF t = t1 THEN k1 ELSE k2]
Conflicts12 == {<<k1, k2>>, <<k2, k1>>}
One == [t \in Ticket |-> 1]

\* All supervisors but s1 submit the same id.
TicketOfDup == [s \in Sup |-> IF s = s1 THEN t1 ELSE t2]
KeySame == [t \in Ticket |-> k1]

TargetOne == [c \in Canceller |-> t1]

CancelSymmetry == Permutations(Canceller)

AnyPoint == PC \ {"off", "exited", "dead"}
\* Everywhere but in the window between the lease and its process group id.
BeforeOrAfterSpawn == AnyPoint \ {"admitted", "spawned"}
=============================================================================
