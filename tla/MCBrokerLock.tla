---------------------------- MODULE MCBrokerLock ----------------------------
(* Instances of BrokerLock for TLC: which process makes which call. *)
EXTENDS BrokerLock, TLC

CONSTANTS c1, c2, c3, c4, p1, p2, p3

\* Three processes, one call each.
PidOf3 == (c1 :> p1) @@ (c2 :> p2) @@ (c3 :> p3)
Inner3 == [c \in {c1, c2, c3} |-> None]

\* Four calls of three processes.
PidOf4 == PidOf3 @@ (c4 :> p2)
Inner4 == [c \in {c1, c2, c3, c4} |-> None]

\* c1's callback awaits c2 in the same process; c3 contends from another.
PidOfNested == (c1 :> p1) @@ (c2 :> p1) @@ (c3 :> p2)
InnerNested == (c1 :> c2) @@ (c2 :> None) @@ (c3 :> None)
PidOfNested4 == PidOfNested @@ (c4 :> p3)
InnerNested4 == InnerNested @@ (c4 :> None)
=============================================================================
