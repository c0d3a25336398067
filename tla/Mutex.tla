-------------------------------- MODULE Mutex --------------------------------
(*****************************************************************************)
(* What withLock promises its callers: callbacks run one at a time, each     *)
(* call's at most once, and the lock becomes free only because its holder    *)
(* leaves, by returning or by dying.  Every other module of the project      *)
(* relies on this and models a callback under the lock as one step.          *)
(*****************************************************************************)
CONSTANTS Call, None

VARIABLES holder,    \* the call whose callback runs, or None
          served     \* the calls that have been granted the lock

Init == holder = None /\ served = {}

Acquire(c) ==
    /\ holder = None /\ c \notin served
    /\ holder' = c
    /\ served' = served \cup {c}

Leave ==
    /\ holder # None
    /\ holder' = None
    /\ UNCHANGED served

Next == Leave \/ \E c \in Call : Acquire(c)

Spec == Init /\ [][Next]_<<holder, served>>
=============================================================================
