------------------------------ MODULE BrokerLock ------------------------------
(*****************************************************************************)
(* The broker's global mutex: withLock, recoverDeadLock, gcTombs and         *)
(* isLockOwnerAlive of src/state.js.                                         *)
(*                                                                           *)
(* The lock is a directory that holds owner.json.  It is taken by renaming a *)
(* staging directory onto the lock path, released by renaming the lock path  *)
(* away, and taken over from a dead owner by renaming it onto a tomb path    *)
(* derived from that owner's token.  Every action below is one system call   *)
(* on a shared path (or a step that touches no shared path), because any     *)
(* process may be suspended or killed between two of them.                   *)
(*                                                                           *)
(* A member of Call is one invocation of withLock.  Its token is a random    *)
(* UUID drawn once per invocation, so the call itself serves as the token,   *)
(* and tomb[o] is the path .lock-tomb-<pid of o>-<token of o>.               *)
(*****************************************************************************)
EXTENDS Naturals

CONSTANTS
    Call,                 \* invocations of withLock
    Process,              \* process incarnations: a (pid, start time) pair
    PidOf,                \* PidOf[c]: the process that makes call c
    Inner,                \* Inner[c]: the call that c's callback makes and awaits, or None
    Retry,                \* calls that retry contention (supervisor policy)
    Hurried,              \* calls whose deadline may pass before they are served
    UnreadableMax,        \* UNREADABLE_OWNER_DEADLINES_MAX
    SuspendBeyondTTL,     \* may a contender sleep longer than TOMB_TTL_MS?
    None,                 \* no directory at a path
    Foreign               \* a directory without an owner.json of our shape

ASSUME CallAssumption ==
    /\ PidOf \in [Call -> Process]
    /\ Inner \in [Call -> Call \cup {None}]
    /\ \A c \in Call : Inner[c] # None => PidOf[Inner[c]] = PidOf[c]
    /\ Retry \subseteq Call /\ Hurried \subseteq Call
    /\ None \notin Call /\ Foreign \notin Call /\ None # Foreign

ASSUME BoundAssumption ==
    /\ UnreadableMax \in Nat \ {0}
    /\ SuspendBeyondTTL \in BOOLEAN

VARIABLES
    alive,        \* processes that run
    pc,           \* where each call stands in withLock
    seen,         \* the dead owner a recovering call observed
    late,         \* has the call's deadline passed?
    unreadable,   \* unreadableDeadlines of the call
    lockOwner,    \* whose owner.json sits at the lock path
    lockStamp,    \* the stolen-at file at the lock path: absent, fresh or older than the TTL
    tombOwner,    \* the owner.json inside each tomb
    tombStamp     \* the stolen-at file inside each tomb

vars == <<alive, pc, seen, late, unreadable, lockOwner, lockStamp, tombOwner, tombStamp>>
dirs == <<lockOwner, lockStamp, tombOwner, tombStamp>>

Stamp == {"none", "fresh", "old"}
PC == {"idle", "stage", "read", "recheck", "stamp", "rename", "verify", "restore",
       "held", "release", "unlock", "done", "threw", "stranded"}

\* The states in which a call acts on a dead owner it has read earlier.
Recovering == {"recheck", "stamp", "rename", "verify"}
\* The call owns the lock: its callback runs or its finally block does.
Holding == {"held", "release", "unlock"}

TypeOK ==
    /\ alive \subseteq Process
    /\ pc \in [Call -> PC]
    /\ seen \in [Call -> Call \cup {None}]
    /\ \A c \in Call : pc[c] \in Recovering \cup {"restore"} => seen[c] \in Call
    /\ late \in [Call -> BOOLEAN]
    /\ unreadable \in [Call -> 0..UnreadableMax]
    /\ lockOwner \in Call \cup {None, Foreign}
    /\ lockStamp \in Stamp
    /\ tombOwner \in [Call -> Call \cup {None, Foreign}]
    /\ tombStamp \in [Call -> Stamp]

\* withLock has returned or thrown.
Ended == {"done", "threw", "stranded"}

Live(c) == PidOf[c] \in alive

Init ==
    /\ alive = Process
    /\ pc = [c \in Call |-> "idle"]
    /\ seen = [c \in Call |-> None]
    /\ late = [c \in Call |-> FALSE]
    /\ unreadable = [c \in Call |-> 0]
    /\ lockOwner \in {None, Foreign}
    /\ lockStamp = "none"
    /\ tombOwner = [c \in Call |-> None]
    /\ tombStamp = [c \in Call |-> "none"]

-----------------------------------------------------------------------------
(* Moving through withLock *)

Goto(c, l) == pc' = [pc EXCEPT ![c] = l]

\* A call whose attempt failed sleeps pollMs and stages again.
Again(c) == Goto(c, "stage") /\ UNCHANGED late

\* onContention, a jittered sleep and a fresh deadline.
BackOff(c) == Goto(c, "stage") /\ late' = [late EXCEPT ![c] = FALSE]

\* The call gives up with LockTimeoutError.
Throw(c) == Goto(c, "threw") /\ UNCHANGED late

\* recoverDeadLock answered false: sleep, or throw once the deadline has
\* passed, also for a call that retries contention.
LostRecovery(c) ==
    /\ seen' = [seen EXCEPT ![c] = None]
    /\ IF late[c] THEN Throw(c) ELSE Again(c)

\* gcTombs: every tomb whose stolen-at is older than the TTL is removed; one
\* without a readable stamp is kept.
GcTombs ==
    /\ tombOwner' = [o \in Call |-> IF tombStamp[o] = "old" THEN None ELSE tombOwner[o]]
    /\ tombStamp' = [o \in Call |-> IF tombStamp[o] = "old" THEN "none" ELSE tombStamp[o]]

\* Enter withLock: draw a token, set the deadline, collect old tombs.
Begin(c) ==
    /\ Live(c) /\ pc[c] = "idle"
    /\ \A o \in Call : Inner[o] = c => pc[o] = "held"
    /\ GcTombs
    /\ Goto(c, "stage")
    /\ UNCHANGED <<alive, seen, late, unreadable, lockOwner, lockStamp>>

\* rename(staging, lockDir): succeeds only when nothing is at the lock path.
StageRename(c) ==
    /\ Live(c) /\ pc[c] = "stage"
    /\ IF lockOwner = None
       THEN /\ lockOwner' = c
            /\ lockStamp' = "none"
            /\ Goto(c, "held")
       ELSE /\ Goto(c, "read")
            /\ UNCHANGED <<lockOwner, lockStamp>>
    /\ UNCHANGED <<alive, seen, late, unreadable, tombOwner, tombStamp>>

\* owner.json cannot be read: the holder has just released, or the directory
\* is foreign.  A retrying call throws at its UnreadableMax-th such deadline.
ReadUnreadable(c) ==
    /\ Live(c) /\ pc[c] = "read"
    /\ lockOwner \in {None, Foreign}
    /\ \/ ~late[c] /\ Again(c) /\ UNCHANGED unreadable
       \/ /\ late[c] /\ c \in Retry /\ unreadable[c] + 1 < UnreadableMax
          /\ BackOff(c)
          /\ unreadable' = [unreadable EXCEPT ![c] = @ + 1]
       \/ /\ late[c] /\ ~(c \in Retry /\ unreadable[c] + 1 < UnreadableMax)
          /\ Throw(c)
          /\ UNCHANGED unreadable
    /\ UNCHANGED <<alive, seen, dirs>>

\* Mutant: a holder in the same process is waited out like any other.
MutReadAliveWaitsOutOwnProcess(c) ==
    /\ Live(c) /\ pc[c] = "read"
    /\ lockOwner \in Call
    /\ unreadable' = [unreadable EXCEPT ![c] = 0]
    /\ \/ ~late[c] /\ Again(c)
       \/ late[c] /\ c \in Retry /\ BackOff(c)
       \/ late[c] /\ c \notin Retry /\ Throw(c)
    /\ UNCHANGED <<alive, seen, dirs>>

\* isLockOwnerAlive answers true: the owner runs, or it is gone and the probe
\* could not tell (ps failed, or no start time was recorded and the pid is
\* in use again).
ReadAlive(c) ==
    /\ Live(c) /\ pc[c] = "read"
    /\ lockOwner \in Call
    /\ unreadable' = [unreadable EXCEPT ![c] = 0]
    /\ \/ ~late[c] /\ Again(c)
       \/ late[c] /\ c \in Retry /\ PidOf[lockOwner] # PidOf[c] /\ BackOff(c)
       \/ late[c] /\ ~(c \in Retry /\ PidOf[lockOwner] # PidOf[c]) /\ Throw(c)
    /\ UNCHANGED <<alive, seen, dirs>>

\* isLockOwnerAlive answers false: only ever for a process that is gone.
ReadDead(c) ==
    /\ Live(c) /\ pc[c] = "read"
    /\ lockOwner \in Call /\ ~Live(lockOwner)
    /\ unreadable' = [unreadable EXCEPT ![c] = 0]
    /\ seen' = [seen EXCEPT ![c] = lockOwner]
    /\ Goto(c, "recheck")
    /\ UNCHANGED <<alive, late, dirs>>

-----------------------------------------------------------------------------
(* recoverDeadLock *)

\* Re-read owner.json: is it still the dead owner's?
Recheck(c) ==
    /\ Live(c) /\ pc[c] = "recheck"
    /\ \/ lockOwner = seen[c] /\ Goto(c, "stamp") /\ UNCHANGED <<seen, late>>
       \/ lockOwner # seen[c] /\ LostRecovery(c)
    /\ UNCHANGED <<alive, unreadable, dirs>>

\* Write stolen-at into whatever directory is at the lock path now.
StampTakeover(c) ==
    /\ Live(c) /\ pc[c] = "stamp"
    /\ \/ /\ lockOwner # None
          /\ lockStamp' = "fresh"
          /\ Goto(c, "rename")
          /\ UNCHANGED <<seen, late>>
       \/ lockOwner = None /\ LostRecovery(c) /\ UNCHANGED lockStamp
    /\ UNCHANGED <<alive, unreadable, lockOwner, tombOwner, tombStamp>>

\* Mutant: the takeover replaces a tomb that exists.
MutRenameToTombOverwrites(c) ==
    /\ Live(c) /\ pc[c] = "rename"
    /\ \/ /\ lockOwner # None
          /\ tombOwner' = [tombOwner EXCEPT ![seen[c]] = lockOwner]
          /\ tombStamp' = [tombStamp EXCEPT ![seen[c]] = lockStamp]
          /\ lockOwner' = None /\ lockStamp' = "none"
          /\ Goto(c, "verify")
          /\ UNCHANGED <<seen, late>>
       \/ lockOwner = None /\ LostRecovery(c) /\ UNCHANGED dirs
    /\ UNCHANGED <<alive, unreadable>>

\* rename(lockDir, tomb): fails when the tomb exists or the lock path is free.
RenameToTomb(c) ==
    /\ Live(c) /\ pc[c] = "rename"
    /\ \/ /\ lockOwner # None /\ tombOwner[seen[c]] = None
          /\ tombOwner' = [tombOwner EXCEPT ![seen[c]] = lockOwner]
          /\ tombStamp' = [tombStamp EXCEPT ![seen[c]] = lockStamp]
          /\ lockOwner' = None /\ lockStamp' = "none"
          /\ Goto(c, "verify")
          /\ UNCHANGED <<seen, late>>
       \/ /\ ~(lockOwner # None /\ tombOwner[seen[c]] = None)
          /\ LostRecovery(c)
          /\ UNCHANGED dirs
    /\ UNCHANGED <<alive, unreadable>>

\* Mutant: the winner deletes the tomb at once.
MutVerifyMovedDropsTomb(c) ==
    /\ Live(c) /\ pc[c] = "verify"
    /\ \/ /\ tombOwner[seen[c]] = seen[c]
          /\ seen' = [seen EXCEPT ![c] = None]
          /\ tombOwner' = [tombOwner EXCEPT ![seen[c]] = None]
          /\ tombStamp' = [tombStamp EXCEPT ![seen[c]] = "none"]
          /\ IF late[c] /\ c \notin Retry THEN Throw(c) ELSE Again(c)
       \/ /\ tombOwner[seen[c]] # seen[c]
          /\ Goto(c, "restore")
          /\ UNCHANGED <<seen, late, tombOwner, tombStamp>>
    /\ UNCHANGED <<alive, unreadable, lockOwner, lockStamp>>

\* Mutant: the winner trusts the rename and does not look at what it moved.
MutVerifyMovedTrustsRename(c) ==
    /\ Live(c) /\ pc[c] = "verify"
    /\ seen' = [seen EXCEPT ![c] = None]
    /\ IF late[c] /\ c \notin Retry THEN Throw(c) ELSE Again(c)
    /\ UNCHANGED <<alive, unreadable, dirs>>

\* Read the moved owner.json: ours (the takeover is won and the lock path is
\* free), or somebody else's.  Winning grants nothing by itself.
VerifyMoved(c) ==
    /\ Live(c) /\ pc[c] = "verify"
    /\ \/ /\ tombOwner[seen[c]] = seen[c]
          /\ seen' = [seen EXCEPT ![c] = None]
          /\ IF late[c] /\ c \notin Retry THEN Throw(c) ELSE Again(c)
       \/ tombOwner[seen[c]] # seen[c] /\ Goto(c, "restore") /\ UNCHANGED <<seen, late>>
    /\ UNCHANGED <<alive, unreadable, dirs>>

\* rename(tomb, lockDir): put a displaced live lock back, or fail loudly.
RestoreMoved(c) ==
    /\ Live(c) /\ pc[c] = "restore"
    /\ \/ /\ tombOwner[seen[c]] # None /\ lockOwner = None
          /\ lockOwner' = tombOwner[seen[c]] /\ lockStamp' = tombStamp[seen[c]]
          /\ tombOwner' = [tombOwner EXCEPT ![seen[c]] = None]
          /\ tombStamp' = [tombStamp EXCEPT ![seen[c]] = "none"]
          /\ LostRecovery(c)
       \/ /\ ~(tombOwner[seen[c]] # None /\ lockOwner = None)
          /\ Goto(c, "stranded")
          /\ UNCHANGED <<seen, late, dirs>>
    /\ UNCHANGED <<alive, unreadable>>

-----------------------------------------------------------------------------
(* The callback and the finally block *)

\* fn returns or throws, once a nested call it awaits has ended.
CallbackEnds(c) ==
    /\ Live(c) /\ pc[c] = "held"
    /\ Inner[c] # None => pc[Inner[c]] \in Ended
    /\ Goto(c, "release")
    /\ UNCHANGED <<alive, seen, late, unreadable, dirs>>

\* Compare the token at the lock path with our own.
ReleaseCheck(c) ==
    /\ Live(c) /\ pc[c] = "release"
    /\ Goto(c, IF lockOwner = c THEN "unlock" ELSE "done")
    /\ UNCHANGED <<alive, seen, late, unreadable, dirs>>

\* rename(lockDir, trash), then drop the trash directory.
Unlock(c) ==
    /\ Live(c) /\ pc[c] = "unlock"
    /\ lockOwner' = None /\ lockStamp' = "none"
    /\ Goto(c, "done")
    /\ UNCHANGED <<alive, seen, late, unreadable, tombOwner, tombStamp>>

-----------------------------------------------------------------------------
(* The environment *)

\* The call's deadline passes while it waits.
DeadlinePasses(c) ==
    /\ Live(c) /\ c \in Hurried /\ ~late[c]
    /\ pc[c] \in {"stage", "read"} \cup Recovering \cup {"restore"}
    /\ late' = [late EXCEPT ![c] = TRUE]
    /\ UNCHANGED <<alive, pc, seen, unreadable, dirs>>

\* TOMB_TTL_MS passes: every stamp written so far is now older than the TTL.
\* Unless SuspendBeyondTTL, no call stays in the middle of a takeover so long.
Elapse ==
    /\ SuspendBeyondTTL \/ \A c \in Call : Live(c) => pc[c] \notin Recovering
    /\ lockStamp' = IF lockStamp = "fresh" THEN "old" ELSE lockStamp
    /\ tombStamp' = [o \in Call |-> IF tombStamp[o] = "fresh" THEN "old" ELSE tombStamp[o]]
    /\ UNCHANGED <<alive, pc, seen, late, unreadable, lockOwner, tombOwner>>

\* A process is killed at any point of any of its calls.
Crash(p) ==
    /\ p \in alive
    /\ alive' = alive \ {p}
    /\ UNCHANGED <<pc, seen, late, unreadable, dirs>>

Step(c) ==
    \/ Begin(c) \/ StageRename(c)
    \/ ReadUnreadable(c) \/ ReadAlive(c) \/ ReadDead(c)
    \/ Recheck(c) \/ StampTakeover(c) \/ RenameToTomb(c) \/ VerifyMoved(c) \/ RestoreMoved(c)
    \/ CallbackEnds(c) \/ ReleaseCheck(c) \/ Unlock(c)

Next ==
    \/ \E c \in Call : Step(c) \/ DeadlinePasses(c)
    \/ Elapse
    \/ \E p \in Process : Crash(p)

Spec == Init /\ [][Next]_vars

\* A running process keeps executing, timers fire, and a probe of a dead owner
\* does not fail for ever.
FairSpec ==
    /\ Spec
    /\ \A c \in Call : WF_vars(Step(c)) /\ WF_vars(DeadlinePasses(c)) /\ SF_vars(ReadDead(c))

-----------------------------------------------------------------------------
(* Properties *)

Holds(c) == Live(c) /\ pc[c] \in Holding

\* Two running processes never execute their callbacks at the same time,
\* whatever crashes, stale observations and takeovers precede.
MutualExclusion == \A c, d \in Call : Holds(c) /\ Holds(d) => c = d

\* A live holder is never displaced: while its callback or its release runs,
\* the owner.json at the lock path is its own, so its release frees its own lock.
LiveHolderKeepsLock == \A c \in Call : Holds(c) => lockOwner = c

\* Why the two invariants above are inductive.  Whoever owns the lock path is a
\* holder or dead; a tomb holds the dead owner it is named after; and a call
\* that once saw the dead owner o still finds o at the lock path, or finds o's
\* tomb, whose stamp is too young for gcTombs.
OwnerHoldsOrIsDead == \A c \in Call : lockOwner = c => Holds(c) \/ ~Live(c)

TombsAreOfTheDead ==
    \A o \in Call : tombOwner[o] # None =>
        tombOwner[o] = o /\ ~Live(o) /\ lockOwner # o

StaleObservationIsHarmless ==
    \A c \in Call : Live(c) /\ pc[c] \in Recovering =>
        /\ seen[c] \in Call /\ ~Live(seen[c])
        /\ \/ lockOwner = seen[c] /\ pc[c] # "verify"
           \/ tombOwner[seen[c]] # None /\ tombStamp[seen[c]] = "fresh"

TakeoverIsStamped ==
    \A c \in Call : Live(c) /\ pc[c] = "rename" /\ lockOwner = seen[c] => lockStamp = "fresh"

NothingToRestore == \A c \in Call : Live(c) => pc[c] # "restore"

LockInv ==
    /\ LiveHolderKeepsLock
    /\ OwnerHoldsOrIsDead
    /\ TombsAreOfTheDead
    /\ StaleObservationIsHarmless
    /\ TakeoverIsStamped
    /\ NothingToRestore

HolderOf == IF \E c \in Call : Holds(c) THEN CHOOSE c \in Call : Holds(c) ELSE None
Served == {c \in Call : pc[c] \in Holding \cup {"done"}}
AbstractLock == INSTANCE Mutex WITH holder <- HolderOf, served <- Served

\* The rename protocol, crashes and takeovers included, implements the mutex the
\* broker's callers rely on: the lock passes on only after its holder left.
ImplementsMutex == AbstractLock!Spec

\* A contender suspended beyond the TTL may move a live lock onto the tomb of
\* the dead owner it once saw.  No such lock is left there unnoticed: the call
\* that moved it still has to verify or restore it, or has failed loudly (or
\* was killed at that point).
MisfiledLockIsAnswered ==
    \A o \in Call : tombOwner[o] \notin {None, o} =>
        \E d \in Call : seen[d] = o /\ pc[d] \in {"verify", "restore", "stranded"}

\* Every call of a running process that starts to wait for the lock, up to a
\* deadline, acquires it or throws: a dead owner, a foreign directory and a
\* nested acquisition in the same process do not block it for ever.
EveryCallEnds ==
    \A c \in Hurried : pc[c] = "stage" ~> (pc[c] \in Holding \cup Ended \/ ~Live(c))
=============================================================================
