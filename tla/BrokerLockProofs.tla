--------------------------- MODULE BrokerLockProofs ---------------------------
(*****************************************************************************)
(* Machine-checked proofs about BrokerLock, for every set of calls and       *)
(* processes: type correctness, the inductive invariant LockInv, mutual      *)
(* exclusion and the refinement of Mutex.  These two assume that no          *)
(* contender is suspended in the middle of a takeover for longer than        *)
(* TOMB_TTL_MS; what becomes of a lock that was moved by mistake does not.   *)
(*****************************************************************************)
EXTENDS BrokerLock, TLAPS

\* Every variable keeps its type under every step of withLock, a deadline, the
\* passing of the TTL and a crash.
THEOREM TypeCorrect == Spec => []TypeOK
<1> USE CallAssumption, BoundAssumption DEF TypeOK, Stamp, PC
<1>1. Init => TypeOK
  BY DEF Init, Recovering
<1>2. TypeOK /\ [Next]_vars => TypeOK'
  <2> SUFFICES ASSUME TypeOK, [Next]_vars PROVE TypeOK'
    OBVIOUS
  <2> USE DEF dirs, Goto, Again, BackOff, Throw, LostRecovery, Holding, Recovering
  <2>1. ASSUME NEW c \in Call, Begin(c) PROVE TypeOK'
    BY <2>1 DEF Begin, GcTombs
  <2>2. ASSUME NEW c \in Call, StageRename(c) PROVE TypeOK'
    BY <2>2 DEF StageRename
  <2>3. ASSUME NEW c \in Call, ReadUnreadable(c) PROVE TypeOK'
    <3> USE <2>3
    <3>1. late' \in [Call -> BOOLEAN] /\ pc' \in [Call -> PC]
      <4>1. Again(c) \/ BackOff(c) \/ Throw(c)
        BY DEF ReadUnreadable
      <4>2. QED
        BY <4>1
    <3>2. unreadable' \in [Call -> 0..UnreadableMax]
      <4>1. CASE UNCHANGED unreadable
        BY <4>1
      <4>2. CASE /\ unreadable[c] + 1 < UnreadableMax
                 /\ unreadable' = [unreadable EXCEPT ![c] = unreadable[c] + 1]
        <5>1. unreadable[c] + 1 \in 0..UnreadableMax
          BY <4>2
        <5>2. QED
          BY <4>2, <5>1
      <4>3. QED
        BY <4>1, <4>2 DEF ReadUnreadable
    <3>3. QED
      BY <3>1, <3>2 DEF ReadUnreadable
  <2>4. ASSUME NEW c \in Call, ReadAlive(c) PROVE TypeOK'
    <3>1. Again(c) \/ BackOff(c) \/ Throw(c)
      BY <2>4 DEF ReadAlive
    <3>2. late' \in [Call -> BOOLEAN] /\ pc' \in [Call -> PC]
      BY <3>1
    <3>3. unreadable' \in [Call -> 0..UnreadableMax]
      BY <2>4 DEF ReadAlive
    <3>4. QED
      BY <2>4, <3>2, <3>3 DEF ReadAlive
  <2>5. ASSUME NEW c \in Call, ReadDead(c) PROVE TypeOK'
    BY <2>5 DEF ReadDead
  <2>6. ASSUME NEW c \in Call, Recheck(c) PROVE TypeOK'
    BY <2>6 DEF Recheck
  <2>7. ASSUME NEW c \in Call, StampTakeover(c) PROVE TypeOK'
    BY <2>7 DEF StampTakeover
  <2>8. ASSUME NEW c \in Call, RenameToTomb(c) PROVE TypeOK'
    BY <2>8 DEF RenameToTomb
  <2>9. ASSUME NEW c \in Call, VerifyMoved(c) PROVE TypeOK'
    BY <2>9 DEF VerifyMoved
  <2>10. ASSUME NEW c \in Call, RestoreMoved(c) PROVE TypeOK'
    <3>1. CASE tombOwner[seen[c]] # None /\ lockOwner = None
      <4>1. seen[c] \in Call
        BY <2>10 DEF RestoreMoved
      <4>2. lockOwner' \in Call \cup {None, Foreign} /\ lockStamp' \in Stamp
        BY <2>10, <3>1, <4>1 DEF RestoreMoved
      <4>3. QED
        BY <2>10, <3>1, <4>1, <4>2 DEF RestoreMoved
    <3>2. CASE ~(tombOwner[seen[c]] # None /\ lockOwner = None)
      BY <2>10, <3>2 DEF RestoreMoved
    <3>3. QED
      BY <3>1, <3>2
  <2>11. ASSUME NEW c \in Call, CallbackEnds(c) PROVE TypeOK'
    BY <2>11 DEF CallbackEnds
  <2>12. ASSUME NEW c \in Call, ReleaseCheck(c) PROVE TypeOK'
    BY <2>12 DEF ReleaseCheck
  <2>13. ASSUME NEW c \in Call, Unlock(c) PROVE TypeOK'
    BY <2>13 DEF Unlock
  <2>14. ASSUME NEW c \in Call, DeadlinePasses(c) PROVE TypeOK'
    BY <2>14 DEF DeadlinePasses
  <2>15. CASE Elapse
    BY <2>15 DEF Elapse
  <2>16. ASSUME NEW p \in Process, Crash(p) PROVE TypeOK'
    BY <2>16 DEF Crash
  <2>17. CASE UNCHANGED vars
    BY <2>17 DEF vars
  <2>18. QED
    BY <2>1, <2>2, <2>3, <2>4, <2>5, <2>6, <2>7, <2>8, <2>9, <2>10, <2>11, <2>12,
       <2>13, <2>14, <2>15, <2>16, <2>17 DEF Next, Step
<1>3. QED
  BY <1>1, <1>2, PTL DEF Spec

-----------------------------------------------------------------------------
(* The inductive invariant *)

\* Steps that touch neither a directory nor the set of running processes, and
\* that neither start nor advance a takeover, preserve LockInv.
LEMMA QuietStep ==
    ASSUME TypeOK, TypeOK', LockInv, NEW c \in Call,
           UNCHANGED <<alive, dirs>>,
           \A d \in Call : d # c => pc'[d] = pc[d] /\ seen'[d] = seen[d],
           pc'[c] \notin Recovering \cup Holding \cup {"restore"},
           pc[c] \notin Holding \/ lockOwner # c
    PROVE  LockInv'
<1> USE CallAssumption DEF dirs, Live, Holds, Recovering, Holding
<1>1. LiveHolderKeepsLock' /\ OwnerHoldsOrIsDead'
  BY DEF LockInv, LiveHolderKeepsLock, OwnerHoldsOrIsDead
<1>2. TombsAreOfTheDead'
  BY DEF LockInv, TombsAreOfTheDead
<1>3. StaleObservationIsHarmless' /\ TakeoverIsStamped'
  BY DEF LockInv, StaleObservationIsHarmless, TakeoverIsStamped
<1>4. NothingToRestore'
  BY DEF LockInv, NothingToRestore
<1>5. QED
  BY <1>1, <1>2, <1>3, <1>4 DEF LockInv

\* While no contender outlives the TTL, every step preserves LockInv.
LEMMA LockInvStep ==
    ASSUME ~SuspendBeyondTTL, TypeOK, TypeOK', LockInv, [Next]_vars
    PROVE  LockInv'
<1> USE CallAssumption
<1>1. ASSUME NEW c \in Call, Begin(c) PROVE LockInv'
  <2> USE <1>1 DEF Begin, GcTombs, Goto, Live, Holds, Recovering, Holding, TypeOK, LockInv
  <2>1. LiveHolderKeepsLock' /\ OwnerHoldsOrIsDead' /\ NothingToRestore'
    BY DEF LiveHolderKeepsLock, OwnerHoldsOrIsDead, NothingToRestore
  <2>2. TombsAreOfTheDead'
    BY DEF TombsAreOfTheDead
  <2>3. StaleObservationIsHarmless' /\ TakeoverIsStamped'
    BY DEF StaleObservationIsHarmless, TakeoverIsStamped
  <2>4. QED
    BY <2>1, <2>2, <2>3
<1>2. ASSUME NEW c \in Call, StageRename(c) PROVE LockInv'
  <2> USE <1>2 DEF StageRename, Goto, Live, Holds, Recovering, Holding, TypeOK, LockInv
  <2>1. LiveHolderKeepsLock' /\ OwnerHoldsOrIsDead' /\ NothingToRestore'
    BY DEF LiveHolderKeepsLock, OwnerHoldsOrIsDead, NothingToRestore
  <2>2. TombsAreOfTheDead'
    BY DEF TombsAreOfTheDead
  <2>3. StaleObservationIsHarmless' /\ TakeoverIsStamped'
    BY DEF StaleObservationIsHarmless, TakeoverIsStamped
  <2>4. QED
    BY <2>1, <2>2, <2>3
<1>3. ASSUME NEW c \in Call, ReadUnreadable(c) PROVE LockInv'
  BY <1>3, QuietStep
     DEF ReadUnreadable, Again, BackOff, Throw, Goto, dirs, Recovering, Holding, TypeOK
<1>4. ASSUME NEW c \in Call, ReadAlive(c) PROVE LockInv'
  BY <1>4, QuietStep
     DEF ReadAlive, Again, BackOff, Throw, Goto, dirs, Recovering, Holding, TypeOK
<1>5. ASSUME NEW c \in Call, ReadDead(c) PROVE LockInv'
  <2> USE <1>5 DEF ReadDead, Goto, dirs, Live, Holds, Recovering, Holding, TypeOK, LockInv
  <2>1. LiveHolderKeepsLock' /\ OwnerHoldsOrIsDead' /\ NothingToRestore'
    BY DEF LiveHolderKeepsLock, OwnerHoldsOrIsDead, NothingToRestore
  <2>2. TombsAreOfTheDead'
    BY DEF TombsAreOfTheDead
  <2>3. StaleObservationIsHarmless' /\ TakeoverIsStamped'
    BY DEF StaleObservationIsHarmless, TakeoverIsStamped
  <2>4. QED
    BY <2>1, <2>2, <2>3
<1>6. ASSUME NEW c \in Call, Recheck(c) PROVE LockInv'
  <2>1. CASE LostRecovery(c) /\ UNCHANGED <<alive, dirs>>
    BY <1>6, <2>1, QuietStep
       DEF Recheck, LostRecovery, Again, Throw, Goto, dirs, Recovering, Holding, TypeOK
  <2>2. CASE lockOwner = seen[c] /\ Goto(c, "stamp") /\ UNCHANGED <<seen, late>>
    <3> USE <1>6, <2>2 DEF Recheck, Goto, dirs, Live, Holds, Recovering, Holding, TypeOK, LockInv
    <3>1. LiveHolderKeepsLock' /\ OwnerHoldsOrIsDead' /\ NothingToRestore'
      BY DEF LiveHolderKeepsLock, OwnerHoldsOrIsDead, NothingToRestore
    <3>2. TombsAreOfTheDead'
      BY DEF TombsAreOfTheDead
    <3>3. StaleObservationIsHarmless' /\ TakeoverIsStamped'
      BY DEF StaleObservationIsHarmless, TakeoverIsStamped
    <3>4. QED
      BY <3>1, <3>2, <3>3
  <2>3. QED
    BY <1>6, <2>1, <2>2 DEF Recheck
<1>7. ASSUME NEW c \in Call, StampTakeover(c) PROVE LockInv'
  <2>1. CASE lockOwner = None
    BY <1>7, <2>1, QuietStep
       DEF StampTakeover, LostRecovery, Again, Throw, Goto, dirs, Recovering, Holding, TypeOK
  <2>2. CASE lockOwner # None
    <3> USE <1>7, <2>2 DEF StampTakeover, Goto, Live, Holds, Recovering, Holding, TypeOK, LockInv
    <3>1. LiveHolderKeepsLock' /\ OwnerHoldsOrIsDead' /\ NothingToRestore'
      BY DEF LiveHolderKeepsLock, OwnerHoldsOrIsDead, NothingToRestore
    <3>2. TombsAreOfTheDead'
      BY DEF TombsAreOfTheDead
    <3>3. StaleObservationIsHarmless' /\ TakeoverIsStamped'
      BY DEF StaleObservationIsHarmless, TakeoverIsStamped
    <3>4. QED
      BY <3>1, <3>2, <3>3
  <2>3. QED
    BY <2>1, <2>2
<1>8. ASSUME NEW c \in Call, RenameToTomb(c) PROVE LockInv'
  <2>1. CASE ~(lockOwner # None /\ tombOwner[seen[c]] = None)
    BY <1>8, <2>1, QuietStep
       DEF RenameToTomb, LostRecovery, Again, Throw, Goto, dirs, Recovering, Holding, TypeOK
  <2>2. CASE lockOwner # None /\ tombOwner[seen[c]] = None
    <3> USE <1>8, <2>2 DEF RenameToTomb, Goto, Live, Holds, Recovering, Holding, TypeOK, LockInv
    <3>1. /\ seen[c] \in Call /\ ~Live(seen[c])
          /\ lockOwner = seen[c] /\ lockStamp = "fresh"
      BY DEF StaleObservationIsHarmless, TakeoverIsStamped
    <3>2. LiveHolderKeepsLock' /\ OwnerHoldsOrIsDead' /\ NothingToRestore'
      BY <3>1 DEF LiveHolderKeepsLock, OwnerHoldsOrIsDead, NothingToRestore
    <3>3. TombsAreOfTheDead'
      BY <3>1 DEF TombsAreOfTheDead
    <3>4. StaleObservationIsHarmless' /\ TakeoverIsStamped'
      BY <3>1 DEF StaleObservationIsHarmless, TakeoverIsStamped
    <3>5. QED
      BY <3>2, <3>3, <3>4
  <2>3. QED
    BY <2>1, <2>2
<1>9. ASSUME NEW c \in Call, VerifyMoved(c) PROVE LockInv'
  <2>1. tombOwner[seen[c]] = seen[c]
    BY <1>9 DEF VerifyMoved, LockInv, StaleObservationIsHarmless, TombsAreOfTheDead, Recovering
  <2>2. QED
    BY <1>9, <2>1, QuietStep
       DEF VerifyMoved, Again, Throw, Goto, dirs, Recovering, Holding, TypeOK
<1>10. ASSUME NEW c \in Call, RestoreMoved(c) PROVE LockInv'
  BY <1>10 DEF RestoreMoved, LockInv, NothingToRestore
<1>11. ASSUME NEW c \in Call, CallbackEnds(c) PROVE LockInv'
  <2> USE <1>11 DEF CallbackEnds, Goto, dirs, Live, Holds, Recovering, Holding, TypeOK, LockInv
  <2>1. LiveHolderKeepsLock' /\ OwnerHoldsOrIsDead' /\ NothingToRestore'
    BY DEF LiveHolderKeepsLock, OwnerHoldsOrIsDead, NothingToRestore
  <2>2. TombsAreOfTheDead'
    BY DEF TombsAreOfTheDead
  <2>3. StaleObservationIsHarmless' /\ TakeoverIsStamped'
    BY DEF StaleObservationIsHarmless, TakeoverIsStamped
  <2>4. QED
    BY <2>1, <2>2, <2>3
<1>12. ASSUME NEW c \in Call, ReleaseCheck(c) PROVE LockInv'
  <2> USE <1>12 DEF ReleaseCheck, Goto, dirs, Live, Holds, Recovering, Holding, TypeOK, LockInv
  <2>1. lockOwner = c
    BY DEF LiveHolderKeepsLock
  <2>2. LiveHolderKeepsLock' /\ OwnerHoldsOrIsDead' /\ NothingToRestore'
    BY <2>1 DEF LiveHolderKeepsLock, OwnerHoldsOrIsDead, NothingToRestore
  <2>3. TombsAreOfTheDead'
    BY DEF TombsAreOfTheDead
  <2>4. StaleObservationIsHarmless' /\ TakeoverIsStamped'
    BY <2>1 DEF StaleObservationIsHarmless, TakeoverIsStamped
  <2>5. QED
    BY <2>2, <2>3, <2>4
<1>13. ASSUME NEW c \in Call, Unlock(c) PROVE LockInv'
  <2> USE <1>13 DEF Unlock, Goto, Live, Holds, Recovering, Holding, TypeOK, LockInv
  <2>1. lockOwner = c
    BY DEF LiveHolderKeepsLock
  <2>2. LiveHolderKeepsLock' /\ OwnerHoldsOrIsDead' /\ NothingToRestore'
    BY <2>1 DEF LiveHolderKeepsLock, OwnerHoldsOrIsDead, NothingToRestore
  <2>3. TombsAreOfTheDead'
    BY DEF TombsAreOfTheDead
  <2>4. StaleObservationIsHarmless' /\ TakeoverIsStamped'
    BY <2>1 DEF StaleObservationIsHarmless, TakeoverIsStamped
  <2>5. QED
    BY <2>2, <2>3, <2>4
<1>14. ASSUME NEW c \in Call, DeadlinePasses(c) PROVE LockInv'
  BY <1>14 DEF DeadlinePasses, dirs, Live, Holds, LockInv, LiveHolderKeepsLock,
     OwnerHoldsOrIsDead, TombsAreOfTheDead, StaleObservationIsHarmless, TakeoverIsStamped,
     NothingToRestore
<1>15. CASE Elapse
  <2> USE <1>15 DEF Elapse, Live, Holds, Recovering, Holding, TypeOK, LockInv
  <2>1. LiveHolderKeepsLock' /\ OwnerHoldsOrIsDead' /\ NothingToRestore'
    BY DEF LiveHolderKeepsLock, OwnerHoldsOrIsDead, NothingToRestore
  <2>2. TombsAreOfTheDead'
    BY DEF TombsAreOfTheDead
  <2>3. StaleObservationIsHarmless' /\ TakeoverIsStamped'
    BY DEF StaleObservationIsHarmless, TakeoverIsStamped
  <2>4. QED
    BY <2>1, <2>2, <2>3
<1>16. ASSUME NEW p \in Process, Crash(p) PROVE LockInv'
  <2> USE <1>16 DEF Crash, dirs, Live, Holds, Recovering, Holding, TypeOK, LockInv
  <2>1. LiveHolderKeepsLock' /\ OwnerHoldsOrIsDead' /\ NothingToRestore'
    BY DEF LiveHolderKeepsLock, OwnerHoldsOrIsDead, NothingToRestore
  <2>2. TombsAreOfTheDead'
    BY DEF TombsAreOfTheDead
  <2>3. StaleObservationIsHarmless' /\ TakeoverIsStamped'
    BY DEF StaleObservationIsHarmless, TakeoverIsStamped
  <2>4. QED
    BY <2>1, <2>2, <2>3
<1>17. CASE UNCHANGED vars
  BY <1>17 DEF vars, Live, Holds, LockInv, LiveHolderKeepsLock, OwnerHoldsOrIsDead,
     TombsAreOfTheDead, StaleObservationIsHarmless, TakeoverIsStamped, NothingToRestore
<1>18. QED
  BY <1>1, <1>2, <1>3, <1>4, <1>5, <1>6, <1>7, <1>8, <1>9, <1>10, <1>11, <1>12,
     <1>13, <1>14, <1>15, <1>16, <1>17 DEF Next, Step

\* Provided no contender is suspended in a takeover beyond the TTL, no two
\* running processes are ever inside withLock's callback together.
THEOREM LockIsMutex ==
    ASSUME ~SuspendBeyondTTL PROVE Spec => [](LockInv /\ MutualExclusion)
<1>1. Init => LockInv
  BY CallAssumption DEF Init, LockInv, LiveHolderKeepsLock, OwnerHoldsOrIsDead,
     TombsAreOfTheDead, StaleObservationIsHarmless, TakeoverIsStamped, NothingToRestore,
     Holds, Holding, Recovering, Live
<1>2. LockInv => MutualExclusion
  BY DEF LockInv, LiveHolderKeepsLock, MutualExclusion
<1>3. QED
  BY <1>1, <1>2, LockInvStep, TypeCorrect, PTL DEF Spec

-----------------------------------------------------------------------------
(* The refinement of Mutex *)

\* Under mutual exclusion HolderOf is the one call that holds the lock.
LEMMA HolderIsUnique ==
    ASSUME MutualExclusion, NEW c \in Call, Holds(c)
    PROVE  HolderOf = c
BY DEF MutualExclusion, HolderOf

\* Only the rename of a staging directory onto the free lock path grants the lock;
\* every other step leaves the holders as they are or ends one.
LEMMA GrantOrLeave ==
    ASSUME TypeOK, LockInv, [Next]_vars
    PROVE  \/ \E c \in Call : /\ StageRename(c) /\ lockOwner = None
           \/ Served' = Served /\ \A c \in Call : Holds(c)' => Holds(c)
<1> DEFINE Quiet == Served' = Served /\ \A c \in Call : Holds(c)' => Holds(c)
<1> USE DEF Goto, Again, BackOff, Throw, LostRecovery, Served, Holds, Live, Holding, Recovering, TypeOK
<1>1. ASSUME NEW c \in Call, StageRename(c), lockOwner # None PROVE Quiet
  BY <1>1 DEF StageRename
<1>2. ASSUME NEW c \in Call, Begin(c) PROVE Quiet
  BY <1>2 DEF Begin
<1>3. ASSUME NEW c \in Call, ReadUnreadable(c) \/ ReadAlive(c) \/ ReadDead(c) PROVE Quiet
  BY <1>3 DEF ReadUnreadable, ReadAlive, ReadDead
<1>4. ASSUME NEW c \in Call, Recheck(c) \/ StampTakeover(c) PROVE Quiet
  BY <1>4 DEF Recheck, StampTakeover
<1>5. ASSUME NEW c \in Call, RenameToTomb(c) \/ VerifyMoved(c) PROVE Quiet
  BY <1>5 DEF RenameToTomb, VerifyMoved
<1>6. ASSUME NEW c \in Call, RestoreMoved(c) PROVE Quiet
  BY <1>6 DEF RestoreMoved
<1>7. ASSUME NEW c \in Call, CallbackEnds(c) \/ ReleaseCheck(c) \/ Unlock(c) PROVE Quiet
  BY <1>7 DEF CallbackEnds, ReleaseCheck, Unlock
<1>8. ASSUME NEW c \in Call, DeadlinePasses(c) PROVE Quiet
  BY <1>8 DEF DeadlinePasses
<1>9. ASSUME Elapse PROVE Quiet
  BY <1>9 DEF Elapse
<1>10. ASSUME NEW p \in Process, Crash(p) PROVE Quiet
  BY <1>10 DEF Crash
<1>11. ASSUME UNCHANGED vars PROVE Quiet
  BY <1>11 DEF vars
<1> HIDE DEF Quiet
<1>12. Quiet \/ \E c \in Call : StageRename(c) /\ lockOwner = None
  BY <1>1, <1>2, <1>3, <1>4, <1>5, <1>6, <1>7, <1>8, <1>9, <1>10, <1>11 DEF Next, Step
<1> QED
  BY <1>12 DEF Quiet

\* Every step of the rename protocol is a step of Mutex or changes nothing there.
LEMMA MutexStep ==
    ASSUME TypeOK, TypeOK', LockInv, MutualExclusion, MutualExclusion', [Next]_vars
    PROVE  [AbstractLock!Next]_<<HolderOf, Served>>
<1>1. ASSUME NEW c \in Call, StageRename(c), lockOwner = None PROVE AbstractLock!Acquire(c)
  <2>1. \A d \in Call : ~Holds(d)
    BY <1>1, CallAssumption DEF LockInv, LiveHolderKeepsLock
  <2>2. HolderOf = None
    BY <2>1 DEF HolderOf
  <2>3. pc' = [pc EXCEPT ![c] = "held"] /\ alive' = alive /\ pc[c] = "stage" /\ Live(c)
    BY <1>1 DEF StageRename, Goto
  <2>4. c \notin Served /\ Served' = Served \cup {c}
    BY <2>3 DEF Served, Holding, TypeOK
  <2>5. Holds(c)'
    BY <2>3 DEF Holds, Holding, Live, TypeOK
  <2>6. HolderOf' = c
    BY <2>5 DEF MutualExclusion, HolderOf
  <2> QED
    BY <2>2, <2>4, <2>6 DEF AbstractLock!Acquire
<1>2. ASSUME Served' = Served, \A c \in Call : Holds(c)' => Holds(c)
      PROVE  AbstractLock!Leave \/ UNCHANGED <<HolderOf, Served>>
  <2>1. CASE \A c \in Call : ~Holds(c)
    BY <1>2, <2>1 DEF HolderOf
  <2>2. ASSUME NEW c \in Call, Holds(c) PROVE AbstractLock!Leave \/ UNCHANGED <<HolderOf, Served>>
    <3>1. HolderOf = c
      BY <2>2, HolderIsUnique
    <3>2. CASE Holds(c)'
      <4>1. HolderOf' = c
        BY <3>2 DEF MutualExclusion, HolderOf
      <4> QED
        BY <3>1, <4>1, <1>2
    <3>3. CASE ~Holds(c)'
      <4>1. \A d \in Call : ~Holds(d)'
        BY <1>2, <2>2, <3>3 DEF MutualExclusion
      <4>2. HolderOf' = None
        BY <4>1 DEF HolderOf
      <4> QED
        BY <3>1, <4>2, <1>2, CallAssumption DEF AbstractLock!Leave
    <3> QED
      BY <3>2, <3>3
  <2> QED
    BY <2>1, <2>2
<1> QED
  BY <1>1, <1>2, GrantOrLeave DEF AbstractLock!Next

\* The rename protocol implements the mutex that every other module takes for
\* granted, provided no contender is suspended in a takeover beyond the TTL.
THEOREM LockImplementsMutex ==
    ASSUME ~SuspendBeyondTTL PROVE Spec => ImplementsMutex
<1>1. Init => AbstractLock!Init
  BY DEF Init, AbstractLock!Init, HolderOf, Served, Holds, Holding
<1>2. Spec => [](TypeOK /\ LockInv /\ MutualExclusion)
  BY TypeCorrect, LockIsMutex, PTL
<1> QED
  BY <1>1, <1>2, MutexStep, PTL DEF Spec, ImplementsMutex, AbstractLock!Spec

-----------------------------------------------------------------------------
(* Contenders that sleep beyond the TTL *)

\* However long a contender sleeps in a takeover: a live lock that it moved onto the
\* tomb of the dead owner it once saw stays in the hands of a call that will put it
\* back, fail loudly, or was killed there.
THEOREM MisfiledLocks == Spec => []MisfiledLockIsAnswered
<1>1. Init => MisfiledLockIsAnswered
  BY DEF Init, MisfiledLockIsAnswered
<1>2. TypeOK /\ MisfiledLockIsAnswered /\ [Next]_vars => MisfiledLockIsAnswered'
  <2> SUFFICES ASSUME TypeOK, MisfiledLockIsAnswered, [Next]_vars,
                      NEW o \in Call, tombOwner'[o] \notin {None, o}
               PROVE  \E d \in Call : seen'[d] = o /\ pc'[d] \in {"verify", "restore", "stranded"}
    BY DEF MisfiledLockIsAnswered
  <2> DEFINE Answered == \E d \in Call : seen'[d] = o /\ pc'[d] \in {"verify", "restore", "stranded"}
  <2>1. ASSUME tombOwner'[o] = tombOwner[o],
               \A d \in Call : /\ seen[d] = o /\ pc[d] \in {"verify", "restore", "stranded"}
                               => /\ seen'[d] = o /\ pc'[d] \in {"verify", "restore", "stranded"}
        PROVE  Answered
    BY <2>1 DEF MisfiledLockIsAnswered
  <2> HIDE DEF Answered
  <2> USE DEF Goto, Again, BackOff, Throw, LostRecovery, dirs, Recovering, TypeOK
  <2>2. ASSUME NEW c \in Call, Begin(c) PROVE Answered
    BY <2>1, <2>2 DEF Begin, GcTombs
  <2>3. ASSUME NEW c \in Call, StageRename(c) PROVE Answered
    BY <2>1, <2>3 DEF StageRename
  <2>4. ASSUME NEW c \in Call, ReadUnreadable(c) \/ ReadAlive(c) PROVE Answered
    BY <2>1, <2>4 DEF ReadUnreadable, ReadAlive
  <2>5. ASSUME NEW c \in Call, ReadDead(c) PROVE Answered
    BY <2>1, <2>5 DEF ReadDead
  <2>6. ASSUME NEW c \in Call, Recheck(c) \/ StampTakeover(c) PROVE Answered
    BY <2>1, <2>6 DEF Recheck, StampTakeover
  <2>7. ASSUME NEW c \in Call, RenameToTomb(c) PROVE Answered
    <3>1. CASE lockOwner # None /\ tombOwner[seen[c]] = None
      <4>1. CASE seen[c] = o
        BY <2>7, <3>1, <4>1 DEF RenameToTomb, Answered
      <4>2. CASE seen[c] # o
        BY <2>1, <2>7, <3>1, <4>2 DEF RenameToTomb
      <4> QED
        BY <4>1, <4>2
    <3>2. CASE ~(lockOwner # None /\ tombOwner[seen[c]] = None)
      BY <2>1, <2>7, <3>2 DEF RenameToTomb
    <3> QED
      BY <3>1, <3>2
  <2>8. ASSUME NEW c \in Call, VerifyMoved(c) PROVE Answered
    BY <2>1, <2>8 DEF VerifyMoved
  <2>9. ASSUME NEW c \in Call, RestoreMoved(c) PROVE Answered
    BY <2>1, <2>9 DEF RestoreMoved
  <2>10. ASSUME NEW c \in Call, CallbackEnds(c) \/ ReleaseCheck(c) \/ Unlock(c) PROVE Answered
    BY <2>1, <2>10 DEF CallbackEnds, ReleaseCheck, Unlock
  <2>11. ASSUME NEW c \in Call, DeadlinePasses(c) PROVE Answered
    BY <2>1, <2>11 DEF DeadlinePasses
  <2>12. ASSUME Elapse PROVE Answered
    BY <2>1, <2>12 DEF Elapse
  <2>13. ASSUME NEW p \in Process, Crash(p) PROVE Answered
    BY <2>1, <2>13 DEF Crash
  <2>14. ASSUME UNCHANGED vars PROVE Answered
    BY <2>1, <2>14 DEF vars
  <2>15. Answered
    BY <2>2, <2>3, <2>4, <2>5, <2>6, <2>7, <2>8, <2>9, <2>10, <2>11, <2>12, <2>13, <2>14
    DEF Next, Step
  <2> QED
    BY <2>15 DEF Answered
<1> QED
  BY <1>1, <1>2, TypeCorrect, PTL DEF Spec
=============================================================================
