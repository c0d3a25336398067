------------------------ MODULE TicketLifecycleProofs ------------------------
(*****************************************************************************)
(* Machine-checked proofs about TicketLifecycle, for every number of         *)
(* supervisors, tickets, cancels, crashes and reboots: first for ids that    *)
(* are submitted once, then who may spawn a command whose id is retried and  *)
(* cancelled, what a retried --id may rely on as long as nobody cancels, and *)
(* the ceiling on the leases of one lane.                                    *)
(*****************************************************************************)
EXTENDS TicketLifecycle, FiniteSetTheorems, TLAPS

-----------------------------------------------------------------------------
(* Types *)

\* A reaping pass leaves well-formed lease, queue and result files behind.
LEMMA ReapTypes ==
    ASSUME TypeOK, NEW keep
    PROVE  /\ ReapedLeases \in [Ticket -> LeaseRecord]
           /\ ReapedQueue(keep) \in [Ticket -> Sup \cup {None}]
           /\ ReapedResults(keep) \in [Ticket -> Outcome \cup {"none"}]
<1>1. ReapedLeases \in [Ticket -> LeaseRecord]
  <2> SUFFICES ASSUME NEW t \in Ticket PROVE ReapedLeases[t] \in LeaseRecord
    BY DEF ReapedLeases
  <2>1. lease[t] \in LeaseRecord /\ NoLease \in LeaseRecord
    BY DEF TypeOK, NoLease, LeaseRecord
  <2>2. MarkOrphaned(lease[t]) \in LeaseRecord
    BY <2>1 DEF MarkOrphaned, LeaseRecord
  <2>3. QED
    BY <2>1, <2>2 DEF ReapedLeases
<1>2. ReapedQueue(keep) \in [Ticket -> Sup \cup {None}]
  BY DEF ReapedQueue, TypeOK
<1>3. ReapedResults(keep) \in [Ticket -> Outcome \cup {"none"}]
  BY DEF ReapedResults, TypeOK, Outcome
<1>4. QED
  BY <1>1, <1>2, <1>3

\* Every variable keeps its type, and a supervisor that finalizes always has a reason to
\* publish, under every step of supervisors, cancels and reaping passes, crashes and reboots.
THEOREM TypeCorrect == Spec => []TypeOK
<1> USE TicketAssumption, BoundAssumption
<1>1. Init => TypeOK
  BY DEF Init, TypeOK, PC, Outcome, Group, CancelPC, LeaseRecord, NoLease
<1>2. TypeOK /\ [Next]_vars => TypeOK'
  <2> SUFFICES ASSUME TypeOK, [Next]_vars PROVE TypeOK'
    OBVIOUS
  <2> USE DEF TypeOK, PC, Outcome, Group, CancelPC, disk, procs, cancels, Goto, CGoto, LeaveQueue,
      Poll, ReapStale
  <2>0. /\ NoLease \in LeaseRecord
        /\ \A s \in Sup, p \in BOOLEAN :
             [sup |-> s, pgid |-> p, orphaned |-> FALSE, boot |-> boot] \in LeaseRecord
    BY DEF LeaseRecord, NoLease
  <2>1. ASSUME NEW s \in Sup, Submit(s) PROVE TypeOK'
    BY <2>0, <2>1 DEF Submit
  <2>2. ASSUME NEW s \in Sup, WritePending(s) PROVE TypeOK'
    BY <2>0, <2>2 DEF WritePending
  <2>3. ASSUME NEW s \in Sup, RefuseStartup(s) PROVE TypeOK'
    BY <2>0, <2>3 DEF RefuseStartup
  <2>4. ASSUME NEW s \in Sup, Enqueue(s) PROVE TypeOK'
    BY <2>0, <2>4 DEF Enqueue
  <2>5. ASSUME NEW s \in Sup, PollCancelled(s) PROVE TypeOK'
    BY <2>0, <2>5 DEF PollCancelled
  <2>6. ASSUME NEW s \in Sup, RefuseQueued(s) PROVE TypeOK'
    BY <2>0, <2>6 DEF RefuseQueued
  <2>7. ASSUME NEW s \in Sup, PollDenied(s) PROVE TypeOK'
    BY <2>0, <2>7, ReapTypes DEF PollDenied
  <2>8. ASSUME NEW s \in Sup, PollGone(s) PROVE TypeOK'
    BY <2>0, <2>8, ReapTypes DEF PollGone
  <2>9. ASSUME NEW s \in Sup, PollExpired(s) PROVE TypeOK'
    BY <2>0, <2>9, ReapTypes DEF PollExpired
  <2>10. ASSUME NEW s \in Sup, SettleTimeout(s) PROVE TypeOK'
    BY <2>0, <2>10 DEF SettleTimeout
  <2>11. ASSUME NEW s \in Sup, StartDequeue(s) PROVE TypeOK'
    BY <2>0, <2>11, ReapTypes DEF StartDequeue
  <2>12. ASSUME NEW s \in Sup, StartLease(s) PROVE TypeOK'
    BY <2>0, <2>12 DEF StartLease
  <2>13. ASSUME NEW s \in Sup, PublishSettled(s) PROVE TypeOK'
    BY <2>0, <2>13 DEF PublishSettled
  <2>14. ASSUME NEW s \in Sup, ClearMarkers(s) PROVE TypeOK'
    BY <2>0, <2>14 DEF ClearMarkers
  <2>15. ASSUME NEW s \in Sup, RefuseAdmitted(s) PROVE TypeOK'
    BY <2>0, <2>15 DEF RefuseAdmitted
  <2>16. ASSUME NEW s \in Sup, Spawn(s) PROVE TypeOK'
    BY <2>0, <2>16 DEF Spawn
  <2>17. ASSUME NEW s \in Sup, RecordPgid(s) PROVE TypeOK'
    BY <2>0, <2>17 DEF RecordPgid
  <2>18. ASSUME NEW s \in Sup, NoticeCancel(s) PROVE TypeOK'
    BY <2>0, <2>18 DEF NoticeCancel
  <2>19. ASSUME NEW s \in Sup, Interrupt(s) PROVE TypeOK'
    BY <2>0, <2>19 DEF Interrupt
  <2>20. ASSUME NEW s \in Sup, LeaderExits(s) PROVE TypeOK'
    BY <2>0, <2>20 DEF LeaderExits
  <2>21. ASSUME NEW s \in Sup, SurvivorsEnd(s) PROVE TypeOK'
    BY <2>0, <2>21 DEF SurvivorsEnd
  <2>22. ASSUME NEW s \in Sup, Finalize(s) PROVE TypeOK'
    BY <2>0, <2>22 DEF Finalize
  <2>23. ASSUME NEW s \in Sup, Publish(s) PROVE TypeOK'
    BY <2>0, <2>23 DEF Publish
  <2>24. ASSUME NEW s \in Sup, Release(s) PROVE TypeOK'
    BY <2>0, <2>24 DEF Release
  <2>25. ASSUME NEW s \in Sup, Crash(s) PROVE TypeOK'
    BY <2>0, <2>25 DEF Crash
  <2>26. ASSUME NEW c \in Canceller, CancelQueued(c) PROVE TypeOK'
    BY <2>0, <2>26 DEF CancelQueued
  <2>27. ASSUME NEW c \in Canceller, CancelLook(c) PROVE TypeOK'
    <3>1. lease[Target[c]].sup \in Sup \cup {None}
      BY DEF LeaseRecord
    <3>2. QED
      BY <2>27, <3>1 DEF CancelLook
  <2>28. ASSUME NEW c \in Canceller, CancelJudge(c) PROVE TypeOK'
    BY <2>0, <2>28 DEF CancelJudge
  <2>29. ASSUME NEW c \in Canceller, CancelConfirmed(c) PROVE TypeOK'
    BY <2>0, <2>29 DEF CancelConfirmed
  <2>30. ASSUME NEW c \in Canceller, CancelGivesUp(c) PROVE TypeOK'
    BY <2>0, <2>30 DEF CancelGivesUp
  <2>31. ASSUME NEW c \in Canceller, CancelKill(c) PROVE TypeOK'
    BY <2>0, <2>31 DEF CancelKill
  <2>32. ASSUME NEW c \in Canceller, CancelPublish(c) PROVE TypeOK'
    BY <2>0, <2>32 DEF CancelPublish
  <2>33. ASSUME NEW t \in Ticket, SettleDeadPending(t) PROVE TypeOK'
    BY <2>33 DEF SettleDeadPending
  <2>34. CASE StatusReaps
    BY <2>34, ReapTypes DEF StatusReaps
  <2>35. CASE Reboot
    BY <2>35 DEF Reboot
  <2>36. CASE UNCHANGED vars
    BY <2>36 DEF vars
  <2>37. QED
    BY <2>1, <2>2, <2>3, <2>4, <2>5, <2>6, <2>7, <2>8, <2>9, <2>10, <2>11, <2>12, <2>13,
       <2>14, <2>15, <2>16, <2>17, <2>18, <2>19, <2>20, <2>21, <2>22, <2>23, <2>24, <2>25,
       <2>26, <2>27, <2>28, <2>29, <2>30, <2>31, <2>32, <2>33, <2>34, <2>35, <2>36 DEF
       Next, SupervisorStep, CancelStep
<1>3. QED
  BY <1>1, <1>2, PTL DEF Spec

-----------------------------------------------------------------------------
(* What a reaping pass and an admission leave alone *)

\* No two supervisors carry the same ticket id: --id is not used twice.
UniqueIds == \A s, r \in Sup : TicketOf[s] = TicketOf[r] => s = r

\* A pass of reapIfStale removes a lease or leaves its holder and boot as they are, and it
\* never removes a lease of this boot whose supervisor or process group is alive.
LEMMA ReapKeeps ==
    ASSUME TypeOK, NEW t \in Ticket
    PROVE  /\ ReapedLeases[t].sup \in {lease[t].sup, None}
           /\ ReapedLeases[t].sup # None => ReapedLeases[t].boot = lease[t].boot
           /\ /\ Held(t) /\ lease[t].boot = boot
              /\ Up(lease[t].sup) \/ Working(lease[t].sup)
              => ReapedLeases[t].sup = lease[t].sup
<1>1. ReapedLeases[t] = IF t \in Released THEN NoLease
                        ELSE IF t \in Orphans THEN MarkOrphaned(lease[t]) ELSE lease[t]
  BY DEF ReapedLeases
<1>2. NoLease.sup = None /\ MarkOrphaned(lease[t]).sup = lease[t].sup
      /\ MarkOrphaned(lease[t]).boot = lease[t].boot
  BY DEF NoLease, MarkOrphaned
<1>3. Held(t) /\ lease[t].boot = boot /\ (Up(lease[t].sup) \/ Working(lease[t].sup))
      => t \notin Released
  BY DEF Released, GroupAlive
<1>4. QED
  BY <1>1, <1>2, <1>3

\* Exclusion is mutual.
LEMMA ExclusiveSymmetric ==
    ASSUME NEW t \in Ticket, NEW u \in Ticket PROVE Exclusive(t, u) => Exclusive(u, t)
BY TicketAssumption, ConflictAssumption DEF Exclusive

\* blockedBy lets a ticket through only when no lease that survives the pass excludes it.
LEMMA AdmittedIsExclusive ==
    ASSUME TypeOK, NEW t \in Ticket, ~Blocked(t), NEW u \in Ticket, ReapedLeases[u].sup # None
    PROVE  ~Exclusive(t, u)
<1> DEFINE held == {v \in Ticket : ReapedLeases[v].sup # None}
           same == {v \in held : KeyOf[v] = KeyOf[t]}
<1>1. u \in held
  OBVIOUS
<1>2. <<KeyOf[t], KeyOf[u]>> \notin Conflicts /\ ~(Cardinality(same) >= MaxConcurrent[t])
  BY <1>1 DEF Blocked
<1>3. MaxConcurrent[t] = 1 => KeyOf[u] # KeyOf[t]
  <2> SUFFICES ASSUME MaxConcurrent[t] = 1, KeyOf[u] = KeyOf[t] PROVE FALSE
    OBVIOUS
  <2>1. IsFiniteSet(same)
    BY TicketAssumption, FS_Subset
  <2>2. Cardinality(same) \in Nat /\ (Cardinality(same) = 0 <=> same = {})
    BY <2>1, FS_CardinalityType, FS_EmptySet
  <2>3. u \in same
    BY <1>1
  <2> HIDE DEF same
  <2>4. QED
    BY <1>2, <2>2, <2>3
<1>4. QED
  BY <1>2, <1>3 DEF Exclusive

\* Supervisors stand still, or leave the queued state the way a poll makes them.
QueuedMoveOn ==
    \A r \in Sup :
        \/ pc'[r] = pc[r]
        \/ pc[r] = "queued" /\ pc'[r] = "timedout"
        \/ /\ pc[r] = "queued" /\ pc'[r] \in {"settling", "admitting"}
           /\ queue'[TicketOf[r]] = None
           /\ pc'[r] = "admitting" => queue[TicketOf[r]] # None

\* A step that reaps, and that may also move queued supervisors on, preserves LifecycleInv.
LEMMA ReapStep ==
    ASSUME TypeOK, TypeOK', LifecycleInv, CommitIsGuarded',
           lease' = ReapedLeases,
           \A t \in Ticket : queue'[t] \in {queue[t], None},
           UNCHANGED <<boot, child, cpc, prey>>,
           QueuedMoveOn
    PROVE  LifecycleInv'
<1> USE TicketAssumption DEF QueuedMoveOn, TypeOK, LifecycleInv, Held, Working
<1>1. \A t \in Ticket : Held(t)' => Held(t) /\ lease'[t].sup = lease[t].sup /\ lease'[t].boot = lease[t].boot
  BY ReapKeeps
<1>2. \A s \in Sup : /\ lease[TicketOf[s]].sup = s /\ lease[TicketOf[s]].boot = boot
                     /\ Up(s) \/ Working(s)
                     => lease'[TicketOf[s]].sup = s /\ lease'[TicketOf[s]].boot = boot
  BY ReapKeeps
<1>3. LeaseNamesItsSupervisor'
  <2> SUFFICES ASSUME NEW t \in Ticket, Held(t)'
               PROVE  TicketOf[lease'[t].sup] = t /\ pc'[lease'[t].sup] # "off"
    BY DEF LeaseNamesItsSupervisor
  <2>1. lease[t].sup \in Sup /\ lease'[t].sup = lease[t].sup
    BY <1>1 DEF LeaseRecord
  <2>2. QED
    BY <1>1, <2>1 DEF LeaseNamesItsSupervisor
<1>4. HolderKeepsLease'
  BY <1>2 DEF HolderKeepsLease, Admitted, Up
<1>5. WorkIsPlaced'
  BY <1>2 DEF WorkIsPlaced, Unspawned
<1>6. LeasesAreExclusive'
  BY <1>1 DEF LeasesAreExclusive
<1>7. CancelTakesOverTheEnded'
  BY DEF CancelTakesOverTheEnded, Ended
<1>8. QueueIsOwned'
  BY DEF QueueIsOwned
<1>9. RemovedIsOut'
  BY DEF RemovedIsOut
<1>10. QED
  BY <1>3, <1>4, <1>5, <1>6, <1>7, <1>8, <1>9

-----------------------------------------------------------------------------
(* The inductive invariant *)

\* LifecycleInv is preserved by every step of every process, by crashes and by reboots.
LEMMA LifecycleStep ==
    ASSUME UniqueIds, TypeOK, TypeOK', LifecycleInv, [Next]_vars
    PROVE  LifecycleInv'
<1> USE TicketAssumption
<1> USE DEF UniqueIds, TypeOK, PC, Group, CancelPC, disk, procs, cancels, Goto, CGoto, LeaveQueue,
    Poll, ReapStale, Admitted, Unspawned, Ended, LifecycleInv, LeaseNamesItsSupervisor,
    HolderKeepsLease, WorkIsPlaced, LeasesAreExclusive, CommitIsGuarded, CancelTakesOverTheEnded,
    QueueIsOwned, RemovedIsOut, Up, Working, Held
<1>0. NoLease.sup = None
  BY DEF NoLease
<1>1. ASSUME NEW s \in Sup, Submit(s) PROVE LifecycleInv'
  BY <1>0, <1>1 DEF Submit
<1>2. ASSUME NEW s \in Sup, WritePending(s) PROVE LifecycleInv'
  BY <1>0, <1>2 DEF WritePending
<1>3. ASSUME NEW s \in Sup, RefuseStartup(s) PROVE LifecycleInv'
  BY <1>0, <1>3 DEF RefuseStartup
<1>4. ASSUME NEW s \in Sup, Enqueue(s) PROVE LifecycleInv'
  <2>1. LeaseNamesItsSupervisor'
    BY <1>4 DEF Enqueue, LeaseRecord
  <2>2. HolderKeepsLease'
    BY <1>4 DEF Enqueue
  <2>3. WorkIsPlaced'
    BY <1>4 DEF Enqueue
  <2>4. LeasesAreExclusive' /\ CommitIsGuarded'
    BY <1>4 DEF Enqueue
  <2>5. CancelTakesOverTheEnded'
    BY <1>4 DEF Enqueue
  <2>6. QueueIsOwned'
    BY <1>4 DEF Enqueue
  <2>7. RemovedIsOut'
    BY <1>4 DEF Enqueue
  <2>8. QED
    BY <2>1, <2>2, <2>3, <2>4, <2>5, <2>6, <2>7
<1>5. ASSUME NEW s \in Sup, PollCancelled(s) PROVE LifecycleInv'
  BY <1>0, <1>5 DEF PollCancelled
<1>6. ASSUME NEW s \in Sup, RefuseQueued(s) PROVE LifecycleInv'
  BY <1>0, <1>6 DEF RefuseQueued
<1>7. ASSUME NEW s \in Sup, PollDenied(s) PROVE LifecycleInv'
  <2>1. CommitIsGuarded'
    BY <1>7 DEF PollDenied
  <2>2. \A t \in Ticket : queue'[t] \in {queue[t], None}
    BY <1>7 DEF PollDenied, ReapedQueue
  <2>3. QueuedMoveOn
    BY <1>7 DEF PollDenied, ReapedQueue, QueuedMoveOn
  <2> HIDE DEF LifecycleInv, CommitIsGuarded, TypeOK
  <2>4. QED
    BY <1>7, <2>1, <2>2, <2>3, ReapStep DEF PollDenied
<1>8. ASSUME NEW s \in Sup, PollGone(s) PROVE LifecycleInv'
  <2>1. CommitIsGuarded'
    BY <1>8 DEF PollGone
  <2>2. \A t \in Ticket : queue'[t] \in {queue[t], None}
    BY <1>8 DEF PollGone, ReapedQueue
  <2>3. QueuedMoveOn
    BY <1>8 DEF PollGone, ReapedQueue, QueuedMoveOn
  <2> HIDE DEF LifecycleInv, CommitIsGuarded, TypeOK
  <2>4. QED
    BY <1>8, <2>1, <2>2, <2>3, ReapStep DEF PollGone
<1>9. ASSUME NEW s \in Sup, PollExpired(s) PROVE LifecycleInv'
  <2>1. CommitIsGuarded'
    BY <1>9 DEF PollExpired
  <2>2. \A t \in Ticket : queue'[t] \in {queue[t], None}
    BY <1>9 DEF PollExpired, ReapedQueue
  <2>3. QueuedMoveOn
    BY <1>9 DEF PollExpired, ReapedQueue, QueuedMoveOn
  <2> HIDE DEF LifecycleInv, CommitIsGuarded, TypeOK
  <2>4. QED
    BY <1>9, <2>1, <2>2, <2>3, ReapStep DEF PollExpired
<1>10. ASSUME NEW s \in Sup, SettleTimeout(s) PROVE LifecycleInv'
  BY <1>0, <1>10 DEF SettleTimeout
<1>11. ASSUME NEW s \in Sup, StartDequeue(s) PROVE LifecycleInv'
  <2>1. \A u \in Ticket : Held(u)' => ~Exclusive(TicketOf[s], u)
    BY <1>11, AdmittedIsExclusive DEF StartDequeue
  <2>2. CommitIsGuarded'
    BY <1>11, <2>1 DEF StartDequeue
  <2>3. \A t \in Ticket : queue'[t] \in {queue[t], None}
    BY <1>11 DEF StartDequeue, ReapedQueue
  <2>4. QueuedMoveOn
    BY <1>11 DEF StartDequeue, ReapedQueue, QueuedMoveOn
  <2> HIDE DEF LifecycleInv, CommitIsGuarded, TypeOK
  <2>5. QED
    BY <1>11, <2>2, <2>3, <2>4, ReapStep DEF StartDequeue
<1>12. ASSUME NEW s \in Sup, StartLease(s) PROVE LifecycleInv'
  BY <1>0, <1>12, ExclusiveSymmetric DEF StartLease
<1>13. ASSUME NEW s \in Sup, PublishSettled(s) PROVE LifecycleInv'
  BY <1>0, <1>13 DEF PublishSettled
<1>14. ASSUME NEW s \in Sup, ClearMarkers(s) PROVE LifecycleInv'
  BY <1>0, <1>14 DEF ClearMarkers
<1>15. ASSUME NEW s \in Sup, RefuseAdmitted(s) PROVE LifecycleInv'
  BY <1>0, <1>15 DEF RefuseAdmitted
<1>16. ASSUME NEW s \in Sup, Spawn(s) PROVE LifecycleInv'
  BY <1>0, <1>16 DEF Spawn
<1>17. ASSUME NEW s \in Sup, RecordPgid(s) PROVE LifecycleInv'
  BY <1>0, <1>17 DEF RecordPgid
<1>18. ASSUME NEW s \in Sup, NoticeCancel(s) PROVE LifecycleInv'
  BY <1>0, <1>18 DEF NoticeCancel
<1>19. ASSUME NEW s \in Sup, Interrupt(s) PROVE LifecycleInv'
  BY <1>0, <1>19 DEF Interrupt
<1>20. ASSUME NEW s \in Sup, LeaderExits(s) PROVE LifecycleInv'
  BY <1>0, <1>20 DEF LeaderExits
<1>21. ASSUME NEW s \in Sup, SurvivorsEnd(s) PROVE LifecycleInv'
  BY <1>0, <1>21 DEF SurvivorsEnd
<1>22. ASSUME NEW s \in Sup, Finalize(s) PROVE LifecycleInv'
  BY <1>0, <1>22 DEF Finalize
<1>23. ASSUME NEW s \in Sup, Publish(s) PROVE LifecycleInv'
  BY <1>0, <1>23 DEF Publish
<1>24. ASSUME NEW s \in Sup, Release(s) PROVE LifecycleInv'
  BY <1>0, <1>24 DEF Release
<1>25. ASSUME NEW s \in Sup, Crash(s) PROVE LifecycleInv'
  BY <1>0, <1>25 DEF Crash
<1>26. ASSUME NEW c \in Canceller, CancelQueued(c) PROVE LifecycleInv'
  <2>1. LeaseNamesItsSupervisor'
    BY <1>26 DEF CancelQueued, LeaseRecord
  <2>2. HolderKeepsLease'
    BY <1>26 DEF CancelQueued
  <2>3. WorkIsPlaced'
    BY <1>26 DEF CancelQueued
  <2>4. LeasesAreExclusive' /\ CommitIsGuarded'
    BY <1>26 DEF CancelQueued
  <2>5. CancelTakesOverTheEnded'
    BY <1>26 DEF CancelQueued
  <2>6. QueueIsOwned'
    BY <1>26 DEF CancelQueued
  <2>7. RemovedIsOut'
    BY <1>26 DEF CancelQueued
  <2>8. QED
    BY <2>1, <2>2, <2>3, <2>4, <2>5, <2>6, <2>7
<1>27. ASSUME NEW c \in Canceller, CancelLook(c) PROVE LifecycleInv'
  BY <1>0, <1>27 DEF CancelLook
<1>28. ASSUME NEW c \in Canceller, CancelJudge(c) PROVE LifecycleInv'
  BY <1>0, <1>28 DEF CancelJudge
<1>29. ASSUME NEW c \in Canceller, CancelConfirmed(c) PROVE LifecycleInv'
  BY <1>0, <1>29 DEF CancelConfirmed
<1>30. ASSUME NEW c \in Canceller, CancelGivesUp(c) PROVE LifecycleInv'
  BY <1>0, <1>30 DEF CancelGivesUp
<1>31. ASSUME NEW c \in Canceller, CancelKill(c) PROVE LifecycleInv'
  BY <1>0, <1>31 DEF CancelKill
<1>32. ASSUME NEW c \in Canceller, CancelPublish(c) PROVE LifecycleInv'
  BY <1>0, <1>32 DEF CancelPublish
<1>33. ASSUME NEW t \in Ticket, SettleDeadPending(t) PROVE LifecycleInv'
  BY <1>33 DEF SettleDeadPending
<1>34. CASE StatusReaps
  <2>1. CommitIsGuarded'
    BY <1>34 DEF StatusReaps
  <2>2. \A t \in Ticket : queue'[t] \in {queue[t], None}
    BY <1>34 DEF StatusReaps, ReapedQueue
  <2>3. QED
    BY <1>34, <2>1, <2>2, ReapStep DEF StatusReaps, QueuedMoveOn
<1>35. CASE Reboot
  <2>1. LeaseNamesItsSupervisor'
    BY <1>35 DEF Reboot, LeaseRecord
  <2>2. HolderKeepsLease'
    BY <1>35 DEF Reboot
  <2>3. WorkIsPlaced'
    BY <1>35 DEF Reboot
  <2>4. LeasesAreExclusive' /\ CommitIsGuarded'
    BY <1>35 DEF Reboot
  <2>5. CancelTakesOverTheEnded'
    BY <1>35 DEF Reboot
  <2>6. QueueIsOwned'
    BY <1>35 DEF Reboot
  <2>7. RemovedIsOut'
    BY <1>35 DEF Reboot
  <2>8. QED
    BY <2>1, <2>2, <2>3, <2>4, <2>5, <2>6, <2>7
<1>36. CASE UNCHANGED vars
  BY <1>36 DEF vars
<1>37. QED
  BY <1>1, <1>2, <1>3, <1>4, <1>5, <1>6, <1>7, <1>8, <1>9, <1>10, <1>11, <1>12, <1>13,
     <1>14, <1>15, <1>16, <1>17, <1>18, <1>19, <1>20, <1>21, <1>22, <1>23, <1>24, <1>25,
     <1>26, <1>27, <1>28, <1>29, <1>30, <1>31, <1>32, <1>33, <1>34, <1>35, <1>36 DEF Next,
     SupervisorStep, CancelStep

\* Processes and files agree throughout, when ids are not resubmitted: LifecycleInv is an
\* invariant of the whole system.
THEOREM Lifecycle == ASSUME UniqueIds PROVE Spec => []LifecycleInv
<1>1. Init => LifecycleInv
  BY TicketAssumption DEF Init, LifecycleInv, LeaseNamesItsSupervisor, HolderKeepsLease, WorkIsPlaced,
     LeasesAreExclusive, CommitIsGuarded, CancelTakesOverTheEnded, QueueIsOwned, RemovedIsOut,
     Admitted, Unspawned, Working, Held, NoLease
<1>2. TypeOK /\ TypeOK' /\ LifecycleInv /\ [Next]_vars => LifecycleInv'
  BY LifecycleStep
<1>3. QED
  BY <1>1, <1>2, TypeCorrect, PTL DEF Spec

\* A command's process group never runs without its own supervisor's lease.
THEOREM WorkIsAlwaysLeased == ASSUME UniqueIds PROVE Spec => []LiveWorkIsLeased
<1>1. LifecycleInv => LiveWorkIsLeased
  BY DEF LifecycleInv, WorkIsPlaced, LiveWorkIsLeased
<1>2. QED
  BY <1>1, Lifecycle, PTL

\* The process groups of two lanes that conflict, or that share a lane with ceiling 1, are
\* never alive together: not after crashes, takeovers by cancel, or reboots.
THEOREM ConflictsNeverOverlap == ASSUME UniqueIds PROVE Spec => []NoConflictOverlap
<1>1. TypeOK /\ LifecycleInv => NoConflictOverlap
  BY TicketAssumption DEF UniqueIds, TypeOK, LifecycleInv, WorkIsPlaced, LeasesAreExclusive,
     NoConflictOverlap, Held
<1>2. QED
  BY <1>1, Lifecycle, TypeCorrect, PTL

\* A ticket that `lane cancel` removed from the queue is never started.
THEOREM RemovedTicketsNeverRun == ASSUME UniqueIds PROVE Spec => []RemovedNeverRuns
<1>1. LifecycleInv => RemovedNeverRuns
  BY DEF LifecycleInv, RemovedIsOut, RemovedNeverRuns
<1>2. QED
  BY <1>1, Lifecycle, PTL

\* Only `lane cancel` itself and a reboot change where a cancel stands.
LEMMA OnlyCancelMovesCancel ==
    ASSUME Next PROVE UNCHANGED cpc \/ (\E c \in Canceller : CancelStep(c)) \/ Reboot
<1> USE DEF cancels
<1>1. ASSUME NEW s \in Sup,
            SupervisorStep(s)
     PROVE  UNCHANGED cpc
  BY <1>1 DEF SupervisorStep, RefuseStartup, Enqueue, PollCancelled, PollGone, SettleTimeout, StartLease,
     PublishSettled, ClearMarkers, Spawn, RecordPgid, NoticeCancel, Finalize, Publish, Release
<1>2. ASSUME NEW s \in Sup,
            Submit(s) \/ WritePending(s) \/ PollDenied(s) \/ PollExpired(s) \/ StartDequeue(s)
     PROVE  UNCHANGED cpc
  BY <1>2 DEF Submit, WritePending, PollDenied, PollExpired, StartDequeue
<1>3. ASSUME NEW s \in Sup,
            \/ RefuseQueued(s) \/ RefuseAdmitted(s) \/ Interrupt(s)
            \/ LeaderExits(s) \/ SurvivorsEnd(s) \/ Crash(s)
     PROVE  UNCHANGED cpc
  BY <1>3 DEF RefuseQueued, RefuseAdmitted, Interrupt, LeaderExits, SurvivorsEnd, Crash
<1>4. (\E t \in Ticket : SettleDeadPending(t)) \/ StatusReaps => UNCHANGED cpc
  BY DEF SettleDeadPending, StatusReaps
<1>5. QED
  BY <1>1, <1>2, <1>3, <1>4 DEF Next

\* When `lane cancel` reports a running or orphaned ticket cancelled, the process group of
\* the supervisor it addressed is gone, and so is that supervisor's lease.
THEOREM CancelStopsTheRun == ASSUME UniqueIds PROVE Spec => CancelledIsStopped
<1> DEFINE Stopped(c) == cpc[c] # "cancelled" /\ cpc'[c] = "cancelled" =>
                             ~Working(prey[c])' /\ lease'[Target[c]].sup # prey[c]
<1>1. TypeOK /\ LifecycleInv /\ [Next]_vars => [\A c \in Canceller : Stopped(c)]_vars
  <2> SUFFICES ASSUME TypeOK, LifecycleInv, Next, NEW c \in Canceller,
                      cpc[c] # "cancelled", cpc'[c] = "cancelled"
               PROVE  ~Working(prey[c])' /\ lease'[Target[c]].sup # prey[c]
    OBVIOUS
  <2> USE TicketAssumption DEF TypeOK, LifecycleInv, CancelTakesOverTheEnded, Held
  <2>1. CancelConfirmed(c) \/ CancelPublish(c)
    <3> USE DEF CGoto
    <3>1. (\E d \in Canceller : CancelStep(d)) \/ Reboot
      BY OnlyCancelMovesCancel
    <3>2. ~Reboot
      BY DEF Reboot
    <3>3. ASSUME NEW d \in Canceller, CancelStep(d) PROVE CancelConfirmed(c) \/ CancelPublish(c)
      BY <3>3 DEF CancelStep, CancelQueued, CancelLook, CancelJudge, CancelConfirmed, CancelGivesUp,
         CancelKill, CancelPublish
    <3>4. QED
      BY <3>1, <3>2, <3>3
  <2>2. CASE CancelConfirmed(c)
    BY <2>2 DEF CancelConfirmed, WorkIsPlaced, Working, disk, procs
  <2>3. CASE CancelPublish(c)
    BY <2>3 DEF CancelPublish, NoLease, Working, procs
  <2>4. QED
    BY <2>1, <2>2, <2>3
<1>2. QED
  BY <1>1, Lifecycle, TypeCorrect, PTL DEF Spec, CancelledIsStopped

-----------------------------------------------------------------------------
(* Results *)

\* A step that reaps for everyone but `keep`, and that may move a queued supervisor on,
\* preserves ResultsComeLast.
LEMMA ReapResultStep ==
    ASSUME UniqueIds, TypeOK, TypeOK', LifecycleInv, ResultsComeLast, NEW keep,
           ReapStale(keep),
           \A t \in Ticket : queue'[t] \in {ReapedQueue(keep)[t], None},
           UNCHANGED <<pending, untold, cpc, prey>>,
           \A r \in Sup : \/ pc'[r] = pc[r]
                          \/ pc[r] = "queued" /\ pc'[r] \in {"settling", "admitting", "timedout"}
    PROVE  ResultsComeLast'
<1> USE TicketAssumption DEF TypeOK, ResultsComeLast, LifecycleInv
<1>1. \A t \in Ticket : Held(t)' => Held(t) /\ lease'[t].sup = lease[t].sup
  BY ReapKeeps DEF ReapStale, Held
<1>2. \A t \in Ticket : /\ queue'[t] \in {queue[t], None}
                        /\ queue'[t] # None => result'[t] = result[t]
                        /\ result'[t] # result[t] => queue[t] # None /\ ~Up(queue[t])
  BY DEF ReapStale, ReapedQueue, ReapedResults, Abandoned
<1>3. UnfinishedHasNoResult'
  BY <1>2 DEF UnfinishedHasNoResult, UniqueIds, QueueIsOwned, Up
<1>4. QueuedHasNoResult'
  BY <1>2 DEF QueuedHasNoResult
<1>5. LeasedIsNotQueued'
  <2>1. \A t \in Ticket : lease[t].sup \in Sup \cup {None}
    BY DEF LeaseRecord
  <2>2. QED
    BY <1>1, <1>2, <2>1 DEF LeasedIsNotQueued, Unleased, Held
<1>6. CancelActsOnLeased'
  BY <1>2 DEF CancelActsOnLeased, CancelTakesOverTheEnded, Ended, Unleased
<1>7. PendingIsOwned'
  BY DEF PendingIsOwned
<1>8. QED
  BY <1>3, <1>4, <1>5, <1>6, <1>7

\* ResultsComeLast is preserved by every step.
LEMMA ResultStep ==
    ASSUME UniqueIds, TypeOK, TypeOK', LifecycleInv, ResultsComeLast, [Next]_vars
    PROVE  ResultsComeLast'
<1> USE TicketAssumption
<1> USE DEF UniqueIds, TypeOK, PC, CancelPC, disk, procs, cancels, Goto, CGoto, LeaveQueue, Poll,
    ReapStale, Ended, LifecycleInv, LeaseNamesItsSupervisor, CancelTakesOverTheEnded, QueueIsOwned,
    Up, Held, Unleased, ResultsComeLast, UnfinishedHasNoResult, QueuedHasNoResult, LeasedIsNotQueued,
    CancelActsOnLeased, PendingIsOwned
<1>0. NoLease.sup = None /\ \A t \in Ticket : lease[t].sup \in Sup \cup {None}
  BY DEF NoLease, LeaseRecord
<1>1. ASSUME NEW s \in Sup, Submit(s) PROVE ResultsComeLast'
  BY <1>0, <1>1 DEF Submit
<1>2. ASSUME NEW s \in Sup, WritePending(s) PROVE ResultsComeLast'
  BY <1>0, <1>2 DEF WritePending
<1>3. ASSUME NEW s \in Sup, RefuseStartup(s) PROVE ResultsComeLast'
  BY <1>0, <1>3 DEF RefuseStartup
<1>4. ASSUME NEW s \in Sup, Enqueue(s) PROVE ResultsComeLast'
  <2>1. UnfinishedHasNoResult' /\ QueuedHasNoResult'
    BY <1>4 DEF Enqueue, Existing
  <2>2. LeasedIsNotQueued'
    BY <1>0, <1>4 DEF Enqueue, Existing
  <2>3. CancelActsOnLeased'
    BY <1>4 DEF Enqueue
  <2>4. PendingIsOwned'
    BY <1>4 DEF Enqueue
  <2>5. QED
    BY <2>1, <2>2, <2>3, <2>4
<1>5. ASSUME NEW s \in Sup, PollCancelled(s) PROVE ResultsComeLast'
  BY <1>0, <1>5 DEF PollCancelled
<1>6. ASSUME NEW s \in Sup, RefuseQueued(s) PROVE ResultsComeLast'
  BY <1>0, <1>6 DEF RefuseQueued
<1>7. ASSUME NEW s \in Sup, PollDenied(s) PROVE ResultsComeLast'
  <2>1. /\ ReapStale({TicketOf[s]})
        /\ \A t \in Ticket : queue'[t] \in {ReapedQueue({TicketOf[s]})[t], None}
    BY <1>7 DEF PollDenied, ReapedQueue
  <2>2. \A r \in Sup : \/ pc'[r] = pc[r]
                       \/ pc[r] = "queued" /\ pc'[r] \in {"settling", "admitting", "timedout"}
    BY <1>7 DEF PollDenied
  <2> HIDE DEF TypeOK, LifecycleInv, ResultsComeLast, ReapStale, UniqueIds
  <2>3. QED
    BY <1>7, <2>1, <2>2, ReapResultStep DEF PollDenied
<1>8. ASSUME NEW s \in Sup, PollGone(s) PROVE ResultsComeLast'
  <2>1. /\ ReapStale({TicketOf[s]})
        /\ \A t \in Ticket : queue'[t] \in {ReapedQueue({TicketOf[s]})[t], None}
    BY <1>8 DEF PollGone, ReapedQueue
  <2>2. \A r \in Sup : \/ pc'[r] = pc[r]
                       \/ pc[r] = "queued" /\ pc'[r] \in {"settling", "admitting", "timedout"}
    BY <1>8 DEF PollGone
  <2> HIDE DEF TypeOK, LifecycleInv, ResultsComeLast, ReapStale, UniqueIds
  <2>3. QED
    BY <1>8, <2>1, <2>2, ReapResultStep DEF PollGone
<1>9. ASSUME NEW s \in Sup, PollExpired(s) PROVE ResultsComeLast'
  <2>1. /\ ReapStale({TicketOf[s]})
        /\ \A t \in Ticket : queue'[t] \in {ReapedQueue({TicketOf[s]})[t], None}
    BY <1>9 DEF PollExpired, ReapedQueue
  <2>2. \A r \in Sup : \/ pc'[r] = pc[r]
                       \/ pc[r] = "queued" /\ pc'[r] \in {"settling", "admitting", "timedout"}
    BY <1>9 DEF PollExpired
  <2> HIDE DEF TypeOK, LifecycleInv, ResultsComeLast, ReapStale, UniqueIds
  <2>3. QED
    BY <1>9, <2>1, <2>2, ReapResultStep DEF PollExpired
<1>10. ASSUME NEW s \in Sup, SettleTimeout(s) PROVE ResultsComeLast'
  BY <1>0, <1>10 DEF SettleTimeout
<1>11. ASSUME NEW s \in Sup, StartDequeue(s) PROVE ResultsComeLast'
  <2>1. /\ ReapStale({TicketOf[s]})
        /\ \A t \in Ticket : queue'[t] \in {ReapedQueue({TicketOf[s]})[t], None}
    BY <1>11 DEF StartDequeue, ReapedQueue
  <2>2. \A r \in Sup : \/ pc'[r] = pc[r]
                       \/ pc[r] = "queued" /\ pc'[r] \in {"settling", "admitting", "timedout"}
    BY <1>11 DEF StartDequeue
  <2> HIDE DEF TypeOK, LifecycleInv, ResultsComeLast, ReapStale, UniqueIds
  <2>3. QED
    BY <1>11, <2>1, <2>2, ReapResultStep DEF StartDequeue
<1>12. ASSUME NEW s \in Sup, StartLease(s) PROVE ResultsComeLast'
  BY <1>0, <1>12 DEF StartLease
<1>13. ASSUME NEW s \in Sup, PublishSettled(s) PROVE ResultsComeLast'
  BY <1>0, <1>13 DEF PublishSettled
<1>14. ASSUME NEW s \in Sup, ClearMarkers(s) PROVE ResultsComeLast'
  BY <1>0, <1>14 DEF ClearMarkers
<1>15. ASSUME NEW s \in Sup, RefuseAdmitted(s) PROVE ResultsComeLast'
  BY <1>0, <1>15 DEF RefuseAdmitted
<1>16. ASSUME NEW s \in Sup, Spawn(s) PROVE ResultsComeLast'
  BY <1>0, <1>16 DEF Spawn
<1>17. ASSUME NEW s \in Sup, RecordPgid(s) PROVE ResultsComeLast'
  BY <1>0, <1>17 DEF RecordPgid, HolderKeepsLease, Admitted
<1>18. ASSUME NEW s \in Sup, NoticeCancel(s) PROVE ResultsComeLast'
  BY <1>0, <1>18 DEF NoticeCancel
<1>19. ASSUME NEW s \in Sup, Interrupt(s) PROVE ResultsComeLast'
  BY <1>0, <1>19 DEF Interrupt
<1>20. ASSUME NEW s \in Sup, LeaderExits(s) PROVE ResultsComeLast'
  BY <1>0, <1>20 DEF LeaderExits
<1>21. ASSUME NEW s \in Sup, SurvivorsEnd(s) PROVE ResultsComeLast'
  BY <1>0, <1>21 DEF SurvivorsEnd
<1>22. ASSUME NEW s \in Sup, Finalize(s) PROVE ResultsComeLast'
  BY <1>0, <1>22 DEF Finalize
<1>23. ASSUME NEW s \in Sup, Publish(s) PROVE ResultsComeLast'
  BY <1>0, <1>23 DEF Publish
<1>24. ASSUME NEW s \in Sup, Release(s) PROVE ResultsComeLast'
  BY <1>0, <1>24 DEF Release
<1>25. ASSUME NEW s \in Sup, Crash(s) PROVE ResultsComeLast'
  BY <1>0, <1>25 DEF Crash
<1>26. ASSUME NEW c \in Canceller, CancelQueued(c) PROVE ResultsComeLast'
  BY <1>0, <1>26 DEF CancelQueued
<1>27. ASSUME NEW c \in Canceller, CancelLook(c) PROVE ResultsComeLast'
  BY <1>0, <1>27 DEF CancelLook
<1>28. ASSUME NEW c \in Canceller, CancelJudge(c) PROVE ResultsComeLast'
  BY <1>0, <1>28 DEF CancelJudge
<1>29. ASSUME NEW c \in Canceller, CancelConfirmed(c) PROVE ResultsComeLast'
  BY <1>0, <1>29 DEF CancelConfirmed
<1>30. ASSUME NEW c \in Canceller, CancelGivesUp(c) PROVE ResultsComeLast'
  BY <1>0, <1>30 DEF CancelGivesUp
<1>31. ASSUME NEW c \in Canceller, CancelKill(c) PROVE ResultsComeLast'
  BY <1>0, <1>31 DEF CancelKill
<1>32. ASSUME NEW c \in Canceller, CancelPublish(c) PROVE ResultsComeLast'
  BY <1>0, <1>32 DEF CancelPublish
<1>33. ASSUME NEW t \in Ticket, SettleDeadPending(t) PROVE ResultsComeLast'
  BY <1>33 DEF SettleDeadPending, Existing
<1>34. CASE StatusReaps
  <2> HIDE DEF TypeOK, LifecycleInv, ResultsComeLast, ReapStale, UniqueIds
  <2>1. ReapStale({}) /\ queue' = ReapedQueue({}) /\ UNCHANGED <<pc, pending, untold, cpc, prey>>
    BY <1>34 DEF StatusReaps
  <2>2. QED
    BY <2>1, ReapResultStep
<1>35. CASE Reboot
  BY <1>0, <1>35 DEF Reboot
<1>36. CASE UNCHANGED vars
  BY <1>36 DEF vars
<1>37. QED
  BY <1>1, <1>2, <1>3, <1>4, <1>5, <1>6, <1>7, <1>8, <1>9, <1>10, <1>11, <1>12, <1>13,
     <1>14, <1>15, <1>16, <1>17, <1>18, <1>19, <1>20, <1>21, <1>22, <1>23, <1>24, <1>25,
     <1>26, <1>27, <1>28, <1>29, <1>30, <1>31, <1>32, <1>33, <1>34, <1>35, <1>36 DEF Next,
     SupervisorStep, CancelStep

\* A result comes last: whatever is queued, starting or running has none.
THEOREM ResultsLast == ASSUME UniqueIds PROVE Spec => []ResultsComeLast
<1>1. Init => ResultsComeLast
  BY TicketAssumption DEF Init, ResultsComeLast, UnfinishedHasNoResult, QueuedHasNoResult,
     LeasedIsNotQueued, CancelActsOnLeased, PendingIsOwned, Held, NoLease
<1>2. TypeOK /\ TypeOK' /\ LifecycleInv /\ ResultsComeLast /\ [Next]_vars => ResultsComeLast'
  BY ResultStep
<1>3. QED
  BY <1>1, <1>2, Lifecycle, TypeCorrect, PTL DEF Spec

-----------------------------------------------------------------------------
(* Ids that are submitted again, and cancelled: who may spawn *)

\* A step that reaps, and that may also move queued supervisors on, preserves SoleRunInv:
\* it keeps every lease under which a live supervisor or a live process group stands.
LEMMA SoleRunReap ==
    ASSUME TypeOK, SoleRunInv, NEW keep, ReapStale(keep),
           \A t \in Ticket : queue'[t] \in {queue[t], None},
           \A s \in Sup : pc'[s] = "admitting" => lock' = s,
           UNCHANGED <<boot, child>>,
           QueuedMoveOn
    PROVE  SoleRunInv'
<1> USE TicketAssumption DEF QueuedMoveOn, TypeOK, SoleRunInv, Working
<1>1. \A s \in Sup : Leased(s) /\ (Up(s) \/ Working(s)) => Leased(s)'
  BY ReapKeeps DEF ReapStale, Leased, Held
<1>2. \A t \in Ticket : result[t] # "none" => result'[t] # "none"
  BY DEF ReapStale, ReapedResults
<1>3. RunIsPlaced'
  BY <1>2 DEF RunIsPlaced, Unspawned
<1>4. RunIsKnown'
  BY <1>1, <1>2 DEF RunIsKnown, Admitted, Up
<1>5. \A s \in Sup : pc'[s] \in Active => pc[s] \in Active \/ queue[TicketOf[s]] # None
  BY DEF Active, Admitted
<1>6. \A r \in Sup : Over(r) /\ pc'[r] # "admitting" => Over(r)'
  BY DEF Over, Active, Admitted
<1>7. \A s, r \in Sup : pc'[s] = "admitting" /\ pc'[r] = "admitting" => s = r
  OBVIOUS
<1>8. \A s \in Sup : pc'[s] = "admitting" => pc[s] = "admitting" \/ queue'[TicketOf[s]] = None
  OBVIOUS
<1>9. OthersAreOver'
  <2>1. ASSUME NEW r \in Sup, queue'[TicketOf[r]] # None PROVE Over(r)'
    <3>1. queue[TicketOf[r]] # None
      BY <2>1
    <3>2. Over(r)
      BY <3>1 DEF OthersAreOver
    <3>3. QED
      BY <2>1, <3>2, <1>6, <1>8 DEF Over, Active
  <2>2. ASSUME NEW s \in Sup, NEW r \in Sup, r # s, TicketOf[r] = TicketOf[s], pc'[s] \in Active
        PROVE  Over(r)'
    <3>1. Over(r)
      BY <2>2, <1>5 DEF OthersAreOver
    <3>2. pc'[r] # "admitting"
      <4> SUFFICES ASSUME pc'[r] = "admitting" PROVE FALSE
        OBVIOUS
      <4>1. pc[r] = "queued" /\ queue[TicketOf[r]] # None
        BY <3>1 DEF Over, Active
      <4>2. ~Over(s)'
        BY <2>2 DEF Over
      <4>3. Over(s)
        BY <4>1, <2>2 DEF OthersAreOver
      <4>4. pc'[s] = "admitting"
        BY <4>2, <4>3, <1>6
      <4>5. QED
        BY <4>4, <1>7, <2>2
    <3>3. QED
      BY <3>1, <3>2, <1>6
  <2>3. QED
    BY <2>1, <2>2 DEF OthersAreOver
<1>10. QED
  BY <1>3, <1>4, <1>9

\* SoleRunInv is preserved by every step of every process, by crashes and by reboots.
LEMMA SoleRunStep ==
    ASSUME TypeOK, TypeOK', SoleRunInv, [Next]_vars
    PROVE  SoleRunInv'
<1> USE TicketAssumption
<1> USE DEF TypeOK, disk, procs, cancels, Goto, CGoto, LeaveQueue, SoleRunInv, RunIsPlaced,
    RunIsKnown, OthersAreOver, Over, Leased, Active, Admitted, Unspawned, Up, Working
<1>0. NoLease.sup = None
  BY DEF NoLease
<1>1. ASSUME NEW s \in Sup, Submit(s) PROVE SoleRunInv'
  BY <1>0, <1>1 DEF Submit
<1>2. ASSUME NEW s \in Sup, WritePending(s) PROVE SoleRunInv'
  BY <1>0, <1>2 DEF WritePending
<1>3. ASSUME NEW s \in Sup, RefuseStartup(s) PROVE SoleRunInv'
  BY <1>0, <1>3 DEF RefuseStartup
<1>4. ASSUME NEW s \in Sup, Enqueue(s) PROVE SoleRunInv'
  <2>1. CASE Existing(TicketOf[s])
    BY <1>4, <2>1 DEF Enqueue
  <2>2. CASE ~Existing(TicketOf[s])
    <3>1. /\ queue' = [queue EXCEPT ![TicketOf[s]] = s] /\ pc' = [pc EXCEPT ![s] = "queued"]
          /\ UNCHANGED <<boot, lock, lease, result, child>> /\ lock = None
      BY <1>4, <2>2 DEF Enqueue
    <3>2. lease[TicketOf[s]].sup = None /\ result[TicketOf[s]] = "none"
      BY <2>2 DEF Existing, Held
    <3>3. child[s] = "none" /\ pc[s] = "starting"
      BY <1>4 DEF Enqueue
    <3>4. RunIsPlaced' /\ RunIsKnown'
      BY <3>1, <3>3
    <3>5. ASSUME NEW r \in Sup, TicketOf[r] = TicketOf[s] PROVE Over(r)'
      <4>1. ~Leased(r) /\ pc[r] # "admitting"
        BY <3>1, <3>2, <3>5
      <4>2. pc[r] \notin Active /\ ~Working(r)
        BY <3>2, <3>5, <4>1
      <4>3. child[r] # "none" => pc[r] = "dead"
        BY <3>2, <3>5, <4>2 DEF PC
      <4>4. QED
        BY <3>1, <3>3, <4>2, <4>3
    <3>6. OthersAreOver'
      BY <3>1, <3>5
    <3>7. QED
      BY <3>4, <3>6
  <2>3. QED
    BY <2>1, <2>2
<1>5. ASSUME NEW s \in Sup, PollCancelled(s) PROVE SoleRunInv'
  BY <1>0, <1>5 DEF PollCancelled
<1>6. ASSUME NEW s \in Sup, RefuseQueued(s) PROVE SoleRunInv'
  BY <1>0, <1>6 DEF RefuseQueued
<1>7. ASSUME NEW s \in Sup, PollDenied(s) PROVE SoleRunInv'
  <2>1. \A r \in Sup : pc'[r] = "admitting" => lock' = r
    BY <1>7 DEF PollDenied, Poll
  <2>2. \A t \in Ticket : queue'[t] \in {queue[t], None}
    BY <1>7 DEF PollDenied, Poll, ReapedQueue
  <2>3. QueuedMoveOn
    BY <1>7 DEF PollDenied, Poll, ReapedQueue, QueuedMoveOn
  <2> HIDE DEF SoleRunInv, TypeOK
  <2>4. QED
    BY <1>7, <2>1, <2>2, <2>3, SoleRunReap DEF PollDenied, Poll
<1>8. ASSUME NEW s \in Sup, PollGone(s) PROVE SoleRunInv'
  <2>1. \A r \in Sup : pc'[r] = "admitting" => lock' = r
    BY <1>8 DEF PollGone, Poll
  <2>2. \A t \in Ticket : queue'[t] \in {queue[t], None}
    BY <1>8 DEF PollGone, Poll, ReapedQueue
  <2>3. QueuedMoveOn
    BY <1>8 DEF PollGone, Poll, ReapedQueue, QueuedMoveOn
  <2> HIDE DEF SoleRunInv, TypeOK
  <2>4. QED
    BY <1>8, <2>1, <2>2, <2>3, SoleRunReap DEF PollGone, Poll
<1>9. ASSUME NEW s \in Sup, PollExpired(s) PROVE SoleRunInv'
  <2>1. \A r \in Sup : pc'[r] = "admitting" => lock' = r
    BY <1>9 DEF PollExpired, Poll
  <2>2. \A t \in Ticket : queue'[t] \in {queue[t], None}
    BY <1>9 DEF PollExpired, Poll, ReapedQueue
  <2>3. QueuedMoveOn
    BY <1>9 DEF PollExpired, Poll, ReapedQueue, QueuedMoveOn
  <2> HIDE DEF SoleRunInv, TypeOK
  <2>4. QED
    BY <1>9, <2>1, <2>2, <2>3, SoleRunReap DEF PollExpired, Poll
<1>10. ASSUME NEW s \in Sup, SettleTimeout(s) PROVE SoleRunInv'
  BY <1>0, <1>10 DEF SettleTimeout
<1>11. ASSUME NEW s \in Sup, StartDequeue(s) PROVE SoleRunInv'
  <2>1. \A r \in Sup : pc'[r] = "admitting" => lock' = r
    BY <1>11 DEF StartDequeue, Poll
  <2>2. \A t \in Ticket : queue'[t] \in {queue[t], None}
    BY <1>11 DEF StartDequeue, Poll, ReapedQueue
  <2>3. QueuedMoveOn
    BY <1>11 DEF StartDequeue, Poll, ReapedQueue, QueuedMoveOn
  <2> HIDE DEF SoleRunInv, TypeOK
  <2>4. QED
    BY <1>11, <2>1, <2>2, <2>3, SoleRunReap DEF StartDequeue, Poll
<1>12. ASSUME NEW s \in Sup, StartLease(s) PROVE SoleRunInv'
  BY <1>0, <1>12 DEF StartLease
<1>13. ASSUME NEW s \in Sup, PublishSettled(s) PROVE SoleRunInv'
  BY <1>0, <1>13 DEF PublishSettled
<1>14. ASSUME NEW s \in Sup, ClearMarkers(s) PROVE SoleRunInv'
  BY <1>0, <1>14 DEF ClearMarkers
<1>15. ASSUME NEW s \in Sup, RefuseAdmitted(s) PROVE SoleRunInv'
  BY <1>0, <1>15 DEF RefuseAdmitted
<1>16. ASSUME NEW s \in Sup, Spawn(s) PROVE SoleRunInv'
  BY <1>0, <1>16 DEF Spawn
<1>17. ASSUME NEW s \in Sup, RecordPgid(s) PROVE SoleRunInv'
  BY <1>0, <1>17 DEF RecordPgid
<1>18. ASSUME NEW s \in Sup, NoticeCancel(s) PROVE SoleRunInv'
  BY <1>0, <1>18 DEF NoticeCancel
<1>19. ASSUME NEW s \in Sup, Interrupt(s) PROVE SoleRunInv'
  BY <1>0, <1>19 DEF Interrupt
<1>20. ASSUME NEW s \in Sup, LeaderExits(s) PROVE SoleRunInv'
  BY <1>0, <1>20 DEF LeaderExits
<1>21. ASSUME NEW s \in Sup, SurvivorsEnd(s) PROVE SoleRunInv'
  BY <1>0, <1>21 DEF SurvivorsEnd
<1>22. ASSUME NEW s \in Sup, Finalize(s) PROVE SoleRunInv'
  BY <1>0, <1>22 DEF Finalize
<1>23. ASSUME NEW s \in Sup, Publish(s) PROVE SoleRunInv'
  BY <1>0, <1>23 DEF Publish, Outcome
<1>24. ASSUME NEW s \in Sup, Release(s) PROVE SoleRunInv'
  BY <1>0, <1>24 DEF Release
<1>25. ASSUME NEW s \in Sup, Crash(s) PROVE SoleRunInv'
  BY <1>0, <1>25 DEF Crash
<1>26. ASSUME NEW c \in Canceller, CancelQueued(c) PROVE SoleRunInv'
  BY <1>0, <1>26 DEF CancelQueued
<1>27. ASSUME NEW c \in Canceller, CancelLook(c) PROVE SoleRunInv'
  BY <1>0, <1>27 DEF CancelLook
<1>28. ASSUME NEW c \in Canceller, CancelJudge(c) PROVE SoleRunInv'
  BY <1>0, <1>28 DEF CancelJudge
<1>29. ASSUME NEW c \in Canceller, CancelConfirmed(c) PROVE SoleRunInv'
  BY <1>0, <1>29 DEF CancelConfirmed
<1>30. ASSUME NEW c \in Canceller, CancelGivesUp(c) PROVE SoleRunInv'
  BY <1>0, <1>30 DEF CancelGivesUp
<1>31. ASSUME NEW c \in Canceller, CancelKill(c) PROVE SoleRunInv'
  BY <1>0, <1>31 DEF CancelKill
<1>32. ASSUME NEW c \in Canceller, CancelPublish(c) PROVE SoleRunInv'
  BY <1>0, <1>32 DEF CancelPublish
<1>33. ASSUME NEW t \in Ticket, SettleDeadPending(t) PROVE SoleRunInv'
  BY <1>33 DEF SettleDeadPending
<1>34. ASSUME StatusReaps PROVE SoleRunInv'
  <2>1. \A r \in Sup : pc'[r] = "admitting" => lock' = r
    BY <1>34 DEF StatusReaps
  <2>2. \A t \in Ticket : queue'[t] \in {queue[t], None}
    BY <1>34 DEF StatusReaps, ReapedQueue
  <2>3. QueuedMoveOn
    BY <1>34 DEF StatusReaps, QueuedMoveOn
  <2> HIDE DEF SoleRunInv, TypeOK
  <2>4. QED
    BY <1>34, <2>1, <2>2, <2>3, SoleRunReap DEF StatusReaps
<1>35. ASSUME Reboot PROVE SoleRunInv'
  BY <1>35 DEF Reboot
<1>36. ASSUME UNCHANGED vars PROVE SoleRunInv'
  BY <1>36 DEF vars
<1> HIDE DEF TypeOK, SoleRunInv
<1>37. ASSUME NEW s \in Sup, SupervisorStep(s) PROVE SoleRunInv'
  BY <1>3, <1>4, <1>5, <1>8, <1>10, <1>12, <1>13, <1>14, <1>16, <1>17, <1>18, <1>22, <1>23, <1>24, <1>37
  DEF SupervisorStep
<1>38. ASSUME NEW c \in Canceller, CancelStep(c) PROVE SoleRunInv'
  BY <1>26, <1>27, <1>28, <1>29, <1>30, <1>31, <1>32, <1>38 DEF CancelStep
<1>39. QED
  BY <1>1, <1>2, <1>6, <1>7, <1>9, <1>11, <1>15, <1>19, <1>20, <1>21, <1>25, <1>33, <1>34, <1>35,
     <1>36, <1>37, <1>38 DEF Next

\* Among the supervisors of one id, one that is starting or running the command leaves the
\* others no run of their own, however often the id is submitted or cancelled.
THEOREM SoleRun == Spec => []SoleRunInv
<1>1. Init => SoleRunInv
  BY TicketAssumption DEF Init, SoleRunInv, RunIsPlaced, RunIsKnown, OthersAreOver, Over, Active,
     Admitted, Unspawned, Working
<1>2. TypeOK /\ TypeOK' /\ SoleRunInv /\ [Next]_vars => SoleRunInv'
  BY SoleRunStep
<1>3. QED
  BY <1>1, <1>2, TypeCorrect, PTL DEF Spec

\* A command is spawned again under its id only after its earlier supervisor was killed and
\* its process group is gone.
THEOREM NeverRunTwice == Spec => RunsAgainOnlyIfKilled
<1> DEFINE Starts(s) == child[s] = "none" /\ child'[s] = "alive"
           Earlier(r, s) == r # s /\ TicketOf[r] = TicketOf[s] /\ child[r] # "none"
           Killed(r) == pc[r] = "dead" /\ ~Working(r)
<1>1. ASSUME TypeOK, Next, NEW s \in Sup, Starts(s) PROVE pc[s] = "admitted"
  <2> USE <1>1 DEF TypeOK, procs
  <2>1. ASSUME NEW r \in Sup, SupervisorStep(r) PROVE pc[s] = "admitted"
    BY <2>1 DEF SupervisorStep, RefuseStartup, Enqueue, PollCancelled, PollGone, SettleTimeout, StartLease,
       PublishSettled, ClearMarkers, Spawn, RecordPgid, NoticeCancel, Finalize, Publish, Release
  <2>2. ASSUME NEW r \in Sup,
               Submit(r) \/ WritePending(r) \/ PollDenied(r) \/ PollExpired(r) \/ StartDequeue(r)
        PROVE  UNCHANGED child
    BY <2>2 DEF Submit, WritePending, PollDenied, PollExpired, StartDequeue
  <2>3. ASSUME NEW r \in Sup, RefuseQueued(r) \/ RefuseAdmitted(r) \/ Interrupt(r) \/ Crash(r)
        PROVE  UNCHANGED child
    BY <2>3 DEF RefuseQueued, RefuseAdmitted, Interrupt, Crash
  <2>4. ASSUME NEW r \in Sup, LeaderExits(r) \/ SurvivorsEnd(r) PROVE FALSE
    BY <2>4 DEF LeaderExits, SurvivorsEnd
  <2>5. ASSUME NEW c \in Canceller, CancelStep(c) PROVE FALSE
    BY <2>5 DEF CancelStep, CancelQueued, CancelLook, CancelJudge, CancelConfirmed, CancelGivesUp,
       CancelKill, CancelPublish
  <2>6. (\E t \in Ticket : SettleDeadPending(t)) \/ StatusReaps => UNCHANGED child
    BY DEF SettleDeadPending, StatusReaps
  <2>7. ~Reboot
    BY DEF Reboot
  <2>8. QED
    BY <2>1, <2>2, <2>3, <2>4, <2>5, <2>6, <2>7 DEF Next
<1>2. ASSUME SoleRunInv, NEW s \in Sup, NEW r \in Sup, pc[s] = "admitted", Earlier(r, s)
      PROVE  Killed(r)
  BY <1>2 DEF SoleRunInv, OthersAreOver, Over, Active, Admitted
<1>3. TypeOK /\ SoleRunInv /\ [Next]_vars =>
        [\A s, r \in Sup : Starts(s) /\ Earlier(r, s) => Killed(r)]_vars
  BY <1>1, <1>2
<1>4. QED
  <2>1. ([\A s, r \in Sup : Starts(s) /\ Earlier(r, s) => Killed(r)]_vars) =>
          [\A s, r \in Sup :
              /\ child[s] = "none" /\ child'[s] = "alive"
              /\ r # s /\ TicketOf[r] = TicketOf[s] /\ child[r] # "none"
              => pc[r] = "dead" /\ ~Working(r)]_vars
    OBVIOUS
  <2>2. QED
    BY <1>3, <2>1, SoleRun, TypeCorrect, PTL DEF Spec, RunsAgainOnlyIfKilled

-----------------------------------------------------------------------------
(* Ids that are submitted again *)

Owners == OwnersAreAlone /\ RunsLeaveResults /\ OneRunPerId

\* A step that reaps for everyone but `keep`, and that may also move a queued supervisor
\* on, leaves every ticket with one owner.
LEMMA ReapOwners ==
    ASSUME TypeOK, TypeOK', DuplicatesInv, lock = None, NEW keep, ReapStale(keep),
           \/ queue' = ReapedQueue(keep) /\ pc' = pc
           \/ \E s \in Sup :
                /\ pc[s] = "queued"
                /\ \/ queue' = ReapedQueue(keep) /\ pc' = [pc EXCEPT ![s] = "timedout"]
                   \/ /\ queue' = [ReapedQueue(keep) EXCEPT ![TicketOf[s]] = None]
                      /\ pc' = [pc EXCEPT ![s] = "admitting"],
           UNCHANGED <<boot, child, crashes>>
    PROVE  Owners'
<1> USE TicketAssumption DEF TypeOK, DuplicatesInv, LifecycleInv
<1>1. \A t \in Ticket : Held(t)' => Held(t) /\ lease'[t].sup = lease[t].sup
  BY ReapKeeps DEF ReapStale, Held
<1>2. \A t \in Ticket : result[t] # "none" => result'[t] # "none"
  BY DEF ReapStale, ReapedResults
<1>3. \A r \in Sup : pc[r] # "admitting"
  BY DEF CommitIsGuarded
<1>4. OwnersAreAlone'
  <2> SUFFICES ASSUME NEW r \in Sup
               PROVE  /\ pc'[r] \in {"queued", "timedout"} => queue'[TicketOf[r]] = r
                      /\ pc'[r] = "admitting" => queue'[TicketOf[r]] = None
                      /\ pc'[r] \in Waiting => ~Held(TicketOf[r])'
                      /\ pc'[r] = "published" => result'[TicketOf[r]] # "none"
    BY DEF OwnersAreAlone
  <2>1. pc'[r] \in Waiting => pc[r] \in Waiting
    BY DEF Waiting
  <2>2. pc'[r] = "published" => pc[r] = "published"
    OBVIOUS
  <2>3. pc'[r] = "admitting" => queue'[TicketOf[r]] = None
    BY <1>3 DEF ReapedQueue
  <2>4. pc'[r] \in {"queued", "timedout"} => queue'[TicketOf[r]] = r
    <3> SUFFICES ASSUME pc'[r] \in {"queued", "timedout"} PROVE queue'[TicketOf[r]] = r
      OBVIOUS
    <3>1. pc[r] \in {"queued", "timedout"} /\ queue[TicketOf[r]] = r
      BY DEF OwnersAreAlone
    <3>2. ReapedQueue(keep)[TicketOf[r]] = r
      BY <3>1 DEF ReapedQueue, Abandoned, Up
    <3>3. \A q \in Sup : pc[q] = "queued" /\ TicketOf[q] = TicketOf[r] => q = r
      BY <3>1 DEF OwnersAreAlone
    <3>4. QED
      BY <3>2, <3>3 DEF ReapedQueue
  <2>5. QED
    BY <1>1, <1>2, <2>1, <2>2, <2>3, <2>4 DEF OwnersAreAlone
<1>5. RunsLeaveResults'
  BY <1>2 DEF RunsLeaveResults, Waiting, Admitted, WorkIsPlaced, Unspawned
<1>6. OneRunPerId'
  BY DEF OneRunPerId
<1>7. QED
  BY <1>4, <1>5, <1>6 DEF Owners

\* DuplicatesInv is preserved by every step, when there is no `lane cancel`.
LEMMA DuplicatesStep ==
    ASSUME Canceller = {}, TypeOK, TypeOK', DuplicatesInv, [Next]_vars
    PROVE  DuplicatesInv'
<1> USE TicketAssumption
<1> USE DEF TypeOK, PC, Group, disk, procs, cancels, Goto, LeaveQueue, Poll, ReapStale, Admitted, Unspawned,
    Waiting, DuplicatesInv, LifecycleInv, LeaseNamesItsSupervisor, HolderKeepsLease, WorkIsPlaced,
    LeasesAreExclusive, CommitIsGuarded, CancelTakesOverTheEnded, QueueIsOwned, RemovedIsOut,
    OwnersAreAlone, RunsLeaveResults, OneRunPerId, Up, Working, Held
<1>0. NoLease.sup = None /\ \A t \in Ticket : lease[t].sup \in Sup \cup {None}
  BY DEF NoLease, LeaseRecord
<1>1. ASSUME NEW s \in Sup, Submit(s) PROVE DuplicatesInv'
  <2>1. LifecycleInv'
    BY <1>0, <1>1 DEF Submit
  <2>2. OwnersAreAlone'
    BY <1>0, <1>1 DEF Submit
  <2>3. RunsLeaveResults' /\ OneRunPerId'
    BY <1>0, <1>1 DEF Submit
  <2>4. QED
    BY <2>1, <2>2, <2>3
<1>2. ASSUME NEW s \in Sup, WritePending(s) PROVE DuplicatesInv'
  <2>1. LifecycleInv'
    BY <1>0, <1>2 DEF WritePending
  <2>2. OwnersAreAlone'
    BY <1>0, <1>2 DEF WritePending
  <2>3. RunsLeaveResults' /\ OneRunPerId'
    BY <1>0, <1>2 DEF WritePending
  <2>4. QED
    BY <2>1, <2>2, <2>3
<1>3. ASSUME NEW s \in Sup, RefuseStartup(s) PROVE DuplicatesInv'
  <2>1. LifecycleInv'
    BY <1>0, <1>3 DEF RefuseStartup
  <2>2. OwnersAreAlone'
    BY <1>0, <1>3 DEF RefuseStartup
  <2>3. RunsLeaveResults' /\ OneRunPerId'
    BY <1>0, <1>3 DEF RefuseStartup
  <2>4. QED
    BY <2>1, <2>2, <2>3
<1>4. ASSUME NEW s \in Sup, Enqueue(s) PROVE DuplicatesInv'
  <2> DEFINE t == TicketOf[s]
  <2>1. CASE Existing(t)
    <3>1. /\ pc' = [pc EXCEPT ![s] = "exited"] /\ pc[s] = "starting" /\ child[s] = "none"
          /\ UNCHANGED <<boot, lock, lease, queue, result, child, crashes, cpc, prey>>
      BY <1>4, <2>1 DEF Enqueue
    <3>2. LeaseNamesItsSupervisor' /\ HolderKeepsLease' /\ WorkIsPlaced'
      BY <1>0, <3>1
    <3>3. LeasesAreExclusive' /\ CommitIsGuarded' /\ CancelTakesOverTheEnded' /\ RemovedIsOut'
      BY <3>1
    <3>4. QueueIsOwned' /\ OwnersAreAlone'
      BY <3>1
    <3>5. RunsLeaveResults' /\ OneRunPerId'
      BY <3>1
    <3>6. QED
      BY <3>2, <3>3, <3>4, <3>5
  <2>2. CASE ~Existing(t)
    <3>1. /\ queue[t] = None /\ ~Held(t) /\ result[t] = "none"
          /\ pc' = [pc EXCEPT ![s] = "queued"] /\ queue' = [queue EXCEPT ![t] = s]
          /\ pc[s] = "starting" /\ lock = None
          /\ UNCHANGED <<boot, lock, lease, result, child, crashes, cpc, prey>>
      BY <1>4, <2>2 DEF Enqueue, Existing
    <3>2. LeaseNamesItsSupervisor' /\ HolderKeepsLease'
      BY <1>0, <3>1
    <3>3. WorkIsPlaced'
      BY <3>1
    <3>4. LeasesAreExclusive' /\ CommitIsGuarded' /\ CancelTakesOverTheEnded' /\ RemovedIsOut'
      BY <3>1
    <3>5. QueueIsOwned'
      BY <3>1
    <3>6. OwnersAreAlone'
      BY <3>1
    <3>7. RunsLeaveResults' /\ OneRunPerId'
      BY <3>1
    <3>8. QED
      BY <3>2, <3>3, <3>4, <3>5, <3>6, <3>7
  <2>3. QED
    BY <2>1, <2>2
<1>5. ASSUME NEW s \in Sup, PollCancelled(s) PROVE DuplicatesInv'
  <2>1. LifecycleInv'
    BY <1>0, <1>5 DEF PollCancelled
  <2>2. OwnersAreAlone'
    BY <1>0, <1>5 DEF PollCancelled
  <2>3. RunsLeaveResults' /\ OneRunPerId'
    BY <1>0, <1>5 DEF PollCancelled
  <2>4. QED
    BY <2>1, <2>2, <2>3
<1>6. ASSUME NEW s \in Sup, RefuseQueued(s) PROVE DuplicatesInv'
  <2>1. LifecycleInv'
    BY <1>0, <1>6 DEF RefuseQueued
  <2>2. OwnersAreAlone'
    BY <1>0, <1>6 DEF RefuseQueued
  <2>3. RunsLeaveResults' /\ OneRunPerId'
    BY <1>0, <1>6 DEF RefuseQueued
  <2>4. QED
    BY <2>1, <2>2, <2>3
<1>7. ASSUME NEW s \in Sup, SettleTimeout(s) PROVE DuplicatesInv'
  <2>1. LifecycleInv'
    BY <1>0, <1>7 DEF SettleTimeout
  <2>2. OwnersAreAlone'
    BY <1>0, <1>7 DEF SettleTimeout
  <2>3. RunsLeaveResults' /\ OneRunPerId'
    BY <1>0, <1>7 DEF SettleTimeout
  <2>4. QED
    BY <2>1, <2>2, <2>3
<1>8. ASSUME NEW s \in Sup, StartLease(s) PROVE DuplicatesInv'
  <2>1. LifecycleInv'
    BY <1>0, <1>8, ExclusiveSymmetric DEF StartLease
  <2>2. OwnersAreAlone'
    BY <1>0, <1>8 DEF StartLease
  <2>3. RunsLeaveResults' /\ OneRunPerId'
    BY <1>0, <1>8 DEF StartLease
  <2>4. QED
    BY <2>1, <2>2, <2>3
<1>9. ASSUME NEW s \in Sup, PublishSettled(s) PROVE DuplicatesInv'
  <2>1. LifecycleInv'
    BY <1>0, <1>9 DEF PublishSettled
  <2>2. OwnersAreAlone'
    BY <1>0, <1>9 DEF PublishSettled
  <2>3. RunsLeaveResults' /\ OneRunPerId'
    BY <1>0, <1>9 DEF PublishSettled
  <2>4. QED
    BY <2>1, <2>2, <2>3
<1>10. ASSUME NEW s \in Sup, ClearMarkers(s) PROVE DuplicatesInv'
  <2>1. LifecycleInv'
    BY <1>0, <1>10 DEF ClearMarkers
  <2>2. OwnersAreAlone'
    BY <1>0, <1>10 DEF ClearMarkers
  <2>3. RunsLeaveResults' /\ OneRunPerId'
    BY <1>0, <1>10 DEF ClearMarkers
  <2>4. QED
    BY <2>1, <2>2, <2>3
<1>11. ASSUME NEW s \in Sup, RefuseAdmitted(s) PROVE DuplicatesInv'
  <2>1. LifecycleInv'
    BY <1>0, <1>11 DEF RefuseAdmitted
  <2>2. OwnersAreAlone'
    BY <1>0, <1>11 DEF RefuseAdmitted
  <2>3. RunsLeaveResults' /\ OneRunPerId'
    BY <1>0, <1>11 DEF RefuseAdmitted
  <2>4. QED
    BY <2>1, <2>2, <2>3
<1>12. ASSUME NEW s \in Sup, Spawn(s) PROVE DuplicatesInv'
  <2>1. LifecycleInv'
    BY <1>0, <1>12 DEF Spawn
  <2>2. OwnersAreAlone'
    BY <1>0, <1>12 DEF Spawn
  <2>3. \A r \in Sup : r # s /\ TicketOf[r] = TicketOf[s] => pc[r] \notin Admitted
    <3>1. lease[TicketOf[s]].sup = s
      BY <1>12 DEF Spawn
    <3>2. \A r \in Sup : pc[r] \in Admitted => lease[TicketOf[r]].sup = r
      OBVIOUS
    <3> HIDE DEF DuplicatesInv, TypeOK, Admitted
    <3>3. QED
      BY <3>1, <3>2, Zenon
  <2>4. RunsLeaveResults'
    <3>1. /\ pc[s] = "admitted" /\ pc' = [pc EXCEPT ![s] = "spawned"]
          /\ child' = [child EXCEPT ![s] = "alive"] /\ UNCHANGED <<boot, crashes, result>>
      <4> HIDE DEF DuplicatesInv, TypeOK
      <4>1. QED
        BY <1>12 DEF Spawn
    <3>2. \A r \in Sup : r # s => pc'[r] = pc[r] /\ child'[r] = child[r]
      BY <3>1
    <3>3. \A r \in Sup : /\ pc[r] \in Admitted => pc'[r] \in Admitted
                         /\ pc'[r] \in Waiting \cup Admitted => pc[r] \in Waiting \cup Admitted
                         /\ r = s => pc'[r] \in Admitted
      BY <3>1, <3>2
    <3> HIDE DEF Admitted, Waiting
    <3>4. QED
      BY <3>1, <3>2, <3>3
  <2>5. OneRunPerId'
    BY <1>12, <2>3 DEF Spawn
  <2>6. QED
    BY <2>1, <2>2, <2>4, <2>5
<1>13. ASSUME NEW s \in Sup, RecordPgid(s) PROVE DuplicatesInv'
  <2>1. LifecycleInv'
    BY <1>0, <1>13 DEF RecordPgid
  <2>2. OwnersAreAlone'
    BY <1>0, <1>13 DEF RecordPgid
  <2>3. RunsLeaveResults' /\ OneRunPerId'
    BY <1>0, <1>13 DEF RecordPgid
  <2>4. QED
    BY <2>1, <2>2, <2>3
<1>14. ASSUME NEW s \in Sup, NoticeCancel(s) PROVE DuplicatesInv'
  <2>1. LifecycleInv'
    BY <1>0, <1>14 DEF NoticeCancel
  <2>2. OwnersAreAlone'
    BY <1>0, <1>14 DEF NoticeCancel
  <2>3. RunsLeaveResults' /\ OneRunPerId'
    BY <1>0, <1>14 DEF NoticeCancel
  <2>4. QED
    BY <2>1, <2>2, <2>3
<1>15. ASSUME NEW s \in Sup, Interrupt(s) PROVE DuplicatesInv'
  <2>1. LifecycleInv'
    BY <1>0, <1>15 DEF Interrupt
  <2>2. OwnersAreAlone'
    BY <1>0, <1>15 DEF Interrupt
  <2>3. RunsLeaveResults' /\ OneRunPerId'
    BY <1>0, <1>15 DEF Interrupt
  <2>4. QED
    BY <2>1, <2>2, <2>3
<1>16. ASSUME NEW s \in Sup, LeaderExits(s) PROVE DuplicatesInv'
  <2>1. LifecycleInv'
    BY <1>0, <1>16 DEF LeaderExits
  <2>2. OwnersAreAlone'
    BY <1>0, <1>16 DEF LeaderExits
  <2>3. RunsLeaveResults' /\ OneRunPerId'
    BY <1>0, <1>16 DEF LeaderExits
  <2>4. QED
    BY <2>1, <2>2, <2>3
<1>17. ASSUME NEW s \in Sup, SurvivorsEnd(s) PROVE DuplicatesInv'
  <2>1. LifecycleInv'
    BY <1>0, <1>17 DEF SurvivorsEnd
  <2>2. OwnersAreAlone'
    BY <1>0, <1>17 DEF SurvivorsEnd
  <2>3. RunsLeaveResults' /\ OneRunPerId'
    BY <1>0, <1>17 DEF SurvivorsEnd
  <2>4. QED
    BY <2>1, <2>2, <2>3
<1>18. ASSUME NEW s \in Sup, Finalize(s) PROVE DuplicatesInv'
  <2>1. LifecycleInv'
    BY <1>0, <1>18 DEF Finalize
  <2>2. OwnersAreAlone'
    BY <1>0, <1>18 DEF Finalize
  <2>3. RunsLeaveResults' /\ OneRunPerId'
    BY <1>0, <1>18 DEF Finalize
  <2>4. QED
    BY <2>1, <2>2, <2>3
<1>19. ASSUME NEW s \in Sup, Publish(s) PROVE DuplicatesInv'
  <2>1. LifecycleInv'
    BY <1>0, <1>19 DEF Publish
  <2>2. OwnersAreAlone'
    BY <1>0, <1>19 DEF Publish, Outcome
  <2>3. RunsLeaveResults' /\ OneRunPerId'
    BY <1>0, <1>19 DEF Publish
  <2>4. QED
    BY <2>1, <2>2, <2>3
<1>20. ASSUME NEW s \in Sup, Release(s) PROVE DuplicatesInv'
  <2>1. LifecycleInv'
    BY <1>0, <1>20 DEF Release
  <2>2. OwnersAreAlone'
    BY <1>0, <1>20 DEF Release
  <2>3. RunsLeaveResults' /\ OneRunPerId'
    BY <1>0, <1>20 DEF Release
  <2>4. QED
    BY <2>1, <2>2, <2>3
<1>21. ASSUME NEW s \in Sup, Crash(s) PROVE DuplicatesInv'
  <2>1. LifecycleInv'
    BY <1>0, <1>21 DEF Crash
  <2>2. OwnersAreAlone'
    BY <1>0, <1>21 DEF Crash
  <2>3. RunsLeaveResults' /\ OneRunPerId'
    BY <1>0, <1>21 DEF Crash
  <2>4. QED
    BY <2>1, <2>2, <2>3
<1>22. ASSUME NEW s \in Sup, PollDenied(s) PROVE DuplicatesInv'
  <2>1. CommitIsGuarded'
    BY <1>22, AdmittedIsExclusive DEF PollDenied
  <2>2. \A t \in Ticket : queue'[t] \in {queue[t], None}
    BY <1>22 DEF PollDenied, ReapedQueue
  <2>3. QueuedMoveOn
    BY <1>22 DEF PollDenied, ReapedQueue, QueuedMoveOn
  <2> HIDE DEF LifecycleInv, CommitIsGuarded, TypeOK, DuplicatesInv
  <2>4. LifecycleInv'
    BY <1>22, <2>1, <2>2, <2>3, ReapStep DEF PollDenied, DuplicatesInv
  <2>5. Owners'
    <3> HIDE DEF ReapStale, OwnersAreAlone, RunsLeaveResults, OneRunPerId
    <3>1. QED
      BY <1>22, ReapOwners DEF PollDenied
  <2>6. QED
    BY <2>4, <2>5 DEF DuplicatesInv, Owners
<1>23. ASSUME NEW s \in Sup, PollGone(s) PROVE DuplicatesInv'
  BY <1>23 DEF PollGone
<1>24. ASSUME NEW s \in Sup, PollExpired(s) PROVE DuplicatesInv'
  <2>1. CommitIsGuarded'
    BY <1>24, AdmittedIsExclusive DEF PollExpired
  <2>2. \A t \in Ticket : queue'[t] \in {queue[t], None}
    BY <1>24 DEF PollExpired, ReapedQueue
  <2>3. QueuedMoveOn
    BY <1>24 DEF PollExpired, ReapedQueue, QueuedMoveOn
  <2> HIDE DEF LifecycleInv, CommitIsGuarded, TypeOK, DuplicatesInv
  <2>4. LifecycleInv'
    BY <1>24, <2>1, <2>2, <2>3, ReapStep DEF PollExpired, DuplicatesInv
  <2>5. Owners'
    <3> HIDE DEF ReapStale, OwnersAreAlone, RunsLeaveResults, OneRunPerId
    <3>1. QED
      BY <1>24, ReapOwners DEF PollExpired
  <2>6. QED
    BY <2>4, <2>5 DEF DuplicatesInv, Owners
<1>25. ASSUME NEW s \in Sup, StartDequeue(s) PROVE DuplicatesInv'
  <2>1. CommitIsGuarded'
    BY <1>25, AdmittedIsExclusive DEF StartDequeue
  <2>2. \A t \in Ticket : queue'[t] \in {queue[t], None}
    BY <1>25 DEF StartDequeue, ReapedQueue
  <2>3. QueuedMoveOn
    BY <1>25 DEF StartDequeue, ReapedQueue, QueuedMoveOn
  <2> HIDE DEF LifecycleInv, CommitIsGuarded, TypeOK, DuplicatesInv
  <2>4. LifecycleInv'
    BY <1>25, <2>1, <2>2, <2>3, ReapStep DEF StartDequeue, DuplicatesInv
  <2>5. Owners'
    <3> HIDE DEF ReapStale, OwnersAreAlone, RunsLeaveResults, OneRunPerId
    <3>1. QED
      BY <1>25, ReapOwners DEF StartDequeue
  <2>6. QED
    BY <2>4, <2>5 DEF DuplicatesInv, Owners
<1>26. ASSUME NEW t \in Ticket, SettleDeadPending(t) PROVE DuplicatesInv'
  BY <1>26 DEF SettleDeadPending
<1>27. CASE StatusReaps
  <2>1. CommitIsGuarded'
    BY <1>27 DEF StatusReaps
  <2>2. \A t \in Ticket : queue'[t] \in {queue[t], None}
    BY <1>27 DEF StatusReaps, ReapedQueue
  <2>3. QueuedMoveOn
    BY <1>27 DEF StatusReaps, QueuedMoveOn
  <2> HIDE DEF LifecycleInv, CommitIsGuarded, TypeOK, DuplicatesInv, ReapStale, OwnersAreAlone,
      RunsLeaveResults, OneRunPerId
  <2>4. LifecycleInv'
    BY <1>27, <2>1, <2>2, <2>3, ReapStep DEF StatusReaps, DuplicatesInv, ReapStale
  <2>5. Owners'
    BY <1>27, ReapOwners DEF StatusReaps
  <2>6. QED
    BY <2>4, <2>5 DEF DuplicatesInv, Owners
<1>28. CASE Reboot
  <2>1. LifecycleInv'
    BY <1>0, <1>28 DEF Reboot
  <2>2. OwnersAreAlone'
    BY <1>0, <1>28 DEF Reboot
  <2>3. RunsLeaveResults' /\ OneRunPerId'
    BY <1>0, <1>28 DEF Reboot
  <2>4. QED
    BY <2>1, <2>2, <2>3
<1>29. CASE UNCHANGED vars
  BY <1>29 DEF vars
<1>30. QED
  BY <1>1, <1>2, <1>3, <1>4, <1>5, <1>6, <1>7, <1>8, <1>9, <1>10, <1>11, <1>12, <1>13, <1>14, <1>15, <1>16, <1>17, <1>18, <1>19, <1>20, <1>21, <1>22, <1>23, <1>24, <1>25, <1>26, <1>27, <1>28, <1>29 DEF Next, SupervisorStep

\* For ids that are submitted again and never cancelled, every file and process is
\* accounted for by one supervisor of its ticket, across crashes and reboots.
THEOREM DuplicatesKeepTheInvariant == ASSUME Canceller = {} PROVE Spec => []DuplicatesInv
<1>1. Init => DuplicatesInv
  BY TicketAssumption DEF Init, DuplicatesInv, LifecycleInv, LeaseNamesItsSupervisor, HolderKeepsLease,
     WorkIsPlaced, LeasesAreExclusive, CommitIsGuarded, CancelTakesOverTheEnded, QueueIsOwned,
     RemovedIsOut, OwnersAreAlone, RunsLeaveResults, OneRunPerId, Waiting, Admitted, Unspawned,
     Working, Held, NoLease
<1>2. TypeOK /\ TypeOK' /\ DuplicatesInv /\ [Next]_vars => DuplicatesInv'
  BY DuplicatesStep
<1>3. QED
  BY <1>1, <1>2, TypeCorrect, PTL DEF Spec

\* What a retried --id may rely on: without kills its command runs at most once, and even
\* when kills and reboots break that, whatever runs under the id is leased to its runner.
THEOREM RetriedIdsAreSafe == ASSUME Canceller = {} PROVE Spec => []DuplicatesAreSafe
<1>1. DuplicatesInv => DuplicatesAreSafe
  BY DEF DuplicatesInv, DuplicatesAreSafe, LifecycleInv, WorkIsPlaced, LiveWorkIsLeased
<1>2. QED
  BY <1>1, DuplicatesKeepTheInvariant, PTL

\* Conflicting lanes never overlap either, however often an id is submitted again: each
\* group that lives is under a lease of its own, and the leases exclude one another.
THEOREM RetriedIdsNeverOverlap == ASSUME Canceller = {} PROVE Spec => []NoConflictOverlap
<1>1. TypeOK /\ DuplicatesInv => NoConflictOverlap
  BY TicketAssumption DEF TypeOK, DuplicatesInv, LifecycleInv, WorkIsPlaced, LeasesAreExclusive, Held,
     NoConflictOverlap
<1>2. QED
  BY <1>1, DuplicatesKeepTheInvariant, TypeCorrect, PTL

-----------------------------------------------------------------------------
(* The ceiling of a lane *)

\* Taking leases away keeps the rest under their ceilings, and room is not used up.
LEMMA FewerLeasesFit ==
    ASSUME TypeOK, TypeOK', CeilingInv,
           \A t \in Ticket : Held(t)' => Held(t),
           \A s \in Sup : pc'[s] = "admitting" => pc[s] = "admitting" /\ lock' = s
    PROVE  CeilingInv'
<1> USE TicketAssumption DEF CeilingInv
<1>1. \A k \in Key : LeasesOf(k)' \subseteq LeasesOf(k) /\ IsFiniteSet(LeasesOf(k))
  <2> SUFFICES ASSUME NEW k \in Key
               PROVE  LeasesOf(k)' \subseteq LeasesOf(k) /\ IsFiniteSet(LeasesOf(k))
    OBVIOUS
  <2>1. LeasesOf(k) \subseteq Ticket
    BY DEF LeasesOf
  <2>2. QED
    BY <2>1, FS_Subset DEF LeasesOf
<1>2. LeasesFit'
  <2> SUFFICES ASSUME NEW k \in Key, NEW held \in SUBSET (LeasesOf(k)'), held # {}
               PROVE  \E t \in held : Cardinality(held) <= MaxConcurrent[t]
    BY DEF LeasesFit
  <2>1. held \in SUBSET LeasesOf(k)
    BY <1>1
  <2>2. QED
    BY <2>1 DEF LeasesFit
<1>3. CommitFits'
  <2> SUFFICES ASSUME NEW s \in Sup, pc'[s] = "admitting"
               PROVE  /\ lock' = s
                      /\ Cardinality(LeasesOf(KeyOf[TicketOf[s]])') < MaxConcurrent[TicketOf[s]]
    BY DEF CommitFits
  <2> DEFINE k == KeyOf[TicketOf[s]]
             now == LeasesOf(k)
             then == LeasesOf(k)'
  <2>1. k \in Key /\ MaxConcurrent[TicketOf[s]] \in Nat
    OBVIOUS
  <2>2. Cardinality(then) <= Cardinality(now) /\ Cardinality(then) \in Nat /\ Cardinality(now) \in Nat
    <3>1. then \subseteq now /\ IsFiniteSet(now)
      BY <1>1, <2>1
    <3>2. IsFiniteSet(then) /\ Cardinality(then) <= Cardinality(now)
      BY <3>1, FS_Subset
    <3>3. QED
      BY <3>1, <3>2, FS_CardinalityType
  <2>3. Cardinality(now) < MaxConcurrent[TicketOf[s]]
    BY DEF CommitFits
  <2> HIDE DEF now, then
  <2>4. Cardinality(then) < MaxConcurrent[TicketOf[s]]
    BY <2>1, <2>2, <2>3
  <2>5. QED
    BY <2>4 DEF then
<1>4. QED
  BY <1>2, <1>3

\* The second write of a start commit adds a lease for which its lane had room.
LEMMA OneMoreLeaseFits ==
    ASSUME TypeOK, TypeOK', CeilingInv, NEW s \in Sup, StartLease(s)
    PROVE  CeilingInv'
<1> USE TicketAssumption DEF CeilingInv
<1> DEFINE t == TicketOf[s]
<1>1. pc[s] = "admitting" /\ lock = s /\ pc'[s] = "admitted" /\ t \in Ticket
  BY DEF StartLease, CommitFits, Goto, TypeOK
<1>2. CommitFits'
  <2>1. \A r \in Sup : pc'[r] # "admitting"
    BY <1>1 DEF StartLease, CommitFits, Goto, TypeOK
  <2>2. QED
    BY <2>1 DEF CommitFits
<1>3. \A u \in Ticket : Held(u)' => Held(u) \/ u = t
  BY DEF StartLease, Held, TypeOK
<1>4. LeasesFit'
  <2> SUFFICES ASSUME NEW k \in Key, NEW held \in SUBSET (LeasesOf(k)'), held # {}
               PROVE  \E u \in held : Cardinality(held) <= MaxConcurrent[u]
    BY DEF LeasesFit
  <2>1. held \subseteq LeasesOf(k) \cup {t} /\ (t \in held => k = KeyOf[t])
    BY <1>3 DEF LeasesOf
  <2>2. CASE t \notin held
    BY <2>1, <2>2 DEF LeasesFit
  <2>3. CASE t \in held
    <3> DEFINE now == LeasesOf(k)
    <3>1. IsFiniteSet(now)
      <4>1. now \subseteq Ticket
        BY DEF LeasesOf
      <4>2. QED
        BY <4>1, FS_Subset
    <3>2. Cardinality(now) < MaxConcurrent[t] /\ MaxConcurrent[t] \in Nat
      BY <1>1, <2>1, <2>3 DEF CommitFits
    <3> HIDE DEF now
    <3>3. /\ IsFiniteSet(now \cup {t}) /\ Cardinality(now) \in Nat
          /\ Cardinality(now \cup {t}) \in {Cardinality(now), Cardinality(now) + 1}
      BY <3>1, FS_AddElement, FS_CardinalityType
    <3>4. /\ Cardinality(held) <= Cardinality(now \cup {t})
          /\ Cardinality(held) \in Nat
      BY <2>1, <3>3, FS_Subset, FS_CardinalityType DEF now
    <3>5. Cardinality(held) <= MaxConcurrent[t]
      BY <3>2, <3>3, <3>4
    <3>6. QED
      BY <2>3, <3>5
  <2>4. QED
    BY <2>2, <2>3
<1>5. QED
  BY <1>2, <1>4

\* blockedBy lets a ticket through only when its lane has room after the pass.
LEMMA AdmittedFits ==
    ASSUME TypeOK, TypeOK', CeilingInv, NEW s \in Sup, StartDequeue(s)
    PROVE  CeilingInv'
<1> USE TicketAssumption DEF CeilingInv
<1> DEFINE t == TicketOf[s]
<1>1. /\ lock = None /\ lease' = ReapedLeases /\ ~Blocked(t) /\ lock' = s
      /\ pc' = [pc EXCEPT ![s] = "admitting"]
  BY DEF StartDequeue, Poll, ReapStale, Goto
<1>2. \A u \in Ticket : Held(u)' => Held(u)
  BY <1>1, ReapKeeps DEF Held
<1>3. LeasesFit'
  <2> SUFFICES ASSUME NEW k \in Key, NEW held \in SUBSET (LeasesOf(k)'), held # {}
               PROVE  \E u \in held : Cardinality(held) <= MaxConcurrent[u]
    BY DEF LeasesFit
  <2>1. held \in SUBSET LeasesOf(k)
    BY <1>2 DEF LeasesOf
  <2>2. QED
    BY <2>1 DEF LeasesFit
<1>4. CommitFits'
  <2>1. \A r \in Sup : pc'[r] = "admitting" => r = s
    BY <1>1 DEF CommitFits, TypeOK
  <2>2. Cardinality(LeasesOf(KeyOf[t])') < MaxConcurrent[t]
    <3> DEFINE same == {u \in {v \in Ticket : ReapedLeases[v].sup # None} : KeyOf[u] = KeyOf[t]}
    <3>1. ~(Cardinality(same) >= MaxConcurrent[t])
      BY <1>1 DEF Blocked
    <3>2. LeasesOf(KeyOf[t])' = same
      BY <1>1 DEF LeasesOf, Held
    <3>3. IsFiniteSet(same)
      BY FS_Subset
    <3>4. Cardinality(same) \in Nat /\ MaxConcurrent[t] \in Nat
      BY <3>3, FS_CardinalityType
    <3> HIDE DEF same
    <3>5. QED
      BY <3>1, <3>2, <3>4
  <2>3. QED
    BY <1>1, <2>1, <2>2 DEF CommitFits
<1>5. QED
  BY <1>3, <1>4

\* CeilingInv is preserved by every step, if a supervisor that is admitted keeps its lease.
LEMMA CeilingStep ==
    ASSUME TypeOK, TypeOK', HolderKeepsLease, CeilingInv, [Next]_vars
    PROVE  CeilingInv'
<1> DEFINE Fewer == /\ \A t \in Ticket : Held(t)' => Held(t)
                    /\ \A s \in Sup : pc'[s] = "admitting" => pc[s] = "admitting" /\ lock' = s
<1>1. ASSUME NEW keep, ReapStale(keep) PROVE \A t \in Ticket : Held(t)' => Held(t)
  BY <1>1, ReapKeeps DEF ReapStale, Held
<1>2. \A s \in Sup : pc[s] = "admitting" => lock = s
  BY DEF CeilingInv, CommitFits
<1>3. Fewer => CeilingInv'
  BY FewerLeasesFit
<1> USE TicketAssumption DEF TypeOK, disk, procs, cancels, Goto, LeaveQueue
<1>4. ASSUME NEW s \in Sup, Submit(s) \/ WritePending(s) \/ RefuseStartup(s) \/ Enqueue(s) PROVE Fewer
  BY <1>2, <1>4 DEF Submit, WritePending, RefuseStartup, Enqueue, Held
<1>5. ASSUME NEW s \in Sup, PollCancelled(s) \/ RefuseQueued(s) \/ SettleTimeout(s) PROVE Fewer
  BY <1>2, <1>5 DEF PollCancelled, RefuseQueued, SettleTimeout, Held
<1>6. ASSUME NEW s \in Sup, PollDenied(s) \/ PollGone(s) \/ PollExpired(s) PROVE Fewer
  BY <1>1, <1>2, <1>6 DEF PollDenied, PollGone, PollExpired, Poll
<1>7. ASSUME NEW s \in Sup, PublishSettled(s) \/ ClearMarkers(s) \/ Spawn(s) PROVE Fewer
  BY <1>2, <1>7 DEF PublishSettled, ClearMarkers, Spawn, Held
<1>8. ASSUME NEW s \in Sup, RefuseAdmitted(s) \/ Release(s) PROVE Fewer
  BY <1>2, <1>8 DEF RefuseAdmitted, Release, Held, NoLease
<1>9. ASSUME NEW s \in Sup, RecordPgid(s) PROVE Fewer
  BY <1>2, <1>9 DEF RecordPgid, Held, HolderKeepsLease, Admitted
<1>10. ASSUME NEW s \in Sup, NoticeCancel(s) \/ Interrupt(s) \/ LeaderExits(s) \/ SurvivorsEnd(s) PROVE Fewer
  BY <1>2, <1>10 DEF NoticeCancel, Interrupt, LeaderExits, SurvivorsEnd, Held
<1>11. ASSUME NEW s \in Sup, Finalize(s) \/ Publish(s) PROVE Fewer
  BY <1>2, <1>11 DEF Finalize, Publish, Held
<1>12. ASSUME NEW s \in Sup, Crash(s) PROVE Fewer
  BY <1>2, <1>12 DEF Crash, Held
<1>13. ASSUME NEW c \in Canceller, CancelStep(c) PROVE Fewer
  BY <1>2, <1>13 DEF CancelStep, CancelQueued, CancelLook, CancelJudge, CancelConfirmed, CancelGivesUp,
     CancelKill, CancelPublish, Held, NoLease
<1>14. ASSUME NEW t \in Ticket, SettleDeadPending(t) PROVE Fewer
  BY <1>2, <1>14 DEF SettleDeadPending, Held
<1>15. CASE StatusReaps
  <2>1. Fewer
    BY <1>1, <1>2, <1>15 DEF StatusReaps
  <2>2. QED
    BY <1>3, <2>1
<1>16. CASE Reboot
  <2>1. Fewer
    BY <1>2, <1>16 DEF Reboot, Held, Up
  <2>2. QED
    BY <1>3, <2>1
<1>17. CASE UNCHANGED vars
  <2>1. Fewer
    BY <1>2, <1>17 DEF vars, Held
  <2>2. QED
    BY <1>3, <2>1
<1> HIDE DEF TypeOK, Fewer
<1>18. QED
  BY <1>3, <1>4, <1>5, <1>6, <1>7, <1>8, <1>9, <1>10, <1>11, <1>12, <1>13, <1>14, <1>15, <1>16, <1>17,
     OneMoreLeaseFits, AdmittedFits DEF Next, SupervisorStep

\* The leases held for a lane, RUNNING or ORPHANED, never outnumber the largest ceiling
\* among them, in whichever order they came and went; ids may be resubmitted as long as
\* nobody cancels, or cancelled as long as they are not resubmitted.
THEOREM CeilingHolds ==
    ASSUME UniqueIds \/ Canceller = {}
    PROVE  Spec => []CeilingRespected
<1>1. Init => CeilingInv
  <2> SUFFICES ASSUME Init PROVE CeilingInv
    OBVIOUS
  <2> USE TicketAssumption DEF Init, Held, NoLease
  <2>1. LeasesFit
    BY DEF LeasesFit, LeasesOf
  <2>2. CommitFits
    BY DEF CommitFits
  <2>3. QED
    BY <2>1, <2>2 DEF CeilingInv
<1>2. TypeOK /\ TypeOK' /\ HolderKeepsLease /\ CeilingInv /\ [Next]_vars => CeilingInv'
  BY CeilingStep
<1>3. CeilingInv => CeilingRespected
  BY DEF CeilingInv, LeasesFit, LeasesOf, CeilingRespected
<1>4. LifecycleInv => HolderKeepsLease
  BY DEF LifecycleInv
<1>5. DuplicatesInv => HolderKeepsLease
  BY DEF DuplicatesInv, LifecycleInv
<1>6. Spec => []HolderKeepsLease
  <2>1. CASE UniqueIds
    BY <1>4, <2>1, Lifecycle, PTL
  <2>2. CASE Canceller = {}
    BY <1>5, <2>2, DuplicatesKeepTheInvariant, PTL
  <2>3. QED
    BY <2>1, <2>2
<1>7. QED
  BY <1>1, <1>2, <1>3, <1>6, TypeCorrect, PTL DEF Spec

=============================================================================
