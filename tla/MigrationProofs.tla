--------------------------- MODULE MigrationProofs ---------------------------
(***************************************************************************)
(* Proofs about Migration, for any number of migrators, tickets and kills.  *)
(***************************************************************************)
EXTENDS Migration, TLAPS

\* The places of one hold of the lock; those between the marker and its removal;
\* those between the checks and the fence.
Inside == {"locked", "pause", "mark", "check", "fairness", "rename", "place", "fence",
           "unmark", "resume", "undrain"}
Marking == {"check", "fairness", "rename", "place", "fence", "unmark"}
Cutting == {"fairness", "rename", "place", "fence"}

\* What the checks establish and the marker and the lock keep: nothing is here
\* or on its way, and an old process that starts cannot get in.
Drained ==
    \A t \in Ticket : /\ step[t] \notin {"queued", "parked", "leased"} /\ ~attempt[t]
                      /\ t \in old \/ ~alive[t]

\* The lock is where the program counter says, and the form of the command.
PlaceInv(m) ==
    /\ lock = m <=> pc[m] \in Inside
    /\ pc[m] \in {"start", "waiting", "cleanup", "pause"} => cmd[m] = "drain"
    /\ pc[m] \in Cutting => cmd[m] # "dry"

\* A marker, and a pause, name a migrator that is still to remove it, or a dead one.
MarkerInv(m) ==
    /\ migrating = m => pc[m] = "dead" \/ (pc[m] \in Marking /\ cmd[m] # "dry")
    /\ pc[m] \in Marking /\ cmd[m] # "dry" => migrating = m
    /\ draining = m => pc[m] = "dead" \/ (cmd[m] = "drain" /\ pc[m] \notin {"idle", "start"})

PauseInv(m) ==
    /\ pc[m] = "pause" => pause = None
    /\ pause = m => pc[m] = "dead" \/ here[m]
    /\ here[m] => cmd[m] = "drain" /\ pc[m] \in Marking \cup {"mark", "resume", "undrain"}
    /\ here[m] /\ pc[m] # "undrain" => pause = m
    /\ pc[m] = "undrain" => pause # m

\* How far the cutover is.
CutoverInv(m) ==
    /\ pc[m] \in {"pause", "mark", "check"} \cup Cutting => ~fence
    /\ pc[m] \in {"rename", "place", "fence"} => fairness
    /\ pc[m] = "rename" => queue # "fence"
    /\ pc[m] = "fence" => queue = "fence"
    /\ pc[m] \in Cutting => Drained

TicketInv(t) ==
    /\ step[t] \in {"queued", "parked"} => where[t] = CurrentQueue
    /\ step[t] = "parked" => attempt[t]
    /\ attempt[t] => t \notin old
    /\ fence /\ t \in old => step[t] \notin {"queued", "leased"}

FenceInv == fence => fairness /\ queue = "fence"

MigrationInv ==
    /\ \A m \in Migrator : PlaceInv(m) /\ MarkerInv(m) /\ PauseInv(m) /\ CutoverInv(m)
    /\ \A t \in Ticket : TicketInv(t)
    /\ FenceInv

IInv == MigrationTypeOK /\ MigrationInv

\* The steps by who takes them.
MigratorStep(m) ==
    \/ \E c \in {"plain", "dry", "drain"} : Begin(m, c)
    \/ Poll(m) \/ GiveUp(m) \/ Lock(m) \/ Hold(m)
    \/ Kill(m) \/ ReusePid(m) \/ ReusedPidEnds(m)
TicketStep(t) ==
    \/ LaneRun(t) \/ LaneRunContended(t) \/ Refused(t) \/ BeginAttempt(t) \/ Enqueue(t)
    \/ Withdraw(t) \/ Restore(t) \/ TryStart(t) \/ Finish(t)
    \/ OldStart(t) \/ OldEnqueue(t)
OtherStep == MakeDirs \/ PauseCommand \/ ResumeCommand

-----------------------------------------------------------------------------
LEMMA TypeInit == Init => MigrationTypeOK
<1> SUFFICES ASSUME Init PROVE MigrationTypeOK
  OBVIOUS
<1>1. kills \in 0 .. MaxKills
  BY MaxKillsAssumption DEF Init
<1>2. /\ pc \in [Migrator -> PC] /\ cmd \in [Migrator -> {"plain", "dry", "drain"}]
      /\ here \in [Migrator -> BOOLEAN] /\ busy \in [Migrator -> BOOLEAN]
      /\ reused \in [Migrator -> {"no", "yes", "over"}]
  BY DEF Init, PC
<1>3. /\ step \in [Ticket -> Step] /\ where \in [Ticket -> {"legacy", "v2", "aside", None}]
      /\ attempt \in [Ticket -> BOOLEAN] /\ alive \in [Ticket -> BOOLEAN]
  BY DEF Init, Step
<1> QED
  BY <1>1, <1>2, <1>3 DEF Init, MigrationTypeOK

LEMMA TypeOfMigrator ==
    ASSUME MigrationTypeOK, NEW m \in Migrator, MigratorStep(m)
    PROVE  MigrationTypeOK'
<1> USE NamesAssumption, MaxKillsAssumption
    DEF MigrationTypeOK, PC, Go, Leave, disk, work, self, world
<1>1. CASE \E c \in {"plain", "dry", "drain"} : Begin(m, c)
  BY <1>1 DEF Begin
<1>2. CASE Poll(m) \/ GiveUp(m)
  BY <1>2 DEF Poll, GiveUp
<1>3. CASE Lock(m)
  <2>1. CASE StartDrain(m)
    BY <2>1 DEF StartDrain, Released
  <2>2. CASE RefuseDrain(m)
    BY <2>2 DEF RefuseDrain
  <2>3. CASE Acquire(m)
    BY <2>3 DEF Acquire
  <2>4. CASE Cleanup(m)
    BY <2>4 DEF Cleanup, Released
  <2> QED
    BY <1>3, <2>1, <2>2, <2>3, <2>4 DEF Lock
<1>4. CASE Hold(m)
  <2>1. CASE Recover(m)
    BY <2>1 DEF Recover, ClearStaleDrain, Released
  <2>2. CASE RefuseOther(m) \/ OwnPause(m) \/ PauseBroker(m) \/ Mark(m)
    BY <2>2 DEF RefuseOther, OwnPause, PauseBroker, Mark
  <2>3. CASE Refuse(m) \/ Unreadable(m) \/ Pass(m)
    BY <2>3 DEF Refuse, Unreadable, Pass, Ending
  <2>4. CASE WriteFairness(m) \/ PlaceFence(m) \/ WriteFence(m)
    BY <2>4 DEF WriteFairness, PlaceFence, WriteFence
  <2>5. CASE MoveAside(m)
    BY <2>5 DEF MoveAside
  <2>6. CASE RemoveMarker(m) \/ Resume(m)
    BY <2>6 DEF RemoveMarker, Resume
  <2>7. CASE Undrain(m)
    BY <2>7 DEF Undrain
  <2> QED
    BY <1>4, <2>1, <2>2, <2>3, <2>4, <2>5, <2>6, <2>7 DEF Hold
<1>5. CASE Kill(m)
  BY <1>5 DEF Kill
<1>6. CASE ReusePid(m) \/ ReusedPidEnds(m)
  BY <1>6 DEF ReusePid, ReusedPidEnds
<1> QED
  BY <1>1, <1>2, <1>3, <1>4, <1>5, <1>6 DEF MigratorStep

LEMMA TypeOfTicket ==
    ASSUME MigrationTypeOK, NEW t \in Ticket, TicketStep(t)
    PROVE  MigrationTypeOK'
<1> USE NamesAssumption
    DEF MigrationTypeOK, Step, disk, self, world
<1>1. CASE LaneRun(t) \/ LaneRunContended(t)
  BY <1>1 DEF LaneRun, LaneRunContended, ClearStaleDrain, Released, Blocked, Running
<1>2. CASE Refused(t) \/ BeginAttempt(t) \/ Finish(t)
  BY <1>2 DEF Refused, BeginAttempt, Finish
<1>3. CASE Enqueue(t) \/ Withdraw(t) \/ Restore(t) \/ TryStart(t)
  BY <1>3 DEF Enqueue, Withdraw, Restore, TryStart, CurrentQueue
<1>4. CASE OldStart(t) \/ OldEnqueue(t)
  BY <1>4 DEF OldStart, OldEnqueue
<1> QED
  BY <1>1, <1>2, <1>3, <1>4 DEF TicketStep

LEMMA TypeOfOther ==
    ASSUME MigrationTypeOK, OtherStep
    PROVE  MigrationTypeOK'
BY DEF MigrationTypeOK, OtherStep, MakeDirs, PauseCommand, ResumeCommand, disk, work, self, world

\* The command, the intake and the operator keep every variable in its type.
THEOREM TypeCorrect == Spec => []MigrationTypeOK
<1>1. MigrationTypeOK /\ [Next]_vars => MigrationTypeOK'
  <2> SUFFICES ASSUME MigrationTypeOK, [Next]_vars PROVE MigrationTypeOK'
    OBVIOUS
  <2>1. ASSUME NEW m \in Migrator, MigratorStep(m) PROVE MigrationTypeOK'
    BY <2>1, TypeOfMigrator
  <2>2. ASSUME NEW t \in Ticket, TicketStep(t) PROVE MigrationTypeOK'
    BY <2>2, TypeOfTicket
  <2>3. CASE OtherStep
    BY <2>3, TypeOfOther
  <2>4. CASE UNCHANGED vars
    BY <2>4 DEF vars, self, disk, work, world, MigrationTypeOK
  <2> QED
    BY <2>1, <2>2, <2>3, <2>4 DEF Next, MigratorStep, TicketStep, OtherStep
<1> QED
  BY <1>1, TypeInit, PTL DEF Spec

-----------------------------------------------------------------------------
(* One lemma for each part of the invariant and a step of the command.      *)

\* The lock is taken and released where the program counter says.
LEMMA CommandPlace ==
    ASSUME IInv, NEW m \in Migrator, MigratorStep(m)
    PROVE  \A n \in Migrator : PlaceInv(n)'
<1> USE NamesAssumption
    DEF IInv, MigrationInv, MigrationTypeOK, Go, Leave, disk, work, self, world,
        PlaceInv, Inside, Cutting
<1>1. CASE \E c \in {"plain", "dry", "drain"} : Begin(m, c)
  BY <1>1 DEF Begin
<1>2. CASE Poll(m) \/ GiveUp(m)
  BY <1>2 DEF Poll, GiveUp
<1>3. CASE StartDrain(m)
  BY <1>3 DEF StartDrain
<1>4. CASE RefuseDrain(m) \/ Cleanup(m)
  BY <1>4 DEF RefuseDrain, Cleanup
<1>5. CASE Acquire(m)
  BY <1>5 DEF Acquire
<1>6. CASE Recover(m)
  BY <1>6 DEF Recover, ClearStaleDrain
<1>7. CASE RefuseOther(m) \/ OwnPause(m)
  BY <1>7 DEF RefuseOther, OwnPause, PausesHere
<1>8. CASE PauseBroker(m) \/ Mark(m)
  BY <1>8 DEF PauseBroker, Mark, PausesHere
<1>9. CASE Refuse(m) \/ Unreadable(m) \/ Pass(m)
  BY <1>9 DEF Refuse, Unreadable, Pass, Ending
<1>10. CASE WriteFairness(m) \/ MoveAside(m) \/ PlaceFence(m) \/ WriteFence(m)
  BY <1>10 DEF WriteFairness, MoveAside, PlaceFence, WriteFence
<1>11. CASE RemoveMarker(m) \/ Resume(m)
  BY <1>11 DEF RemoveMarker, Resume
<1>12. CASE Undrain(m)
  BY <1>12 DEF Undrain
<1>13. CASE Kill(m)
  BY <1>13 DEF Kill, Running
<1>14. CASE ReusePid(m) \/ ReusedPidEnds(m)
  BY <1>14 DEF ReusePid, ReusedPidEnds
<1> QED
  BY <1>1, <1>2, <1>3, <1>4, <1>5, <1>6, <1>7, <1>8, <1>9, <1>10, <1>11, <1>12, <1>13, <1>14
  DEF MigratorStep, Lock, Hold

\* Every way out of the command removes its markers first.
LEMMA CommandMarker ==
    ASSUME IInv, NEW m \in Migrator, MigratorStep(m)
    PROVE  \A n \in Migrator : MarkerInv(n)'
<1> USE NamesAssumption
    DEF IInv, MigrationInv, MigrationTypeOK, Go, Leave, disk, work, self, world,
        PlaceInv, MarkerInv, Inside, Marking, Cutting
<1>1. CASE \E c \in {"plain", "dry", "drain"} : Begin(m, c)
  BY <1>1 DEF Begin
<1>2. CASE Poll(m) \/ GiveUp(m)
  BY <1>2 DEF Poll, GiveUp
<1>3. CASE StartDrain(m)
  BY <1>3 DEF StartDrain
<1>4. CASE RefuseDrain(m) \/ Cleanup(m)
  BY <1>4 DEF RefuseDrain, Cleanup
<1>5. CASE Acquire(m)
  BY <1>5 DEF Acquire
<1>6. CASE Recover(m)
  BY <1>6 DEF Recover, ClearStaleDrain
<1>7. CASE RefuseOther(m) \/ OwnPause(m)
  BY <1>7 DEF RefuseOther, OwnPause, PausesHere
<1>8. CASE PauseBroker(m) \/ Mark(m)
  BY <1>8 DEF PauseBroker, Mark, PausesHere
<1>9. CASE Refuse(m) \/ Unreadable(m) \/ Pass(m)
  BY <1>9 DEF Refuse, Unreadable, Pass, Ending
<1>10. CASE WriteFairness(m) \/ MoveAside(m) \/ PlaceFence(m) \/ WriteFence(m)
  BY <1>10 DEF WriteFairness, MoveAside, PlaceFence, WriteFence
<1>11. CASE RemoveMarker(m) \/ Resume(m)
  BY <1>11 DEF RemoveMarker, Resume
<1>12. CASE Undrain(m)
  BY <1>12 DEF Undrain
<1>13. CASE Kill(m)
  BY <1>13 DEF Kill, Running
<1>14. CASE ReusePid(m) \/ ReusedPidEnds(m)
  BY <1>14 DEF ReusePid, ReusedPidEnds
<1> QED
  BY <1>1, <1>2, <1>3, <1>4, <1>5, <1>6, <1>7, <1>8, <1>9, <1>10, <1>11, <1>12, <1>13, <1>14
  DEF MigratorStep, Lock, Hold

\* ... and lifts its own pause.
LEMMA CommandPause ==
    ASSUME IInv, NEW m \in Migrator, MigratorStep(m)
    PROVE  \A n \in Migrator : PauseInv(n)'
<1> USE NamesAssumption
    DEF IInv, MigrationInv, MigrationTypeOK, Go, Leave, disk, work, self, world,
        PlaceInv, PauseInv, Inside, Marking, Cutting
<1>1. CASE \E c \in {"plain", "dry", "drain"} : Begin(m, c)
  BY <1>1 DEF Begin
<1>2. CASE Poll(m) \/ GiveUp(m)
  BY <1>2 DEF Poll, GiveUp
<1>3. CASE StartDrain(m)
  BY <1>3 DEF StartDrain, Released
<1>4. CASE RefuseDrain(m) \/ Cleanup(m)
  BY <1>4 DEF RefuseDrain, Cleanup
<1>5. CASE Acquire(m)
  BY <1>5 DEF Acquire
<1>6. CASE Recover(m)
  BY <1>6 DEF Recover, ClearStaleDrain, Released
<1>7. CASE RefuseOther(m) \/ OwnPause(m)
  BY <1>7 DEF RefuseOther, OwnPause, PausesHere
<1>8. CASE PauseBroker(m) \/ Mark(m)
  BY <1>8 DEF PauseBroker, Mark, PausesHere
<1>9. CASE Refuse(m) \/ Unreadable(m) \/ Pass(m)
  BY <1>9 DEF Refuse, Unreadable, Pass, Ending
<1>10. CASE WriteFairness(m) \/ MoveAside(m) \/ PlaceFence(m) \/ WriteFence(m)
  BY <1>10 DEF WriteFairness, MoveAside, PlaceFence, WriteFence
<1>11. CASE RemoveMarker(m) \/ Resume(m)
  BY <1>11 DEF RemoveMarker, Resume
<1>12. CASE Undrain(m)
  BY <1>12 DEF Undrain
<1>13. CASE Kill(m)
  BY <1>13 DEF Kill, Running
<1>14. CASE ReusePid(m) \/ ReusedPidEnds(m)
  BY <1>14 DEF ReusePid, ReusedPidEnds
<1> QED
  BY <1>1, <1>2, <1>3, <1>4, <1>5, <1>6, <1>7, <1>8, <1>9, <1>10, <1>11, <1>12, <1>13, <1>14
  DEF MigratorStep, Lock, Hold

\* The checks find the broker drained, and nothing of the cutover undoes that.
LEMMA CommandCutover ==
    ASSUME IInv, NEW m \in Migrator, MigratorStep(m)
    PROVE  \A n \in Migrator : CutoverInv(n)'
<1> USE NamesAssumption
    DEF IInv, MigrationInv, MigrationTypeOK, Go, Leave, disk, work, self, world,
        PlaceInv, CutoverInv, TicketInv, Inside, Cutting, Drained, CurrentQueue
<1>1. CASE \E c \in {"plain", "dry", "drain"} : Begin(m, c)
  BY <1>1 DEF Begin
<1>2. CASE Poll(m) \/ GiveUp(m)
  BY <1>2 DEF Poll, GiveUp
<1>3. CASE Lock(m)
  BY <1>3 DEF Lock, StartDrain, RefuseDrain, Acquire, Cleanup
<1>4. CASE Recover(m) \/ RefuseOther(m)
  BY <1>4 DEF Recover, RefuseOther
<1>5. CASE OwnPause(m) \/ PauseBroker(m) \/ Mark(m)
  BY <1>5 DEF OwnPause, PauseBroker, Mark
<1>6. CASE Refuse(m) \/ Unreadable(m)
  BY <1>6 DEF Refuse, Unreadable, Ending
<1>7. CASE Pass(m)
  BY <1>7 DEF Pass, Quiet, Running
<1>8. CASE WriteFairness(m)
  BY <1>8 DEF WriteFairness
<1>9. CASE MoveAside(m)
  BY <1>9 DEF MoveAside
<1>10. CASE PlaceFence(m)
  BY <1>10 DEF PlaceFence
<1>11. CASE WriteFence(m)
  BY <1>11 DEF WriteFence
<1>12. CASE RemoveMarker(m) \/ Resume(m)
  BY <1>12 DEF RemoveMarker, Resume
<1>13. CASE Undrain(m)
  BY <1>13 DEF Undrain
<1>14. CASE Kill(m) \/ ReusePid(m) \/ ReusedPidEnds(m)
  BY <1>14 DEF Kill, ReusePid, ReusedPidEnds
<1> QED
  BY <1>1, <1>2, <1>3, <1>4, <1>5, <1>6, <1>7, <1>8, <1>9, <1>10, <1>11, <1>12, <1>13, <1>14
  DEF MigratorStep, Hold

\* The directory moves aside and the fence is placed only when no record is in it.
LEMMA CommandTickets ==
    ASSUME IInv, NEW m \in Migrator, MigratorStep(m)
    PROVE  (\A t \in Ticket : TicketInv(t)') /\ FenceInv'
<1> USE NamesAssumption
    DEF IInv, MigrationInv, MigrationTypeOK, Go, Leave, disk, work, self, world,
        CutoverInv, TicketInv, FenceInv, Cutting, Drained, CurrentQueue
<1>1. CASE \E c \in {"plain", "dry", "drain"} : Begin(m, c)
  BY <1>1 DEF Begin
<1>2. CASE Poll(m) \/ GiveUp(m)
  BY <1>2 DEF Poll, GiveUp
<1>3. CASE Lock(m)
  BY <1>3 DEF Lock, StartDrain, RefuseDrain, Acquire, Cleanup
<1>4. CASE Recover(m) \/ RefuseOther(m)
  BY <1>4 DEF Recover, RefuseOther
<1>5. CASE OwnPause(m) \/ PauseBroker(m) \/ Mark(m)
  BY <1>5 DEF OwnPause, PauseBroker, Mark
<1>6. CASE Refuse(m) \/ Unreadable(m)
  BY <1>6 DEF Refuse, Unreadable, Ending
<1>7. CASE Pass(m)
  BY <1>7 DEF Pass, Quiet, Running
<1>8. CASE WriteFairness(m)
  BY <1>8 DEF WriteFairness
<1>9. CASE MoveAside(m)
  BY <1>9 DEF MoveAside
<1>10. CASE PlaceFence(m)
  BY <1>10 DEF PlaceFence
<1>11. CASE WriteFence(m)
  BY <1>11 DEF WriteFence
<1>12. CASE RemoveMarker(m) \/ Resume(m)
  BY <1>12 DEF RemoveMarker, Resume
<1>13. CASE Undrain(m)
  BY <1>13 DEF Undrain
<1>14. CASE Kill(m) \/ ReusePid(m) \/ ReusedPidEnds(m)
  BY <1>14 DEF Kill, ReusePid, ReusedPidEnds
<1> QED
  BY <1>1, <1>2, <1>3, <1>4, <1>5, <1>6, <1>7, <1>8, <1>9, <1>10, <1>11, <1>12, <1>13, <1>14
  DEF MigratorStep, Hold

-----------------------------------------------------------------------------
(* The intake and the operator.                                            *)

\* The intake waits for the lock where it matters, and what it does without the
\* lock, the markers stop.
LEMMA TicketKeeps ==
    ASSUME IInv, NEW t \in Ticket, TicketStep(t)
    PROVE  MigrationInv'
<1> USE NamesAssumption
    DEF IInv, MigrationInv, MigrationTypeOK, disk, work, self, world
<1>1. \A n \in Migrator : PlaceInv(n)' /\ MarkerInv(n)' /\ PauseInv(n)'
  BY DEF TicketStep, PlaceInv, MarkerInv, PauseInv, Inside, Marking, Cutting,
         LaneRun, LaneRunContended, Refused, BeginAttempt, Enqueue, Withdraw, Restore,
         TryStart, Finish, OldStart, OldEnqueue, ClearStaleDrain, Released
<1>2. \A n \in Migrator : CutoverInv(n)'
  <2> USE DEF PlaceInv, MarkerInv, CutoverInv, Inside, Marking, Cutting, Drained
  <2>1. CASE LaneRun(t)
    BY <2>1 DEF LaneRun
  <2>2. CASE LaneRunContended(t)
    BY <2>2 DEF LaneRunContended, Blocked
  <2>3. CASE Refused(t) \/ BeginAttempt(t) \/ Enqueue(t) \/ Withdraw(t) \/ Restore(t)
    BY <2>3 DEF Refused, BeginAttempt, Enqueue, Withdraw, Restore
  <2>4. CASE TryStart(t) \/ Finish(t)
    BY <2>4 DEF TryStart, Finish
  <2>5. CASE OldStart(t) \/ OldEnqueue(t)
    BY <2>5 DEF OldStart, OldEnqueue
  <2> QED
    BY <2>1, <2>2, <2>3, <2>4, <2>5 DEF TicketStep
<1>3. \A u \in Ticket : TicketInv(u)'
  <2> USE DEF TicketInv, FenceInv, CurrentQueue
  <2>1. CASE LaneRun(t) \/ LaneRunContended(t)
    BY <2>1 DEF LaneRun, LaneRunContended
  <2>2. CASE Refused(t) \/ BeginAttempt(t) \/ Enqueue(t) \/ Withdraw(t) \/ Restore(t)
    BY <2>2 DEF Refused, BeginAttempt, Enqueue, Withdraw, Restore
  <2>3. CASE TryStart(t) \/ Finish(t)
    BY <2>3 DEF TryStart, Finish
  <2>4. CASE OldStart(t) \/ OldEnqueue(t)
    BY <2>4 DEF OldStart, OldEnqueue
  <2> QED
    BY <2>1, <2>2, <2>3, <2>4 DEF TicketStep
<1>4. FenceInv'
  BY DEF FenceInv, TicketStep, LaneRun, LaneRunContended, Refused, BeginAttempt, Enqueue,
         Withdraw, Restore, TryStart, Finish, OldStart, OldEnqueue
<1> QED
  BY <1>1, <1>2, <1>3, <1>4

LEMMA OtherKeeps ==
    ASSUME IInv, OtherStep
    PROVE  MigrationInv'
BY NamesAssumption DEF IInv, MigrationInv, MigrationTypeOK, OtherStep, MakeDirs, PauseCommand, ResumeCommand,
       PlaceInv, MarkerInv, PauseInv, CutoverInv, TicketInv, FenceInv, Drained, CurrentQueue,
       Inside, Marking, Cutting, disk, work, self, world

-----------------------------------------------------------------------------
(* The invariant.                                                          *)

LEMMA InvInit == Init => IInv
<1> SUFFICES ASSUME Init PROVE MigrationInv
  BY TypeInit DEF IInv
<1> QED
  BY NamesAssumption DEF Init, MigrationInv, PlaceInv, MarkerInv, PauseInv, CutoverInv, TicketInv,
         FenceInv, Inside, Marking, Cutting

LEMMA InvNext == IInv /\ [Next]_vars => IInv'
<1> SUFFICES ASSUME IInv, [Next]_vars PROVE IInv'
  OBVIOUS
<1>1. ASSUME NEW m \in Migrator, MigratorStep(m) PROVE IInv'
  BY <1>1, TypeOfMigrator, CommandPlace, CommandMarker, CommandPause, CommandCutover, CommandTickets
  DEF IInv, MigrationInv
<1>2. ASSUME NEW t \in Ticket, TicketStep(t) PROVE IInv'
  BY <1>2, TypeOfTicket, TicketKeeps DEF IInv
<1>3. CASE OtherStep
  BY <1>3, TypeOfOther, OtherKeeps DEF IInv
<1>4. CASE UNCHANGED vars
  BY <1>4 DEF vars, self, disk, work, world, IInv, MigrationTypeOK, MigrationInv, PlaceInv, MarkerInv,
         PauseInv, CutoverInv, TicketInv, FenceInv, Drained, CurrentQueue
<1> QED
  BY <1>1, <1>2, <1>3, <1>4 DEF Next, MigratorStep, TicketStep, OtherStep

\* The inductive invariant of the cutover: the lock is where the code says, every
\* marker and every pause of a drain has an owner who will remove it or is dead,
\* and between the checks and the fence the broker stays drained.
THEOREM Cutover == Spec => []IInv
BY InvInit, InvNext, PTL DEF Spec

\* However many migrators run and wherever they are killed, one that ends by
\* itself leaves no marker and no pause of its own behind.
THEOREM NothingLeft == Spec => []EndedLeavesNothing
<1>1. IInv => EndedLeavesNothing
  BY DEF IInv, MigrationInv, MarkerInv, PauseInv, Marking, EndedLeavesNothing
<1> QED
  BY <1>1, Cutover, PTL

\* No ticket is left where its reader does not look, and none of old code is
\* queued or leased behind a valid fence.
THEOREM NobodyStranded == Spec => []NoTicketStranded
<1>1. IInv => NoTicketStranded
  <2>1. IInv => old \subseteq Ticket
    BY DEF IInv, MigrationTypeOK
  <2> QED
    BY <2>1 DEF IInv, MigrationInv, TicketInv, FenceInv, NoTicketStranded
<1> QED
  BY <1>1, Cutover, PTL

\* The fence is written over a drained broker only.
THEOREM FenceMeetsDrained == Spec => CutoverIsDrained
<1>1. IInv /\ [Next]_vars =>
        [~fence /\ fence' =>
            \A t \in Ticket : /\ step[t] \notin {"queued", "parked", "leased"} /\ ~attempt[t]
                              /\ t \in old \/ ~alive[t]]_vars
  <2> SUFFICES ASSUME IInv, Next, ~fence, fence' PROVE Drained
    BY DEF vars, disk, Drained
  <2>1. ASSUME NEW m \in Migrator, MigratorStep(m) PROVE Drained
    <3>1. WriteFence(m)
      BY <2>1 DEF MigratorStep, Hold, Lock, disk, Begin, Poll, GiveUp, StartDrain, RefuseDrain,
             Acquire, Cleanup, Recover, RefuseOther, OwnPause, PauseBroker, Mark, Refuse,
             Unreadable, Pass, WriteFairness, MoveAside, PlaceFence, RemoveMarker, Resume,
             Undrain, Kill, ReusePid, ReusedPidEnds
    <3> QED
      BY <3>1 DEF WriteFence, IInv, MigrationInv, CutoverInv, Cutting
  <2>2. \A t \in Ticket : ~TicketStep(t)
    BY DEF TicketStep, disk, LaneRun, LaneRunContended, Refused, BeginAttempt, Enqueue,
           Withdraw, Restore, TryStart, Finish, OldStart, OldEnqueue
  <2>3. ~OtherStep
    BY DEF OtherStep, MakeDirs, PauseCommand, ResumeCommand
  <2> QED
    BY <2>1, <2>2, <2>3 DEF Next, MigratorStep, TicketStep, OtherStep
<1> QED
  BY <1>1, Cutover, PTL DEF Spec, CutoverIsDrained, Drained

\* A pause that the operator set is never lifted or replaced by a drain.
THEOREM OperatorDecides == Spec => OperatorPauseStands
<1>1. IInv /\ [Next]_vars =>
        [pause = "operator" /\ pause' # "operator" => ResumeCommand]_vars
  <2> SUFFICES ASSUME IInv, Next, pause = "operator", pause' # "operator" PROVE ResumeCommand
    BY DEF vars, disk
  <2>1. ASSUME NEW m \in Migrator, MigratorStep(m) PROVE FALSE
    BY <2>1, NamesAssumption
    DEF IInv, MigrationInv, PauseInv, MigrationTypeOK, MigratorStep, Hold, Lock, disk, Begin, Poll, GiveUp,
        StartDrain, RefuseDrain, Acquire, Cleanup, Recover, RefuseOther, OwnPause, PauseBroker,
        Mark, Refuse, Unreadable, Pass, WriteFairness, MoveAside, PlaceFence, WriteFence, RemoveMarker,
        Resume, Undrain, Kill, ReusePid, ReusedPidEnds, ClearStaleDrain, Released
  <2>2. ASSUME NEW t \in Ticket, TicketStep(t) PROVE FALSE
    BY <2>2, NamesAssumption
    DEF IInv, MigrationTypeOK, TicketStep, disk, LaneRun, LaneRunContended, Refused, BeginAttempt, Enqueue,
        Withdraw, Restore, TryStart, Finish, OldStart, OldEnqueue, ClearStaleDrain, Released
  <2>3. ~MakeDirs /\ ~PauseCommand
    BY DEF MakeDirs, PauseCommand
  <2> QED
    BY <2>1, <2>2, <2>3 DEF Next, MigratorStep, TicketStep
<1> QED
  BY <1>1, Cutover, PTL DEF Spec, OperatorPauseStands

=============================================================================
