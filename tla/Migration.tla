------------------------------ MODULE Migration ------------------------------
(***************************************************************************)
(* `lane migrate-scheduler` (migrate.js): the drained cutover that writes   *)
(* the scheduler fence, in its three forms (plain, --dry-run, --when-idle), *)
(* killed anywhere, beside the intake it must shut out and the operator's   *)
(* own `lane pause` and `lane resume`.                                      *)
(*                                                                          *)
(* A migrator is a process.  The cutover is one hold of the broker lock;    *)
(* each durable write in it is a step of its own, so that a kill can fall   *)
(* between any two.  The lock of a killed process is free again (that is    *)
(* BrokerLock's subject).  Every write of the command is fsynced before the *)
(* next, so what a power loss leaves is what a kill leaves.                 *)
(*                                                                          *)
(* A ticket stands for one `lane run` and its supervisor, which the command *)
(* sees as a lane process, a queue record, a lease and an attempt.  Old     *)
(* tickets run code from before the fence: it reads no marker, and knows    *)
(* only the directory `queue`.                                              *)
(***************************************************************************)
EXTENDS Naturals

CONSTANTS
    Migrator,   \* processes that run `lane migrate-scheduler`
    Ticket,     \* runs that arrive meanwhile
    MaxKills,   \* bound on migrators killed
    None

ASSUME MaxKillsAssumption == MaxKills \in Nat
ASSUME NamesAssumption == {None, "operator"} \cap Migrator = {} /\ None # "operator"

VARIABLES
    lock,       \* the migrator in the broker lock, or None
    pc,         \* per migrator: where it is
    cmd,        \* per migrator: the form it runs
    here,       \* per migrator: pausedHere
    busy,       \* per migrator: its last refusal is only "busy again" (stillBusy)
    pause,      \* PAUSE: None, "operator", or the drain whose reason it holds
    migrating,  \* the owner of the `migrating` marker, or None
    draining,   \* the owner of the `draining` marker, or None
    owned,      \* that marker's pausedByDrain
    fairness,   \* fairness-v2.json is there
    queue,      \* the entry `queue`: "directory", "absent" or "fence"
    fence,      \* sched-v2.json is there
    step,       \* per ticket: how far it is
    where,      \* per ticket: the queue directory its record is in
    attempt,    \* per ticket: it has an attempt record
    alive,      \* per ticket: its process is alive
    reused,     \* per migrator: whether its dead pid names another process
    kills,      \* migrators killed
    old         \* the tickets of old code

disk == <<pause, migrating, draining, owned, fairness, queue, fence>>
work == <<step, where, attempt, alive>>
self == <<pc, cmd, here, busy>>
world == <<reused, kills, old>>
vars == <<lock, self, disk, work, world>>

PC == {"idle", "start", "waiting", "want", "locked", "pause", "mark", "check",
       "fairness", "rename", "place", "fence", "unmark", "resume", "undrain",
       "cleanup", "dead"}
Step == {"idle", "created", "queued", "parked", "leased", "ended"}

Init ==
    /\ lock = None
    /\ pc = [m \in Migrator |-> "idle"]
    /\ cmd = [m \in Migrator |-> "plain"]
    /\ here = [m \in Migrator |-> FALSE]
    /\ busy = [m \in Migrator |-> FALSE]
    /\ pause = None /\ migrating = None /\ draining = None /\ owned = FALSE
    /\ fairness = FALSE /\ queue = "directory" /\ fence = FALSE
    /\ step = [t \in Ticket |-> "idle"]
    /\ where = [t \in Ticket |-> None]
    /\ attempt = [t \in Ticket |-> FALSE]
    /\ alive = [t \in Ticket |-> FALSE]
    /\ reused = [m \in Migrator |-> "no"]
    /\ kills = 0
    /\ old \in SUBSET Ticket

-----------------------------------------------------------------------------
(* Markers *)

Running(m) == pc[m] \notin {"idle", "dead"}

\* readDrainMarker: a drain marker is live while its owner is, by pid and start
\* time; drainBlocksIntake, assertNotMigrating.
Blocked == migrating # None \/ (draining # None /\ Running(draining))

\* liveMigrator: by pid alone, so a reused pid counts as a migrator.
LiveMigrator(m) ==
    /\ migrating \notin {None, m}
    /\ Running(migrating) \/ reused[migrating] = "yes"

StaleDrain == draining # None /\ ~Running(draining)

\* Mutant: the reason in PAUSE is not compared.
MutReleased == IF StaleDrain /\ owned THEN None ELSE pause

\* releaseDrainPause: PAUSE after a stale marker is cleared.  It goes only if
\* that marker owns a pause and PAUSE still holds that drain's reason.
Released == IF StaleDrain /\ owned /\ pause = draining THEN None ELSE pause

\* clearStaleDrainMarker.  (Killed between the two removals, it leaves what an
\* operator's resume would.)
ClearStaleDrain ==
    /\ pause' = Released
    /\ draining' = IF StaleDrain THEN None ELSE draining
    /\ owned' = (owned /\ ~StaleDrain)

\* paths().queue: where code of this version keeps its records.
CurrentQueue == IF queue = "fence" THEN "v2" ELSE "legacy"

\* checkPreconditions, the checks that clear by themselves: no queue record
\* where this code looks, no lease, no attempt, no other lane process.
Quiet(m) ==
    /\ \A t \in Ticket :
          /\ ~(step[t] = "queued" /\ where[t] = CurrentQueue)
          /\ step[t] # "leased" /\ ~attempt[t] /\ ~alive[t]
    /\ \A n \in Migrator \ {m} : ~Running(n)

-----------------------------------------------------------------------------
(* The command *)

Go(m, to) == pc' = [pc EXCEPT ![m] = to]

\* A process that is over has forgotten its options.
Leave(m, to) ==
    /\ Go(m, to)
    /\ cmd' = IF to \in {"idle", "dead"} THEN [cmd EXCEPT ![m] = "plain"] ELSE cmd
    /\ here' = [here EXCEPT ![m] = FALSE]
    /\ busy' = [busy EXCEPT ![m] = FALSE]

\* migrateSchedulerCommand, and the unlocked look at the fence with which
\* drainMigrateScheduler starts.
Begin(m, c) ==
    /\ pc[m] = "idle"
    /\ cmd' = [cmd EXCEPT ![m] = IF c = "drain" /\ fence THEN "plain" ELSE c]
    /\ Go(m, IF c = "drain" /\ ~fence THEN "start" ELSE "want")
    /\ UNCHANGED <<lock, here, busy, disk, work, world>>

\* startDrain: take the marker, unless another migrator or drain is alive.
StartDrain(m) ==
    /\ pc[m] = "start" /\ lock = None
    /\ ~LiveMigrator(m) /\ ~(draining # None /\ Running(draining))
    /\ pause' = Released
    /\ draining' = m /\ owned' = FALSE
    /\ Go(m, "waiting")
    /\ UNCHANGED <<lock, cmd, here, busy, migrating, fairness, queue, fence, work, world>>

RefuseDrain(m) ==
    /\ pc[m] = "start" /\ lock = None
    /\ LiveMigrator(m) \/ (draining # None /\ Running(draining))
    /\ Leave(m, "idle")
    /\ UNCHANGED <<lock, disk, work, world>>

\* One turn of the drain's loop, without the lock: nothing is busy.
Poll(m) ==
    /\ pc[m] = "waiting" /\ Quiet(m)
    /\ Go(m, "want")
    /\ UNCHANGED <<lock, cmd, here, busy, disk, work, world>>

\* The deadline, a signal, or a check that never clears.
GiveUp(m) ==
    /\ pc[m] = "waiting"
    /\ Go(m, "cleanup")
    /\ UNCHANGED <<lock, cmd, here, busy, disk, work, world>>

\* Mutant: the marker is left to migrateScheduler, which a drain that gives up
\* never calls.
MutCleanup(m) ==
    /\ pc[m] = "cleanup" /\ lock = None
    /\ UNCHANGED <<draining, owned>>
    /\ Leave(m, "idle")
    /\ UNCHANGED <<lock, pause, migrating, fairness, queue, fence, work, world>>

\* The finally of drainMigrateScheduler.
Cleanup(m) ==
    /\ pc[m] = "cleanup" /\ lock = None
    /\ draining' = IF draining = m THEN None ELSE draining
    /\ owned' = (owned /\ draining # m)
    /\ Leave(m, "idle")
    /\ UNCHANGED <<lock, pause, migrating, fairness, queue, fence, work, world>>

Acquire(m) ==
    /\ pc[m] = "want" /\ lock = None
    /\ lock' = m
    /\ Go(m, "locked")
    /\ UNCHANGED <<cmd, here, busy, disk, work, world>>

\* Mutant: the marker a migrator left behind the fence stays.
MutRecover(m) ==
    /\ pc[m] = "locked" /\ fence
    /\ IF cmd[m] = "dry"
       THEN UNCHANGED <<pause, draining, owned>>
       ELSE ClearStaleDrain
    /\ Go(m, "undrain")
    /\ UNCHANGED <<lock, cmd, here, busy, migrating, fairness, queue, fence, work, world>>

\* A valid fence: the migration is done.  Finish what a killed one left.
Recover(m) ==
    /\ pc[m] = "locked" /\ fence
    /\ IF cmd[m] = "dry"
       THEN UNCHANGED <<migrating, pause, draining, owned>>
       ELSE migrating' = None /\ ClearStaleDrain
    /\ Go(m, "undrain")
    /\ UNCHANGED <<lock, cmd, here, busy, fairness, queue, fence, work, world>>

RefuseOther(m) ==
    /\ pc[m] = "locked" /\ ~fence /\ LiveMigrator(m)
    /\ Go(m, "undrain")
    /\ UNCHANGED <<lock, cmd, here, busy, disk, work, world>>

PausesHere(m) == cmd[m] = "drain" /\ pause = None

\* writeDrainMarker with pausedByDrain, durable before the pause exists.
OwnPause(m) ==
    /\ pc[m] = "locked" /\ ~fence /\ ~LiveMigrator(m) /\ PausesHere(m)
    /\ draining' = m /\ owned' = TRUE
    /\ Go(m, "pause")
    /\ UNCHANGED <<lock, cmd, here, busy, pause, migrating, fairness, queue, fence, work, world>>

PauseBroker(m) ==
    /\ pc[m] = "pause"
    /\ pause' = m
    /\ here' = [here EXCEPT ![m] = TRUE]
    /\ Go(m, "mark")
    /\ UNCHANGED <<lock, cmd, busy, migrating, draining, owned, fairness, queue, fence, work, world>>

Mark(m) ==
    /\ \/ pc[m] = "mark"
       \/ pc[m] = "locked" /\ ~fence /\ ~LiveMigrator(m) /\ ~PausesHere(m)
    /\ migrating' = IF cmd[m] = "dry" THEN migrating ELSE m
    /\ Go(m, "check")
    /\ UNCHANGED <<lock, cmd, here, busy, pause, draining, owned, fairness, queue, fence, work, world>>

\* Where a call goes when it is over: the finally that removes the marker.
Ending(m) == IF cmd[m] = "dry" THEN "undrain" ELSE "unmark"

\* checkPreconditions refuses.  Only a refusal for being busy lets a drain go on.
Refuse(m) ==
    /\ pc[m] = "check"
    /\ pause = None \/ ~Quiet(m)
    /\ busy' = [busy EXCEPT ![m] = pause # None]
    /\ Go(m, Ending(m))
    /\ UNCHANGED <<lock, cmd, here, disk, work, world>>

\* An unreadable record or process table.
Unreadable(m) ==
    /\ pc[m] = "check"
    /\ Go(m, Ending(m))
    /\ UNCHANGED <<lock, cmd, here, busy, disk, work, world>>

\* Mutant: only the queue is checked, not what left it.
MutPass(m) ==
    /\ pc[m] = "check" /\ pause # None
    /\ \A t \in Ticket : ~(step[t] = "queued" /\ where[t] = CurrentQueue)
    /\ Go(m, IF cmd[m] = "dry" THEN "undrain" ELSE "fairness")
    /\ UNCHANGED <<lock, cmd, here, busy, disk, work, world>>

Pass(m) ==
    /\ pc[m] = "check" /\ pause # None /\ Quiet(m)
    /\ Go(m, IF cmd[m] = "dry" THEN "undrain" ELSE "fairness")
    /\ UNCHANGED <<lock, cmd, here, busy, disk, work, world>>

WriteFairness(m) ==
    /\ pc[m] = "fairness"
    /\ fairness' = TRUE
    /\ Go(m, IF queue = "fence" THEN "fence" ELSE "rename")
    /\ UNCHANGED <<lock, cmd, here, busy, pause, migrating, draining, owned, queue, fence, work, world>>

\* fenceLegacyQueue, first rename: the directory steps aside with what is in it.
MoveAside(m) ==
    /\ pc[m] = "rename"
    /\ queue' = "absent"
    /\ where' = [t \in Ticket |-> IF where[t] = "legacy" THEN "aside" ELSE where[t]]
    /\ Go(m, "place")
    /\ UNCHANGED <<lock, cmd, here, busy, pause, migrating, draining, owned, fairness, fence,
                   step, attempt, alive, world>>

\* Mutant: the rename's failure goes unnoticed.
MutPlaceFence(m) ==
    /\ pc[m] = "place"
    /\ queue' = IF queue = "absent" THEN "fence" ELSE queue
    /\ Go(m, "fence")
    /\ UNCHANGED <<lock, cmd, here, busy, pause, migrating, draining, owned, fairness, fence, work, world>>

\* Second rename: a file does not replace a directory, so one that somebody
\* made in between makes the call throw.
PlaceFence(m) ==
    /\ pc[m] = "place"
    /\ queue' = IF queue = "absent" THEN "fence" ELSE queue
    /\ Go(m, IF queue = "absent" THEN "fence" ELSE "unmark")
    /\ UNCHANGED <<lock, cmd, here, busy, pause, migrating, draining, owned, fairness, fence, work, world>>

\* The commit point, and archiveSingletons after it.
WriteFence(m) ==
    /\ pc[m] = "fence"
    /\ fence' = TRUE
    /\ Go(m, "unmark")
    /\ UNCHANGED <<lock, cmd, here, busy, pause, migrating, draining, owned, fairness, queue, work, world>>

RemoveMarker(m) ==
    /\ pc[m] = "unmark"
    /\ migrating' = None
    /\ Go(m, "resume")
    /\ UNCHANGED <<lock, cmd, here, busy, pause, draining, owned, fairness, queue, fence, work, world>>

\* The outer finally: undo a pause of this call's own.
Resume(m) ==
    /\ pc[m] = "resume"
    /\ pause' = IF here[m] THEN None ELSE pause
    /\ Go(m, "undrain")
    /\ UNCHANGED <<lock, cmd, here, busy, migrating, draining, owned, fairness, queue, fence, work, world>>

\* Then the drain marker: kept while the drain may go on waiting, but owning no
\* pause any more.  The lock is released.
Undrain(m) ==
    /\ pc[m] = "undrain"
    /\ LET keep == cmd[m] # "drain" \/ busy[m]
           mine == cmd[m] = "drain" /\ draining = m
       IN  /\ draining' = IF mine /\ ~keep THEN None ELSE draining
           /\ owned' = (owned /\ ~mine)
    /\ lock' = None
    /\ Leave(m, IF cmd[m] # "drain" THEN "idle" ELSE IF busy[m] THEN "waiting" ELSE "cleanup")
    /\ UNCHANGED <<pause, migrating, fairness, queue, fence, work, world>>

-----------------------------------------------------------------------------
(* Intake, and the work already here *)

\* stampPriorityOrigin under the lock: tidy up after a killed drain, then refuse
\* or go on.
LaneRun(t) ==
    /\ step[t] = "idle" /\ t \notin old /\ lock = None
    /\ ClearStaleDrain
    /\ step' = [step EXCEPT ![t] = IF Blocked THEN "ended" ELSE "created"]
    /\ alive' = [alive EXCEPT ![t] = ~Blocked]
    /\ UNCHANGED <<lock, self, migrating, fairness, queue, fence, where, attempt, world>>

\* Its lock timeout: the same guard, read without the lock.
LaneRunContended(t) ==
    /\ step[t] = "idle" /\ t \notin old /\ lock # None
    /\ step' = [step EXCEPT ![t] = IF Blocked THEN "ended" ELSE "created"]
    /\ alive' = [alive EXCEPT ![t] = ~Blocked]
    /\ UNCHANGED <<lock, self, disk, where, attempt, world>>

\* exitMigrating: a created ticket that meets a marker publishes exit 75.
Refused(t) ==
    /\ step[t] = "created" /\ alive[t] /\ lock = None /\ t \notin old /\ Blocked
    /\ step' = [step EXCEPT ![t] = "ended"]
    /\ attempt' = [attempt EXCEPT ![t] = FALSE]
    /\ alive' = [alive EXCEPT ![t] = FALSE]
    /\ UNCHANGED <<lock, self, disk, where, world>>

BeginAttempt(t) ==
    /\ step[t] = "created" /\ alive[t] /\ lock = None /\ t \notin old /\ ~Blocked /\ ~attempt[t]
    /\ attempt' = [attempt EXCEPT ![t] = TRUE]
    /\ UNCHANGED <<lock, self, disk, step, where, alive, world>>

Enqueue(t) ==
    /\ step[t] = "created" /\ alive[t] /\ lock = None /\ t \notin old /\ ~Blocked
    /\ step' = [step EXCEPT ![t] = "queued"]
    /\ where' = [where EXCEPT ![t] = CurrentQueue]
    /\ queue' = IF queue = "absent" THEN "directory" ELSE queue
    /\ UNCHANGED <<lock, self, pause, migrating, draining, owned, fairness, fence, attempt, alive, world>>

\* withdrawQueued, and restoreQueued, which asks no marker.
Withdraw(t) ==
    /\ step[t] = "queued" /\ alive[t] /\ attempt[t] /\ lock = None /\ ~Blocked
    /\ step' = [step EXCEPT ![t] = "parked"]
    /\ UNCHANGED <<lock, self, disk, where, attempt, alive, world>>

Restore(t) ==
    /\ step[t] = "parked" /\ alive[t] /\ lock = None
    /\ step' = [step EXCEPT ![t] = "queued"]
    /\ where' = [where EXCEPT ![t] = CurrentQueue]
    /\ UNCHANGED <<lock, self, disk, attempt, alive, world>>

\* tryStart, which a pause stops and a drain does not.
TryStart(t) ==
    /\ step[t] = "queued" /\ alive[t] /\ lock = None /\ pause = None
    /\ where[t] = IF t \in old THEN "legacy" ELSE CurrentQueue
    /\ step' = [step EXCEPT ![t] = "leased"]
    /\ where' = [where EXCEPT ![t] = None]
    /\ UNCHANGED <<lock, self, disk, attempt, alive, world>>

\* A run ends, here or on the runner that its ticket is moved or was dispatched to.
Finish(t) ==
    /\ step[t] \in {"leased", "parked"} \/ (step[t] = "created" /\ attempt[t])
    /\ alive[t] /\ lock = None
    /\ step' = [step EXCEPT ![t] = "ended"]
    /\ where' = [where EXCEPT ![t] = None]
    /\ attempt' = [attempt EXCEPT ![t] = FALSE]
    /\ alive' = [alive EXCEPT ![t] = FALSE]
    /\ UNCHANGED <<lock, self, disk, world>>

\* Old code starts: its mkdir of `queue` makes a missing directory, and fails on
\* the fence.
OldStart(t) ==
    /\ step[t] = "idle" /\ t \in old
    /\ step' = [step EXCEPT ![t] = IF queue = "fence" THEN "ended" ELSE "created"]
    /\ alive' = [alive EXCEPT ![t] = queue # "fence"]
    /\ queue' = IF queue = "absent" THEN "directory" ELSE queue
    /\ UNCHANGED <<lock, self, pause, migrating, draining, owned, fairness, fence, where, attempt, world>>

OldEnqueue(t) ==
    /\ step[t] = "created" /\ t \in old /\ alive[t] /\ lock = None
    /\ IF queue = "fence"
       THEN /\ step' = [step EXCEPT ![t] = "ended"]
            /\ alive' = [alive EXCEPT ![t] = FALSE]
            /\ UNCHANGED <<where, queue>>
       ELSE /\ step' = [step EXCEPT ![t] = "queued"]
            /\ where' = [where EXCEPT ![t] = "legacy"]
            /\ queue' = "directory"
            /\ UNCHANGED alive
    /\ UNCHANGED <<lock, self, pause, migrating, draining, owned, fairness, fence, attempt, world>>

\* ensureStateDirs of any command, without the lock.
MakeDirs ==
    /\ queue = "absent"
    /\ queue' = "directory"
    /\ UNCHANGED <<lock, self, pause, migrating, draining, owned, fairness, fence, work, world>>

PauseCommand ==
    /\ lock = None /\ pause # "operator"
    /\ pause' = "operator"
    /\ UNCHANGED <<lock, self, migrating, draining, owned, fairness, queue, fence, work, world>>

ResumeCommand ==
    /\ lock = None /\ pause # None
    /\ pause' = None
    /\ UNCHANGED <<lock, self, migrating, draining, owned, fairness, queue, fence, work, world>>

-----------------------------------------------------------------------------
(* Faults *)

\* SIGKILL of a migrator, anywhere.
Kill(m) ==
    /\ Running(m) /\ kills < MaxKills
    /\ kills' = kills + 1
    /\ Leave(m, "dead")
    /\ lock' = IF lock = m THEN None ELSE lock
    /\ UNCHANGED <<disk, work, reused, old>>

\* Another process gets a dead migrator's pid, and ends.
ReusePid(m) ==
    /\ pc[m] = "dead" /\ reused[m] = "no" /\ migrating = m
    /\ reused' = [reused EXCEPT ![m] = "yes"]
    /\ UNCHANGED <<lock, self, disk, work, kills, old>>

ReusedPidEnds(m) ==
    /\ reused[m] = "yes"
    /\ reused' = [reused EXCEPT ![m] = "over"]
    /\ UNCHANGED <<lock, self, disk, work, kills, old>>

-----------------------------------------------------------------------------
\* The steps of one hold of the lock.
Hold(m) ==
    \/ Recover(m) \/ RefuseOther(m) \/ OwnPause(m) \/ PauseBroker(m) \/ Mark(m)
    \/ Refuse(m) \/ Unreadable(m) \/ Pass(m)
    \/ WriteFairness(m) \/ MoveAside(m) \/ PlaceFence(m) \/ WriteFence(m)
    \/ RemoveMarker(m) \/ Resume(m) \/ Undrain(m)

\* The steps that take the lock.
Lock(m) == StartDrain(m) \/ RefuseDrain(m) \/ Acquire(m) \/ Cleanup(m)

Next ==
    \/ \E m \in Migrator :
          \/ \E c \in {"plain", "dry", "drain"} : Begin(m, c)
          \/ Poll(m) \/ GiveUp(m) \/ Lock(m) \/ Hold(m)
          \/ Kill(m) \/ ReusePid(m) \/ ReusedPidEnds(m)
    \/ \E t \in Ticket :
          \/ LaneRun(t) \/ LaneRunContended(t) \/ Refused(t) \/ BeginAttempt(t) \/ Enqueue(t)
          \/ Withdraw(t) \/ Restore(t) \/ TryStart(t) \/ Finish(t)
          \/ OldStart(t) \/ OldEnqueue(t)
    \/ MakeDirs \/ PauseCommand \/ ResumeCommand

Spec == Init /\ [][Next]_vars

\* A process that holds the lock goes on; the lock is granted in the end; a
\* drain's deadline passes; an unrelated process ends; and a command that was
\* interrupted is run again, in both its forms.
FairSpec ==
    /\ Spec
    /\ \A m \in Migrator :
          /\ SF_vars(Lock(m) \/ Hold(m)) /\ SF_vars(GiveUp(m))
          /\ WF_vars(ReusedPidEnds(m))
          /\ SF_vars(Begin(m, "plain")) /\ SF_vars(Begin(m, "drain"))

-----------------------------------------------------------------------------
(* Properties *)

MigrationTypeOK ==
    /\ lock \in Migrator \cup {None}
    /\ pc \in [Migrator -> PC]
    /\ cmd \in [Migrator -> {"plain", "dry", "drain"}]
    /\ here \in [Migrator -> BOOLEAN] /\ busy \in [Migrator -> BOOLEAN]
    /\ pause \in Migrator \cup {None, "operator"}
    /\ migrating \in Migrator \cup {None} /\ draining \in Migrator \cup {None}
    /\ owned \in BOOLEAN /\ fairness \in BOOLEAN /\ fence \in BOOLEAN
    /\ queue \in {"directory", "absent", "fence"}
    /\ step \in [Ticket -> Step]
    /\ where \in [Ticket -> {"legacy", "v2", "aside", None}]
    /\ attempt \in [Ticket -> BOOLEAN] /\ alive \in [Ticket -> BOOLEAN]
    /\ reused \in [Migrator -> {"no", "yes", "over"}]
    /\ kills \in 0 .. MaxKills /\ old \subseteq Ticket

\* No record is left in a directory its reader does not look in, behind a valid
\* fence stand a fairness file and the queue fence, and nothing of old code is
\* queued or leased there (migrate.js: "an old process can never get a ticket
\* into the queue and therefore never be admitted").
NoTicketStranded ==
    /\ MigrationTypeOK
    /\ \A t \in Ticket : step[t] \in {"queued", "parked"} => where[t] = CurrentQueue
    /\ fence => /\ fairness /\ queue = "fence"
                /\ \A t \in old : step[t] \notin {"queued", "leased"}

\* The fence is written over a drained broker: nothing queued, parked, leased or
\* attempting, and no run of this version alive that could still queue under a
\* decision made before (an old one meets the queue fence).
CutoverIsDrained ==
    [][~fence /\ fence' =>
          \A t \in Ticket :
                /\ step[t] \notin {"queued", "parked", "leased"} /\ ~attempt[t]
                /\ t \in old \/ ~alive[t]]_vars

\* A command that has ended by itself left no marker and no pause of its own
\* (drainMigrateScheduler: "Whatever the outcome the drain marker is gone and a
\* pause this command made is undone; only a SIGKILL leaves a marker").
EndedLeavesNothing ==
    \A m \in Migrator :
        pc[m] = "idle" => migrating # m /\ draining # m /\ pause # m

\* A pause the operator set is lifted by the operator alone (releaseDrainPause:
\* "A pause someone else set (or re-set) is never touched").
OperatorPauseStands ==
    [][pause = "operator" /\ pause' # "operator" => ResumeCommand]_vars

\* Whatever a killed migration leaves, a time comes again when intake is open and
\* no pause of a drain stands, once somebody runs the command again.
IntakeReopens == []<>(~Blocked /\ pause \notin Migrator)
=============================================================================
