--------------------------- MODULE TicketLifecycle ---------------------------
(*****************************************************************************)
(* The life of a local ticket: main of src/supervisor.js, enqueue, tryStart, *)
(* reapStale and reapOrphanedQueue of src/scheduler.js, reapIfStale of       *)
(* src/lease.js, `lane cancel` (src/cancel.js), and settleDeadPending of     *)
(* src/pending.js, which `lane wait` calls.                                  *)
(*                                                                           *)
(* Every `lane run` spawns one supervisor process, which queues its ticket,  *)
(* polls until tryStart admits it, runs the command as a child process group *)
(* under a lease file, publishes the result and removes the lease.  There is *)
(* no daemon: each poll also cleans up after supervisors that have died.     *)
(*                                                                           *)
(* A callback under the broker lock is one action, which BrokerLock          *)
(* justifies.  The one callback that is cut in two is the start commit,      *)
(* because a crash between its two writes leaves a state of its own; `lock`  *)
(* names the supervisor that stands there.  Files that the code touches      *)
(* without the lock are touched by separate actions.                         *)
(*****************************************************************************)
EXTENDS Naturals, FiniteSets

CONSTANTS
    Sup,              \* supervisor processes, one for each `lane run`
    Ticket,           \* ticket ids
    TicketOf,         \* TicketOf[s]: two supervisors share an id when --id is retried
    Key,              \* lane keys
    KeyOf,            \* KeyOf[t]
    Conflicts,        \* pairs of distinct keys that must not run together
    MaxConcurrent,    \* MaxConcurrent[t]: held leases of t's own key that block it
    Detached,         \* supervisors submitted with --detach
    Expiring,         \* tickets that carry a queue timeout
    Refusable,        \* supervisors whose host may turn dispatch-only, or lose its budget
    StartupRefused,   \* supervisors that start where cpuLimit "require" cannot be met
    Canceller,        \* `lane cancel` invocations
    Target,           \* Target[c]: the ticket c cancels
    CrashAt,          \* where a supervisor may be killed
    MaxCrashes,       \* how many supervisors may be killed
    MaxBoots,         \* how often the machine may reboot
    None

ASSUME TicketAssumption ==
    /\ TicketOf \in [Sup -> Ticket]
    /\ KeyOf \in [Ticket -> Key]
    /\ MaxConcurrent \in [Ticket -> Nat \ {0}]
    /\ Target \in [Canceller -> Ticket]
    /\ None \notin Sup
    /\ IsFiniteSet(Ticket)

\* expandConflicts (src/config.js) makes the relation symmetric.
ASSUME ConflictAssumption ==
    /\ Conflicts \subseteq Key \X Key
    /\ \A k, l \in Key : <<k, l>> \in Conflicts => <<l, k>> \in Conflicts /\ k # l

ASSUME BoundAssumption == MaxCrashes \in Nat /\ MaxBoots \in Nat

VARIABLES
    boot,        \* the machine's boot id
    lock,        \* the supervisor between the two writes of its start commit
    queue,       \* queue[t]: the supervisor named by t's queue record
    lease,       \* lease[t]: t's lease file
    result,      \* result[t]: the reason of t's result file
    pending,     \* pending[t]: the supervisor named by pending/<t>.json
    cancelled,   \* tickets with a cancel marker
    expired,     \* tickets with an expire marker
    pc,          \* where each supervisor stands
    verdict,     \* the outcome a supervisor is about to publish
    child,       \* the command's process group, of each supervisor
    untold,      \* detached submitters that have yet to write their pending record
    cpc,         \* where each canceller stands
    prey,        \* the supervisor named by the record a canceller removed or read
    crashes      \* supervisors killed so far

disk == <<queue, lease, result, pending, cancelled, expired>>
procs == <<pc, verdict, child>>
cancels == <<cpc, prey>>
vars == <<boot, lock, disk, procs, untold, cancels, crashes>>

PC == {"off", "starting", "queued", "admitting", "admitted", "spawned", "running",
       "timedout", "settling", "clearing", "finalize", "published", "exited", "dead"}
Outcome == {"exit", "cancelled", "queue-timeout", "refused",
            "died-while-queued", "died-before-register"}
Group == {"none", "alive", "lingering", "gone"}
CancelPC == {"idle", "look", "judge", "waiting", "killing", "publish",
             "removed", "cancelled", "failed"}

LeaseRecord == [sup: Sup \cup {None}, pgid: BOOLEAN, orphaned: BOOLEAN, boot: Nat]
NoLease == [sup |-> None, pgid |-> FALSE, orphaned |-> FALSE, boot |-> 0]

TypeOK ==
    /\ boot \in Nat /\ crashes \in Nat
    /\ lock \in Sup \cup {None}
    /\ queue \in [Ticket -> Sup \cup {None}]
    /\ lease \in [Ticket -> LeaseRecord]
    /\ result \in [Ticket -> Outcome \cup {"none"}]
    /\ pending \in [Ticket -> Sup \cup {None}]
    /\ cancelled \subseteq Ticket /\ expired \subseteq Ticket
    /\ pc \in [Sup -> PC]
    /\ verdict \in [Sup -> Outcome \cup {"none"}]
    /\ child \in [Sup -> Group]
    /\ untold \subseteq Sup
    /\ cpc \in [Canceller -> CancelPC]
    /\ prey \in [Canceller -> Sup \cup {None}]
    /\ \A s \in Sup : pc[s] \in {"finalize", "published"} => verdict[s] \in Outcome

Init ==
    /\ boot = 0 /\ crashes = 0 /\ lock = None
    /\ queue = [t \in Ticket |-> None]
    /\ lease = [t \in Ticket |-> NoLease]
    /\ result = [t \in Ticket |-> "none"]
    /\ pending = [t \in Ticket |-> None]
    /\ cancelled = {} /\ expired = {}
    /\ pc = [s \in Sup |-> "off"]
    /\ verdict = [s \in Sup |-> "none"]
    /\ child = [s \in Sup |-> "none"]
    /\ untold = {}
    /\ cpc = [c \in Canceller |-> "idle"]
    /\ prey = [c \in Canceller |-> None]

Up(s) == pc[s] \notin {"off", "exited", "dead"}
Working(s) == child[s] \in {"alive", "lingering"}
Held(t) == lease[t].sup # None
Goto(s, l) == pc' = [pc EXCEPT ![s] = l]

-----------------------------------------------------------------------------
(* reapStale: what every poll does first, under the lock. *)

\* isGroupAlive(lease.childPgid).  Before the command is spawned childPgid is
\* null, and kill(-null) probes the caller's own group, which is alive.
GroupAlive(l) == l.pgid => Working(l.sup)

\* Mutant: a lease once marked ORPHANED is not looked at again.
MutReleasedSkipsOrphans ==
    {t \in Ticket : Held(t) /\ \/ lease[t].boot # boot
                               \/ /\ ~Up(lease[t].sup) /\ ~GroupAlive(lease[t])
                                  /\ ~lease[t].orphaned}

\* reapIfStale: the leases a pass removes, and those it marks ORPHANED.
Released ==
    {t \in Ticket : Held(t) /\ \/ lease[t].boot # boot
                               \/ ~Up(lease[t].sup) /\ ~GroupAlive(lease[t])}
Orphans == {t \in Ticket \ Released : Held(t) /\ ~Up(lease[t].sup)}
MarkOrphaned(l) == [sup |-> l.sup, pgid |-> l.pgid, orphaned |-> TRUE, boot |-> l.boot]

ReapedLeases ==
    [t \in Ticket |-> IF t \in Released THEN NoLease
                      ELSE IF t \in Orphans THEN MarkOrphaned(lease[t])
                      ELSE lease[t]]

\* reapOrphanedQueue: the queued tickets whose supervisor is gone; `keep` is the
\* caller's own ticket.  The result is published before the record goes.
Abandoned(keep) == {t \in Ticket \ keep : queue[t] # None /\ ~Up(queue[t])}
ReapedQueue(keep) == [t \in Ticket |-> IF t \in Abandoned(keep) THEN None ELSE queue[t]]
ReapedResults(keep) ==
    [t \in Ticket |-> IF t \in Abandoned(keep) THEN "died-while-queued" ELSE result[t]]

ReapStale(keep) == lease' = ReapedLeases /\ result' = ReapedResults(keep)

\* Mutant: only RUNNING leases block.
MutBlockedSkipsOrphans(t) ==
    LET held == {u \in Ticket : ReapedLeases[u].sup # None /\ ~ReapedLeases[u].orphaned}
    IN  \/ \E u \in held : <<KeyOf[t], KeyOf[u]>> \in Conflicts
        \/ Cardinality({u \in held : KeyOf[u] = KeyOf[t]}) >= MaxConcurrent[t]

\* Mutant: the ceiling is compared off by one.
MutBlockedOffByOne(t) ==
    LET held == {u \in Ticket : ReapedLeases[u].sup # None}
    IN  \/ \E u \in held : <<KeyOf[t], KeyOf[u]>> \in Conflicts
        \/ Cardinality({u \in held : KeyOf[u] = KeyOf[t]}) > MaxConcurrent[t]

\* blockedBy over the leases that survive the pass, RUNNING or ORPHANED.
Blocked(t) ==
    LET held == {u \in Ticket : ReapedLeases[u].sup # None}
    IN  \/ \E u \in held : <<KeyOf[t], KeyOf[u]>> \in Conflicts
        \/ Cardinality({u \in held : KeyOf[u] = KeyOf[t]}) >= MaxConcurrent[t]

-----------------------------------------------------------------------------
(* Submission. *)

\* `lane run` spawns the supervisor.
Submit(s) ==
    /\ pc[s] = "off"
    /\ Goto(s, "starting")
    /\ untold' = IF s \in Detached THEN untold \cup {s} ELSE untold
    /\ UNCHANGED <<boot, lock, disk, verdict, child, cancels, crashes>>

\* writePending: the submitter of a detached run names the supervisor on disk
\* before it prints the id, while that supervisor is already on its way.
WritePending(s) ==
    /\ s \in untold
    /\ untold' = untold \ {s}
    /\ pending' = [pending EXCEPT ![TicketOf[s]] = s]
    /\ UNCHANGED <<boot, lock, queue, lease, result, cancelled, expired, procs, cancels,
                   crashes>>

\* enforceCpuLimitStartup fails: the refusal is published before enqueue is reached.
RefuseStartup(s) ==
    /\ pc[s] = "starting" /\ s \in StartupRefused
    /\ result' = [result EXCEPT ![TicketOf[s]] = "refused"]
    /\ Goto(s, "clearing")
    /\ UNCHANGED <<boot, lock, queue, lease, pending, cancelled, expired, verdict, child,
                   untold, cancels, crashes>>

\* Mutants: a lease, or a result, does not make an id known.
MutExistingSkipsLease(t) == queue[t] # None \/ result[t] # "none"
MutExistingSkipsResult(t) == queue[t] # None \/ Held(t)

\* existingTicket: queued, leased or finished under this id.
Existing(t) == queue[t] # None \/ Held(t) \/ result[t] # "none"

\* A duplicate of a known id exits; its first supervisor owns the ticket.
Enqueue(s) ==
    LET t == TicketOf[s]
    IN  /\ pc[s] = "starting" /\ s \notin StartupRefused /\ lock = None
        /\ IF Existing(t)
             THEN Goto(s, "exited") /\ UNCHANGED queue
             ELSE Goto(s, "queued") /\ queue' = [queue EXCEPT ![t] = s]
        /\ UNCHANGED <<boot, lock, lease, result, pending, cancelled, expired, verdict,
                       child, untold, cancels, crashes>>

-----------------------------------------------------------------------------
(* The poll loop of a queued supervisor. *)

\* A supervisor takes its own ticket out of the queue and goes on to publish v;
\* a plain cancel publishes nothing ("none").
LeaveQueue(s, v) ==
    /\ lock = None
    /\ queue' = [queue EXCEPT ![TicketOf[s]] = None]
    /\ verdict' = [verdict EXCEPT ![s] = v]
    /\ Goto(s, "settling")

\* The cancel marker is seen before the poll.
PollCancelled(s) ==
    /\ pc[s] = "queued" /\ TicketOf[s] \in cancelled
    /\ LeaveQueue(s, "none")
    /\ UNCHANGED <<boot, lock, lease, result, pending, cancelled, expired, child, untold,
                   cancels, crashes>>

\* isDispatchOnly or checkResourceBudget turned against a queued ticket.
RefuseQueued(s) ==
    /\ pc[s] = "queued" /\ s \in Refusable
    /\ LeaveQueue(s, "refused")
    /\ UNCHANGED <<boot, lock, lease, result, pending, cancelled, expired, child, untold,
                   cancels, crashes>>

\* A call of tryStart reaps first, and every outcome keeps what the reap did.
Poll(s) == pc[s] = "queued" /\ lock = None /\ ReapStale({TicketOf[s]})

\* Any denial: conflict, capacity, load, CPU, memory, or not the head.
PollDenied(s) ==
    /\ Poll(s)
    /\ queue[TicketOf[s]] # None
    /\ queue' = ReapedQueue({TicketOf[s]})
    /\ UNCHANGED <<boot, lock, pending, cancelled, expired, procs, untold, cancels, crashes>>

\* 'not-head' with no position: the record is gone, so `lane cancel` took it.
PollGone(s) ==
    /\ Poll(s)
    /\ queue[TicketOf[s]] = None
    /\ queue' = ReapedQueue({TicketOf[s]})
    /\ verdict' = [verdict EXCEPT ![s] = "none"]
    /\ Goto(s, "settling")
    /\ UNCHANGED <<boot, lock, pending, cancelled, expired, child, untold, cancels, crashes>>

\* 'queue-timeout': tryStart leaves the expire marker, unless a cancel is pending.
PollExpired(s) ==
    LET t == TicketOf[s]
    IN  /\ Poll(s)
        /\ queue[t] # None /\ t \in Expiring \ cancelled
        /\ queue' = ReapedQueue({t})
        /\ expired' = expired \cup {t}
        /\ Goto(s, "timedout")
        /\ UNCHANGED <<boot, lock, pending, cancelled, verdict, child, untold, cancels,
                       crashes>>

\* The supervisor dequeues and reads the cancel marker under one lock: a cancel wins.
SettleTimeout(s) ==
    /\ pc[s] = "timedout"
    /\ LeaveQueue(s, IF TicketOf[s] \in cancelled THEN "cancelled" ELSE "queue-timeout")
    /\ UNCHANGED <<boot, lock, lease, result, pending, cancelled, expired, child, untold,
                   cancels, crashes>>

\* Mutant: the commit trusts what the poll saw before it had the lock.
MutStartDequeueTrustsPoll(s) ==
    LET t == TicketOf[s]
    IN  /\ Poll(s)
        /\ ~Blocked(t)
        /\ queue' = [ReapedQueue({t}) EXCEPT ![t] = None]
        /\ lock' = s
        /\ Goto(s, "admitting")
        /\ UNCHANGED <<boot, pending, cancelled, expired, verdict, child, untold, cancels,
                       crashes>>

\* tryStart's commit, first write: the queue record goes.
StartDequeue(s) ==
    LET t == TicketOf[s]
    IN  /\ Poll(s)
        /\ queue[t] # None /\ ~Blocked(t) /\ t \notin cancelled
        /\ queue' = [ReapedQueue({t}) EXCEPT ![t] = None]
        /\ lock' = s
        /\ Goto(s, "admitting")
        /\ UNCHANGED <<boot, pending, cancelled, expired, verdict, child, untold, cancels,
                       crashes>>

\* tryStart's commit, second write: the lease, which names no process group yet.
StartLease(s) ==
    /\ pc[s] = "admitting"
    /\ lease' = [lease EXCEPT ![TicketOf[s]] =
                   [sup |-> s, pgid |-> FALSE, orphaned |-> FALSE, boot |-> boot]]
    /\ lock' = None
    /\ Goto(s, "admitted")
    /\ UNCHANGED <<boot, queue, result, pending, cancelled, expired, verdict, child,
                   untold, cancels, crashes>>

\* finalizeQueuedAndExit and refuseLocalAndExit: publish, if there is something to
\* publish, then drop the markers under the lock and exit.
PublishSettled(s) ==
    /\ pc[s] = "settling"
    /\ result' = IF verdict[s] = "none" THEN result
                 ELSE [result EXCEPT ![TicketOf[s]] = verdict[s]]
    /\ Goto(s, "clearing")
    /\ UNCHANGED <<boot, lock, queue, lease, pending, cancelled, expired, verdict, child,
                   untold, cancels, crashes>>

ClearMarkers(s) ==
    /\ pc[s] = "clearing" /\ lock = None
    /\ cancelled' = cancelled \ {TicketOf[s]}
    /\ expired' = expired \ {TicketOf[s]}
    /\ Goto(s, "exited")
    /\ UNCHANGED <<boot, lock, queue, lease, result, pending, verdict, child, untold,
                   cancels, crashes>>

-----------------------------------------------------------------------------
(* The admitted supervisor. *)

\* The host turned dispatch-only, the tree lock or the CPU quota failed: the lease
\* is given back unused.
RefuseAdmitted(s) ==
    /\ pc[s] = "admitted" /\ s \in Refusable
    /\ LeaveQueue(s, "refused")
    /\ lease' = [lease EXCEPT ![TicketOf[s]] = NoLease]
    /\ UNCHANGED <<boot, lock, result, pending, cancelled, expired, child, untold, cancels,
                   crashes>>

Spawn(s) ==
    /\ pc[s] = "admitted"
    /\ child' = [child EXCEPT ![s] = "alive"]
    /\ Goto(s, "spawned")
    /\ UNCHANGED <<boot, lock, disk, verdict, untold, cancels, crashes>>

\* runningLease puts the process group on the lease; a cancel that landed since
\* admission is honoured here.
RecordPgid(s) ==
    LET t == TicketOf[s]
    IN  /\ pc[s] = "spawned"
        /\ lease' = [lease EXCEPT ![t] =
                       [sup |-> s, pgid |-> TRUE, orphaned |-> FALSE, boot |-> boot]]
        /\ verdict' = [verdict EXCEPT ![s] = IF t \in cancelled THEN "cancelled" ELSE "none"]
        /\ Goto(s, "running")
        /\ UNCHANGED <<boot, lock, queue, result, pending, cancelled, expired, child,
                       untold, cancels, crashes>>

\* The heartbeat or a signal handler notices the cancel; the run is now a cancelled
\* one, whatever the command exits with.
NoticeCancel(s) ==
    /\ pc[s] = "running" /\ TicketOf[s] \in cancelled
    /\ verdict' = [verdict EXCEPT ![s] = "cancelled"]
    /\ UNCHANGED <<boot, lock, disk, pc, child, untold, cancels, crashes>>

\* SIGINT or SIGTERM to the supervisor itself: its handler writes the marker.
Interrupt(s) ==
    /\ Up(s) /\ s \notin StartupRefused
    /\ cancelled' = cancelled \cup {TicketOf[s]}
    /\ UNCHANGED <<boot, lock, queue, lease, result, pending, expired, procs, untold,
                   cancels, crashes>>

\* The leader ends, by itself or killed, and may leave members of its group behind.
LeaderExits(s) ==
    /\ child[s] = "alive"
    /\ \E left \in {"lingering", "gone"} : child' = [child EXCEPT ![s] = left]
    /\ UNCHANGED <<boot, lock, disk, pc, verdict, untold, cancels, crashes>>

\* They end too: the supervisor reaps them once it sees the leader exit.
SurvivorsEnd(s) ==
    /\ child[s] = "lingering"
    /\ child' = [child EXCEPT ![s] = "gone"]
    /\ UNCHANGED <<boot, lock, disk, pc, verdict, untold, cancels, crashes>>

\* Mutant: the leader's exit is taken for the end of the group.
MutFinalizeOnLeaderExit(s) ==
    /\ pc[s] = "running" /\ child[s] # "alive"
    /\ verdict' = [verdict EXCEPT ![s] = IF @ = "none" THEN "exit" ELSE @]
    /\ Goto(s, "finalize")
    /\ UNCHANGED <<boot, lock, disk, child, untold, cancels, crashes>>

\* finalizeAndExit goes on only once the whole group is confirmed gone.
Finalize(s) ==
    /\ pc[s] = "running" /\ child[s] = "gone"
    /\ verdict' = [verdict EXCEPT ![s] = IF @ = "none" THEN "exit" ELSE @]
    /\ Goto(s, "finalize")
    /\ UNCHANGED <<boot, lock, disk, child, untold, cancels, crashes>>

\* writeResult, without the lock: the result first ...
Publish(s) ==
    /\ pc[s] = "finalize"
    /\ result' = [result EXCEPT ![TicketOf[s]] = verdict[s]]
    /\ Goto(s, "published")
    /\ UNCHANGED <<boot, lock, queue, lease, pending, cancelled, expired, verdict, child,
                   untold, cancels, crashes>>

\* ... then the lease, then the markers.
Release(s) ==
    LET t == TicketOf[s]
    IN  /\ pc[s] = "published"
        /\ lease' = [lease EXCEPT ![t] = NoLease]
        /\ cancelled' = cancelled \ {t} /\ expired' = expired \ {t}
        /\ Goto(s, "exited")
        /\ UNCHANGED <<boot, lock, queue, result, pending, verdict, child, untold, cancels,
                       crashes>>

-----------------------------------------------------------------------------
(* lane cancel, lane wait and lane status. *)

CGoto(c, l) == cpc' = [cpc EXCEPT ![c] = l]

\* Dequeue and mark in one locked step.
CancelQueued(c) ==
    LET t == Target[c]
    IN  /\ cpc[c] = "idle" /\ lock = None
        /\ IF queue[t] # None
             THEN /\ queue' = [queue EXCEPT ![t] = None]
                  /\ cancelled' = cancelled \cup {t}
                  /\ prey' = [prey EXCEPT ![c] = queue[t]]
                  /\ CGoto(c, "removed")
             ELSE CGoto(c, "look") /\ UNCHANGED <<queue, cancelled, prey>>
        /\ UNCHANGED <<boot, lock, lease, result, pending, expired, procs, untold, crashes>>

\* Read the lease, without the lock.
CancelLook(c) ==
    LET t == Target[c]
    IN  /\ cpc[c] = "look"
        /\ CGoto(c, IF Held(t) THEN "judge" ELSE "failed")
        /\ prey' = [prey EXCEPT ![c] = lease[t].sup]
        /\ UNCHANGED <<boot, lock, disk, procs, untold, crashes>>

\* Mutant: cancel takes over without asking whether the supervisor lives.
MutCancelJudgeTakesOver(c) ==
    /\ cpc[c] = "judge"
    /\ cancelled' = cancelled \cup {Target[c]}
    /\ CGoto(c, "killing")
    /\ UNCHANGED <<boot, lock, queue, lease, result, pending, expired, procs, untold, prey,
                   crashes>>

\* Mark, and ask whether the supervisor that the lease named is alive: a live one is
\* signalled, a dead one's group is cancel's own to kill.
CancelJudge(c) ==
    /\ cpc[c] = "judge"
    /\ cancelled' = cancelled \cup {Target[c]}
    /\ CGoto(c, IF Up(prey[c]) THEN "waiting" ELSE "killing")
    /\ UNCHANGED <<boot, lock, queue, lease, result, pending, expired, procs, untold, prey,
                   crashes>>

CancelConfirmed(c) ==
    /\ cpc[c] = "waiting" /\ ~Held(Target[c])
    /\ CGoto(c, "cancelled")
    /\ UNCHANGED <<boot, lock, disk, procs, untold, prey, crashes>>

\* The grace period ends with the lease still held: reported as such.
CancelGivesUp(c) ==
    /\ cpc[c] = "waiting" /\ Held(Target[c])
    /\ CGoto(c, "failed")
    /\ UNCHANGED <<boot, lock, disk, procs, untold, prey, crashes>>

\* Mutant: only the leader is killed.
MutCancelKillLeader(c) ==
    /\ cpc[c] = "killing"
    /\ child' = [s \in Sup |-> IF TicketOf[s] = Target[c] /\ Working(s) THEN "lingering" ELSE child[s]]
    /\ CGoto(c, "publish")
    /\ UNCHANGED <<boot, lock, disk, pc, verdict, untold, prey, crashes>>

\* killGroupDirectly: the recorded group, and every process whose environment
\* carries the lease id.
CancelKill(c) ==
    /\ cpc[c] = "killing"
    /\ child' = [s \in Sup |-> IF TicketOf[s] = Target[c] /\ Working(s) THEN "gone" ELSE child[s]]
    /\ CGoto(c, "publish")
    /\ UNCHANGED <<boot, lock, disk, pc, verdict, untold, prey, crashes>>

CancelPublish(c) ==
    LET t == Target[c]
    IN  /\ cpc[c] = "publish"
        /\ result' = [result EXCEPT ![t] = "cancelled"]
        /\ lease' = [lease EXCEPT ![t] = NoLease]
        /\ CGoto(c, "cancelled")
        /\ UNCHANGED <<boot, lock, queue, pending, cancelled, expired, procs, untold, prey,
                       crashes>>

\* settleDeadPending, on behalf of `lane wait`.
SettleDeadPending(t) ==
    /\ lock = None
    /\ pending[t] # None /\ ~Up(pending[t])
    /\ ~Existing(t)
    /\ result' = [result EXCEPT ![t] = "died-before-register"]
    /\ UNCHANGED <<boot, lock, queue, lease, pending, cancelled, expired, procs, untold,
                   cancels, crashes>>

\* `lane status` reaps as a poll does.
StatusReaps ==
    /\ lock = None
    /\ ReapStale({}) /\ queue' = ReapedQueue({})
    /\ UNCHANGED <<boot, lock, pending, cancelled, expired, procs, untold, cancels, crashes>>

-----------------------------------------------------------------------------
(* Faults. *)

\* A supervisor is killed.  If it held the broker lock, the next contender takes it over.
Crash(s) ==
    /\ Up(s) /\ pc[s] \in CrashAt /\ crashes < MaxCrashes
    /\ crashes' = crashes + 1
    /\ Goto(s, "dead")
    /\ lock' = IF lock = s THEN None ELSE lock
    /\ UNCHANGED <<boot, disk, verdict, child, untold, cancels>>

\* Every process ends; the files stay and the boot id changes.
Reboot ==
    /\ boot < MaxBoots
    /\ boot' = boot + 1
    /\ lock' = None
    /\ pc' = [s \in Sup |-> IF Up(s) THEN "dead" ELSE pc[s]]
    /\ child' = [s \in Sup |-> IF Working(s) THEN "gone" ELSE child[s]]
    /\ untold' = {}
    /\ cpc' = [c \in Canceller |-> IF cpc[c] \in {"idle", "removed", "cancelled"} THEN cpc[c] ELSE "failed"]
    /\ UNCHANGED <<disk, verdict, prey, crashes>>

-----------------------------------------------------------------------------
SupervisorStep(s) ==
    \/ RefuseStartup(s) \/ Enqueue(s)
    \/ PollCancelled(s) \/ PollGone(s) \/ SettleTimeout(s)
    \/ StartLease(s) \/ PublishSettled(s) \/ ClearMarkers(s)
    \/ Spawn(s) \/ RecordPgid(s) \/ NoticeCancel(s)
    \/ Finalize(s) \/ Publish(s) \/ Release(s)

CancelStep(c) ==
    \/ CancelQueued(c) \/ CancelLook(c) \/ CancelJudge(c) \/ CancelConfirmed(c)
    \/ CancelGivesUp(c) \/ CancelKill(c) \/ CancelPublish(c)

Next ==
    \/ \E s \in Sup :
        \/ Submit(s) \/ WritePending(s) \/ SupervisorStep(s)
        \/ PollDenied(s) \/ PollExpired(s) \/ StartDequeue(s)
        \/ RefuseQueued(s) \/ RefuseAdmitted(s) \/ Interrupt(s)
        \/ LeaderExits(s) \/ SurvivorsEnd(s) \/ Crash(s)
    \/ \E c \in Canceller : CancelStep(c)
    \/ \E t \in Ticket : SettleDeadPending(t)
    \/ StatusReaps \/ Reboot

Spec == Init /\ [][Next]_vars

\* A supervisor keeps running; a ticket that can be admitted again and again is (the
\* scheduler's skip limits bound how often it is passed over); commands end; a group
\* whose leader has gone is reaped.
FairSpec ==
    /\ Spec
    /\ \A s \in Sup : /\ WF_vars(SupervisorStep(s))
                      /\ SF_vars(StartDequeue(s))
                      /\ WF_vars(LeaderExits(s)) /\ WF_vars(SurvivorsEnd(s))

-----------------------------------------------------------------------------
(* Properties. *)

\* A command's process group never runs without a lease of its own ticket held by its
\* own supervisor: not when the supervisor dies, when a poll reaps, when a cancel takes
\* over, or when members of the group outlive its leader (README, "ORPHANED handling").
LiveWorkIsLeased ==
    \A s \in Sup : Working(s) => lease[TicketOf[s]].sup = s

\* May tickets t and u run side by side?
Exclusive(t, u) ==
    \/ <<KeyOf[t], KeyOf[u]>> \in Conflicts
    \/ KeyOf[t] = KeyOf[u] /\ MaxConcurrent[t] = 1 /\ MaxConcurrent[u] = 1

\* The reason the broker exists: the process groups of two conflicting lanes are never
\* alive at the same time (blockedBy, enforced through leases only).
NoConflictOverlap ==
    \A s, r \in Sup :
        s # r /\ Working(s) /\ Working(r) => ~Exclusive(TicketOf[s], TicketOf[r])

\* The leases held for one lane key, RUNNING or ORPHANED, never outnumber the largest
\* ceiling among them (blockedBy counts them at each admission).
CeilingRespected ==
    \A k \in Key :
        LET held == {t \in Ticket : Held(t) /\ KeyOf[t] = k}
        IN  held # {} => \E t \in held : Cardinality(held) <= MaxConcurrent[t]

\* `lane cancel` said "removed queued ticket": the supervisor that had queued it never
\* spawns the command, however its poll, admission or queue timeout was racing.
RemovedNeverRuns ==
    \A c \in Canceller : cpc[c] = "removed" => child[prey[c]] = "none"

\* When `lane cancel` reports a running or orphaned ticket cancelled, the process group
\* of the supervisor it addressed is gone and its lease with it.
CancelledIsStopped ==
    [][\A c \in Canceller :
          cpc[c] # "cancelled" /\ cpc'[c] = "cancelled" =>
              ~Working(prey[c])' /\ lease'[Target[c]].sup # prey[c]]_vars

\* A command is spawned a second time under its id only when whoever spawned it before
\* was killed, and its process group is gone: however often --id is retried, and whether
\* the earlier run was cancelled, timed out, reaped or refused meanwhile.
RunsAgainOnlyIfKilled ==
    [][\A s, r \in Sup :
          /\ child[s] = "none" /\ child'[s] = "alive"
          /\ r # s /\ TicketOf[r] = TicketOf[s] /\ child[r] # "none"
          => pc[r] = "dead" /\ ~Working(r)]_vars

\* --id makes a submission idempotent: as long as no supervisor is killed, two
\* supervisors of one id never both spawn its command.
OneRunPerId ==
    crashes = 0 /\ boot = 0 =>
        \A s, r \in Sup :
            s # r /\ TicketOf[s] = TicketOf[r] => child[s] = "none" \/ child[r] = "none"

\* What a retried --id may rely on: the command runs once, and even when kills and
\* reboots break that, whatever runs under the id is leased.
DuplicatesAreSafe == OneRunPerId /\ LiveWorkIsLeased

\* A queued supervisor ends, whatever happens to the others.
EveryQueuedTicketEnds ==
    \A s \in Sup : pc[s] = "queued" ~> pc[s] \in {"exited", "dead"}

-----------------------------------------------------------------------------
(* The inductive invariant behind LiveWorkIsLeased, NoConflictOverlap and      *)
(* RemovedNeverRuns, for ids that are not resubmitted.                         *)

Admitted == {"admitted", "spawned", "running", "finalize", "published"}
Unspawned == {"off", "starting", "queued", "admitting", "admitted", "timedout", "settling", "clearing"}
Ended == {"exited", "dead"}

\* A lease on the table names a supervisor of its own ticket; an admitted supervisor's
\* is there, and of this boot.
LeaseNamesItsSupervisor ==
    \A t \in Ticket : Held(t) => TicketOf[lease[t].sup] = t /\ pc[lease[t].sup] # "off"
HolderKeepsLease ==
    \A s \in Sup :
        pc[s] \in Admitted => lease[TicketOf[s]].sup = s /\ lease[TicketOf[s]].boot = boot

\* Where a supervisor's command can be, and under which lease.
WorkIsPlaced ==
    \A s \in Sup : /\ pc[s] \in Unspawned => child[s] = "none"
                   /\ pc[s] \in {"finalize", "published", "exited"} => ~Working(s)
                   /\ Working(s) => lease[TicketOf[s]].sup = s /\ lease[TicketOf[s]].boot = boot

\* The lease table never holds two conflicting leases, RUNNING or ORPHANED, and the
\* supervisor inside the start commit is about to add one that conflicts with none.
LeasesAreExclusive ==
    \A t, u \in Ticket : t # u /\ Held(t) /\ Held(u) => ~Exclusive(t, u)
CommitIsGuarded ==
    \A s \in Sup : pc[s] = "admitting" =>
        lock = s /\ \A u \in Ticket : Held(u) => ~Exclusive(TicketOf[s], u)

\* A cancel that kills by itself does so for a supervisor that has ended.
CancelTakesOverTheEnded ==
    \A c \in Canceller :
        /\ cpc[c] \in {"judge", "waiting"} =>
             prey[c] \in Sup /\ TicketOf[prey[c]] = Target[c] /\ pc[prey[c]] # "off"
        /\ cpc[c] \in {"killing", "publish"} =>
             prey[c] \in Sup /\ TicketOf[prey[c]] = Target[c] /\ pc[prey[c]] \in Ended
        /\ cpc[c] = "publish" => ~Working(prey[c])

\* A queue record belongs to a supervisor that has started nothing, and a record that
\* a cancel removed is not written again.
QueueIsOwned ==
    \A t \in Ticket : queue[t] # None =>
        /\ TicketOf[queue[t]] = t
        /\ pc[queue[t]] \in {"queued", "timedout", "dead"}
        /\ child[queue[t]] = "none"
RemovedIsOut ==
    \A c \in Canceller : cpc[c] = "removed" =>
        /\ prey[c] \in Sup /\ queue[TicketOf[prey[c]]] = None
        /\ pc[prey[c]] \in {"queued", "timedout", "settling", "clearing", "exited", "dead"}
        /\ child[prey[c]] = "none"

\* Files and processes agree: every lease, queue record and running command is accounted
\* for by exactly the supervisor it belongs to, also while others poll, cancel or die.
LifecycleInv ==
    /\ LeaseNamesItsSupervisor /\ HolderKeepsLease /\ WorkIsPlaced
    /\ LeasesAreExclusive /\ CommitIsGuarded
    /\ CancelTakesOverTheEnded /\ QueueIsOwned /\ RemovedIsOut

\* The supervisors that hold no lease yet.
Unleased == {"off", "starting", "queued", "timedout", "admitting"}
UnfinishedHasNoResult ==
    \A s \in Sup :
        pc[s] \notin {"clearing", "published", "exited", "dead"} => result[TicketOf[s]] = "none"
QueuedHasNoResult == \A t \in Ticket : queue[t] # None => result[t] = "none"
LeasedIsNotQueued ==
    \A t \in Ticket : Held(t) => queue[t] = None /\ pc[lease[t].sup] \notin Unleased
CancelActsOnLeased ==
    \A c \in Canceller : cpc[c] \in {"judge", "waiting", "killing", "publish"} =>
        queue[Target[c]] = None /\ pc[prey[c]] \notin Unleased
PendingIsOwned ==
    /\ \A t \in Ticket : pending[t] # None => TicketOf[pending[t]] = t /\ pc[pending[t]] # "off"
    /\ \A s \in untold : pc[s] # "off"

\* A result comes last: a ticket that is queued, or whose supervisor has yet to start it,
\* run it or publish, has none.  A lease, and a cancel that acts on one, excludes a queue
\* record; a pending file names a supervisor that was started for its ticket.
ResultsComeLast ==
    /\ UnfinishedHasNoResult /\ QueuedHasNoResult
    /\ LeasedIsNotQueued /\ CancelActsOnLeased /\ PendingIsOwned

\* Behind DuplicatesAreSafe, for ids that are resubmitted and never cancelled: a
\* supervisor that queues or commits is its ticket's only owner, and while nothing was
\* killed a command that was started is being run, or has left a result.
Waiting == {"queued", "timedout", "admitting"}
OwnersAreAlone ==
    \A s \in Sup :
        /\ pc[s] \in {"queued", "timedout"} => queue[TicketOf[s]] = s
        /\ pc[s] = "admitting" => queue[TicketOf[s]] = None
        /\ pc[s] \in Waiting => ~Held(TicketOf[s])
        /\ pc[s] = "published" => result[TicketOf[s]] # "none"
RunsLeaveResults ==
    crashes = 0 /\ boot = 0 =>
        \A s \in Sup : child[s] # "none" =>
            \/ pc[s] \in Admitted
            \/ /\ pc[s] = "exited" /\ result[TicketOf[s]] # "none"
               /\ \A r \in Sup : TicketOf[r] = TicketOf[s] => pc[r] \notin Waiting \cup Admitted
DuplicatesInv == LifecycleInv /\ OwnersAreAlone /\ RunsLeaveResults /\ OneRunPerId

\* Behind RunsAgainOnlyIfKilled, for ids that are resubmitted and cancelled: while a
\* ticket is queued or its command is being started or run, every other supervisor of the
\* id is past its own run.  A run that is under way holds the lease, unless a cancel took
\* the lease away, and then the id has a result.
Active == Admitted \cup {"admitting"}
Leased(s) == lease[TicketOf[s]].sup = s /\ lease[TicketOf[s]].boot = boot
Over(r) == pc[r] \notin Active /\ ~Working(r) /\ (child[r] # "none" => pc[r] = "dead")
RunIsPlaced ==
    \A s \in Sup :
        /\ pc[s] \in Unspawned => child[s] = "none"
        /\ pc[s] \in {"finalize", "published", "exited"} => ~Working(s)
        /\ pc[s] = "exited" /\ child[s] # "none" => result[TicketOf[s]] # "none"
        /\ pc[s] = "published" => result[TicketOf[s]] # "none"
RunIsKnown ==
    \A s \in Sup :
        /\ pc[s] = "admitting" => lock = s
        /\ pc[s] \in Admitted => Leased(s) \/ result[TicketOf[s]] # "none"
        /\ Working(s) => Leased(s) \/ result[TicketOf[s]] # "none"
OthersAreOver ==
    /\ \A s, r \in Sup : r # s /\ TicketOf[r] = TicketOf[s] /\ pc[s] \in Active => Over(r)
    /\ \A r \in Sup : queue[TicketOf[r]] # None => Over(r)
SoleRunInv == RunIsPlaced /\ RunIsKnown /\ OthersAreOver

\* Behind CeilingRespected: whichever leases of a lane go first, those that stay fit under
\* a ceiling of theirs; and the lane of the supervisor inside the start commit has room.
LeasesOf(k) == {t \in Ticket : Held(t) /\ KeyOf[t] = k}
LeasesFit ==
    \A k \in Key : \A held \in SUBSET LeasesOf(k) :
        held # {} => \E t \in held : Cardinality(held) <= MaxConcurrent[t]
CommitFits ==
    \A s \in Sup : pc[s] = "admitting" =>
        /\ lock = s
        /\ Cardinality(LeasesOf(KeyOf[TicketOf[s]])) < MaxConcurrent[TicketOf[s]]
CeilingInv == LeasesFit /\ CommitFits

-----------------------------------------------------------------------------
(* What the repository says and the code does not do. *)

\* src/pending.js: "supervisor-died-before-register: the command never started".
DiedBeforeRegisterNeverStarted ==
    \A s \in Sup : result[TicketOf[s]] = "died-before-register" => child[s] = "none"

=============================================================================
