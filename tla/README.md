# Verification of lane-broker

lane-broker serialises and admits the heavy jobs ("lanes") of a machine, and may dispatch
them to runner hosts. There is no daemon. Every `lane run` starts one supervisor process;
the processes coordinate through files in one state directory, under a mutex that is
itself a directory. What can go wrong is therefore what goes wrong between processes that
may die between any two file operations; beside that, how a queue of claims on one host
is served, and what two caches of other people's work may promise. This project models
that in TLA+, checks it with TLC on small instances, and proves the central safety
properties with TLAPS for any number of processes and tickets.

All `file:line` references are relative to the repository root; code files without a
directory are in its `src/`.

## Inventory

| component | state it keeps | operations | interacts through |
|---|---|---|---|
| broker lock (`state.js`) | `lock/` with `owner.json`, `stolen-at`, staging directories, tombs | `withLock`, `recoverDeadLock`, `gcTombs` | renames on shared paths; everything below runs its callbacks under it |
| ticket lifecycle (`supervisor.js`, `scheduler.js`, `lease.js`, `cancel.js`, `pending.js`, `run.js`) | `queue/`, `leases/`, `results/`, `pending/`, cancel and expire markers | `enqueue`, `tryStart`, spawn, heartbeat, `finalizeAndExit`, `reapAll`, `reapOrphanedQueue`, `lane cancel`, `settleDeadPending` | files, signals, process liveness probes |
| admission and selection (`scheduler.js`, `admission.js`, `exclusive.js`, `fairness.js`, `priority*.js`, `classes.js`, `resources.js`, `express.js`, `push-gate.js`) | `fairness-v2.json`: skip counts, resource records, reservations; `express-starts.json` | head selection, backfill, yields, lifts, the denials of `tryStart`; `retier`; holds and superseding of pushes | inside `tryStart`'s and `enqueue`'s callbacks |
| orphaned descendants (`lease.js`, `descendants.js`) | `orphanReap` fields of a lease | `stepOrphanReap` | each poll takes one step |
| remote attempts (`attempts.js`, `remote-*.js`, `reconcile-sweep.js`, `runner-unreachable.js`) | `attempts/`, the runner's ticket directories and tombstones | dispatch, fetch, withdraw, cancel, fallback, reconcile | ssh to a runner that may be unreachable, down or restarted |
| migration (`migrate.js`) | `migrating` and `draining` markers, `PAUSE`, the queue fence, `sched-v2.json` | plain, `--dry-run` and `--when-idle` migration; `lane pause`, `lane resume` | intake of new and of old code |
| gates (`cpu.js`, `memory.js`, `external-cpu.js`, ...) | samples, estimates | measurement, hysteresis | denials of `tryStart` |
| replicated store (`store/`) | journal, objects, job meta files, watermark | upload, register, pin, delete, rejournal, maintain, replicate, recover | one event loop, HTTP to the replica |
| SQL lane functions (`sql/lane/functions.sql`) | database rows | claim, renew, release | database transactions |
| caches (`deps-cache.js`, `remote-pipeline.js`, `result-cache.js`) | published trees, leases on them | look up, lease, copy, relocate, install, publish, trim | renames in the store; leases and eviction under the broker lock |
| configuration, reports, command line | none of their own | parsing, formatting | read the files above |

What is hard here: takeover of a mutex whose owner was killed; a poll, a cancel and a
death that meet; a result that is written without the lock; process groups that outlive
their leader and supervisors that outlive neither; ids that are submitted twice; a
detached submitter that never waits; a machine that reboots with its files intact; a runner
that cannot be reached and may or may not be running the job; a record about a blocked
ticket that later polls of other tickets act on; a cached tree whose key left something
out; a deletion cut in half by a crash; a drain that is killed and leaves intake closed.
`PROJECT.json` lists these hazards at their lines, each with the property that would
catch it.

What makes each part correct: the lock is held by one call at a time, and every call
ends; no two conflicting lanes run together; work never runs without a lease, also after
its supervisor has died; a cancel that reports success has stopped the job; a job has one
result, and none while it can still run; every queued ticket ends; an attempt that may be
live on a runner is neither forgotten nor run again; a ticket is passed no more often than
its allowances say, the host is not overbooked, and a drained host starts someone; a tree
from the cache is what an install would have given; a registered snapshot stays whole
until its job ends, and the replica never claims more than it has; the cutover strands no
ticket and intake opens again.

## Modules

| module | models |
|---|---|
| `Mutex` | what the lock promises: nobody, one call, or the takeover of a call whose process died |
| `BrokerLock` | `withLock`, `recoverDeadLock`, `gcTombs`, `isLockOwnerAlive`; refines `Mutex` |
| `TicketLifecycle` | a local ticket from `lane run` to its result, `lane cancel`, the reapers, `lane wait`'s settling of dead detached runs |
| `RunnerTicket` | one remote ticket on each runner host: `remote-exec`, its lane, `remote-cancel`, `remote-withdraw`, `lane drain --shutdown`, tombstones, the result record |
| `RemoteAttempt` | the submitter of that ticket: dispatch, moves, fallback, rebind, reconcile, `lane cancel`; extends `RunnerTicket` |
| `Selection` | which queued ticket starts: a whole poll of `tryStart`, from queue order to verdict, and what it records; `enqueue`'s push rules; `retier` |
| `DepsCache` | the store of installed `node_modules` trees and the deps phase of the pipelines that share it |
| `Store` | the object store: journal, retention, crash recovery, replication, and the replica's retention |
| `Migration` | `lane migrate-scheduler` beside the intake, `lane pause` and `lane resume` |
| `BrokerLockProofs`, `TicketLifecycleProofs`, `RunnerTicketProofs`, `RemoteAttemptProofs`, `SelectionProofs`, `DepsCacheProofs`, `StoreProofs`, `MigrationProofs` | the theorems |
| `MCBrokerLock`, `MCTicketLifecycle`, `MCRemoteAttempt`, `MCSelection`, `MCDepsCache`, `MCStore`, `MCMigration` | instances for TLC |

How they fit together: `TicketLifecycle` takes a callback under the broker lock as one
action, which `BrokerLock` justifies, and leaves open which ticket is preferred, which
`Selection` decides; `Selection` in turn takes the lifecycle of a ticket as a few steps
(queued, running, orphaned, done). `RemoteAttempt` extends `RunnerTicket`. `Migration`,
`DepsCache` and `Store` share no variables with the others: what they share in the code is
the lock and the queue directories, and each has the part of them that it needs.

Definitions whose names begin with `Mut` are not part of the model. Each is a plausible
bug in the definition that follows it, and `PROJECT.json` names the property it breaks.

### BrokerLock

A `Call` is one invocation of `withLock`; `PidOf` says which process makes it. `pc` is the
place in the code, `lockOwner` and `lockStamp` the contents of the lock path, `tombOwner`
and `tombStamp` those of each tomb path. Each action is one system call on a shared path,
because a process may be killed (`Crash`) or suspended between two of them:

* `Begin` (draw the token, collect tombs), `StageRename` (rename the staged directory onto
  the lock path), `ReadAlive`/`ReadDead`/`ReadUnreadable` (what the reader of `owner.json`
  concludes);
* `Recheck`, `StampTakeover`, `RenameToTomb`, `VerifyMoved`, `RestoreMoved`: the steps of
  `recoverDeadLock`;
* `CallbackEnds`, `ReleaseCheck`, `Unlock`: the end of `withLock`.

Tokens are random UUIDs, so the call stands for its token. Time is two facts: a call's
deadline may have passed (`late`), and a `stolen-at` stamp may be older than
`TOMB_TTL_MS` (`Elapse`). Whether a contender may sleep through that TTL *inside* a
takeover is the constant `SuspendBeyondTTL`. `assertLockOrder`'s lock groups are not
distinguished.

### TicketLifecycle

`queue`, `lease`, `result`, `pending`, `cancelled`, `expired` are the files; `pc`,
`verdict` and `child` are the supervisors and their process groups; `cpc` and `prey` are
running `lane cancel` commands. A callback under the broker lock is one action, which
`BrokerLock` justifies. The exception is the start commit of `tryStart`, whose two writes
(`StartDequeue`, `StartLease`) are separate because a kill between them leaves a state of
its own. What the code does without the lock (publishing a result, reading a lease in
`lane cancel`, writing the pending record) is separate from what it does under it.

Every poll starts with `ReapStale`: dead supervisors' leases are removed when their group
is gone and marked ORPHANED when it is not (`isGroupAlive` of a lease with no process
group yet answers yes, as in the code), and queue records of dead supervisors are
settled. Then the poll ends in exactly one of: denied, gone, expired, admitted. Which
ticket the scheduler prefers is left open (`PollDenied` is always possible; `Selection`
has it); `Blocked` is `blockedBy`, the part of it that safety rests on.

Abstractions. Process ids are not reused. Processes that leave their process group are
not represented (so `stepOrphanReap` is not). `lane cancel`'s scan for processes that
carry the lease id in their environment is assumed to find the group. Deadline and
watchdog kills, pushes and supersession end a run like any other end. `recoverRebinding`
and remote attempts are not in this module. The publication and the unlink of
`reapOrphanedQueue` are one step (they are one callback, and a kill between them only
repeats the publication).

### RunnerTicket and RemoteAttempt

`RunnerTicket` has, for each runner, the ssh session that carries the snapshot (`wire`),
the `remote-exec` process (`exec`), the lane it starts in the runner's own broker (`lane`,
`how`), the marker files of the ticket directory (`cancelled`, `shut`, `unstarted`), the
broker's cancel marker (`stop`), tombstones (`tomb`) and `result.json` (`record`). A
callback under the runner's broker lock is one action. `HostSpec` lets requests arrive in
any order and any number, so that what holds of it holds for every submitter.

`RemoteAttempt` adds the submitter. `att` is the attempt record: whether it is held, its
generation (0, or 1 once the job was dispatched again), the executor, the runner, every
runner it was sent to, and a move in progress. `pc` is the place in `runRemoteAttempt` and
`dispatchRemote`; `mark`, `result` and `queue` are the submitter's other files; `rpc` and
`cpc` are reconciles and `lane cancel` commands beside it. A call over ssh is answered in
one step by what the host does in that step, or it is lost; a lost request may still be
carried out at any later time (`stray`). A cancel takes two steps, because the host answers
it only when the command has gone.

Faults are a constant set of kinds, of which at most `MaxFaults` happen:

| fault | what happens |
|---|---|
| `lost` | a request or its answer is lost |
| `crash` | the submitter's supervisor is killed |
| `exec`, `supervisor` | `remote-exec`, or the lane's supervisor on the runner, is killed |
| `shutdown` | `lane drain --shutdown` on the runner |
| `reboot`, `offline` | the runner loses its processes and keeps its files; `offline`: it does not come back, and its operator marks it offline |
| `bound` | `runnerLostAfterMs` runs out: the attempt is given up without proof |

`Waits` says whether `remoteResultWaitMs` may run out while the job is alive.

Abstractions. One ticket. Which eligible runner is chosen is left open. The fresh ids of a
cache repair, artifacts, a refusal because of a migration, the loss of unsynced files, a
reboot of the submitter, and an error of the upload after its last byte are not
represented. The local part of a fallback is a few steps (`enqueue`, `local`, `running`):
`TicketLifecycle` has it in full. Two statements are weaker than one would like, where the code is:
after `bound` nothing is claimed, and `NeverForgotten` leaves out a command that outlives
its own runner's `cancelled` record (`Disowned`, see Findings).

### Selection

`Poll(t, S)` is one callback of `tryStart` for ticket `t` under what the host reports
(`sample`, one of `Samples`): the head of the visible queue is found (`Visible` leaves out
sims over their caps and pushes that another push holds), the head's records are stamped,
`Plan` says whether `t` is the pick and with which allowance (in order, conflict or
capacity backfill, resource backfill, yield, express), `Verdict` says whether the CPU,
memory, load and cap decisions let it start and by which lift (floor slot, bypass, idle
exemption, elastic grant), and `Start` or `Refuse` makes the writes. `fair[t]` is `t`'s part of
`fairness-v2.json`: `skips`, `since`, `heavy` and the resource record `res`; `latched` is
the order of `reservationSeq`. `Enqueue` has the push rules and the cap on high tickets,
`Retier`, `Cancel`, `Dequeue`, `Orphan`, `End` and `Tick` what happens between polls.
`passed` is a history variable; it counts what `AllowancesHold` bounds.

One tick is a rate window, a bypass window and the freshness of a futility verdict.
Predictions of the express lane and of the bypass are flags of a ticket (`short`,
`brief`). All pushes are local.

What a lease is booked with and what it is charged are two things, and CPU is counted in
tenths of a core to tell them apart. Conflicts, weight, memory and the sims' share go by what
was declared or granted (`Weight`, `Memory`, `Booked`). The CPU decision goes by `Charge`: a lease
counts for its estimate from history until it has been observed, then at least for what it
uses, and once it has settled for its padded recent peak, never below
`settledDemandFloorFraction` of its grant (`Estimate`, `Demand`); a lease that the kernel runs
behind the candidate counts for `1 - preemptibleShare` of that (`Outranked`). Observations
(`use`) and history (`past`) are data of the sample. It follows that the granted cores are not
bounded by the budget, not even by the budget and both overshoots: two settled leases make
room for a third. No property says they are.

Not represented: unreadable queue records, the allocation shadow, idle credit, changes of the
configuration between polls, a failing memory reading, `lane pause`, and the unfenced
scheduler of older versions. A supervisor is assumed to run at nice 0, so that the nice of a
lease is the one it was given.

### DepsCache

A pipeline (`Run`) goes through the deps directories of its lane. For each it computes the
key, looks the entry up (`Lookup`), takes a lease under the broker lock (`Lease`), copies
(`Copy`), rewrites the paths of the building run to its own (`Relocate`), replays the
allowlisted root script (`Replay`), or else installs (`Install`) and, if the tree may be
shared, copies it for the store (`Build`), renames it into place (`Publish`), claims it
and trims the store (`Claim`, `Trim`). Then it runs its command and releases its leases.
Between any two of its steps the others run, and may be killed.

`Fresh(r, d)` is what a new install of directory `d` by run `r` would give: which packages,
built from which inputs (`Reads`), with which paths in it. npm is external; the definitions
that stand for it (`Fresh`, `Installed`, `Reached`, `Reads`) are marked so. What the code
decides is `Key`, `Pinned`, `Missing`, `Relocatable` and the eligibility rules. Six
workloads of three runs each make one of these matter: install scripts that read the
toolchain, an environment that differs, sources that a declared-safe script reads, optional
packages that fail to fetch, bundled and git packages, paths in text, binaries and links.
Assumed of npm: a lifecycle script of a dependency does not read the sources of the
repository that depends on it.

Not represented: trees of local runs, the purge of the trash directory, the diagnostics of
key parts, cloned copies, refusals at dispatch, the deadline of an install.

### Store

The primary is one event loop. A handler runs from one `await` to the next without
interruption; such a section is `todo`, the durable steps it has still to make, and each
step is one write, rename or unlink. The process may die between any two (`Crash`,
`Restart`), a journal append may fail and be rolled back (`AppendFails`, `Undo`), an unlink
may fail, an object may be lost (`Loss`). The process's memory (`mem`) is rebuilt from
journal and disk by `Boot`: that is the recovery of `objects.js`. `Sweep` is the timed
retention pass (expired manifests, unreferenced blobs, eviction above the threshold),
`Maintain` the timer that journals the deletions still pending. The appends that a restart
makes (`Reconciled`) are one step with it: a crash among them is not represented. That
`RegisterManifest` refuses a job which was deleted is a bound of the model, not a check of the
code, and `ReplicationCatchesUp` depends on it (see Findings). The replicator goes through the journal
by `SkipRecord`, `ShipObject`, `ShipState` and `VerifyShipped`; the replica answers or the
answer is lost, and the replica has a retention of its own (`ReplicaSweep`).

A manifest is identified with its job, every object has size 1, and the digest of an object
is the object. Which accidents one behaviour has is drawn at its start (`mix`), so that
their combinations are covered a few at a time. Not represented: corrupt bytes and sizes
that differ, torn lines of the journal, the store's file lock, tokens, the replica's own
journal, crashes and eviction, how much a refusal (413, 507) says, the cache of job blobs,
listing and comparing, `rebuild-watermark`, materialisation.

### Migration

`pc[m]` is the place of a migrator in `migrateScheduler` or `drainMigrateScheduler`; the
whole cutover is one hold of the lock, and each durable write in it is a step, so that
`Kill` may fall between any two: the pause, the marker, the fairness file, the rename of
`queue` aside, the rename of the fence into its place, `sched-v2.json`, the removal of the
marker, the resume. `Recover` is what the next command finds. `Released` and
`ClearStaleDrain` are how the marker of a dead drain, and the pause it owned, are cleared by
whoever comes next. `LaneRun`, `LaneRunContended`, `Enqueue`, `Withdraw`, `Restore`,
`TryStart`, `Finish` are the intake of this version, `OldStart` and `OldEnqueue` that of code from
before the fence, which sees no marker and knows only the directory `queue`. `ReusePid` lets the
process id of a killed migrator name another process for a while, because
`liveMigrator` looks at the pid alone.

Not represented: lock timeouts of the command itself, an unreadable drain marker, the
quarantine of legacy records, supervisors that are killed (`TicketLifecycle`). Every write
of the command is fsynced before the next, so a power loss leaves what a kill leaves.

## Runs

| run | question | bound |
|---|---|---|
| `MCBrokerLock_safety` | mutual exclusion, refinement of `Mutex` | 4 calls, 3 processes, every kill, no sleep beyond the TTL inside a takeover; 408 394 states |
| `MCBrokerLock_liveness` | with such sleeps, is a live lock that was moved put back or reported? does every call with a deadline end? | 4 calls, 3 processes, one call nested in another of its own process, a foreign lock directory; 90 368 states |
| `MCTicketLifecycle_local` | leases, conflicts, cancels, results | 2 conflicting tickets (one detached, one with a queue timeout), 2 cancels, 2 kills, 1 reboot; 736 851 states |
| `MCTicketLifecycle_live` | the ceiling, an id submitted three times (is its command ever run twice? is what runs under it leased?), and that every queued supervisor ends | a ticket, and another submitted by 3 supervisors, one of them refused at start, under a ceiling of 1; 1 kill; 88 929 states |
| `MCTicketLifecycle_pending` | what `pending.js` says of a detached run (see Findings) | 1 supervisor, 1 kill |
| `MCRemoteAttempt_cancel` | one host at a time, nothing forgotten, one result, with a cancel and a reconcile beside the supervisor | 2 runners, 1 of: lost call, kill, host offline; 2.6 million states |
| `MCRemoteAttempt_wait` | the same with expired waits and failing hosts; what a runner's record proves | 2 runners, a reconcile, 2 of: exec killed, supervisor killed, shutdown, reboot, bound; 1.9 million states |
| `MCRemoteAttempt_forgotten` | a cancel during an expired wait (see Findings) | 2 runners, no fault |
| `MCSelection_safety` | how often a head is passed, what the host is booked with, what the records keep, that a drained host starts someone | 4 tickets in 5 workloads, 7 samples (leases cold, observed and settled, with and without history), every limit 1, 1 tick, 1 retier, 1 cancel, 1 orphaned lease; 78 265 states |
| `MCDepsCache_store` | is a tree from the store ever not what an install would give? eviction against readers | 3 pipelines in 6 workloads, a store of 1 entry, 1 killed, 1 timed out on the lock, 1 damaged entry, 1 package that may fail; 682 743 states |
| `MCStore_replicated` | what a registered snapshot keeps, what journal and watermark may claim, that replication catches up | 2 jobs that share a blob, 2 uploaders, 4 records, 3 objects, 1 fault, 9 mixes of accidents; 502 872 states |
| `MCMigration_cutover` | what the cutover strands, what a command leaves, that intake opens again | 2 migrators, 1 ticket of this version or of old code, 1 kill, an operator; 59 314 states |

Why these bounds are enough for the questions:

* A takeover race needs a dead owner, a winner and a stale loser, and a fourth call to be
  harmed by the loser. An ORPHANED lease needs a dead supervisor, and a conflicting one to
  be stopped by it; two cancels can overtake each other, and three duplicates leave two
  that compete once the first is gone, or was refused. That a retried id is also cancelled,
  or times out in the queue, is left to the theorem `NeverRunTwice`, which assumes nothing
  of either: with them the state space of a run that checks liveness is too large.
* Two runners are one move or one dispatch again, and the attempt record has no further
  generation; a third would only repeat the second. One fault beside a cancel, or two
  without, is a request that is lost and carried out late, or a host that fails while the
  submitter is already recovering from its first failure. `bound` is not combined with a
  cancel, nor an expired wait: with either, `NeverForgotten` does not hold (see Findings).
* In `Selection`, one ticket runs, one is the blocked head, one passes it and one displaces
  it from the head. With every limit at 1 the allowance is used up by one start, so a
  second start that the code should not allow is already one too many. What the instance
  does not reach: two reservations latched at a time, and a yield that has to protect a
  reservation's room.
* In `DepsCache`, a builder, a reader and a third run whose publication evicts; two packages,
  one of which may depend on the other or contain it.
* In `Store`, a shared blob with two manifests is what makes a deletion wrong for one of
  them; 4 records are a put of the blob, of both manifests and one deletion or mark. One fault
  falls at any step of any section.
* In `Migration`, one migrator is killed and the other finds what it left; a ticket of either
  kind is at every place of its intake meanwhile.

`MaxCrashes` and `MaxBoots` bound kills and reboots, `UnreadableMax` is the code's own
limit; the theorems do not depend on any of them.

Deadlock is not checked: in every run the modelled processes end, and the model then stops.

### Fairness

`BrokerLock`: weak fairness of every call's steps and of its deadline; strong fairness of
`ReadDead`, because a liveness probe of a dead owner may fail once but not for ever.
`EveryCallEnds` is stated for the calls with a deadline: see the last item of what
was met while modelling.
`TicketLifecycle`: a live supervisor keeps taking steps (its loop has no condition under
which it stops polling); a ticket that could be admitted again and again is admitted
(the allowances of `AllowancesHold` bound how often one is passed over, and
`DrainedHostStartsSomeone` says that they never stop everyone); commands end; a group
without a leader ends (`killTree`/`reap` escalate to SIGKILL). The liveness run kills a
supervisor only before its lease or after its spawn: a lease left between the two holds its
lane until someone cancels it (see below).
`Store`: a section that has begun ends, systemd restarts the process, and the event loop
serves the maintenance timer and the replication timer again and again.
`Migration`: the lock is granted in the end and its holder goes on, the deadline of a drain
passes, a process that has a reused pid ends, and somebody runs an interrupted command
again, in both its forms. `RemoteAttempt`, `Selection` and `DepsCache` state safety only.

## Findings

* `pending.js:36`, run `MCTicketLifecycle_pending`: once a dead supervisor's lease has been
  reaped, `lane wait` settles a command that did run as `supervisor-died-before-register`.
* `remote-client.js:1418`, run `MCRemoteAttempt_forgotten`: a `lane cancel` that lands while the
  supervisor cancels an expired wait drops the attempt although the runner has not
  confirmed that the command is gone.

Met while modelling and visible in the actions, without a run of their own:

* `supervisor.js:1976`: a queue timeout is dequeued under the lock and published after it
  (`SettleTimeout`, `PublishSettled`). A retried `--id` that arrives in between is queued
  again, and its command runs under a result that "says the command never started"
  (`supervisor.js:1713`).
* `supervisor.js:1612`: a startup refusal publishes before the dedupe (`RefuseStartup`), so a
  retried `--id` replaces the result of its ticket, or publishes one while the command runs
  (README.md:91, `scheduler.js:189`). So neither "no run starts after a result" nor "a result
  stands" can be stated of a retried id; `RunsAgainOnlyIfKilled` is what can.
* `scheduler.js:1638`: beside a protected head the leases are to be charged in full
  (`scheduler.js:1635`), but the admission ticket still carries the tier that `lane run` put
  on it, and the discount applies (`Outranked`, `Charge`). A ticket may be let past the head
  onto cores the head needs.
* `lease.js:185`: a supervisor killed between the write of its lease and the spawn leaves a
  lease without a process group; `isGroupAlive(null)` answers for the prober's own group, so
  the lease is marked ORPHANED with nothing running under it (`ReapStale`), against the
  comment at `lease.js:176`.
* `cancel.js:247`: a cancel that read the lease before the run published replaces the run's
  own result by a cancelled one (README.md:2699). When the id was submitted again meanwhile,
  the lease it removes is that of the new run.
* `state.js:975`: a contender that loses a takeover after its deadline throws, also under
  the supervisors' retry policy (`LostRecovery`); README.md:2792 says a supervisor "never
  dies of contention".
* `scheduler.js:1895`: the start commit unlinks the queue record before it writes the lease
  (`StartDequeue`, `StartLease`); the comment at `scheduler.js:487` has the other order.
* `remote-runner.js:1302`: a shutdown marks a lane that has finished and not published
  `shutdown-unstarted` (`RemoteShutdown`), so a command that ran is recorded as
  `runner-shutdown`, against the comment at `remote-runner.js:1262`.
* `local-reconcile.js`: a fallen-back command that ran, and whose supervisor then died, is settled as
  never started (`SettleLocal`).
* `remote-runner.js:787`: `remote-exec` publishes `cancelled` from the marker alone, also
  when the lane's supervisor was killed and its group lives on (`Disowned`).
* The queue reaper publishes for a fallen-back ticket and leaves the attempt
  (`ReapQueue`); a later `lane cancel` then replaces the result. `SettledOnce` is stated
  for what the removal of the attempt fences.
* `runnerLostAfterMs` with a cancel marker present publishes `cancelled`, not the loss,
  for a command that may be alive (`Reconcile`, `Settle`).
* `scheduler.js:1430`: a safe backfill, which may pass a head without being counted, can
  become the very reason that the head is blocked (README.md:1631 and 2138 speak of
  starts that cannot delay it). `AllowancesHold` bounds the counted passes only.
* `store/objects.js:505`: `setJobState` writes the job's meta file before it appends to the
  journal. After a crash between the two the mark is never journaled: the retry finds the
  file as it should be and does nothing, and the replica never learns of it, against the
  comment at `store/objects.js:113`.
* A journal record that survives its own failed rollback, and whose change was undone, looks
  like a lost object to the replicator and stops it: `ReplicationCatchesUp` leaves this out
  by name. The same happens when a terminal job's blob is deleted before its manifest was
  shipped; `waits` in that property is this case.
* A job that is deleted and registered again may meet a terminal mark of its first life at
  the replica, and the replica's retention may then take it: `ReplicaKeepsLiveJobs` speaks of
  jobs without such a mark. A registration whose append failed may leave a complete record
  behind a deletion: the replicator then waits for a manifest that is not on the disk.
* An unlink whose directory fsync fails is not taken off the count of bytes before the next
  restart (`WithinLimit` states one direction only). A lost manifest makes its blobs
  unreferenced, and the retention takes them. `store/objects.js:605` journals an object again
  from memory without looking whether it still exists.
* `store/server.js:207`: an error of the timed sweep is not caught and ends the process.
* `migrate.js:136`: a killed migrator's pid that names another process keeps intake closed,
  and the command refused, until that process ends; the model assumes that it does. A
  command that makes the state directories without the lock (`lane status`) between the two
  renames makes the migration throw, and a second try succeeds (`MakeDirs`).
* Under a sleep beyond `TOMB_TTL_MS`, a misfiled lock may be put back after its owner has
  ended; it then belongs for ever to a live process, and a call that retries without a
  deadline waits for ever.

## Proofs

`BrokerLockProofs` proves, for any sets of calls and processes:

* `TypeCorrect`.
* `LockIsMutex`: `LockInv`, and with it `MutualExclusion`, when `SuspendBeyondTTL` is false.
  Mutual exclusion is not inductive: a contender may stand before its rename with an owner
  that is no longer at the lock path. `LockInv` adds what stops it: the tomb of that
  owner exists, so the rename fails, unless the owner is still there.
* `LockImplementsMutex`: under the same assumption `BrokerLock` implements `Mutex`, step by
  step: a rename of the staged directory is the grant, the tomb rename of a dead owner the
  takeover, and every other step a stutter.
* `MisfiledLocks`: `MisfiledLockIsAnswered`, without that assumption: a live lock that was
  moved away by mistake has a contender that knows of it.

`TicketLifecycleProofs` proves, for any supervisors, tickets, lanes, cancels, kills and
reboots, `TypeCorrect` without further assumption, and the rest when ids are not
resubmitted (`UniqueIds`: `TicketOf` is injective), where a theorem does not say otherwise. A
cancel that took over a dead supervisor's lease publishes whatever the id stands for by then,
so with resubmitted ids these statements do not hold as they are.

* `Lifecycle`: `LifecycleInv`, the inductive invariant. Its parts say that a lease names a
  supervisor of its own ticket, that a supervisor past admission has its lease and of this
  boot, where a live group can be, that the lease table never holds two exclusive leases,
  that the supervisor inside the commit holds the lock and is about to add a lease that
  conflicts with none, and that a cancel which kills by itself does so for a supervisor
  that has ended. From it: `WorkIsAlwaysLeased`, `ConflictsNeverOverlap`,
  `RemovedTicketsNeverRun`, `CancelStopsTheRun`.
* `ResultsLast`: `ResultsComeLast`, a second inductive invariant on top of the first: queued
  or unfinished tickets have no result. With a retried id it fails: a result can be published
  before the command starts and be replaced after it ended (see Findings).
* `SoleRun` and `NeverRunTwice` (`RunsAgainOnlyIfKilled`), with no assumption about ids or
  cancels: what a retried `--id` can rely on in spite of those results. That two supervisors
  of an id never run at a time is not inductive, because a cancel may take a lease away
  under a run and a second supervisor may be queued where the first one's record was.
  `SoleRunInv` says that whoever is queued, starts or runs has only supervisors beside it
  that are past their run or never had one, and that a run without its lease has left the
  id a result, which keeps further submissions out.
* `DuplicatesKeepTheInvariant` replaces `UniqueIds` by `Canceller = {}`: ids may be
  resubmitted, but nobody cancels. `DuplicatesInv` adds to the first invariant that a
  supervisor which queues or commits is its ticket's only owner, and that, while nothing was
  killed, a command that was started is being run or has left a result. From it
  `RetriedIdsAreSafe` and `RetriedIdsNeverOverlap`.
* `CeilingHolds` (under either hypothesis): `CeilingRespected`. "No more leases than the
  ceiling" is not kept by a step as it stands, because the ceilings of a lane's tickets differ and the
  one of the ticket that is admitted counts. `CeilingInv` says it of every subset: whichever leases of
  a lane go first, those that stay fit under the ceiling of one of them; and the lane of the
  supervisor in the commit, which holds the lock, has room.

`RunnerTicketProofs` proves of `HostSpec`, for any runners, any requests in any order and
any number of faults: `HostTypeCorrect`; `HostRecordsProve`, that a record which says the
job is over is never wrong; and `HostDeadStaysDead`, that a confirmed cancel, a tombstone
and a withdrawal are final. The inductive invariant `HostInv` adds where each fact comes
from: a lane exists only for an exec that named it, a lane's result only for a lane that
has ended, `shutdown-unstarted` only where nothing can start any more, and an orphaned
lane never has a record that proves its end. These are the facts every decision of the
submitter rests on.

`RemoteAttemptProofs` proves of the submitter and the hosts together, for any runners,
cancellers and faults:

* `AttemptImplementsHosts`: every step of `RemoteAttempt` is a step of `HostSpec` or leaves the
  hosts alone, so what `RunnerTicketProofs` shows of the hosts holds here
  (`AttemptRecordsProve`, `AttemptDeadStaysDead`).
* `OneHost` (`AtMostOneHost`), `SettledOnceAlways` (`SettledOnce`) and `RunnersAreFresh`. The
  inductive invariant is in parts: what the attempt record and the supervisor's variables say
  of each other (`BindInv`); only the runner that the attempt names can run the job, and where
  the supervisor acts on proof not even that one (`RunInv`); a ticket in the local queue is an
  attempt that came home (`HomeInv`); a reconcile acts while the supervisor waits for it or is
  dead, and what it is about to publish is proven (`RecInv`); a cancel without doubts has an
  answer from every runner but those it still asks (`CanInv`). That an answer stays true
  while others act is what the host theorems say, and why they come first.
* `TicketIsTracked` and `DispatchesAreTracked` assume `Steady`: nobody cancels, or no wait
  runs out and no binding is lost. The hypothesis is needed and not a convenience: an abort
  during an expired wait publishes a `cancelled` that nobody confirmed, which the run
  `MCRemoteAttempt_forgotten` shows, and the marker hides an abandoned ticket from the
  reconciler. `SettleInv` says, where `Steady` holds, that what is published or settled is proven.

`SelectionProofs` proves of `Selection`, for any tickets, sizes, limits and any number of
ticks:

* `QueueRulesKept`: `QueueRulesHold`, which is inductive together with the types of what is
  submitted (`QueueInv`).
* `BookingsKept`: `BookingsHold`: weight and memory of the host, the exclusive run alone, the
  lifts and the sims' caps. Granted cores are not part of it (see Selection above). The sums over the leases are recursive in the
  code, folds here: that the sum of a finite set grows by what is added, whatever the order, is
  proved by taking a least counterexample (the library's induction takes an operator, a
  well-founded set does not). The heart of the proof is that a poll
  starts a ticket only if the start was checked against the very leases it then joins
  (`Permitted`), whatever branch of the verdict it came by.
* `ReservationsAreKept` and `AllowancesAreKept`: `RecordsInv` relates the fairness records of the
  queued tickets, the order of reservations and how often each ticket was passed.
* `DrainedHostsStart`: `DrainedHostStartsSomeone`, on the hypothesis `Servable`: alone on a
  quiet host every ticket fits. `MCSelection` evaluates that hypothesis for its instances.
  The proof needs that the queue's order is total, so that the first of the visible tickets exists.

`DepsCacheProofs` proves of `DepsCache`, for any runs, packages, workloads, failures and
bounds:

* `HitsAreFresh` (`TreesAreFresh`) and `StoreIsComplete` (`EntriesAreComplete`, with the types). Neither is
  inductive: what is in the store says nothing of the copy on its way. `BuiltInv` follows the
  tree from `npm ci` through copy and rename into the store, out of it by a copy, and through relocation to the
  hit. The lemmas it rests on are about the operators alone: two dirs with one key get
  the same packages and inputs (`KeyDecides`); a tree in which `Missing` finds nothing is the
  whole one, although it looks only at dependents and npm follows paths from the root
  (`CompleteIsFresh`); and a copy that `Relocatable` admits becomes the tree of this run
  (`RestoredIsFresh`).
* `EvictionHolds` (`EvictionIsSafe`). `LeaseInv`: every lease in the store is one its live run
  knows of, and a reader has one. Trimming is an order-preserving renumbering of what stays
  (`TrimmedParts`); if that is too much, a live run leases some of it (`TrimmedFits`).

Its assumptions are `DepsAssumption` and `PathsAssumption`: dirs with one key name
their paths in the tree for the same roles, and have the same roles unset. Which paths end up
in a tree follows from what the install reads, and `tempDirFsProperties` writes unset variables into the
key.

`StoreProofs` proves of `Store`, for any blobs, jobs, uploaders and limits and every mix of
faults, from `StoreAssumption` (finite sets of names; jobs and blobs do not share
addresses; manifests reference blobs):

* `StoreKeepsTypes` (`StoreTypeOK`, a conjunct of `SnapshotsAreKept`).
* `OnlyIntendedTombstones` (`TombstonesAreIntended`). That the journal speaks of deletions
  rightly says nothing of the deletions under way. `TombstoneInv` adds what the steps that a
  section has still to make rely on (`SectionInv`: an unlink has its intent before it, a
  delete record its unlink, an object is stored after the pending deletions are flushed, and
  the order between them), and what the process remembers of unfinished ones
  (`DeletionInv`: what is pending is off the disk and intended in the journal; a torn record
  blocks every append until a restart). `RestartMends` is what `reconcile` adds to any journal.
* `StoreKeepsWithinLimit` (`WithinLimit`), from `CapacityInv`: a section that is
  still to store something holds room for it beside what is stored and reserved.
* `ReplicaKeepsJobs` (`ReplicaKeepsLiveJobs`). `ReplicaInv`: a manifest at the replica has all
  its blobs there; a job that is marked as ended there is so in the journal; and what the
  journal confirms and does not end is there.
* `WatermarkEarned` (`WatermarkIsEarned`): the journal only grows, and what the replica
  confirmed, it confirmed of a beginning of it (`WatermarkInv`), also across crashes, undone
  appends and restarts.

* `SnapshotsKept` (`SnapshotsAreKept`), from `SnapInv`, which adds three parts to `TombstoneInv`.
  `MemoryInv`: the process knows every intent, and whatever is on the disk has its record, is
  known to miss it or is recorded next; nothing is hashed, put again or deleted that was never put.
  `KeepInv`: a job counts as running as long as it is not terminal or a failed mark may be
  undone; what a running job needs is neither deleted nor, by a step the section still
  has to make, about to be, and a torn record deletes it only while the job's own registration
  is failing with it. `ManifestInv`: a torn manifest, and one that a crash left without a record,
  has its blobs recorded, so that what a restart writes is in order. The handlers establish these
  facts (`HandlersPrepare`, `RetentionPrepares`): retention takes what no manifest references,
  and a registration journals and cancels what its blobs lack before it writes.

The position of a step in a section is known only as the n-th that is due (`Due`);
`RanksAreBijective`, `DueIsNumbered` and `DueInOrder` are the lemmas on such numberings that the
proofs go by.

`MigrationProofs` proves of `Migration`, for any migrators, tickets and kills,
`NothingLeft`, `NobodyStranded`, `FenceMeetsDrained` and `OperatorDecides` (the run's
`EndedLeavesNothing`, `NoTicketStranded`, `CutoverIsDrained` and `OperatorPauseStands`), from
`NamesAssumption`: no migrator is called `None` or `operator`. None of the four is inductive.
`Cutover` proves the invariant that is, `IInv`, in parts: the lock is held exactly at the
places of a hold (`PlaceInv`); a marker or a pause names a migrator that is still to remove
it, or a dead one (`MarkerInv`, `PauseInv`); from the checks to the fence the broker stays
`Drained`, because a `lane run` that starts meanwhile meets the marker and everything else that
would change a ticket needs the lock (`CutoverInv`); and where a ticket's record is
(`TicketInv`, `FenceInv`). An old process may still start in that window; it can enqueue only
after the lock is free: behind the fence, or, if the migrator was killed, before any cutover.

Only model-checked: the liveness properties, which are beyond the prover. Every safety
property of a passing run is a theorem above, for the hypotheses named with it.

## Plan

Next are a deleted job that comes back under its id in `Store` (a bound excludes it: its put
then stands twice in the journal, and "its first record" no longer tells the two apart);
which of the lease and result invariants of `TicketLifecycle` still hold when ids are
resubmitted and cancels race them (`RunsAgainOnlyIfKilled` is so far what is stated of
that); and the hazards in `PROJECT.json` that no property covers.

## Not modelled

* `stepOrphanReap` (`lease.js`, `descendants.js`): it acts on processes that left their
  group, which `TicketLifecycle` does not represent; each of its steps is a signal to
  processes found by a scan of the process table.
* Configuration (`config.js`): parsing and validation, a function from files to the
  constants of these modules.
* The gates (`cpu.js`, `memory.js`, `external-cpu.js`): measurement and smoothing. Their
  verdicts are the samples of `Selection`.
* Remote content transfer: hashing and streaming; `wire` in `RunnerTicket` is the session
  that carries it.
* The result cache: a lookup over finished tickets.
* The SQL lane functions: they run in a PostgreSQL database, each a transaction of its own
  whose isolation is the database's.
* Reports, formatting and the command line.
