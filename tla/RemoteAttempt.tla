---------------------------- MODULE RemoteAttempt ----------------------------
(*****************************************************************************)
(* One ticket that a submitter dispatches to runner hosts: its supervisor    *)
(* (runRemoteAttempt of src/supervisor.js and dispatchRemote of              *)
(* src/remote-client.js), the attempt record (src/attempts.js), reconcile    *)
(* (src/remote-reconcile.js, src/local-reconcile.js) and `lane cancel`       *)
(* (cancelAttempt of src/cancel.js).  RunnerTicket has the hosts.            *)
(*                                                                           *)
(* The attempt record is all that survives the supervisor, and ssh is all    *)
(* that is known of a host.  A call is answered in one step, by what the     *)
(* host does in that step, or it is lost: then the host may still carry it   *)
(* out at any later time (`stray`).  A cancel takes two steps, because the   *)
(* host answers it only once the command has gone.                           *)
(*****************************************************************************)
EXTENDS RunnerTicket

CONSTANTS
    Reconciler,    \* `lane reconcile`, `lane wait` and `lane status` processes
    Canceller,     \* `lane cancel` processes
    Waits,         \* remoteResultWaitMs may run out while the job is alive
    MaxFaults,     \* how many faults happen
    Self,          \* the supervisor, as the one that reconciles (awaitProof)
    Refuse,        \* the destination of a withdrawal that ends in a refusal
    None

ASSUME RemoteAssumption ==
    /\ Waits \in BOOLEAN /\ MaxFaults \in Nat
    /\ Self \notin Reconciler
    /\ Refuse \notin Runner /\ None \notin Runner \cup {Refuse}

VARIABLES
    att,         \* the attempt record
    mark,        \* the ticket's cancel marker
    result,      \* the ticket's result file
    queue,       \* its record in the submitter's queue, or parked for a rebind
    local,       \* the command on the submitter
    pc,          \* where the supervisor stands
    verdict,     \* what it is about to publish
    want,        \* attemptedTarget: where an unfinished withdrawal leads
    conf,        \* how the cancel of an expired wait was answered
    proven,      \* neverStarted, of the outcome it falls back with
    aborted,     \* it received SIGTERM
    rpc, rverdict,   \* where each reconcile stands, and what it will publish
    cpc,         \* where each `lane cancel` stands
    ask, asked,  \* the runners it has yet to ask, and the one that has to answer
    unsure,      \* a runner did not confirm
    stray,       \* requests whose answer was lost, not yet carried out
    off,         \* runners marked offline
    faults       \* faults so far

disk == <<att, mark, result, queue>>
dispatching == <<want, conf, proven>>
sup == <<pc, verdict, dispatching>>
rec == <<rpc, rverdict>>
can == <<cpc, ask, asked, unsure>>
world == <<stray, off, faults>>
vars == <<host, disk, local, sup, aborted, rec, can, world>>

Actor == Reconciler \cup {Self}
Target == Runner \cup {Refuse}
Kinds == {"completed", "cancelled", "refused"}
NeverStarted == {"rejected", "expired", "withdrawn"}
Remote == {"place", "send", "upload", "landed", "open", "withdraw", "fetch", "expire",
           "expiring", "late", "giveup", "proof", "cancel", "cancelling", "stopped",
           "moved", "publish"}
PC == Remote \cup {"clear", "leaving", "dead", "fallback", "enqueue", "local", "running", "rebinding",
                              "restore", "requeue"}
RPC == {"idle", "cancel", "cancelling", "late", "redo", "dest", "tomb", "again", "publish"}
CPC == {"idle", "wait", "ask"}
Results == Kinds \cup {"lost", "abandoned", "local"}

NoMove == [phase |-> "none", from |-> None, to |-> None]
Created == [held |-> TRUE, gen |-> 0, executor |-> "remote", runner |-> None,
            sent |-> {}, moving |-> NoMove]

RemoteTypeOK ==
    /\ HostTypeOK
    /\ att \in [held: BOOLEAN, gen: {0, 1}, executor: {"remote", "local"},
                runner: Runner \cup {None}, sent: SUBSET Runner,
                moving: [phase: {"none", "withdrawing", "dispatching"},
                         from: Runner \cup {None}, to: Target \cup {None}]]
    /\ mark \in BOOLEAN /\ aborted \in BOOLEAN /\ proven \in BOOLEAN
    /\ result \in Results \cup {"none"}
    /\ queue \in {"none", "queued", "parked"}
    /\ local \in {"none", "alive", "gone"}
    /\ pc \in PC
    /\ verdict \in Results \cup {"none"} /\ (pc = "publish" => verdict # "none")
    /\ want \in Target \cup {None}
    /\ conf \in {"unasked", "yes", "no"}
    /\ rpc \in [Actor -> RPC] /\ rverdict \in [Actor -> Results \cup {"none"}]
    /\ cpc \in [Canceller -> CPC] /\ ask \in [Canceller -> SUBSET Runner]
    /\ asked \in [Canceller -> Runner \cup {None}] /\ unsure \in [Canceller -> BOOLEAN]
    /\ stray \subseteq {"cancel", "withdraw"} \X Runner
    /\ off \subseteq Runner /\ faults \in 0..MaxFaults

\* createAttempt has written the record; the supervisor looks for a runner.
Init ==
    /\ HostInit
    /\ att = Created
    /\ mark = FALSE /\ result = "none" /\ queue = "none" /\ local = "none"
    /\ pc = "place" /\ verdict = "none"
    /\ want = None /\ conf = "unasked" /\ proven = FALSE /\ aborted = FALSE
    /\ rpc = [a \in Actor |-> "idle"] /\ rverdict = [a \in Actor |-> "none"]
    /\ cpc = [c \in Canceller |-> "idle"] /\ ask = [c \in Canceller |-> {}]
    /\ asked = [c \in Canceller |-> None] /\ unsure = [c \in Canceller |-> FALSE]
    /\ stray = {} /\ off = {} /\ faults = 0

Up == pc # "dead"
Moving == att.moving.phase # "none"
Still == [att EXCEPT !.moving = NoMove]
\* The record is removed; whoever has read it still knows what it said.
Removed == [att EXCEPT !.held = FALSE]

Fault(kind) == kind \in Faults /\ faults < MaxFaults /\ faults' = faults + 1
\* The host answers a request; or request and answer are lost on the way.
Answered(r) == r \notin off /\ UNCHANGED world
Lost(op, r) ==
    \/ r \notin off /\ Fault("lost") /\ stray' = stray \cup {<<op, r>>} /\ UNCHANGED off
    \/ r \in off /\ UNCHANGED world
Unheard(r) ==
    \/ r \notin off /\ Fault("lost") /\ UNCHANGED <<stray, off>>
    \/ r \in off /\ UNCHANGED world

\* The supervisor goes on at another place.
To(label, p, a) == pc' = label /\ proven' = p /\ att' = a /\ UNCHANGED verdict

-----------------------------------------------------------------------------
(* Placing and sending. *)

\* dispatchedRunners: a runner that was sent the ticket is never picked again.
Fresh(r) == r \notin att.sent

\* The dispatch is recorded before anything is sent.
Dispatched(r) == [att EXCEPT !.executor = "remote", !.runner = r, !.sent = @ \cup {r}]

Place(r) ==
    /\ pc = "place" /\ Fresh(r)
    /\ att' = Dispatched(r)
    /\ pc' = "send"
    /\ UNCHANGED <<host, mark, result, queue, local, verdict, dispatching, aborted, rec, can, world>>

PlaceNowhere ==
    /\ pc = "place"
    /\ pc' = "fallback" /\ proven' = TRUE
    /\ UNCHANGED <<host, disk, local, verdict, want, conf, aborted, rec, can, world>>

\* An abort so far needs no remote cancel.  Nothing is sent if the header is too
\* large, onBinding could not persist the binding, or ssh does not connect.
Send ==
    /\ pc = "send"
    /\ want' = None /\ conf' = "unasked"
    /\ IF aborted
         THEN pc' = "publish" /\ verdict' = "cancelled" /\ UNCHANGED <<host, att, proven>>
         ELSE \/ /\ pc' = "upload" /\ att.runner \notin off /\ Arrive(att.runner)
                 /\ UNCHANGED <<verdict, att, proven>>
              \/ To("fallback", TRUE, Still) /\ UNCHANGED host
    /\ UNCHANGED <<mark, result, queue, local, aborted, rec, can, world>>

Upload ==
    /\ pc = "upload" /\ ~aborted
    /\ Land(att.runner)
    /\ pc' = IF Moving THEN "landed" ELSE "open"
    /\ UNCHANGED <<disk, local, verdict, dispatching, aborted, rec, can, world>>

\* onSnapshotSent: the second runner holds the job, the move is over.
SnapshotSent ==
    /\ pc = "landed"
    /\ att' = Still /\ pc' = "open"
    /\ UNCHANGED <<host, mark, result, queue, local, verdict, dispatching, aborted, rec, can, world>>

\* pipeSnapshot fails: nothing can run from a part of the snapshot.
UploadFails ==
    /\ pc = "upload"
    /\ Cut(att.runner)
    /\ IF aborted
         THEN pc' = "cancel" /\ UNCHANGED <<att, proven>>
         ELSE pc' = "fallback" /\ att' = Still /\ proven' = TRUE
    /\ UNCHANGED <<mark, result, queue, local, verdict, want, conf, aborted, rec, can, world>>

-----------------------------------------------------------------------------
(* The open session, and watchQueuedTicket beside it. *)

\* beforeWithdraw: the intent is made durable before the withdrawal is sent.
WatchQueued(to) ==
    /\ pc = "open" /\ ~aborted /\ Answers(att.runner) = "queued" /\ att.runner \notin off
    /\ to = Refuse \/ Fresh(to)
    /\ att' = [att EXCEPT !.moving = [phase |-> "withdrawing", from |-> att.runner, to |-> to]]
    /\ pc' = "withdraw"
    /\ UNCHANGED <<host, mark, result, queue, local, verdict, dispatching, aborted, rec, can, world>>

\* The session closes or an abort comes before it is sent.
WatchStops ==
    /\ pc = "withdraw"
    /\ pc' = IF aborted THEN "cancel" ELSE "fetch"
    /\ UNCHANGED <<host, disk, local, verdict, dispatching, aborted, rec, can, world>>

\* Mutant: any answer counts as the ticket given up.
MutWithdrawTrustsReply ==
    /\ pc = "withdraw"
    /\ RemoteWithdraw(att.runner) /\ Answered(att.runner)
    /\ want' = att.moving.to
    /\ pc' = IF aborted THEN "cancel" ELSE "moved"
    /\ UNCHANGED <<disk, local, verdict, conf, proven, aborted, rec, can>>

\* Only `withdrawn` moves the ticket; any other answer ends the move.
Withdraw ==
    /\ pc = "withdraw"
    /\ RemoteWithdraw(att.runner) /\ Answered(att.runner)
    /\ want' = att.moving.to
    /\ IF GivenUp(att.runner)
         THEN pc' = (IF aborted THEN "cancel" ELSE "moved") /\ UNCHANGED att
         ELSE pc' = "open" /\ att' = Still
    /\ UNCHANGED <<mark, result, queue, local, verdict, conf, proven, aborted, rec, can>>

\* No answer: it may have taken effect, so `moving` stays.
WithdrawLost ==
    /\ pc = "withdraw" /\ Lost("withdraw", att.runner)
    /\ want' = att.moving.to /\ pc' = "open"
    /\ UNCHANGED <<host, disk, local, verdict, conf, proven, aborted, rec, can>>

\* ssh ends, for whatever reason; its exit code is not looked at, except for
\* the one that says that the stream was refused before a ticket was made.
\* watchPublishedResult ends a session that hangs in the same way.
Close ==
    /\ pc = "open"
    /\ \/ pc' = (IF aborted THEN "cancel" ELSE "fetch") /\ UNCHANGED <<att, proven>>
       \/ /\ wire[att.runner] = "noticket" /\ ~aborted
          /\ pc' = "fallback" /\ att' = Still /\ proven' = TRUE
    /\ UNCHANGED <<host, mark, result, queue, local, verdict, want, conf, aborted, rec, can, world>>

-----------------------------------------------------------------------------
(* Fetching the result: classifyRemoteResult and what dispatchOnce makes of  *)
(* each record.                                                              *)

\* An outcome that leaves the job possibly running.
Doubt(w) == IF att.gen = 0 /\ ~Moving /\ ~aborted /\ w THEN To("proof", proven, att)
            ELSE To("leaving", proven, att)

\* Mutant: a record that the cancel raced with is trusted.
MutClassifyIgnoresCancel(k, c, w) ==
    IF k \in Kinds
      THEN IF k = "refused" /\ att.gen > 0 THEN To("restore", TRUE, Still)
           ELSE pc' = "publish" /\ verdict' = k /\ att' = Still /\ UNCHANGED proven
    ELSE IF k = "withdrawn" /\ want # None THEN To("moved", proven, att)
    ELSE IF k \in NeverStarted THEN To("fallback", TRUE, Still)
    ELSE IF k \in {"shutdown", "unproven"} THEN To("stopped", proven, att)
    ELSE IF c = "yes" THEN To("fallback", FALSE, Still)
    ELSE Doubt(w)

\* k: the record's kind; c: how an expiry cancel was answered; w: whether an
\* outcome in doubt is waited for (remoteLostPollMs).
Classify(k, c, w) ==
    IF k \in Kinds
      THEN IF k = "refused" /\ att.gen > 0 THEN To("restore", TRUE, Still)
           ELSE pc' = "publish" /\ verdict' = k /\ att' = Still /\ UNCHANGED proven
    ELSE IF k = "withdrawn" /\ want # None THEN To("moved", proven, att)
    ELSE IF c = "yes" THEN To("fallback", FALSE, Still)
    ELSE IF k \in NeverStarted /\ c = "unasked" THEN To("fallback", TRUE, Still)
    ELSE IF k = "shutdown" /\ c = "unasked" THEN To("stopped", proven, att)
    ELSE Doubt(w)

\* A runner that is alive is waited for, until remoteResultWaitMs has passed; one
\* that was seen alive may also fall silent until then.
Fetch ==
    /\ pc = "fetch" /\ ~aborted
    /\ \/ /\ Answered(att.runner) /\ record[att.runner] # "none"
          /\ \E w \in BOOLEAN : Classify(record[att.runner], conf, w)
       \/ /\ Answered(att.runner) /\ Answers(att.runner) = "gone"
          /\ To("giveup", proven, att)
       \/ /\ Answered(att.runner) /\ Answers(att.runner) \in {"queued", "running"} /\ Waits
          /\ To("expire", proven, att)
       \/ Unheard(att.runner) /\ To("giveup", proven, att)
       \/ Unheard(att.runner) /\ Waits /\ exec[att.runner] # "none" /\ To("expire", proven, att)
    /\ UNCHANGED <<host, mark, result, queue, local, want, conf, aborted, rec, can>>

\* The wait ran out: the runner's copy is cancelled, and looked at once more.
Expire ==
    /\ pc = "expire" /\ ~aborted
    /\ \/ RemoteCancel(att.runner) /\ Answered(att.runner) /\ pc' = "expiring" /\ UNCHANGED conf
       \/ Lost("cancel", att.runner) /\ pc' = "late" /\ conf' = "no" /\ UNCHANGED host
    /\ UNCHANGED <<disk, local, verdict, want, proven, aborted, rec, can>>

ExpireReply ==
    /\ pc = "expiring" /\ pc' = "late"
    /\ \/ Answered(att.runner) /\ conf' = IF Confirms(att.runner) THEN "yes" ELSE "no"
       \/ Unheard(att.runner) /\ conf' = "no"
    /\ UNCHANGED <<host, disk, local, verdict, want, proven, aborted, rec, can>>

\* An abort between the cancel and this fetch returns `cancelled` as it is,
\* confirmed or not.
Late ==
    /\ pc = "late"
    /\ IF aborted
         THEN pc' = "publish" /\ verdict' = "cancelled" /\ att' = Still /\ UNCHANGED <<proven, world>>
         ELSE \/ /\ Answered(att.runner) /\ record[att.runner] # "none"
                 /\ \E w \in BOOLEAN : Classify(record[att.runner], conf, w)
              \/ /\ (Answered(att.runner) /\ record[att.runner] = "none") \/ Unheard(att.runner)
                 /\ IF conf = "yes" THEN To("fallback", FALSE, Still)
                                    ELSE \E w \in BOOLEAN : Doubt(w)
    /\ UNCHANGED <<host, mark, result, queue, local, want, conf, aborted, rec, can>>

\* No result to be had: only a withdrawal proves that it never started, and not
\* every runner can withdraw.
GiveUp ==
    /\ pc = "giveup"
    /\ \/ /\ RemoteWithdraw(att.runner) /\ Answered(att.runner)
          /\ IF aborted THEN To("cancel", proven, att)
             ELSE IF GivenUp(att.runner)
               THEN IF want # None THEN To("moved", proven, att) ELSE To("fallback", TRUE, Still)
               ELSE \E w \in BOOLEAN : Doubt(w)
       \/ /\ Lost("withdraw", att.runner) /\ UNCHANGED host
          /\ IF aborted THEN To("cancel", proven, att) ELSE \E w \in BOOLEAN : Doubt(w)
       \/ /\ UNCHANGED <<host, world>>
          /\ IF aborted THEN To("cancel", proven, att) ELSE \E w \in BOOLEAN : Doubt(w)
    /\ UNCHANGED <<mark, result, queue, local, want, conf, aborted, rec, can>>

\* awaitProof: polling is switched off.
StopPolling ==
    /\ pc = "proof" /\ rpc[Self] = "idle" /\ ~aborted
    /\ pc' = "leaving"
    /\ UNCHANGED <<host, disk, local, verdict, dispatching, aborted, rec, can, world>>

\* SIGTERM ends the waiting loops of dispatchOnce and awaitProof.
Abort ==
    /\ aborted
    /\ pc \in {"fetch", "expire", "giveup"} \/ (pc = "proof" /\ rpc[Self] = "idle")
    /\ pc' = "cancel"
    /\ UNCHANGED <<host, disk, local, verdict, dispatching, aborted, rec, can, world>>

\* cancelledOutcome, and what the supervisor makes of it: without confirmation
\* it exits and keeps the attempt.
Cancel ==
    /\ pc = "cancel"
    /\ \/ /\ RemoteCancel(att.runner) /\ Answered(att.runner)
          /\ pc' = "cancelling" /\ UNCHANGED att
       \/ Lost("cancel", att.runner) /\ pc' = "leaving" /\ att' = Still /\ UNCHANGED host
    /\ UNCHANGED <<mark, result, queue, local, verdict, dispatching, aborted, rec, can>>

CancelReply ==
    /\ pc = "cancelling" /\ att' = Still
    /\ \/ /\ Answered(att.runner) /\ Confirms(att.runner)
          /\ pc' = "publish" /\ verdict' = "cancelled"
       \/ /\ (Answered(att.runner) /\ ~Confirms(att.runner)) \/ Unheard(att.runner)
          /\ pc' = "leaving" /\ UNCHANGED verdict
    /\ UNCHANGED <<host, mark, result, queue, local, dispatching, aborted, rec, can>>

-----------------------------------------------------------------------------
(* Dispatching again. *)

\* The runner's record proves that its host stopped the job.
Stopped ==
    /\ pc = "stopped"
    /\ \/ /\ att.gen = 0
          /\ \E r \in Runner : Fresh(r) /\ att' = Dispatched(r)
          /\ pc' = "send" /\ UNCHANGED proven
       \/ pc' = "fallback" /\ att' = Still /\ proven' = TRUE
    /\ UNCHANGED <<host, mark, result, queue, local, verdict, want, conf, aborted, rec, can, world>>

Moved ==
    /\ pc = "moved"
    /\ IF want = Refuse
         THEN pc' = "fallback" /\ att' = Still /\ proven' = TRUE
         ELSE /\ att' = [Dispatched(want) EXCEPT !.moving =
                           [phase |-> "dispatching", from |-> att.runner, to |-> want]]
              /\ pc' = "send" /\ UNCHANGED proven
    /\ UNCHANGED <<host, mark, result, queue, local, verdict, want, conf, aborted, rec, can, world>>

\* fallbackOrRefuse: a rebind goes back to the queue only with proof; a first
\* attempt falls back to local (fallbackToLocal looks at the marker) and is
\* queued, or refused where this machine would not run it.
Fallback ==
    /\ pc = "fallback"
    /\ \/ /\ att.gen > 0 /\ pc' = (IF proven THEN "restore" ELSE "leaving")
          /\ UNCHANGED <<att, verdict>>
       \/ /\ att.gen = 0 /\ mark
          /\ pc' = "publish" /\ verdict' = "cancelled" /\ UNCHANGED att
       \/ /\ att.gen = 0 /\ ~mark
          /\ att' = [att EXCEPT !.gen = 1, !.executor = "local"]
          /\ \/ pc' = "enqueue" /\ UNCHANGED verdict
             \/ pc' = "publish" /\ verdict' = "refused"
    /\ UNCHANGED <<host, mark, result, queue, local, dispatching, aborted, rec, can, world>>

\* abandonRebind: the record first, then the queue.
Restore ==
    /\ pc = "restore"
    /\ att' = [att EXCEPT !.executor = "local", !.runner = None]
    /\ pc' = "requeue"
    /\ UNCHANGED <<host, mark, result, queue, local, verdict, dispatching, aborted, rec, can, world>>

\* enqueue, and restoreQueued at the original place.
Requeue ==
    /\ pc \in {"enqueue", "requeue"}
    /\ queue' = "queued" /\ pc' = "local"
    /\ UNCHANGED <<host, att, mark, result, local, verdict, dispatching, aborted, rec, can, world>>

LocalStart ==
    /\ pc = "local" /\ queue = "queued" /\ ~mark
    /\ queue' = "none" /\ local' = "alive" /\ pc' = "running"
    /\ UNCHANGED <<host, att, mark, result, verdict, dispatching, aborted, rec, can, world>>

LocalCancelled ==
    /\ pc = "local" /\ mark
    /\ queue' = "none" /\ pc' = "publish" /\ verdict' = "cancelled"
    /\ UNCHANGED <<host, att, mark, result, local, dispatching, aborted, rec, can, world>>

\* This machine would no longer run it: dispatch-only, or over its budget.
LocalRefused ==
    /\ pc = "local"
    /\ queue' = "none" /\ pc' = "publish" /\ verdict' = "local"
    /\ UNCHANGED <<host, att, mark, result, local, dispatching, aborted, rec, can, world>>

LocalEnds ==
    /\ pc = "running"
    /\ local' = "gone" /\ pc' = "publish" /\ verdict' = "local"
    /\ UNCHANGED <<host, disk, dispatching, aborted, rec, can, world>>

\* tryRebind, only after a fallback from which nothing can be running:
\* withdrawQueued parks the queue record under the lock tryStart admits under.
Rebind ==
    /\ pc = "local" /\ queue = "queued" /\ ~mark /\ proven /\ \E r \in Runner : Fresh(r)
    /\ queue' = "parked" /\ pc' = "rebinding"
    /\ UNCHANGED <<host, att, mark, result, local, verdict, dispatching, aborted, rec, can, world>>

RebindDispatch(r) ==
    /\ pc = "rebinding" /\ Fresh(r)
    /\ att' = Dispatched(r) /\ pc' = "send"
    /\ UNCHANGED <<host, mark, result, queue, local, verdict, dispatching, aborted, rec, can, world>>

-----------------------------------------------------------------------------
(* Publishing, and the end of the supervisor. *)

\* publishTerminal removes the record it publishes for; a marked ticket's
\* result is cancelled whatever the outcome was.
Settle(v) == /\ result' = IF mark THEN "cancelled" ELSE v
             /\ att' = Removed

\* The supervisor's publish: the end of a local run or wait follows what the
\* supervisor did, not the marker, which may have come too late.
PublishResult ==
    /\ pc = "publish"
    /\ IF att.held
         THEN \/ Settle(verdict)
              \/ verdict = "local" /\ result' = "local" /\ att' = Removed
         ELSE UNCHANGED <<result, att>>
    /\ pc' = IF att.held \/ verdict = "local" THEN "clear" ELSE "leaving"
    /\ UNCHANGED <<host, mark, queue, local, verdict, dispatching, aborted, rec, can, world>>

\* clearTicketMarkers, once the result is there: the markers and the record
\* that is parked for a rebind.
ClearMarkers ==
    /\ pc = "clear"
    /\ mark' = FALSE /\ queue' = IF queue = "parked" THEN "none" ELSE queue
    /\ pc' = "leaving"
    /\ UNCHANGED <<host, att, result, local, verdict, dispatching, aborted, rec, can, world>>

\* The process is gone, and what only it knew.
Dead ==
    /\ pc' = "dead" /\ verdict' = "none" /\ aborted' = FALSE
    /\ want' = None /\ conf' = "unasked" /\ proven' = FALSE
    /\ rpc' = [rpc EXCEPT ![Self] = "idle"] /\ rverdict' = [rverdict EXCEPT ![Self] = "none"]
    /\ IF pc = "upload" THEN Cut(att.runner) ELSE UNCHANGED host
    /\ UNCHANGED <<disk, local, can>>

\* process.exit, once the output is drained.
Leave == pc = "leaving" /\ Dead /\ UNCHANGED world

Crash == Up /\ Fault("crash") /\ Dead /\ UNCHANGED <<stray, off>>

\* A cancel that does not end in time: exit 74, the attempt stays.
Abandon ==
    /\ aborted /\ verdict # "local"
    /\ pc \in Remote \cup {"fallback", "restore", "requeue", "rebinding"}
    /\ Dead /\ UNCHANGED world

-----------------------------------------------------------------------------
(* What other processes do once the supervisor has gone. *)

\* Mutant: a parked record always goes back to the queue.
MutRecoverAlwaysRestores ==
    /\ ~Up /\ queue = "parked"
    /\ queue' = "queued"
    /\ UNCHANGED <<host, att, mark, result, local, sup, aborted, rec, can, world>>

\* recoverRebinding: restored only if nothing was sent and nothing is settled.
Recover ==
    /\ ~Up /\ queue = "parked"
    /\ queue' = IF \/ att.held /\ att.executor = "remote"
                   \/ ~att.held /\ result # "none"
                  THEN "none" ELSE "queued"
    /\ UNCHANGED <<host, att, mark, result, local, sup, aborted, rec, can, world>>

\* reapOrphanedQueue publishes and leaves the attempt behind.
ReapQueue ==
    /\ ~Up /\ queue = "queued"
    /\ queue' = "none" /\ result' = IF result = "none" THEN "lost" ELSE result
    /\ UNCHANGED <<host, att, mark, local, sup, aborted, rec, can, world>>

LocalOrphanEnds ==
    /\ ~Up /\ local = "alive"
    /\ local' = "gone"
    /\ UNCHANGED <<host, disk, sup, aborted, rec, can, world>>

\* settleAbandonedLocalAttempt; a result that is there stands.
SettleLocal ==
    /\ ~Up /\ att.held /\ att.executor = "local" /\ ~Moving
    /\ local # "alive" /\ queue = "none"
    /\ result' = IF result = "none" THEN "lost" ELSE result
    /\ att' = Removed
    /\ UNCHANGED <<host, mark, queue, local, sup, aborted, rec, can, world>>

-----------------------------------------------------------------------------
(* reconcileRemoteAttempt, by other processes and by the supervisor itself.  *)

\* isStrandedWithdrawingMove
Stranded == ~Up /\ att.moving.phase = "withdrawing" /\ att.runner = att.moving.from

Mine(a) == IF a = Self THEN pc = "proof" ELSE ~Up
Reconcilable(a) ==
    /\ att.held /\ att.executor = "remote" /\ Mine(a) /\ result = "none"
    /\ ~Moving \/ (a # Self /\ Stranded)

Go(a, l, v) == /\ rpc' = [rpc EXCEPT ![a] = l]
               /\ rverdict' = [rverdict EXCEPT ![a] = v]
Idle(a) == Go(a, "idle", "none")

\* adoptOrAmbiguous: what a record settles.
Adopt(k) == IF k \in Kinds THEN k
            ELSE IF k \in NeverStarted \cup {"shutdown"} THEN "lost" ELSE "none"

Quiet == UNCHANGED <<disk, local, sup, aborted, can>>

Reconcile(a) ==
    /\ rpc[a] = "idle" /\ Reconcilable(a) /\ ~Moving /\ UNCHANGED host
    /\ \/ att.sent = {} /\ Go(a, "publish", "lost") /\ UNCHANGED world
       \/ att.runner \in off /\ Go(a, "publish", "lost") /\ UNCHANGED world
       \/ /\ att.runner # None /\ Fault("bound") /\ UNCHANGED <<stray, off>>
          /\ Go(a, "publish", "abandoned")
       \/ /\ att.runner # None /\ Answered(att.runner)
          /\ \/ /\ Adopt(record[att.runner]) # "none"
                /\ Go(a, "publish", Adopt(record[att.runner]))
             \/ Answers(att.runner) = "gone" /\ Go(a, "cancel", "none")
    /\ Quiet

\* Only a confirmed cancel makes a job that is gone safe to settle.
ReconcileCancel(a) ==
    /\ rpc[a] = "cancel"
    /\ \/ RemoteCancel(att.runner) /\ Answered(att.runner) /\ Go(a, "cancelling", "none")
       \/ Lost("cancel", att.runner) /\ Idle(a) /\ UNCHANGED host
    /\ Quiet

ReconcileReply(a) ==
    /\ rpc[a] = "cancelling" /\ UNCHANGED host
    /\ \/ Answered(att.runner) /\ IF Confirms(att.runner) THEN Go(a, "late", "none") ELSE Idle(a)
       \/ Unheard(att.runner) /\ Idle(a)
    /\ Quiet

\* A result that came in the meantime wins over `lost`.
ReconcileLate(a) ==
    /\ rpc[a] = "late" /\ UNCHANGED host
    /\ \/ /\ Answered(att.runner)
          /\ Go(a, "publish", IF Adopt(record[att.runner]) = "none" THEN "lost"
                              ELSE Adopt(record[att.runner]))
       \/ Unheard(att.runner) /\ Go(a, "publish", "lost")
    /\ Quiet

\* Mutant: a stranded withdrawal is settled without the destination's word.
MutSettleStrandedTrustsSource(a) ==
    /\ rpc[a] = "idle" /\ Reconcilable(a) /\ Moving /\ Answered(att.moving.from)
    /\ Go(a, "publish", IF att.moving.to = Refuse THEN "refused" ELSE "lost")
    /\ UNCHANGED host /\ Quiet

\* settleStrandedWithdraw: both hosts must answer for it.
SettleStranded(a) ==
    LET k == record[att.moving.from] IN
    /\ rpc[a] = "idle" /\ Reconcilable(a) /\ Moving /\ Answered(att.moving.from)
    /\ \/ Answers(att.moving.from) = "queued" /\ att.moving.to = Refuse /\ Go(a, "redo", "none")
       \/ k = "completed" /\ Go(a, "publish", "completed")
       \/ /\ k \in NeverStarted
          /\ IF att.moving.to = Refuse THEN Go(a, "publish", "refused") ELSE Go(a, "dest", "none")
    /\ UNCHANGED host /\ Quiet

StrandedRedo(a) ==
    /\ rpc[a] = "redo"
    /\ \/ /\ RemoteWithdraw(att.moving.from) /\ Answered(att.moving.from)
          /\ IF GivenUp(att.moving.from) THEN Go(a, "publish", "refused") ELSE Idle(a)
       \/ Lost("withdraw", att.moving.from) /\ Idle(a) /\ UNCHANGED host
    /\ Quiet

\* The destination is gone, takes a tombstone, and is still gone.
StrandedDestination(a) ==
    /\ rpc[a] \in {"dest", "tomb", "again"}
    /\ \/ /\ rpc[a] # "tomb" /\ Answered(att.moving.to) /\ UNCHANGED host
          /\ IF Answers(att.moving.to) # "gone" THEN Idle(a)
             ELSE IF rpc[a] = "dest" THEN Go(a, "tomb", "none") ELSE Go(a, "publish", "lost")
       \/ /\ rpc[a] = "tomb" /\ RemoteWithdraw(att.moving.to) /\ Answered(att.moving.to)
          /\ IF exec[att.moving.to] = "none" THEN Go(a, "again", "none") ELSE Idle(a)
       \/ rpc[a] = "tomb" /\ Lost("withdraw", att.moving.to) /\ Idle(a) /\ UNCHANGED host
       \/ rpc[a] # "tomb" /\ Unheard(att.moving.to) /\ Idle(a) /\ UNCHANGED host
    /\ Quiet

\* publishSettled: under the lock, and only for the attempt that was read.  The
\* supervisor itself does not publish `lost`: it dispatches the job again.
ReconcilePublish(a) ==
    /\ rpc[a] = "publish" /\ Idle(a)
    /\ IF att.held /\ att.executor = "remote" /\ Mine(a) /\ (~Moving \/ Stranded)
         THEN IF a = Self /\ rverdict[a] = "lost"
                THEN pc' = "stopped" /\ UNCHANGED <<att, result>>
                ELSE /\ Settle(rverdict[a])
                     /\ pc' = IF a = Self THEN "clear" ELSE pc
         ELSE UNCHANGED <<att, result, pc>>
    /\ UNCHANGED <<host, mark, queue, local, verdict, dispatching, aborted, can, world>>

-----------------------------------------------------------------------------
(* lane cancel. *)

Step(c, l, rs) == /\ cpc' = [cpc EXCEPT ![c] = l]
                  /\ ask' = [ask EXCEPT ![c] = rs]
                  /\ asked' = [asked EXCEPT ![c] = None]
                  /\ unsure' = [unsure EXCEPT ![c] = FALSE]

\* cancelCommand: a queued ticket is dequeued, a run without a supervisor is
\* killed and settled, a run with one is signalled (its end is LocalEnds).
CancelHere(c) ==
    /\ cpc[c] = "idle"
    /\ \/ /\ queue = "queued" /\ queue' = "none" /\ mark' = TRUE
          /\ UNCHANGED <<att, result, local>>
       \/ /\ queue # "queued" /\ local = "alive" /\ Up /\ mark' = TRUE
          /\ UNCHANGED <<att, result, queue, local>>
       \/ /\ queue # "queued" /\ local = "alive" /\ ~Up
          /\ mark' = TRUE /\ local' = "gone"
          /\ att' = Removed /\ result' = IF att.held THEN "cancelled" ELSE result
          /\ UNCHANGED queue
    /\ Step(c, "idle", {})
    /\ UNCHANGED <<host, sup, aborted, rec, world>>

\* cancelAttempt of a live supervisor: the marker, SIGTERM, and wait.
CancelLive(c) ==
    /\ cpc[c] = "idle" /\ queue # "queued" /\ local # "alive" /\ att.held /\ Up
    /\ mark' = TRUE /\ aborted' = TRUE /\ Step(c, "wait", {})
    /\ UNCHANGED <<host, att, result, queue, local, sup, rec, world>>

\* Every runner a move names may hold the ticket.
Involved == {att.runner, att.moving.from, att.moving.to} \ {None, Refuse}

CancelWait(c) ==
    /\ cpc[c] = "wait"
    /\ \/ (~att.held \/ Up \/ att.runner \in off) /\ Step(c, "idle", {})
       \/ att.held /\ ~Up /\ att.runner \notin off /\ Step(c, "ask", Involved)
    /\ UNCHANGED <<host, disk, local, sup, aborted, rec, world>>

\* An attempt nobody owns any more.  (One on an offline runner is settled by
\* reconcile, Reconcile.)
CancelOrphan(c) ==
    /\ cpc[c] = "idle" /\ queue # "queued" /\ local # "alive"
    /\ att.held /\ ~Up /\ att.runner \notin off
    /\ mark' = TRUE /\ Step(c, "ask", Involved)
    /\ UNCHANGED <<host, att, result, queue, local, sup, aborted, rec, world>>

\* What a runner's answer, or none, adds to what is known.
Told(c, r, confirmed) ==
    /\ ask' = [ask EXCEPT ![c] = @ \ {r}]
    /\ asked' = [asked EXCEPT ![c] = None]
    /\ unsure' = [unsure EXCEPT ![c] = @ \/ ~confirmed]
    /\ UNCHANGED cpc

\* The runners are asked one after the other.
CancelAsk(c) ==
    /\ cpc[c] = "ask" /\ asked[c] = None
    /\ \E r \in ask[c] :
           \/ /\ RemoteCancel(r) /\ Answered(r)
              /\ asked' = [asked EXCEPT ![c] = r] /\ UNCHANGED <<cpc, ask, unsure>>
           \/ Lost("cancel", r) /\ Told(c, r, FALSE) /\ UNCHANGED host
    /\ UNCHANGED <<disk, local, sup, aborted, rec>>

CancelAnswer(c) ==
    /\ cpc[c] = "ask" /\ asked[c] # None
    /\ \/ Answered(asked[c]) /\ Told(c, asked[c], Confirms(asked[c]))
       \/ Unheard(asked[c]) /\ Told(c, asked[c], FALSE)
    /\ UNCHANGED <<host, disk, local, sup, aborted, rec>>

\* Mutant: it does not look whether the attempt is still there.
MutCancelPublishBlind(c) ==
    /\ cpc[c] = "ask" /\ ask[c] = {}
    /\ IF ~unsure[c] THEN Settle("cancelled") ELSE UNCHANGED <<att, result>>
    /\ Step(c, "idle", {})
    /\ UNCHANGED <<host, mark, queue, local, sup, aborted, rec, world>>

\* Without a confirmation from every runner the attempt stays.
CancelPublish(c) ==
    /\ cpc[c] = "ask" /\ ask[c] = {}
    /\ IF att.held /\ ~unsure[c] THEN Settle("cancelled") ELSE UNCHANGED <<att, result>>
    /\ Step(c, "idle", {})
    /\ UNCHANGED <<host, mark, queue, local, sup, aborted, rec, world>>

-----------------------------------------------------------------------------
(* The hosts and the network. *)

HostActs(r) == r \notin off /\ HostStep(r) /\ UNCHANGED <<disk, local, sup, aborted, rec, can, world>>

\* A request whose answer was lost is carried out after all.
StrayArrives(r) ==
    /\ r \notin off
    /\ \/ <<"cancel", r>> \in stray /\ RemoteCancel(r) /\ stray' = stray \ {<<"cancel", r>>}
       \/ <<"withdraw", r>> \in stray /\ RemoteWithdraw(r) /\ stray' = stray \ {<<"withdraw", r>>}
    /\ UNCHANGED <<off, faults, disk, local, sup, aborted, rec, can>>

HostFails(r) ==
    /\ r \notin off /\ faults < MaxFaults /\ faults' = faults + 1
    /\ \/ HostFault(r) /\ UNCHANGED off
       \/ "offline" \in Faults /\ PowerOff(r) /\ off' = off \cup {r}
    /\ UNCHANGED <<stray, disk, local, sup, aborted, rec, can>>

SupStep ==
    \/ PlaceNowhere \/ Send \/ Upload \/ SnapshotSent \/ UploadFails \/ Withdraw
    \/ WatchStops \/ WithdrawLost \/ Close \/ Fetch \/ Expire \/ ExpireReply \/ Late
    \/ GiveUp \/ StopPolling \/ Abort \/ Cancel \/ CancelReply \/ Stopped \/ Moved \/ Fallback \/ Restore
    \/ Requeue \/ LocalStart \/ LocalCancelled \/ LocalRefused \/ LocalEnds \/ Rebind \/ PublishResult \/ ClearMarkers
    \/ \E r \in Runner : Place(r) \/ RebindDispatch(r)
    \/ \E to \in Target : WatchQueued(to)

AfterDeath == Recover \/ ReapQueue \/ LocalOrphanEnds \/ SettleLocal

RecStep(a) ==
    \/ Reconcile(a) \/ ReconcileCancel(a) \/ ReconcileReply(a) \/ ReconcileLate(a)
    \/ SettleStranded(a) \/ StrandedRedo(a) \/ StrandedDestination(a) \/ ReconcilePublish(a)

CanStep(c) ==
    \/ CancelHere(c) \/ CancelLive(c) \/ CancelWait(c) \/ CancelOrphan(c)
    \/ CancelAsk(c) \/ CancelAnswer(c) \/ CancelPublish(c)

Next ==
    \/ SupStep \/ Leave \/ Crash \/ Abandon \/ AfterDeath
    \/ \E a \in Actor : RecStep(a)
    \/ \E c \in Canceller : CanStep(c)
    \/ \E r \in Runner : HostActs(r) \/ StrayArrives(r) \/ HostFails(r)

Spec == Init /\ [][Next]_vars

-----------------------------------------------------------------------------
(* Properties. *)

\* The hosts that execute the command now, the submitter among them.
Executing == {r \in Runner : Live(r)} \cup (IF local = "alive" THEN {Self} ELSE {})

\* The command never runs on two machines at once: every fallback, move,
\* re-dispatch and rebind of supervisor.js waits for proof that the last
\* runner neither runs the job nor will.  The runnerLostAfterMs bound gives up
\* that proof by configuration, but ends the ticket with it.
AtMostOneHost == Cardinality(Executing) <= 1

\* A command that goes on after its runner has published `cancelled` for it: its
\* supervisor died during the cancel, and remote-exec looks at the marker only.
Disowned(r) == lane[r] = "orphaned" /\ record[r] = "cancelled"

\* A dispatch that may be live is never forgotten: the attempt record is held,
\* as a remote one, and names the runner, so that reconcile and `lane cancel`
\* can reach it (README.md:1151).
NeverForgotten ==
    result # "abandoned" =>
        \A r \in Runner : MayRun(r) /\ ~Disowned(r) =>
                            att.held /\ att.executor = "remote" /\ r \in Involved

\* A runner is sent a ticket only if it has never seen it, also across
\* fallbacks, moves and rebinds: it keeps a directory for the id.
NeverRevisited == pc = "send" => wire[att.runner] = "none"

\* A ticket that is back in the local queue runs nowhere else, whoever put it
\* there: the supervisor after proof, or recoverRebinding after its death.
QueuedRunsNowhere == queue = "queued" => \A r \in Runner : ~MayRun(r)

\* The attempt record tells, at any moment, where the ticket may be: every dispatch
\* that may be live is held, no runner is sent it twice, and a queued ticket is
\* nowhere else.
TicketTracked == NeverForgotten /\ NeverRevisited /\ QueuedRunsNowhere

\* The same, with every file and every local variable in its type.
DispatchesTracked == RemoteTypeOK /\ TicketTracked

\* A ticket is settled once: whoever publishes removes the attempt record with
\* the same lock (publishTerminal), so of a supervisor, a reconcile and a `lane
\* cancel` that all saw the ticket open, the first one's result stands.
SettledOnce == [][~att.held => UNCHANGED result]_vars
=============================================================================
