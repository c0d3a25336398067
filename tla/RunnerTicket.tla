---------------------------- MODULE RunnerTicket ----------------------------
(*****************************************************************************)
(* What one remote ticket is on each runner host: src/remote-runner.js.      *)
(*                                                                           *)
(* The submitter opens `lane remote-exec` over ssh and streams a snapshot.   *)
(* The exec process makes the ticket directory, records itself as its        *)
(* publisher, verifies the snapshot and runs the command as a fresh lane of  *)
(* the runner's own broker.  It alone writes result.json.  remote-cancel,    *)
(* remote-withdraw and `lane drain --shutdown` are other processes that meet *)
(* it under the runner's broker lock; a callback under that lock is one      *)
(* action.                                                                   *)
(*                                                                           *)
(* RemoteAttempt extends this module with the submitter.  Next here lets the *)
(* requests arrive in any order, so what holds here holds for any submitter. *)
(*****************************************************************************)
EXTENDS Naturals, FiniteSets

CONSTANTS
    Runner,        \* runner hosts
    Faults         \* what may go wrong: a subset of FaultKinds

FaultKinds == {"lost", "crash", "exec", "supervisor", "shutdown", "reboot", "offline", "bound"}

ASSUME FaultAssumption == Faults \subseteq FaultKinds

VARIABLES
    wire,        \* wire[r]: the ssh session that carries the snapshot
    tomb,        \* runners that hold a tombstone for the ticket
    exec,        \* exec[r]: the remote-exec process
    lane,        \* lane[r]: the ticket's lane in the runner's own broker
    how,         \* how[r]: what the lane's own result says
    cancelled,   \* ticket directories with a `cancelled` marker
    stop,        \* runners whose broker holds a cancel marker for the lane
    shut,        \* ticket directories with a `shutdown` marker
    unstarted,   \* ticket directories with a `shutdown-unstarted` marker
    record       \* record[r]: the kind and reason of result.json

host == <<wire, tomb, exec, lane, how, cancelled, stop, shut, unstarted, record>>

Wire == {"none", "coming", "whole", "cut", "noticket", "over"}
Exec == {"none", "dir", "made", "named", "published", "dead"}
Lane == {"none", "refused", "named", "queued", "running", "orphaned", "ended"}
How == {"none", "completed", "stopped", "cancelled", "withdrawn", "expired"}
Record == {"none", "completed", "cancelled", "refused", "rejected", "withdrawn",
           "expired", "shutdown", "unproven", "unfinished"}

HostTypeOK ==
    /\ wire \in [Runner -> Wire]
    /\ exec \in [Runner -> Exec]
    /\ lane \in [Runner -> Lane]
    /\ how \in [Runner -> How]
    /\ record \in [Runner -> Record]
    /\ tomb \subseteq Runner /\ cancelled \subseteq Runner /\ stop \subseteq Runner
    /\ shut \subseteq Runner /\ unstarted \subseteq Runner

HostInit ==
    /\ wire = [r \in Runner |-> "none"]
    /\ exec = [r \in Runner |-> "none"]
    /\ lane = [r \in Runner |-> "none"]
    /\ how = [r \in Runner |-> "none"]
    /\ record = [r \in Runner |-> "none"]
    /\ tomb = {} /\ cancelled = {} /\ stop = {} /\ shut = {} /\ unstarted = {}

Live(r) == lane[r] \in {"running", "orphaned"}

-----------------------------------------------------------------------------
(* The snapshot stream, driven by the submitter. *)

Arrive(r) ==
    /\ wire[r] = "none"
    /\ wire' = [wire EXCEPT ![r] = "coming"]
    /\ UNCHANGED <<tomb, exec, lane, how, cancelled, stop, shut, unstarted, record>>

Land(r) ==
    /\ wire[r] = "coming"
    /\ wire' = [wire EXCEPT ![r] = "whole"]
    /\ UNCHANGED <<tomb, exec, lane, how, cancelled, stop, shut, unstarted, record>>

\* The submitter kills its ssh; a session that has ended stays as it is.
Cut(r) ==
    /\ wire' = [wire EXCEPT ![r] = IF @ = "coming" THEN "cut" ELSE @]
    /\ UNCHANGED <<tomb, exec, lane, how, cancelled, stop, shut, unstarted, record>>

-----------------------------------------------------------------------------
(* remote-exec. *)

\* No usable header: no ticket directory, and an exit code that says so.
NoTicket(r) ==
    /\ wire[r] \in {"coming", "whole", "cut"} /\ exec[r] = "none"
    /\ wire' = [wire EXCEPT ![r] = "noticket"]
    /\ UNCHANGED <<tomb, exec, lane, how, cancelled, stop, shut, unstarted, record>>

\* Mutant: the directory is made before the tombstone is looked for.
MutCreateSkipsTombstone(r) ==
    /\ wire[r] \in {"coming", "whole", "cut"} /\ exec[r] = "none"
    /\ exec' = [exec EXCEPT ![r] = "dir"]
    /\ UNCHANGED <<wire, tomb, lane, how, cancelled, stop, shut, unstarted, record>>

\* The intake commit: a tombstone that was left before wins.
Create(r) ==
    /\ wire[r] \in {"coming", "whole", "cut"} /\ exec[r] = "none"
    /\ IF r \in tomb
         THEN wire' = [wire EXCEPT ![r] = "over"] /\ UNCHANGED exec
         ELSE exec' = [exec EXCEPT ![r] = "dir"] /\ UNCHANGED wire
    /\ UNCHANGED <<tomb, lane, how, cancelled, stop, shut, unstarted, record>>

\* publisher.json; until then remote-result answers `gone`.
Announce(r) ==
    /\ exec[r] = "dir"
    /\ exec' = [exec EXCEPT ![r] = "made"]
    /\ UNCHANGED <<wire, tomb, lane, how, cancelled, stop, shut, unstarted, record>>

\* The header, the snapshot or the extracted tree does not pass verification;
\* or the runner's configuration cannot be read.  No marker is looked at.
Reject(r) ==
    /\ exec[r] = "made"
    /\ exec' = [exec EXCEPT ![r] = "published"]
    /\ \E k \in {"rejected"} \cup (IF wire[r] = "whole" THEN {"refused"} ELSE {}) :
           record' = [record EXCEPT ![r] = k]
    /\ UNCHANGED <<wire, tomb, lane, how, cancelled, stop, shut, unstarted>>

\* onTicketCreated: the lane's id is recorded and the markers are read, under
\* one lock; a marked ticket's lane is never spawned.
Name(r) ==
    /\ exec[r] = "made" /\ wire[r] = "whole"
    /\ exec' = [exec EXCEPT ![r] = "named"]
    /\ lane' = [lane EXCEPT ![r] = IF r \in cancelled \cup shut THEN "refused" ELSE "named"]
    /\ UNCHANGED <<wire, tomb, how, cancelled, stop, shut, unstarted, record>>

\* The same callback on a runner that is draining for a shutdown.
NameDrained(r) ==
    /\ "shutdown" \in Faults /\ exec[r] = "made" /\ wire[r] = "whole"
    /\ exec' = [exec EXCEPT ![r] = "named"]
    /\ lane' = [lane EXCEPT ![r] = "refused"]
    /\ shut' = shut \cup {r}
    /\ UNCHANGED <<wire, tomb, how, cancelled, stop, unstarted, record>>

\* shutdownStopReason: the stop is proven, or only claimed.
ProvenStop(r) == r \in shut /\ (lane[r] = "refused" \/ r \in unstarted \/ how[r] = "stopped")
ClaimedStop(r) == r \in shut /\ how[r] \in {"none", "cancelled"}

\* Mutant: any ticket marked by the shutdown reads as stopped.
MutRecordOfTrustsShutdown(r) ==
    IF r \in cancelled THEN "cancelled"
    ELSE IF how[r] \in {"withdrawn", "expired"} THEN how[r]
    ELSE IF ProvenStop(r) \/ ClaimedStop(r) THEN "shutdown"
    ELSE IF how[r] # "none" THEN "completed"
    ELSE IF lane[r] = "none" THEN "refused" ELSE "unfinished"

\* The kind of record the exec derives from its lane's result and the markers.
RecordOf(r) ==
    IF r \in cancelled THEN "cancelled"
    ELSE IF how[r] \in {"withdrawn", "expired"} THEN how[r]
    ELSE IF ProvenStop(r) THEN "shutdown"
    ELSE IF ClaimedStop(r) THEN "unproven"
    ELSE IF how[r] # "none" THEN "completed"
    ELSE IF lane[r] = "none" THEN "refused" ELSE "unfinished"

\* The run is over, its supervisor is dead, or the preflight refused it.
Publish(r) ==
    /\ \/ exec[r] = "named" /\ lane[r] \in {"refused", "ended", "orphaned"}
       \/ exec[r] = "made" /\ wire[r] = "whole"
    /\ exec' = [exec EXCEPT ![r] = "published"]
    /\ record' = [record EXCEPT ![r] = RecordOf(r)]
    /\ UNCHANGED <<wire, tomb, lane, how, cancelled, stop, shut, unstarted>>

ExecDies(r) ==
    /\ "exec" \in Faults /\ exec[r] \in {"dir", "made", "named"}
    /\ exec' = [exec EXCEPT ![r] = "dead"]
    /\ UNCHANGED <<wire, tomb, lane, how, cancelled, stop, shut, unstarted, record>>

-----------------------------------------------------------------------------
(* The lane in the runner's broker (TicketLifecycle has its details). *)

End(r, h) ==
    /\ lane' = [lane EXCEPT ![r] = "ended"]
    /\ how' = [how EXCEPT ![r] = h]
    /\ UNCHANGED <<wire, tomb, exec, cancelled, stop, shut, unstarted, record>>

Enqueue(r) ==
    /\ lane[r] = "named"
    /\ lane' = [lane EXCEPT ![r] = "queued"]
    /\ UNCHANGED <<wire, tomb, exec, how, cancelled, stop, shut, unstarted, record>>

Admit(r) ==
    /\ lane[r] = "queued" /\ r \notin stop
    /\ lane' = [lane EXCEPT ![r] = "running"]
    /\ UNCHANGED <<wire, tomb, exec, how, cancelled, stop, shut, unstarted, record>>

StopQueued(r) == lane[r] = "queued" /\ r \in stop /\ End(r, "cancelled")

ExpireQueued(r) == lane[r] = "queued" /\ r \notin stop /\ End(r, "expired")

\* A stopped command may also have ended by itself first, and its supervisor
\* may fail to prove that every process is gone.
Finish(r) ==
    /\ lane[r] = "running"
    /\ \E h \in IF r \in stop THEN {"stopped", "cancelled", "completed"} ELSE {"completed"} :
           End(r, h)

\* The lane's supervisor dies: a queued lane is settled by the queue reap, a
\* running command goes on without it.
LaneSupervisorDies(r) ==
    /\ "supervisor" \in Faults
    /\ \/ lane[r] = "named" /\ End(r, "none")
       \/ lane[r] = "queued" /\ End(r, "expired")
       \/ /\ lane[r] = "running"
          /\ lane' = [lane EXCEPT ![r] = "orphaned"]
          /\ UNCHANGED <<wire, tomb, exec, how, cancelled, stop, shut, unstarted, record>>

\* It ends by itself, or a cancel kills what is left and publishes.
OrphanEnds(r) ==
    /\ lane[r] = "orphaned"
    /\ \E h \in {"none"} \cup (IF r \in stop THEN {"cancelled"} ELSE {}) : End(r, h)

-----------------------------------------------------------------------------
(* Requests. *)

\* remote-cancel: a tombstone for an absent ticket; otherwise the marker, and
\* once the lane has an id the broker's own cancel, which dequeues or signals.
RemoteCancel(r) ==
    /\ IF exec[r] = "none"
         THEN tomb' = tomb \cup {r} /\ UNCHANGED <<lane, how, cancelled, stop>>
         ELSE /\ cancelled' = cancelled \cup {r}
              /\ stop' = IF lane[r] = "none" THEN stop ELSE stop \cup {r}
              /\ lane' = [lane EXCEPT ![r] = IF @ = "queued" THEN "ended" ELSE @]
              /\ how' = [how EXCEPT ![r] = IF lane[r] = "queued" THEN "cancelled" ELSE @]
              /\ UNCHANGED tomb
    /\ UNCHANGED <<wire, exec, shut, unstarted, record>>

\* cancelConfirmed, once cancelCommand has returned.
Confirms(r) == ~Live(r)

\* withdrawLane answers `withdrawn`: the lane is queued and now never starts,
\* or an earlier withdraw did this.
GivenUp(r) == \/ lane[r] = "queued" /\ r \notin stop
              \/ how[r] = "withdrawn"

\* remote-withdraw.
RemoteWithdraw(r) ==
    /\ tomb' = IF exec[r] = "none" THEN tomb \cup {r} ELSE tomb
    /\ lane' = [lane EXCEPT ![r] = IF @ = "queued" /\ r \notin stop THEN "ended" ELSE @]
    /\ how' = [how EXCEPT ![r] = IF lane[r] = "queued" /\ r \notin stop THEN "withdrawn" ELSE @]
    /\ UNCHANGED <<wire, exec, cancelled, stop, shut, unstarted, record>>

\* `lane drain --shutdown`: every unpublished ticket is marked and its lane is
\* stopped; one without a lease is noted as never started.
RemoteShutdown(r) ==
    /\ "shutdown" \in Faults /\ exec[r] # "none" /\ record[r] = "none"
    /\ shut' = shut \cup {r}
    /\ IF lane[r] # "none"
         THEN /\ stop' = stop \cup {r}
              /\ unstarted' = IF Live(r) THEN unstarted ELSE unstarted \cup {r}
              /\ lane' = [lane EXCEPT ![r] = IF @ = "queued" THEN "ended" ELSE @]
              /\ how' = [how EXCEPT ![r] = IF lane[r] = "queued" THEN "cancelled" ELSE @]
         ELSE UNCHANGED <<stop, unstarted, lane, how>>
    /\ UNCHANGED <<wire, tomb, exec, cancelled, record>>

\* The host goes down: every process and session of this boot ends.  A stop
\* that was only claimed is served as proven from now on (servedRecord).
PowerOff(r) ==
    /\ exec' = [exec EXCEPT ![r] = IF @ \in {"dir", "made", "named"} THEN "dead" ELSE @]
    /\ lane' = [lane EXCEPT ![r] = IF @ \in {"named", "queued", "running", "orphaned"}
                                     THEN "ended" ELSE @]
    /\ wire' = [wire EXCEPT ![r] = IF @ \in {"coming", "whole", "cut"} THEN "over" ELSE @]
    /\ record' = [record EXCEPT ![r] = IF @ = "unproven" THEN "shutdown" ELSE @]
    /\ UNCHANGED <<tomb, how, cancelled, stop, shut, unstarted>>

\* A host that never heard of the ticket has nothing to lose.
Reboot(r) == "reboot" \in Faults /\ wire[r] # "none" /\ PowerOff(r)

-----------------------------------------------------------------------------
(* remote-result: what the runner answers. *)

Answers(r) == IF record[r] # "none" THEN record[r]
              ELSE IF exec[r] \notin {"made", "named"} THEN "gone"
              ELSE IF lane[r] = "queued" THEN "queued" ELSE "running"

-----------------------------------------------------------------------------
HostStep(r) ==
    \/ NoTicket(r) \/ Create(r) \/ Announce(r) \/ Reject(r) \/ Name(r) \/ Publish(r)
    \/ Enqueue(r) \/ Admit(r) \/ StopQueued(r) \/ ExpireQueued(r) \/ Finish(r)
    \/ OrphanEnds(r)

HostFault(r) ==
    ExecDies(r) \/ LaneSupervisorDies(r) \/ NameDrained(r) \/ RemoteShutdown(r) \/ Reboot(r)

HostRequest(r) == Arrive(r) \/ Land(r) \/ Cut(r) \/ RemoteCancel(r) \/ RemoteWithdraw(r)

HostNext == \E r \in Runner : HostStep(r) \/ HostFault(r) \/ HostRequest(r) \/ PowerOff(r)

HostSpec == HostInit /\ [][HostNext]_host

-----------------------------------------------------------------------------
\* The command runs on r, or may come to run there without another dispatch.
MayRun(r) ==
    \/ Live(r)
    \/ lane[r] \in {"named", "queued"} /\ r \notin stop
    \/ exec[r] \in {"dir", "made"} /\ wire[r] \in {"coming", "whole"} /\ r \notin cancelled \cup shut
    \/ exec[r] = "none" /\ wire[r] \in {"coming", "whole"} /\ r \notin tomb

\* The records on which a submitter or a reconcile builds.
Proofs == {"completed", "refused", "rejected", "withdrawn", "expired", "shutdown"}

\* A runner's record is proof: once result.json says that the job completed,
\* was refused, rejected, withdrawn or expired, or was stopped by a shutdown,
\* nothing runs there and nothing will (classifyRemoteResult,
\* provesNeverStarted and provesStopped let the submitter run it elsewhere).
RecordsProve == \A r \in Runner : record[r] \in Proofs => ~MayRun(r)

\* A runner that was sent the ticket, or told not to take it, and cannot run it
\* never runs it later: a confirmed cancel, a tombstone and a withdrawal stay
\* what they were when they were answered (remoteCancelCommand, withdrawLane).
DeadStaysDead ==
    [][\A r \in Runner : ~MayRun(r) /\ (wire[r] # "none" \/ r \in tomb) => ~MayRun(r)']_host
=============================================================================
