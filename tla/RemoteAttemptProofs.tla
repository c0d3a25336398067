------------------------- MODULE RemoteAttemptProofs -------------------------
(*****************************************************************************)
(* Proofs about RemoteAttempt, for any runners, reconciles, cancels and      *)
(* faults.  The facts about one host come from RunnerTicketProofs, which     *)
(* RemoteAttempt implements.                                                 *)
(*****************************************************************************)
EXTENDS RemoteAttempt, RunnerTicketProofs, FiniteSetTheorems

NoneRuns == \A r \in Runner : ~MayRun(r)

\* A cancel was carried out on r: what has not started there never will.
Fenced(r) == MayRun(r) => Live(r)

\* Nothing runs that the record of its runner does not disown.
AllGone == \A r \in Runner : MayRun(r) => Disowned(r)

\* The places of the supervisor where the attempt names a runner; those where it
\* has proof that the job runs nowhere; those of a ticket that is back here.
Bound == {"send", "upload", "landed", "open", "withdraw", "fetch", "expire", "expiring",
          "late", "giveup", "proof", "cancel", "cancelling", "stopped", "moved"}
Home == {"enqueue", "requeue", "local", "running", "rebinding"}
Safe == Home \cup {"place", "send", "fallback", "restore", "stopped", "moved"}

\* More about one host: a refused stream made no ticket, and a lane has its snapshot.
StreamInv ==
    \A r \in Runner : /\ wire[r] = "noticket" => exec[r] = "none"
                      /\ lane[r] # "none" => wire[r] \in {"whole", "over"}

\* What the attempt record and the supervisor's variables say of each other.
BindInv ==
    /\ pc \in Bound => att.runner \in Runner
    /\ att.runner # None => att.runner \in att.sent
    /\ \A r \in Runner \ att.sent : wire[r] = "none"
    /\ pc = "send" => wire[att.runner] = "none" /\ att.executor = "remote"
    /\ want \in att.sent => pc = "send"
    /\ pc = "moved" => want # None
    /\ pc = "withdraw" => /\ att.moving.phase = "withdrawing" /\ att.moving.from = att.runner
                          /\ att.moving.to \in Target \ att.sent
    /\ att.moving.phase = "withdrawing" => att.moving.from \in Runner /\ att.moving.to \in Target
    /\ pc = "upload" => wire[att.runner] # "whole" /\ lane[att.runner] = "none"

\* Only the runner that the attempt names can run the job, and not even that one
\* where the supervisor acts on proof.
RunInv ==
    /\ \A r \in Runner : MayRun(r) => r = att.runner
    /\ \A r \in off : ~MayRun(r)
    /\ pc \in Safe \/ att.executor = "local" \/ conf = "yes" => NoneRuns
    /\ pc \in {"expiring", "cancelling"} => Fenced(att.runner)

HomeInv ==
    /\ pc \in Home => att.executor = "local"
    /\ queue = "queued" => pc \in {"local", "dead"} /\ att.executor = "local"
    /\ local = "alive" => pc \in {"running", "dead"} /\ att.executor = "local"
    /\ ~att.held => result # "none" /\ pc \in {"clear", "leaving", "dead"}

\* A reconcile acts while the supervisor waits for it or is dead, so that the
\* attempt it read stays; what it is about to publish is proven.
RecInv(a) ==
    /\ rpc[a] # "idle" => pc = IF a = Self THEN "proof" ELSE "dead"
    /\ rpc[a] \in {"cancel", "cancelling", "late"} => att.runner \in Runner
    /\ rpc[a] = "cancelling" => Fenced(att.runner)
    /\ rpc[a] \in {"late", "dest", "tomb", "again"} => NoneRuns
    /\ rpc[a] \in {"redo", "dest", "tomb", "again"} =>
           a # Self /\ att.moving.phase = "withdrawing" /\ att.runner = att.moving.from
    /\ rpc[a] \in {"dest", "tomb", "again"} => att.moving.to \in Runner
    /\ rpc[a] = "publish" => /\ rverdict[a] # "none"
                             /\ rverdict[a] = "lost" => NoneRuns
                             /\ rverdict[a] # "abandoned" => AllGone

\* A cancel without doubts has an answer from every runner but those it still asks.
CanInv(c) ==
    /\ cpc[c] = "ask" => pc = "dead"
    /\ asked[c] # None => cpc[c] = "ask" /\ asked[c] \in ask[c] /\ Fenced(asked[c])
    /\ cpc[c] = "ask" /\ ~unsure[c] => \A r \in Runner : MayRun(r) => r \in ask[c]

\* Nobody cancels; or nobody gives up on a runner that may be alive.
Steady == Canceller = {} \/ (~Waits /\ "bound" \notin Faults)

\* Where Steady holds: what is published, or settled, is proven.
SettleInv ==
    /\ Canceller = {} => ~aborted /\ ~mark
    /\ ~Waits => pc \notin {"expire", "expiring", "late"}
    /\ "bound" \notin Faults => \A a \in Actor : rverdict[a] # "abandoned"
    /\ Steady /\ pc = "publish" => AllGone
    /\ Steady /\ ~att.held /\ result # "abandoned" => AllGone

AttemptInv ==
    /\ StreamInv /\ BindInv /\ RunInv /\ HomeInv /\ SettleInv
    /\ \A a \in Actor : RecInv(a)
    /\ \A c \in Canceller : CanInv(c)

IInv == HostIInv /\ RemoteTypeOK /\ AttemptInv

-----------------------------------------------------------------------------
(* The hosts.  Nothing but a dispatch makes a host run the job. *)

\* What the submitter's and the hosts' steps do to a host, but for a dispatch.
Calm(r) == \/ HostStep(r) \/ HostFault(r) \/ Land(r) \/ Cut(r)
           \/ RemoteCancel(r) \/ RemoteWithdraw(r) \/ PowerOff(r)

\* What such a step leaves as it is, seen from the submitter.
Keeps ==
    \A r \in Runner : /\ MayRun(r)' => MayRun(r)
                      /\ Fenced(r) => Fenced(r)'
                      /\ (MayRun(r) => Disowned(r)) => (MayRun(r)' => Disowned(r)')
                      /\ wire[r] = "none" => wire'[r] = "none"

LEMMA CalmAct ==
    ASSUME NEW r \in Runner, Calm(r)
    PROVE  Act(r)
BY DEF Calm, Act, HostRequest

LEMMA CalmHere ==
    ASSUME HostIInv, NEW r \in Runner, Calm(r)
    PROVE  /\ MayRun(r)' => MayRun(r)
           /\ Fenced(r) => Fenced(r)'
           /\ (MayRun(r) => Disowned(r)) => (MayRun(r)' => Disowned(r)')
           /\ wire[r] = "none" => wire'[r] = "none"
<1> USE DEF MayRun, Live, Fenced, Disowned
<1> USE DEF HostIInv, HostInv, HostInvAt, HostTypeOK
<1>1. CASE NoTicket(r) \/ Land(r) \/ Cut(r)
  BY <1>1 DEF NoTicket, Land, Cut
<1>2. CASE Create(r) \/ Announce(r) \/ ExecDies(r)
  BY <1>2 DEF Create, Announce, ExecDies
<1>3. CASE Reject(r) \/ Publish(r)
  BY <1>3 DEF Reject, Publish
<1>4. CASE Name(r) \/ NameDrained(r)
  BY <1>4 DEF Name, NameDrained
<1>5. CASE Enqueue(r) \/ Admit(r)
  BY <1>5 DEF Enqueue, Admit
<1>6. CASE StopQueued(r) \/ ExpireQueued(r) \/ Finish(r) \/ OrphanEnds(r)
  BY <1>6 DEF StopQueued, ExpireQueued, Finish, OrphanEnds, End
<1>7. CASE LaneSupervisorDies(r)
  BY <1>7 DEF LaneSupervisorDies, End
<1>8. CASE RemoteCancel(r) \/ RemoteWithdraw(r)
  BY <1>8 DEF RemoteCancel, RemoteWithdraw
<1>9. CASE RemoteShutdown(r)
  BY <1>9 DEF RemoteShutdown
<1>10. CASE Reboot(r) \/ PowerOff(r)
  BY <1>10 DEF Reboot, PowerOff
<1> QED
  BY <1>1, <1>2, <1>3, <1>4, <1>5, <1>6, <1>7, <1>8, <1>9, <1>10
     DEF Calm, HostStep, HostFault

LEMMA CalmKeeps ==
    ASSUME HostIInv, UNCHANGED host \/ \E r \in Runner : Calm(r)
    PROVE  Keeps
<1>1. CASE UNCHANGED host
  BY <1>1 DEF Keeps, host, MayRun, Live, Fenced, Disowned
<1>2. ASSUME NEW r \in Runner, Calm(r) PROVE Keeps
  <2>1. Others(r)
    BY <1>2, CalmAct, TypeStep DEF HostIInv
  <2>2. ASSUME NEW q \in Runner \ {r}
        PROVE  /\ MayRun(q)' = MayRun(q) /\ Fenced(q)' = Fenced(q)
               /\ Disowned(q)' = Disowned(q) /\ wire'[q] = wire[q]
    BY <2>1 DEF Others, MayRun, Live, Fenced, Disowned
  <2> QED
    BY <1>2, <2>2, CalmHere DEF Keeps
<1> QED
  BY <1>1, <1>2

\* What is over stays over.
LEMMA KeepsGone ==
    ASSUME Keeps
    PROVE  (NoneRuns => NoneRuns') /\ (AllGone => AllGone')
BY DEF Keeps, NoneRuns, AllGone

LEMMA StreamStep ==
    ASSUME HostIInv, StreamInv, NEW r \in Runner, Act(r)
    PROVE  StreamInv'
<1> USE DEF HostIInv, HostInv, HostInvAt, HostTypeOK
<1>1. Others(r)
  BY TypeStep
<1>2. ASSUME wire'[r] = "noticket" PROVE exec'[r] = "none"
  BY <1>2 DEF StreamInv, Act, HostStep, HostFault, HostRequest, NoTicket, Land, Cut, Arrive, Create, Announce,
     ExecDies, Reject, Publish, Name, NameDrained, Enqueue, Admit, StopQueued, ExpireQueued,
     Finish, OrphanEnds, End, LaneSupervisorDies, RemoteCancel, RemoteWithdraw, RemoteShutdown,
     Reboot, PowerOff
<1>3. ASSUME lane'[r] # "none" PROVE wire'[r] \in {"whole", "over"}
  BY <1>3 DEF StreamInv, Act, HostStep, HostFault, HostRequest, NoTicket, Land, Cut, Arrive, Create, Announce,
     ExecDies, Reject, Publish, Name, NameDrained, Enqueue, Admit, StopQueued, ExpireQueued,
     Finish, OrphanEnds, End, LaneSupervisorDies, RemoteCancel, RemoteWithdraw, RemoteShutdown,
     Reboot, PowerOff
<1> QED
  BY <1>1, <1>2, <1>3 DEF StreamInv, Others

-----------------------------------------------------------------------------
(* What the answers of a host prove. *)

\* A record that classifyRemoteResult or a reconcile builds on.
LEMMA RecordSettles ==
    ASSUME HostIInv, NEW r \in Runner
    PROVE  /\ record[r] \in Proofs => ~MayRun(r)
           /\ record[r] = "cancelled" => (MayRun(r) => Disowned(r))
BY DEF HostIInv, HostInv, HostInvAt, MayRun, Live, Proofs, Disowned

LEMMA WithdrawSettles ==
    ASSUME HostIInv, NEW r \in Runner, RemoteWithdraw(r), GivenUp(r)
    PROVE  ~MayRun(r)'
BY DEF HostIInv, HostInv, HostInvAt, HostTypeOK, MayRun, Live, RemoteWithdraw, GivenUp

LEMMA CancelFences ==
    ASSUME HostIInv, NEW r \in Runner, RemoteCancel(r)
    PROVE  Fenced(r)'
BY DEF HostIInv, HostInv, HostInvAt, HostTypeOK, MayRun, Live, Fenced, RemoteCancel

LEMMA ConfirmSettles ==
    ASSUME NEW r, Fenced(r), Confirms(r)
    PROVE  ~MayRun(r)
BY DEF Fenced, Confirms

LEMMA PowerOffSettles ==
    ASSUME HostIInv, NEW r \in Runner, PowerOff(r)
    PROVE  ~MayRun(r)'
BY DEF HostIInv, HostInv, HostInvAt, HostTypeOK, MayRun, Live, PowerOff

LEMMA CutSettles ==
    ASSUME HostIInv, NEW r \in Runner, Cut(r), wire[r] # "whole", lane[r] = "none"
    PROVE  ~MayRun(r)'
BY DEF HostIInv, HostTypeOK, MayRun, Live, Cut

LEMMA NoTicketSettles ==
    ASSUME HostIInv, StreamInv, NEW r \in Runner, wire[r] = "noticket"
    PROVE  ~MayRun(r)
BY DEF HostIInv, HostInv, HostInvAt, StreamInv, MayRun, Live

-----------------------------------------------------------------------------
(* Every step, seen from the hosts. *)

\* The supervisor asks its runner for something; it does not.
SupCalls == Upload \/ UploadFails \/ Withdraw \/ Expire \/ GiveUp \/ Cancel
SupRemote ==
    \/ PlaceNowhere \/ SnapshotSent \/ WatchStops \/ WithdrawLost \/ Close \/ Fetch
    \/ ExpireReply \/ Late \/ StopPolling \/ Abort \/ CancelReply \/ Stopped \/ Moved
    \/ \E r \in Runner : Place(r)
    \/ \E to \in Target : WatchQueued(to)
SupHere ==
    \/ Fallback \/ Restore \/ Requeue \/ LocalStart \/ LocalCancelled \/ LocalRefused
    \/ LocalEnds \/ Rebind \/ PublishResult \/ ClearMarkers
    \/ \E r \in Runner : RebindDispatch(r)
Ends == Leave \/ Crash \/ Abandon
HostAny(r) == HostActs(r) \/ StrayArrives(r) \/ HostFails(r)

LEMMA Cases ==
    ASSUME [Next]_vars
    PROVE  \/ Send \/ SupCalls \/ SupRemote \/ SupHere \/ Ends \/ AfterDeath
           \/ \E a \in Actor : RecStep(a)
           \/ \E c \in Canceller : CanStep(c)
           \/ \E r \in Runner : HostAny(r)
           \/ UNCHANGED vars
BY DEF Next, SupStep, SupCalls, SupRemote, SupHere, Ends, HostAny

\* A dispatch reaches its runner.
Dispatch == /\ Send /\ Arrive(att.runner) /\ att.runner \in Runner \ off
            /\ pc' = "upload" /\ UNCHANGED att

HostEffect == UNCHANGED host \/ \E r \in Runner : Calm(r)

LEMMA SendEffect ==
    ASSUME BindInv, Send
    PROVE  Dispatch \/ UNCHANGED host
BY DEF Send, To, Dispatch, BindInv, Bound

LEMMA SupEffect ==
    ASSUME BindInv, SupCalls \/ SupRemote \/ SupHere
    PROVE  HostEffect
<1>1. CASE SupCalls
  <2>1. att.runner \in Runner
    BY <1>1 DEF SupCalls, Upload, UploadFails, Withdraw, Expire, GiveUp, Cancel, BindInv, Bound
  <2>2. Calm(att.runner) \/ UNCHANGED host
    BY <1>1 DEF SupCalls, Upload, UploadFails, Withdraw, Expire, GiveUp, Cancel, Calm
  <2> QED
    BY <2>1, <2>2 DEF HostEffect
<1>2. CASE SupRemote
  BY <1>2 DEF SupRemote, PlaceNowhere, SnapshotSent, WatchStops, WithdrawLost, Close, Fetch, ExpireReply,
     Late, StopPolling, Abort, CancelReply, Stopped, Moved, Place, WatchQueued, HostEffect
<1>3. CASE SupHere
  BY <1>3 DEF SupHere, Fallback, Restore, Requeue, LocalStart, LocalCancelled, LocalRefused, LocalEnds, Rebind,
     PublishResult, ClearMarkers, RebindDispatch, HostEffect
<1> QED
  BY <1>1, <1>2, <1>3

LEMMA EndsEffect ==
    ASSUME BindInv, Ends \/ AfterDeath
    PROVE  HostEffect
<1>1. CASE Ends
  <2>1. pc = "upload" => att.runner \in Runner
    BY DEF BindInv, Bound
  <2> QED
    BY <1>1, <2>1 DEF Ends, Leave, Crash, Abandon, Dead, HostEffect, Calm
<1>2. CASE AfterDeath
  BY <1>2 DEF AfterDeath, Recover, ReapQueue, LocalOrphanEnds, SettleLocal, HostEffect
<1> QED
  BY <1>1, <1>2

LEMMA RecEffect ==
    ASSUME BindInv, NEW a \in Actor, RecInv(a), RecStep(a)
    PROVE  HostEffect
<1> USE DEF HostEffect, Calm
<1>1. CASE Reconcile(a) \/ ReconcileReply(a) \/ ReconcileLate(a) \/ SettleStranded(a) \/ ReconcilePublish(a)
  BY <1>1 DEF Reconcile, ReconcileReply, ReconcileLate, SettleStranded, ReconcilePublish
<1>2. CASE ReconcileCancel(a)
  BY <1>2 DEF ReconcileCancel, RecInv
<1>3. CASE StrandedRedo(a)
  BY <1>3 DEF StrandedRedo, RecInv, BindInv
<1>4. CASE StrandedDestination(a)
  BY <1>4 DEF StrandedDestination, RecInv
<1> QED
  BY <1>1, <1>2, <1>3, <1>4 DEF RecStep

LEMMA CanEffect ==
    ASSUME RemoteTypeOK, NEW c \in Canceller, CanStep(c)
    PROVE  HostEffect
<1>1. CASE CancelHere(c) \/ CancelLive(c) \/ CancelWait(c) \/ CancelOrphan(c) \/ CancelAnswer(c) \/ CancelPublish(c)
  BY <1>1 DEF CancelHere, CancelLive, CancelWait, CancelOrphan, CancelAnswer, CancelPublish, HostEffect
<1>2. CASE CancelAsk(c)
  BY <1>2 DEF CancelAsk, RemoteTypeOK, HostEffect, Calm
<1> QED
  BY <1>1, <1>2 DEF CanStep

LEMMA AnyEffect ==
    ASSUME NEW r \in Runner, HostAny(r)
    PROVE  HostEffect
BY DEF HostAny, HostActs, StrayArrives, HostFails, HostEffect, Calm

\* A step dispatches the job, or makes no host run it.
LEMMA Effect ==
    ASSUME IInv, [Next]_vars
    PROVE  Dispatch \/ HostEffect
<1>1. BindInv /\ RemoteTypeOK /\ (\A a \in Actor : RecInv(a))
  BY DEF IInv, AttemptInv
<1>2. CASE UNCHANGED vars
  BY <1>2 DEF vars, HostEffect
<1> QED
  BY <1>1, <1>2, Cases, SendEffect, SupEffect, EndsEffect, RecEffect, CanEffect, AnyEffect
     DEF HostEffect

LEMMA HostStays ==
    ASSUME IInv, [Next]_vars
    PROVE  HostIInv' /\ StreamInv' /\ [HostNext]_host
<1>1. HostIInv /\ StreamInv
  BY DEF IInv, AttemptInv
<1>2. ASSUME NEW r \in Runner, Act(r) PROVE HostIInv' /\ StreamInv' /\ HostNext
  BY <1>1, <1>2, Inductive, StreamStep DEF HostNext, Act
<1>3. CASE UNCHANGED host
  BY <1>1, <1>3, Inductive DEF host, StreamInv
<1>4. CASE Dispatch
  <2>1. att.runner \in Runner /\ Act(att.runner)
    BY <1>4 DEF Dispatch, Act, HostRequest
  <2> QED
    BY <2>1, <1>2
<1>5. CASE \E r \in Runner : Calm(r)
  BY <1>5, <1>2, CalmAct
<1> QED
  BY <1>3, <1>4, <1>5, Effect DEF HostEffect

-----------------------------------------------------------------------------
(* Types. *)

AttType ==
    att \in [held: BOOLEAN, gen: {0, 1}, executor: {"remote", "local"},
             runner: Runner \cup {None}, sent: SUBSET Runner,
             moving: [phase: {"none", "withdrawing", "dispatching"},
                      from: Runner \cup {None}, to: Target \cup {None}]]

WorldType == /\ stray \subseteq {"cancel", "withdraw"} \X Runner
             /\ off \subseteq Runner /\ faults \in 0..MaxFaults

SupType == /\ aborted \in BOOLEAN /\ proven \in BOOLEAN
           /\ local \in {"none", "alive", "gone"}
           /\ pc \in PC
           /\ verdict \in Results \cup {"none"} /\ (pc = "publish" => verdict # "none")
           /\ want \in Target \cup {None}
           /\ conf \in {"unasked", "yes", "no"}

DiskType == /\ mark \in BOOLEAN /\ result \in Results \cup {"none"}
            /\ queue \in {"none", "queued", "parked"}

RecType == rpc \in [Actor -> RPC] /\ rverdict \in [Actor -> Results \cup {"none"}]
CanType == /\ cpc \in [Canceller -> CPC] /\ ask \in [Canceller -> SUBSET Runner]
           /\ asked \in [Canceller -> Runner \cup {None}] /\ unsure \in [Canceller -> BOOLEAN]

LEMMA Types ==
    /\ RemoteTypeOK <=> HostTypeOK /\ AttType /\ WorldType /\ SupType /\ DiskType /\ RecType /\ CanType
    /\ RemoteTypeOK' <=> HostTypeOK' /\ AttType' /\ WorldType' /\ SupType' /\ DiskType' /\ RecType' /\ CanType'
BY DEF RemoteTypeOK, AttType, WorldType, SupType, DiskType, RecType, CanType

LEMMA FaultType ==
    ASSUME WorldType, NEW k, Fault(k)
    PROVE  faults' \in 0..MaxFaults
BY RemoteAssumption DEF Fault, WorldType

LEMMA CallType ==
    ASSUME WorldType, NEW r \in Runner, NEW op \in {"cancel", "withdraw"},
           Answered(r) \/ Lost(op, r) \/ Unheard(r)
    PROVE  WorldType'
<1>1. CASE UNCHANGED world
  BY <1>1 DEF WorldType, world
<1>2. ASSUME NEW k, Fault(k), stray' \in {stray, stray \cup {<<op, r>>}}, UNCHANGED off PROVE WorldType'
  BY <1>2, FaultType DEF WorldType
<1> QED
  BY <1>1, <1>2 DEF Answered, Lost, Unheard

LEMMA StillType ==
    ASSUME AttType
    PROVE  /\ Still \in [held: BOOLEAN, gen: {0, 1}, executor: {"remote", "local"},
                         runner: Runner \cup {None}, sent: SUBSET Runner,
                         moving: [phase: {"none", "withdrawing", "dispatching"},
                                  from: Runner \cup {None}, to: Target \cup {None}]]
           /\ Removed \in [held: BOOLEAN, gen: {0, 1}, executor: {"remote", "local"},
                         runner: Runner \cup {None}, sent: SUBSET Runner,
                         moving: [phase: {"none", "withdrawing", "dispatching"},
                                  from: Runner \cup {None}, to: Target \cup {None}]]
           /\ Still = [att EXCEPT !.moving = NoMove] /\ Removed = [att EXCEPT !.held = FALSE]
BY DEF AttType, Still, Removed, NoMove

LEMMA DispatchedType ==
    ASSUME AttType, NEW r \in Runner
    PROVE  /\ Dispatched(r) \in [held: BOOLEAN, gen: {0, 1}, executor: {"remote", "local"},
                         runner: Runner \cup {None}, sent: SUBSET Runner,
                         moving: [phase: {"none", "withdrawing", "dispatching"},
                                  from: Runner \cup {None}, to: Target \cup {None}]]
           /\ Dispatched(r).runner = r /\ Dispatched(r).sent = att.sent \cup {r}
           /\ Dispatched(r).executor = "remote" /\ Dispatched(r).held = att.held
           /\ Dispatched(r).moving = att.moving /\ Dispatched(r).gen = att.gen
<1>1. att.sent \cup {r} \in SUBSET Runner
  BY DEF AttType
<1> DEFINE d1 == [att EXCEPT !.executor = "remote"]
           d2 == [d1 EXCEPT !.runner = r]
           d3 == [d2 EXCEPT !.sent = att.sent \cup {r}]
<1>2. AttType => d1.sent = att.sent /\ d2.sent = att.sent
  BY DEF AttType
<1>3. Dispatched(r) = d3
  BY <1>2 DEF Dispatched, AttType
<1> QED
  BY <1>1, <1>3 DEF AttType

\* The dispatch steps change the attempt in the ways below.
LEMMA AttSup ==
    ASSUME AttType, BindInv, SupType, Send \/ SupCalls \/ SupRemote \/ SupHere
    PROVE  AttType'
<1>1. CASE UNCHANGED att \/ att' = Still \/ att' = Removed
  BY <1>1, StillType DEF AttType
<1>2. CASE Send \/ SupCalls
  BY <1>2, <1>1 DEF Send, SupCalls, Upload, UploadFails, Withdraw, Expire, GiveUp, Cancel, To, Doubt, disk
<1>3. CASE \E r \in Runner : att' = Dispatched(r)
  BY <1>3, DispatchedType DEF AttType
<1>4. CASE SupRemote
  <2>1. CASE Moved
    <3>1. CASE want = Refuse
      BY <1>1, <2>1, <3>1 DEF Moved
    <3>2. CASE want # Refuse
      <4>1. want \in Runner /\ att.runner \in Runner
        BY <2>1, <3>2 DEF Moved, SupType, BindInv, Bound, Target
      <4>2. [phase |-> "dispatching", from |-> att.runner, to |-> want]
               \in [phase: {"none", "withdrawing", "dispatching"},
                    from: Runner \cup {None}, to: Target \cup {None}]
        BY <4>1 DEF Target
      <4> QED
        BY <2>1, <3>2, <4>1, <4>2, DispatchedType DEF Moved, AttType
    <3> QED
      BY <3>1, <3>2
  <2>2. ASSUME NEW to \in Target, WatchQueued(to) PROVE AttType'
    BY <2>2 DEF WatchQueued, AttType
  <2>3. CASE Fetch \/ Late
    BY <2>3, <1>1 DEF Fetch, Late, Classify, Doubt, To
  <2> QED
    BY <1>4, <2>1, <2>2, <2>3, <1>1, <1>3 DEF SupRemote, PlaceNowhere, SnapshotSent, WatchStops, WithdrawLost, Close,
       ExpireReply, StopPolling, Abort, CancelReply, Stopped, Place, disk
<1>5. CASE SupHere
  <2>1. CASE Fallback \/ Restore
    BY <2>1 DEF Fallback, Restore, AttType
  <2> QED
    BY <1>5, <2>1, <1>1, <1>3 DEF SupHere, Requeue, LocalStart, LocalCancelled, LocalRefused, LocalEnds, Rebind,
       PublishResult, Settle, ClearMarkers, RebindDispatch, disk
<1> QED
  BY <1>2, <1>4, <1>5

\* Outcomes.
LEMMA ResultWords ==
    /\ {"completed", "cancelled", "refused", "lost", "local", "none"} \subseteq Results \cup {"none"}
    /\ Kinds \subseteq Results \cup {"none"} /\ "none" \notin Kinds
BY DEF Results, Kinds

LEMMA SupSup ==
    ASSUME AttType, BindInv, SupType, DiskType, Send \/ SupCalls \/ SupRemote \/ SupHere
    PROVE  SupType' /\ DiskType'
<1> DEFINE Places == pc' \in PC /\ (pc' = "publish" => verdict' # "none")
           Words == verdict' \in Results \cup {"none"} /\ proven' \in BOOLEAN
           Disk == mark' \in BOOLEAN /\ result' \in Results \cup {"none"}
                   /\ queue' \in {"none", "queued", "parked"}
           Rest == /\ aborted' \in BOOLEAN /\ local' \in {"none", "alive", "gone"}
                   /\ want' \in Target \cup {None} /\ conf' \in {"unasked", "yes", "no"}
<1> SUFFICES Places /\ Words /\ Disk /\ Rest
  BY DEF SupType, DiskType
<1> USE ResultWords
<1>1. ASSUME \E w \in BOOLEAN : Doubt(w) PROVE pc' \in {"proof", "leaving"} /\ UNCHANGED <<proven, verdict>>
  BY <1>1 DEF Doubt, To
<1>2. ASSUME NEW k, \E w \in BOOLEAN : Classify(k, conf, w)
      PROVE  /\ pc' \in {"restore", "publish", "moved", "fallback", "stopped", "proof", "leaving"}
             /\ proven' \in {proven, TRUE, FALSE}
             /\ (UNCHANGED verdict /\ pc' # "publish") \/ verdict' \in Kinds
  BY <1>2, <1>1 DEF Classify, To
<1>3. CASE Fetch
  <2>1. /\ pc' \in {"restore", "publish", "moved", "fallback", "stopped", "proof", "leaving", "giveup", "expire"}
        /\ proven' \in {proven, TRUE, FALSE}
        /\ (UNCHANGED verdict /\ pc' # "publish") \/ verdict' \in Kinds
    BY <1>2, <1>3 DEF Fetch, To
  <2>2. UNCHANGED <<mark, result, queue, local, want, conf, aborted>>
    BY <1>3 DEF Fetch
  <2>3. Disk /\ Rest
    BY <2>2 DEF SupType, DiskType
  <2>4. Places
    BY <2>1 DEF PC, Remote
  <2>5. Words
    BY <2>1 DEF SupType
  <2> QED
    BY <2>3, <2>4, <2>5
<1>4. CASE Late
  <2>1. /\ pc' \in {"restore", "publish", "moved", "fallback", "stopped", "proof", "leaving"}
        /\ proven' \in {proven, TRUE, FALSE}
        /\ (UNCHANGED verdict /\ pc' # "publish") \/ verdict' \in Kinds
    BY <1>1, <1>2, <1>4 DEF Late, To, Kinds
  <2>2. UNCHANGED <<mark, result, queue, local, want, conf, aborted>>
    BY <1>4 DEF Late
  <2>3. Disk /\ Rest
    BY <2>2 DEF SupType, DiskType
  <2>4. Places
    BY <2>1 DEF PC, Remote
  <2>5. Words
    BY <2>1 DEF SupType
  <2> QED
    BY <2>3, <2>4, <2>5
<1>5. CASE GiveUp
  <2>1. pc' \in {"cancel", "moved", "fallback", "proof", "leaving"} /\ proven' \in {proven, TRUE} /\ UNCHANGED verdict
    BY <1>1, <1>5 DEF GiveUp, To
  <2>2. UNCHANGED <<mark, result, queue, local, want, conf, aborted>>
    BY <1>5 DEF GiveUp
  <2>3. Disk /\ Rest
    BY <2>2 DEF SupType, DiskType
  <2>4. Places
    BY <2>1 DEF PC, Remote
  <2>5. Words
    BY <2>1 DEF SupType
  <2> QED
    BY <2>3, <2>4, <2>5
<1>6. CASE Send
  BY <1>6 DEF Send, To, SupType, DiskType, PC, Remote
<1>7. CASE Upload \/ UploadFails \/ SnapshotSent \/ PlaceNowhere
  BY <1>7 DEF Upload, UploadFails, SnapshotSent, PlaceNowhere, SupType, DiskType, PC, Remote, dispatching, disk
<1>8. CASE Withdraw \/ WithdrawLost \/ WatchStops
  BY <1>8 DEF Withdraw, WithdrawLost, WatchStops, SupType, DiskType, AttType, PC, Remote, dispatching, disk
<1>9. CASE Expire \/ ExpireReply \/ Close
  <2>1. pc' \in {"expiring", "late", "cancel", "fetch", "fallback"} /\ proven' \in {proven, TRUE} /\ UNCHANGED verdict
    BY <1>9 DEF Expire, ExpireReply, Close
  <2>2. conf' \in {conf, "yes", "no"} /\ UNCHANGED <<mark, result, queue, local, want, aborted>>
    BY <1>9 DEF Expire, ExpireReply, Close, disk
  <2>3. Disk /\ Rest
    BY <2>2 DEF SupType, DiskType
  <2>4. Places
    BY <2>1 DEF PC, Remote
  <2>5. Words
    BY <2>1, <2>2 DEF SupType
  <2> QED
    BY <2>3, <2>4, <2>5
<1>10. CASE StopPolling \/ Abort
  BY <1>10 DEF StopPolling, Abort, SupType, DiskType, PC, Remote, disk, dispatching
<1>11. CASE Cancel \/ CancelReply
  BY <1>11 DEF Cancel, CancelReply, SupType, DiskType, PC, Remote, dispatching
<1>12. CASE Stopped \/ Moved
  <2>1. pc' \in {"send", "fallback"} /\ proven' \in {proven, TRUE}
    BY <1>12 DEF Stopped, Moved
  <2>2. UNCHANGED <<mark, result, queue, local, verdict, want, conf, aborted>>
    BY <1>12 DEF Stopped, Moved
  <2>3. Disk /\ Rest
    BY <2>2 DEF SupType, DiskType
  <2>4. Places
    BY <2>1 DEF PC, Remote
  <2>5. Words
    BY <2>1, <2>2 DEF SupType
  <2> QED
    BY <2>3, <2>4, <2>5
<1>13. CASE Fallback \/ Restore \/ Requeue
  BY <1>13 DEF Fallback, Restore, Requeue, SupType, DiskType, PC, Remote, dispatching
<1>14. CASE LocalStart \/ LocalCancelled \/ LocalRefused \/ LocalEnds \/ Rebind
  BY <1>14 DEF LocalStart, LocalCancelled, LocalRefused, LocalEnds, Rebind, SupType, DiskType,
     PC, Remote, dispatching, disk
<1>15. CASE PublishResult \/ ClearMarkers
  BY <1>15 DEF PublishResult, Settle, ClearMarkers, SupType, DiskType, PC, Remote, dispatching
<1>16. ASSUME NEW r \in Runner, Place(r) \/ RebindDispatch(r) PROVE Places /\ Words /\ Disk /\ Rest
  BY <1>16 DEF Place, RebindDispatch, SupType, DiskType, PC, Remote, dispatching
<1>17. ASSUME NEW to \in Target, WatchQueued(to) PROVE Places /\ Words /\ Disk /\ Rest
  BY <1>17 DEF WatchQueued, SupType, DiskType, PC, Remote, dispatching
<1> HIDE DEF Places, Words, Disk, Rest
<1> QED
  BY <1>3, <1>4, <1>5, <1>6, <1>7, <1>8, <1>9, <1>10, <1>11, <1>12, <1>13, <1>14, <1>15, <1>16, <1>17
     DEF SupCalls, SupRemote, SupHere

LEMMA WorldSup ==
    ASSUME WorldType, BindInv, Send \/ SupCalls \/ SupRemote \/ SupHere
    PROVE  WorldType' /\ UNCHANGED <<rec, can>>
<1>1. ASSUME UNCHANGED world PROVE WorldType'
  BY <1>1 DEF world, WorldType
<1>2. CASE Send \/ Upload \/ UploadFails
  BY <1>2, <1>1 DEF Send, Upload, UploadFails
<1>3. CASE Withdraw \/ Expire \/ GiveUp \/ Cancel \/ WithdrawLost \/ Fetch \/ ExpireReply \/ Late \/ CancelReply
  <2>1. att.runner \in Runner
    BY <1>3 DEF Withdraw, Expire, GiveUp, Cancel, WithdrawLost, Fetch, ExpireReply, Late, CancelReply, BindInv, Bound
  <2>2. \/ UNCHANGED world
        \/ \E op \in {"cancel", "withdraw"} :
              Answered(att.runner) \/ Lost(op, att.runner) \/ Unheard(att.runner)
    BY <1>3 DEF Withdraw, Expire, GiveUp, Cancel, WithdrawLost, Fetch, ExpireReply, Late, CancelReply, world
  <2>3. UNCHANGED <<rec, can>>
    BY <1>3 DEF Withdraw, Expire, GiveUp, Cancel, WithdrawLost, Fetch, ExpireReply, Late, CancelReply
  <2> QED
    BY <1>1, <2>1, <2>2, <2>3, CallType
<1>4. CASE SupRemote
  BY <1>1, <1>3, <1>4 DEF SupRemote, PlaceNowhere, SnapshotSent, WatchStops, Close, StopPolling, Abort, Stopped,
     Moved, Place, WatchQueued
<1>5. CASE SupHere
  BY <1>1, <1>5 DEF SupHere, Fallback, Restore, Requeue, LocalStart, LocalCancelled, LocalRefused, LocalEnds,
     Rebind, PublishResult, ClearMarkers, RebindDispatch
<1> QED
  BY <1>2, <1>3, <1>4, <1>5 DEF SupCalls

LEMMA TypeSup ==
    ASSUME RemoteTypeOK, HostTypeOK', BindInv, Send \/ SupCalls \/ SupRemote \/ SupHere
    PROVE  RemoteTypeOK'
<1>1. RecType' /\ CanType'
  BY Types, WorldSup DEF RecType, CanType, rec, can
<1> QED
  BY <1>1, Types, AttSup, SupSup, WorldSup

LEMMA TypeEnds ==
    ASSUME RemoteTypeOK, HostTypeOK', Ends \/ AfterDeath
    PROVE  RemoteTypeOK'
<1>1. CASE Ends
  <2>1. AttType' /\ DiskType' /\ CanType'
    BY <1>1, Types DEF Ends, Leave, Crash, Abandon, Dead, disk, can, AttType, DiskType, CanType
  <2>2. WorldType'
    BY <1>1, Types, FaultType DEF Ends, Leave, Crash, Abandon, world, WorldType
  <2>3. SupType'
    BY <1>1, Types DEF Ends, Leave, Crash, Abandon, Dead, SupType, PC
  <2>4. RecType'
    BY <1>1, Types DEF Ends, Leave, Crash, Abandon, Dead, RecType, RPC
  <2> QED
    BY <2>1, <2>2, <2>3, <2>4, Types
<1>2. CASE AfterDeath
  <2>1. AttType'
    BY <1>2, Types, StillType DEF AfterDeath, Recover, ReapQueue, LocalOrphanEnds, SettleLocal, AttType, disk
  <2>2. SupType' /\ DiskType'
    BY <1>2, Types DEF AfterDeath, Recover, ReapQueue, LocalOrphanEnds, SettleLocal, SupType, DiskType, disk,
       sup, dispatching, Results
  <2>3. RecType' /\ CanType' /\ WorldType'
    BY <1>2, Types DEF AfterDeath, Recover, ReapQueue, LocalOrphanEnds, SettleLocal, RecType, CanType, WorldType,
       rec, can, world
  <2> QED
    BY <2>1, <2>2, <2>3, Types
<1> QED
  BY <1>1, <1>2

LEMMA TypeRec ==
    ASSUME RemoteTypeOK, HostTypeOK', BindInv, NEW a \in Actor, RecInv(a), RecStep(a)
    PROVE  RemoteTypeOK'
<1> DEFINE Goes(v) == \E l \in RPC : Go(a, l, v)
<1>1. ASSUME NEW v \in Results \cup {"none"}, Goes(v) PROVE RecType'
  BY <1>1, Types DEF Go, RecType
<1>2. \A k : Adopt(k) \in Results \cup {"none"}
  BY DEF Adopt, Results
<1>3. RecType'
  <2>1. Idle(a) => Goes("none")
    BY DEF Idle, RPC
  <2>2. "publish" \in RPC /\ "cancel" \in RPC /\ "cancelling" \in RPC /\ "late" \in RPC
        /\ "redo" \in RPC /\ "dest" \in RPC /\ "tomb" \in RPC /\ "again" \in RPC
    BY DEF RPC
  <2>3. "none" \in Results \cup {"none"} /\ "lost" \in Results /\ "abandoned" \in Results
        /\ "completed" \in Results /\ "refused" \in Results
    BY DEF Results, Kinds
  <2>4. ASSUME NEW v \in Results \cup {"none"}, NEW l \in RPC, Go(a, l, v) PROVE RecType'
    BY <2>4, <1>1
  <2> HIDE DEF Goes
  <2>5. Idle(a) => RecType'
    BY <2>1, <2>3, <1>1
  <2>6. CASE Reconcile(a)
    BY <2>6, <2>2, <2>3, <2>4, <1>2 DEF Reconcile
  <2>7. CASE ReconcileCancel(a) \/ ReconcileReply(a)
    BY <2>7, <2>2, <2>3, <2>4, <2>5 DEF ReconcileCancel, ReconcileReply
  <2>8. CASE ReconcileLate(a)
    BY <2>8, <2>2, <2>3, <2>4, <1>2 DEF ReconcileLate
  <2>9. CASE SettleStranded(a) \/ StrandedRedo(a)
    BY <2>9, <2>2, <2>3, <2>4, <2>5 DEF SettleStranded, StrandedRedo
  <2>10. CASE StrandedDestination(a) \/ ReconcilePublish(a)
    BY <2>10, <2>2, <2>3, <2>4, <2>5 DEF StrandedDestination, ReconcilePublish
  <2> QED
    BY <2>6, <2>7, <2>8, <2>9, <2>10 DEF RecStep
<1>4. CASE ReconcilePublish(a)
  <2>1. AttType'
    BY <1>4, Types, StillType DEF ReconcilePublish, Settle, AttType
  <2>2. DiskType'
    BY <1>4, Types DEF ReconcilePublish, Settle, DiskType, RecType, Results, Kinds
  <2>3. SupType'
    BY <1>4, Types DEF ReconcilePublish, SupType, PC, Remote, dispatching
  <2>4. CanType' /\ WorldType'
    BY <1>4, Types DEF ReconcilePublish, CanType, WorldType, can, world
  <2> QED
    BY <1>3, <2>1, <2>2, <2>3, <2>4, Types
<1>5. ASSUME Quiet, WorldType' PROVE RemoteTypeOK'
  <2>1. AttType' /\ SupType' /\ DiskType' /\ CanType'
    BY <1>5, Types DEF Quiet, disk, sup, dispatching, can, AttType, SupType, DiskType, CanType
  <2> QED
    BY <1>3, <1>5, <2>1, Types
<1>6. CASE UNCHANGED world /\ Quiet
  BY <1>6, <1>5, Types DEF world, WorldType
<1>7. CASE Reconcile(a)
  BY <1>7, <1>5, <1>6, FaultType, Types DEF Reconcile, Answered, WorldType
<1>8. CASE ReconcileCancel(a) \/ ReconcileReply(a) \/ ReconcileLate(a)
  <2>1. att.runner \in Runner
    BY <1>8 DEF ReconcileCancel, ReconcileReply, ReconcileLate, RecInv
  <2>2. \E op \in {"cancel", "withdraw"} :
           Answered(att.runner) \/ Lost(op, att.runner) \/ Unheard(att.runner)
    BY <1>8 DEF ReconcileCancel, ReconcileReply, ReconcileLate
  <2>3. WorldType'
    BY <2>1, <2>2, CallType, Types
  <2> QED
    BY <1>8, <1>5, <2>3 DEF ReconcileCancel, ReconcileReply, ReconcileLate
<1>9. CASE SettleStranded(a)
  BY <1>9, <1>6 DEF SettleStranded, Answered
<1>10. CASE StrandedRedo(a)
  <2>1. att.moving.from \in Runner
    BY <1>10 DEF StrandedRedo, RecInv, BindInv
  <2>2. \E op \in {"cancel", "withdraw"} : Answered(att.moving.from) \/ Lost(op, att.moving.from)
    BY <1>10 DEF StrandedRedo
  <2> QED
    BY <1>10, <1>5, <2>1, <2>2, CallType, Types DEF StrandedRedo
<1>11. CASE StrandedDestination(a)
  <2>1. att.moving.to \in Runner
    BY <1>11 DEF StrandedDestination, RecInv
  <2>2. \E op \in {"cancel", "withdraw"} :
           Answered(att.moving.to) \/ Lost(op, att.moving.to) \/ Unheard(att.moving.to)
    BY <1>11 DEF StrandedDestination
  <2> QED
    BY <1>11, <1>5, <2>1, <2>2, CallType, Types DEF StrandedDestination
<1> QED
  BY <1>4, <1>7, <1>8, <1>9, <1>10, <1>11 DEF RecStep

LEMMA TypeCan ==
    ASSUME RemoteTypeOK, HostTypeOK', NEW c \in Canceller, CanInv(c), CanStep(c)
    PROVE  RemoteTypeOK'
<1>1. Involved \in SUBSET Runner
  BY Types DEF Involved, AttType, Target
<1>2. CanType'
  <2>1. ASSUME NEW l \in CPC, NEW rs \in SUBSET Runner, Step(c, l, rs) PROVE CanType'
    BY <2>1, Types DEF Step, CanType
  <2>2. ASSUME NEW r, NEW b \in BOOLEAN, Told(c, r, b) PROVE CanType'
    BY <2>2, Types DEF Told, CanType
  <2>3. CASE CancelHere(c) \/ CancelLive(c) \/ CancelWait(c) \/ CancelOrphan(c) \/ CancelPublish(c)
    BY <2>3, <2>1, <1>1 DEF CancelHere, CancelLive, CancelWait, CancelOrphan, CancelPublish, CPC
  <2>4. CASE CancelAsk(c)
    BY <2>4, <2>2, Types DEF CancelAsk, CanType
  <2>5. CASE CancelAnswer(c)
    BY <2>5, <2>2 DEF CancelAnswer, Confirms
  <2> QED
    BY <2>3, <2>4, <2>5 DEF CanStep
<1>3. RecType'
  BY Types DEF CanStep, CancelHere, CancelLive, CancelWait, CancelOrphan, CancelAsk, CancelAnswer, CancelPublish,
     rec, RecType
<1>4. SupType'
  BY Types DEF CanStep, CancelHere, CancelLive, CancelWait, CancelOrphan, CancelAsk, CancelAnswer, CancelPublish,
     sup, dispatching, SupType
<1>5. AttType'
  BY Types, StillType DEF CanStep, CancelHere, CancelLive, CancelWait, CancelOrphan, CancelAsk, CancelAnswer,
     CancelPublish, Settle, disk, AttType
<1>6. DiskType'
  BY Types DEF CanStep, CancelHere, CancelLive, CancelWait, CancelOrphan, CancelAsk, CancelAnswer,
     CancelPublish, Settle, disk, DiskType, Results, Kinds
<1>7. WorldType'
  <2>1. CASE UNCHANGED world
    BY <2>1, Types DEF world, WorldType
  <2>2. CASE CancelAsk(c)
    BY <2>2, CallType, Types DEF CancelAsk, CanType
  <2>3. CASE CancelAnswer(c)
    BY <2>3, CallType, Types DEF CancelAnswer, CanType
  <2> QED
    BY <2>1, <2>2, <2>3 DEF CanStep, CancelHere, CancelLive, CancelWait, CancelOrphan, CancelPublish
<1> QED
  BY <1>2, <1>3, <1>4, <1>5, <1>6, <1>7, Types

LEMMA TypeHost ==
    ASSUME RemoteTypeOK, HostTypeOK', NEW r \in Runner, HostAny(r)
    PROVE  RemoteTypeOK'
<1>1. AttType' /\ SupType' /\ DiskType'
  BY Types DEF HostAny, HostActs, StrayArrives, HostFails, AttType, SupType, DiskType, disk, sup, dispatching
<1>2. RecType' /\ CanType'
  BY Types DEF HostAny, HostActs, StrayArrives, HostFails, RecType, CanType, rec, can
<1>3. WorldType'
  BY Types, RemoteAssumption DEF HostAny, HostActs, StrayArrives, HostFails, WorldType, world
<1> QED
  BY <1>1, <1>2, <1>3, Types

LEMMA TypeStays ==
    ASSUME IInv, [Next]_vars
    PROVE  RemoteTypeOK'
<1>1. /\ RemoteTypeOK /\ BindInv
      /\ (\A a \in Actor : RecInv(a)) /\ (\A c \in Canceller : CanInv(c))
  BY DEF IInv, AttemptInv
<1>2. HostTypeOK'
  BY HostStays DEF HostIInv
<1>3. CASE UNCHANGED vars
  <2>1. AttType' /\ SupType' /\ DiskType' /\ WorldType'
    BY <1>1, <1>3, Types DEF vars, AttType, SupType, DiskType, WorldType, disk, sup, dispatching, world
  <2>2. RecType' /\ CanType'
    BY <1>1, <1>3, Types DEF vars, RecType, CanType, rec, can
  <2> QED
    BY <1>2, <2>1, <2>2, Types
<1> QED
  BY <1>1, <1>2, <1>3, Cases, TypeSup, TypeEnds, TypeRec, TypeCan, TypeHost

-----------------------------------------------------------------------------
(* Where the job may run, along the supervisor's steps. *)

LEMMA Fields ==
    ASSUME AttType
    PROVE  /\ Still.runner = att.runner /\ Still.sent = att.sent /\ Still.executor = att.executor
           /\ Still.held = att.held /\ Still.gen = att.gen /\ Still.moving = NoMove
           /\ Removed.runner = att.runner /\ Removed.sent = att.sent /\ Removed.executor = att.executor
           /\ Removed.held = FALSE /\ Removed.gen = att.gen /\ Removed.moving = att.moving
BY DEF AttType, Still, Removed

\* The supervisor goes on with the same runner, and claims nothing new of it but
\* what its answer proves.
Along == /\ att'.runner = att.runner /\ att'.executor = att.executor
         /\ pc' \notin Safe /\ (conf' = "yes" => conf = "yes")
         /\ pc' \in {"expiring", "cancelling"} => Fenced(att.runner)'
         /\ Steady /\ pc' = "publish" => AllGone'

LEMMA ClassifyRun ==
    ASSUME HostIInv, RunInv, AttType, Keeps, pc \in Bound, NEW q \in Runner, q = att.runner,
           NEW w \in BOOLEAN, Classify(record[q], conf, w), UNCHANGED conf
    PROVE  NoneRuns' \/ Along
<1>1. ASSUME ~MayRun(q) \/ conf = "yes" PROVE NoneRuns'
  BY <1>1, KeepsGone DEF RunInv, NoneRuns
<1>2. CASE record[q] \in Proofs
  BY <1>1, <1>2, RecordSettles
<1>3. CASE record[q] = "cancelled"
  <2>1. AllGone'
    <3>1. MayRun(q) => Disowned(q)
      BY <1>3, RecordSettles
    <3>2. AllGone
      BY <3>1 DEF AllGone, RunInv
    <3> QED
      BY <3>2, KeepsGone
  <2>2. pc' = "publish" /\ att' = Still
    BY <1>3 DEF Classify, Kinds
  <2> QED
    BY <2>1, <2>2, Fields DEF Along, Safe, Home
<1>4. CASE record[q] \notin Proofs \cup {"cancelled"} /\ conf # "yes"
  <2>1. Doubt(w)
    BY <1>4 DEF Classify, Kinds, NeverStarted, Proofs
  <2>2. pc' \in {"proof", "leaving"} /\ att' = att
    BY <2>1 DEF Doubt, To
  <2> QED
    BY <2>2 DEF Along, Safe, Home
<1> QED
  BY <1>1, <1>2, <1>3, <1>4

LEMMA SupRun ==
    ASSUME IInv, Keeps, Send \/ SupCalls \/ SupRemote \/ SupHere
    PROVE  NoneRuns' \/ Along
<1>1. HostIInv /\ StreamInv /\ BindInv /\ RunInv /\ SettleInv /\ AttType
  BY Types DEF IInv, AttemptInv
<1>2. ASSUME pc \in Safe \/ conf = "yes" PROVE NoneRuns'
  BY <1>1, <1>2, KeepsGone DEF RunInv
<1>3. CASE PublishResult \/ ClearMarkers
  <2>1. att' \in {att, Removed} /\ pc' \in {"clear", "leaving"} /\ UNCHANGED conf
    BY <1>3 DEF PublishResult, ClearMarkers, Settle, dispatching
  <2> QED
    BY <1>1, <2>1, Fields DEF Along, Safe, Home
<1>4. ASSUME pc \notin Safe, ~(PublishResult \/ ClearMarkers) PROVE NoneRuns' \/ Along
  <2>1. pc \notin Safe => \/ SupCalls \/ SnapshotSent \/ WatchStops \/ WithdrawLost \/ Close \/ Fetch
                          \/ ExpireReply \/ Late \/ StopPolling \/ Abort \/ CancelReply
                          \/ \E to \in Target : WatchQueued(to)
    BY <1>4 DEF SupRemote, SupHere, Send, PlaceNowhere, Stopped, Moved, Place, Fallback, Restore, Requeue, LocalStart,
       LocalCancelled, LocalRefused, LocalEnds, Rebind, RebindDispatch, Safe, Home
  <2>2. pc \in Bound
    BY <1>4, <2>1 DEF SupCalls, Upload, UploadFails, Withdraw, Expire, GiveUp, Cancel, SnapshotSent, WatchStops,
       WithdrawLost, Close, Fetch, ExpireReply, Late, StopPolling, Abort, CancelReply, WatchQueued, Bound
  <2>3. PICK q \in Runner : q = att.runner
    BY <1>1, <2>2 DEF BindInv
  <2>4. ASSUME ~MayRun(q) \/ ~MayRun(q)' PROVE NoneRuns'
    BY <1>1, <2>3, <2>4 DEF RunInv, NoneRuns, Keeps
  <2> DEFINE Plain == /\ att'.runner = att.runner /\ att'.executor = att.executor
                      /\ pc' \in {"open", "landed", "withdraw", "fetch", "expire", "late", "giveup",
                                  "proof", "cancel", "leaving"}
                      /\ conf' \in {conf, "no"}
  <2>5. Plain => Along
    BY DEF Along, Safe, Home
  <2>6. ASSUME \E w \in BOOLEAN : Doubt(w), UNCHANGED conf PROVE Plain
    BY <2>6 DEF Doubt, To
  <2>7. CASE Upload \/ SnapshotSent \/ WatchStops \/ StopPolling \/ Abort \/ WithdrawLost
    <3>1. att' \in {att, Still} /\ UNCHANGED conf
      BY <2>7 DEF Upload, SnapshotSent, WatchStops, StopPolling, Abort, WithdrawLost, disk, dispatching
    <3>2. pc' \in {"open", "landed", "cancel", "fetch", "leaving"}
      BY <2>7 DEF Upload, SnapshotSent, WatchStops, StopPolling, Abort, WithdrawLost
    <3> QED
      BY <1>1, <2>5, <3>1, <3>2, Fields
  <2>8. CASE UploadFails
    <3>1. CASE aborted
      BY <2>5, <2>8, <3>1 DEF UploadFails
    <3>2. CASE ~aborted
      BY <1>1, <2>3, <2>4, <2>8, <3>2, CutSettles DEF UploadFails, BindInv
    <3> QED
      BY <3>1, <3>2
  <2>9. CASE Withdraw
    <3>1. CASE GivenUp(q)
      BY <1>1, <2>3, <2>4, <2>9, <3>1, WithdrawSettles DEF Withdraw
    <3>2. CASE ~GivenUp(q)
      BY <1>1, <2>3, <2>5, <2>9, <3>2, Fields DEF Withdraw
    <3> QED
      BY <3>1, <3>2
  <2>10. CASE Close
    <3>1. CASE pc' = "fallback"
      BY <1>1, <2>3, <2>4, <2>10, <3>1, NoTicketSettles DEF Close
    <3>2. CASE pc' # "fallback"
      BY <2>5, <2>10, <3>2 DEF Close
    <3> QED
      BY <3>1, <3>2
  <2>11. CASE Fetch
    <3>1. CASE \E w \in BOOLEAN : Classify(record[q], conf, w)
      BY <1>1, <2>2, <2>3, <2>11, <3>1, ClassifyRun DEF Fetch
    <3>2. CASE pc' \in {"giveup", "expire"} /\ att' = att
      BY <2>5, <2>11, <3>2 DEF Fetch
    <3> QED
      BY <2>3, <2>11, <3>1, <3>2 DEF Fetch, To
  <2>12. CASE Late
    <3>1. CASE aborted
      <4>1. ~Steady
        BY <1>1, <2>12, <3>1 DEF Late, SettleInv, Steady
      <4>2. pc' = "publish" /\ att' = Still /\ UNCHANGED conf
        BY <2>12, <3>1 DEF Late
      <4> QED
        BY <1>1, <4>1, <4>2, Fields DEF Along, Safe, Home
    <3>2. CASE \E w \in BOOLEAN : Classify(record[q], conf, w)
      BY <1>1, <2>2, <2>3, <2>12, <3>2, ClassifyRun DEF Late
    <3>3. CASE \E w \in BOOLEAN : Doubt(w)
      BY <2>5, <2>6, <2>12, <3>3 DEF Late
    <3> QED
      BY <1>2, <2>3, <2>12, <3>1, <3>2, <3>3 DEF Late
  <2>13. CASE GiveUp
    <3>1. CASE pc' = "cancel" /\ att' = att
      BY <2>5, <2>13, <3>1 DEF GiveUp
    <3>2. CASE \E w \in BOOLEAN : Doubt(w)
      BY <2>5, <2>6, <2>13, <3>2 DEF GiveUp
    <3>3. CASE RemoteWithdraw(q) /\ GivenUp(q)
      BY <1>1, <2>4, <3>3, WithdrawSettles
    <3> QED
      BY <2>3, <2>13, <3>1, <3>2, <3>3 DEF GiveUp, To
  <2>14. CASE Expire \/ Cancel
    <3>1. CASE RemoteCancel(q) /\ pc' \in {"expiring", "cancelling"}
      <4>1. Fenced(q)'
        BY <1>1, <3>1, CancelFences
      <4>2. UNCHANGED <<att, conf>>
        BY <2>14, <3>1 DEF Expire, Cancel, disk, dispatching
      <4> QED
        BY <2>3, <3>1, <4>1, <4>2 DEF Along, Safe, Home
    <3>2. CASE pc' \in {"late", "leaving"}
      BY <1>1, <2>5, <2>14, <3>2, Fields DEF Expire, Cancel, disk, dispatching
    <3> QED
      BY <2>3, <2>14, <3>1, <3>2 DEF Expire, Cancel
  <2>15. CASE ExpireReply \/ CancelReply
    <3>1. Fenced(q)
      BY <1>1, <2>3, <2>15 DEF ExpireReply, CancelReply, RunInv
    <3>2. CASE Confirms(q)
      BY <2>4, <3>1, <3>2, ConfirmSettles
    <3>3. CASE ~Confirms(q)
      BY <1>1, <2>3, <2>5, <2>15, <3>3, Fields DEF ExpireReply, CancelReply, disk, dispatching
    <3> QED
      BY <3>2, <3>3
  <2>16. ASSUME NEW to \in Target, WatchQueued(to) PROVE Along
    BY <1>1, <2>5, <2>16 DEF WatchQueued, dispatching, AttType
  <2> QED
    BY <1>4, <2>1, <2>7, <2>8, <2>9, <2>10, <2>11, <2>12, <2>13, <2>14, <2>15, <2>16 DEF SupCalls
<1> QED
  BY <1>2, <1>3, <1>4
-----------------------------------------------------------------------------
(* The attempt record along the supervisor's steps. *)

SupAny == Send \/ SupCalls \/ SupRemote \/ SupHere

\* Another runner is named, one that was never sent the ticket.
Redirect(r) ==
    /\ r \in Runner \ att.sent
    /\ att'.runner = r /\ att'.sent = att.sent \cup {r} /\ att'.executor = "remote"
    /\ att'.moving = att.moving \/ att'.moving.phase = "dispatching"
    /\ att'.held = att.held /\ pc \in {"place", "stopped", "moved", "rebinding"} /\ pc' = "send"
    /\ UNCHANGED <<host, result, queue, local, want, conf>>

\* Or the record keeps its runner, or forgets it.
Turn ==
    /\ att'.runner \in {att.runner, None} /\ att'.sent = att.sent
    /\ att'.moving \in {att.moving, NoMove} /\ att'.executor \in {att.executor, "local"}
    /\ pc' \notin {"send", "withdraw"} /\ (pc' = "upload" => Dispatch)
    /\ pc' \in Bound => pc \in Bound /\ att'.runner = att.runner
    /\ pc' \in Home => pc \in Home \/ att'.executor = "local"
    /\ want' \in {want, None} \/ (pc = "withdraw" /\ want' = att.moving.to)
    /\ pc' = "moved" => want' # None

LEMMA RedirectSteps ==
    ASSUME IInv, \/ Moved /\ want # Refuse
                 \/ \E r \in Runner : Place(r) \/ RebindDispatch(r)
                 \/ Stopped /\ pc' = "send"
    PROVE  \E r : Redirect(r)
<1>1. AttType /\ SupType /\ BindInv
  BY Types DEF IInv, AttemptInv
<1>2. ASSUME NEW r \in Runner, Fresh(r), att' = Dispatched(r), pc \in {"place", "stopped", "rebinding"}, pc' = "send",
             UNCHANGED <<host, result, queue, local, want, conf>>
      PROVE  Redirect(r)
  BY <1>1, <1>2, DispatchedType DEF Redirect, Fresh
<1>3. CASE Moved /\ want # Refuse
  <2>1. want \in Runner \ att.sent
    BY <1>1, <1>3 DEF Moved, BindInv, SupType, Target
  <2>2. PICK d : d = Dispatched(want)
    OBVIOUS
  <2>3. /\ att' = [d EXCEPT !.moving = [phase |-> "dispatching", from |-> att.runner, to |-> want]]
        /\ pc = "moved" /\ pc' = "send" /\ UNCHANGED <<host, result, queue, local, want, conf>>
    BY <1>3, <2>2 DEF Moved
  <2>4. /\ d \in [held: BOOLEAN, gen: {0, 1}, executor: {"remote", "local"},
                  runner: Runner \cup {None}, sent: SUBSET Runner,
                  moving: [phase: {"none", "withdrawing", "dispatching"},
                           from: Runner \cup {None}, to: Target \cup {None}]]
        /\ d.runner = want /\ d.sent = att.sent \cup {want} /\ d.executor = "remote" /\ d.held = att.held
    BY <1>1, <2>1, <2>2, DispatchedType
  <2> QED
    BY <2>1, <2>3, <2>4 DEF Redirect
<1>4. ASSUME NEW r \in Runner, Place(r) PROVE Redirect(r)
  BY <1>2, <1>4 DEF Place, dispatching
<1>5. ASSUME NEW r \in Runner, RebindDispatch(r) PROVE Redirect(r)
  BY <1>2, <1>5 DEF RebindDispatch, dispatching
<1>6. CASE Stopped /\ pc' = "send"
  BY <1>2, <1>6 DEF Stopped
<1> QED
  BY <1>3, <1>4, <1>5, <1>6

\* What settles where a step leads to.
LEMMA TurnSteps ==
    ASSUME IInv, SupAny,
           ~(Moved /\ want # Refuse), ~(Stopped /\ pc' = "send"),
           \A r \in Runner : ~(Place(r) \/ RebindDispatch(r)),
           \A to \in Target : ~WatchQueued(to)
    PROVE  Turn
<1>1. AttType /\ SupType /\ BindInv /\ HomeInv
  BY Types DEF IInv, AttemptInv
<1> DEFINE Kept == att' \in {att, Still, Removed}
<1>2. Kept => /\ att'.runner = att.runner /\ att'.sent = att.sent /\ att'.executor = att.executor
              /\ att'.moving \in {att.moving, NoMove}
  BY <1>1, Fields
<1>3. ASSUME Kept, pc \in Bound, UNCHANGED want, pc' = "moved" => want # None,
             pc' \notin Home \cup {"send", "withdraw", "upload"}
      PROVE  Turn
  <2> HIDE DEF Kept
  <2> QED
    BY <1>2, <1>3 DEF Turn
<1>4. ASSUME Kept, UNCHANGED want, pc' \notin Bound, pc' \in Home => pc \in Home
      PROVE  Turn
  <2> HIDE DEF Kept
  <2> QED
    BY <1>2, <1>4 DEF Turn, Bound
<1>5. ASSUME \E w \in BOOLEAN : Doubt(w) PROVE pc' \in {"proof", "leaving"} /\ att' = att
  BY <1>5 DEF Doubt, To
<1>6. ASSUME NEW k, \E w \in BOOLEAN : Classify(k, conf, w)
      PROVE  /\ pc' \in {"restore", "publish", "moved", "fallback", "stopped", "proof", "leaving"}
             /\ Kept /\ (pc' = "moved" => want # None)
  BY <1>6, <1>5 DEF Classify, To
<1>7. CASE Fetch
  <2>1. /\ pc' \in {"restore", "publish", "moved", "fallback", "stopped", "proof", "leaving", "giveup", "expire"}
        /\ Kept /\ (pc' = "moved" => want # None)
    BY <1>6, <1>7 DEF Fetch, To
  <2>2. pc \in Bound /\ UNCHANGED want
    BY <1>7 DEF Fetch, Bound
  <2> QED
    BY <1>3, <2>1, <2>2 DEF Home
<1>8. CASE Late
  <2>1. /\ pc' \in {"restore", "publish", "moved", "fallback", "stopped", "proof", "leaving"}
        /\ Kept /\ (pc' = "moved" => want # None)
    BY <1>5, <1>6, <1>8 DEF Late, To
  <2>2. pc \in Bound /\ UNCHANGED want
    BY <1>8 DEF Late, Bound
  <2> QED
    BY <1>3, <2>1, <2>2 DEF Home
<1>9. CASE GiveUp
  <2>1. pc' \in {"cancel", "moved", "fallback", "proof", "leaving"} /\ Kept /\ (pc' = "moved" => want # None)
    BY <1>5, <1>9 DEF GiveUp, To
  <2>2. pc \in Bound /\ UNCHANGED want
    BY <1>9 DEF GiveUp, Bound
  <2> QED
    BY <1>3, <2>1, <2>2 DEF Home
<1>10. CASE Send
  <2>1. /\ pc' \in {"publish", "fallback", "upload"} /\ (pc' = "upload" => Dispatch)
        /\ Kept /\ pc \in Bound /\ want' = None
    BY <1>1, <1>10 DEF Send, To, Dispatch, BindInv, Bound
  <2> HIDE DEF Kept
  <2> QED
    BY <1>2, <2>1 DEF Turn, Home
<1>11. CASE Upload \/ UploadFails \/ SnapshotSent \/ WatchStops \/ Close \/ StopPolling \/ Abort
  <2>1. pc' \in {"landed", "open", "cancel", "fallback", "fetch", "leaving"} /\ pc \in Bound
    BY <1>11 DEF Upload, UploadFails, SnapshotSent, WatchStops, Close, StopPolling, Abort, Bound
  <2>2. Kept /\ UNCHANGED want
    BY <1>11 DEF Upload, UploadFails, SnapshotSent, WatchStops, Close, StopPolling, Abort, disk, dispatching
  <2> QED
    BY <1>3, <2>1, <2>2 DEF Home
<1>12. CASE Expire \/ ExpireReply \/ Cancel \/ CancelReply
  <2>1. pc' \in {"expiring", "late", "cancelling", "leaving", "publish"} /\ pc \in Bound
    BY <1>12 DEF Expire, ExpireReply, Cancel, CancelReply, Bound
  <2>2. Kept /\ UNCHANGED want
    BY <1>12 DEF Expire, ExpireReply, Cancel, CancelReply, disk, dispatching
  <2> QED
    BY <1>3, <2>1, <2>2 DEF Home
<1>13. CASE Withdraw \/ WithdrawLost
  <2>1. /\ pc' \in {"cancel", "moved", "open"} /\ Kept /\ pc = "withdraw" /\ want' = att.moving.to
        /\ att.moving.to # None
    BY <1>1, <1>13, RemoteAssumption DEF Withdraw, WithdrawLost, disk, BindInv, Target
  <2> HIDE DEF Kept
  <2> QED
    BY <1>2, <2>1 DEF Turn, Bound, Home
<1>14. CASE (Stopped /\ pc' # "send") \/ (Moved /\ want = Refuse)
  <2>1. pc' = "fallback" /\ Kept /\ UNCHANGED want
    BY <1>14 DEF Stopped, Moved
  <2> QED
    BY <1>4, <2>1 DEF Bound, Home
<1>15. CASE PlaceNowhere \/ PublishResult \/ ClearMarkers
  <2>1. pc' \in {"fallback", "clear", "leaving"} /\ Kept /\ UNCHANGED want
    BY <1>15 DEF PlaceNowhere, PublishResult, Settle, ClearMarkers, disk, dispatching
  <2> QED
    BY <1>4, <2>1 DEF Bound, Home
<1>16. CASE Requeue \/ LocalStart \/ LocalCancelled \/ LocalRefused \/ LocalEnds \/ Rebind
  <2>1. pc' \in {"local", "running", "rebinding", "publish"} /\ pc \in Home
    BY <1>16 DEF Requeue, LocalStart, LocalCancelled, LocalRefused, LocalEnds, Rebind, Home
  <2>2. Kept /\ UNCHANGED want
    BY <1>16 DEF Requeue, LocalStart, LocalCancelled, LocalRefused, LocalEnds, Rebind, dispatching, disk
  <2> QED
    BY <1>4, <2>1, <2>2 DEF Bound
<1>17. CASE Fallback
  <2>1. /\ att'.runner = att.runner /\ att'.sent = att.sent /\ att'.moving = att.moving
        /\ att'.executor \in {att.executor, "local"} /\ UNCHANGED want
        /\ pc' \in {"restore", "leaving", "publish", "enqueue"} /\ (pc' = "enqueue" => att'.executor = "local")
    BY <1>1, <1>17 DEF Fallback, AttType, dispatching
  <2> QED
    BY <2>1 DEF Turn, Bound, Home
<1>18. CASE Restore
  <2>1. /\ att'.runner = None /\ att'.sent = att.sent /\ att'.moving = att.moving
        /\ att'.executor = "local" /\ UNCHANGED want /\ pc' = "requeue"
    BY <1>1, <1>18 DEF Restore, AttType, dispatching
  <2> QED
    BY <2>1 DEF Turn, Bound, Home
<1> QED
  BY <1>7, <1>8, <1>9, <1>10, <1>11, <1>12, <1>13, <1>14, <1>15, <1>16, <1>17, <1>18
     DEF SupAny, SupCalls, SupRemote, SupHere

\* A supervisor's step redirects the attempt, starts a withdrawal, or neither.
LEMMA SupTurns ==
    ASSUME IInv, SupAny
    PROVE  (\E r : Redirect(r)) \/ (\E to \in Target : WatchQueued(to)) \/ Turn
BY RedirectSteps, TurnSteps
-----------------------------------------------------------------------------
(* The supervisor's steps keep the invariant. *)

LEMMA SupBind ==
    ASSUME IInv, SupAny, Keeps \/ Dispatch
    PROVE  BindInv'
<1>1. AttType /\ SupType /\ BindInv /\ HostIInv
  BY Types DEF IInv, AttemptInv
<1>2. ASSUME NEW r, Redirect(r) PROVE BindInv'
  <2>1. r \in Runner \ att.sent /\ att'.runner = r /\ att'.sent = att.sent \cup {r} /\ pc' = "send"
    BY <1>2 DEF Redirect
  <2>2. wire' = wire /\ want' = want /\ att'.executor = "remote"
        /\ (att'.moving = att.moving \/ att'.moving.phase = "dispatching")
    BY <1>2 DEF Redirect, host
  <2>3. pc = "moved" => want # None
    BY <1>1 DEF BindInv
  <2> QED
    BY <1>1, <2>1, <2>2 DEF BindInv
<1>3. ASSUME NEW to \in Target, WatchQueued(to) PROVE BindInv'
  <2>1. /\ att'.runner = att.runner /\ att'.sent = att.sent /\ pc' = "withdraw" /\ pc = "open"
        /\ att'.moving = [phase |-> "withdrawing", from |-> att.runner, to |-> to]
        /\ wire' = wire /\ want' = want
    BY <1>1, <1>3 DEF WatchQueued, AttType, dispatching, host
  <2>2. to \in Target \ att.sent
    BY <1>1, <1>3, RemoteAssumption DEF WatchQueued, Fresh, AttType
  <2>3. att.runner \in Runner
    BY <1>1, <2>1 DEF BindInv, Bound
  <2> QED
    BY <1>1, <2>1, <2>2, <2>3 DEF BindInv
<1>4. CASE Turn
  <2>1. \A r \in Runner \ att'.sent : wire'[r] = "none"
    <3>1. CASE Keeps
      BY <1>1, <1>4, <3>1 DEF Turn, BindInv, Keeps
    <3>2. CASE Dispatch
      <4>1. att.runner \in att.sent /\ att' = att
        BY <1>1, <3>2, RemoteAssumption DEF Dispatch, BindInv
      <4> QED
        BY <1>1, <3>2, <4>1 DEF BindInv, Dispatch, Arrive, HostIInv, HostTypeOK
    <3> QED
      BY <3>1, <3>2
  <2>2. pc = "send" => want' = None
    BY DEF SupAny, SupCalls, SupRemote, SupHere, Send, Upload, UploadFails, Withdraw, Expire, GiveUp, Cancel,
       PlaceNowhere, SnapshotSent, WatchStops, WithdrawLost, Close, Fetch, ExpireReply, Late, StopPolling, Abort,
       CancelReply, Stopped, Moved, Place, WatchQueued, Fallback, Restore, Requeue, LocalStart, LocalCancelled,
       LocalRefused, LocalEnds, Rebind, PublishResult, ClearMarkers, RebindDispatch
  <2>3. want' \notin att'.sent
    <3>1. None \notin att.sent
      BY <1>1, RemoteAssumption DEF AttType
    <3> QED
      BY <1>1, <1>4, <2>2, <3>1 DEF Turn, BindInv
  <2>4. pc' = "upload" => wire'[att'.runner] # "whole" /\ lane'[att'.runner] = "none"
    <3>1. SUFFICES ASSUME Dispatch PROVE wire'[att'.runner] # "whole" /\ lane'[att'.runner] = "none"
      BY <1>4 DEF Turn
    <3>2. PICK q \in Runner : q = att.runner /\ Arrive(q) /\ att' = att
      BY <3>1 DEF Dispatch
    <3>3. exec[q] = "none" /\ lane[q] = "none"
      BY <1>1, <3>2 DEF Arrive, HostIInv, HostInv, HostInvAt
    <3> QED
      BY <1>1, <3>2, <3>3 DEF Arrive, HostIInv, HostTypeOK
  <2>5. /\ pc' \in Bound => att'.runner \in Runner
        /\ att'.runner # None => att'.runner \in att'.sent
    BY <1>1, <1>4 DEF Turn, BindInv
  <2>6. att'.moving.phase = "withdrawing" => att'.moving.from \in Runner /\ att'.moving.to \in Target
    BY <1>1, <1>4 DEF Turn, BindInv, NoMove
  <2>7. pc' \notin {"send", "withdraw"} /\ (pc' = "moved" => want' # None)
    BY <1>4 DEF Turn
  <2> QED
    BY <2>1, <2>3, <2>4, <2>5, <2>6, <2>7 DEF BindInv
<1> QED
  BY <1>2, <1>3, <1>4, SupTurns

\* What the supervisor does to the files and to the command on its own host.
LEMMA SupFiles ==
    ASSUME IInv, SupAny
    PROVE  /\ pc # "dead" /\ (pc = "proof" => rpc[Self] = "idle")
           /\ queue' = "queued" => (queue = "queued" /\ pc # "local") \/ pc' = "local"
           /\ local' = "alive" => (local = "alive" /\ pc # "running") \/ pc' = "running"
           /\ mark' \in {mark, FALSE} /\ UNCHANGED aborted
           /\ \/ att'.held = att.held /\ UNCHANGED result /\ (~att.held => pc' \in {"clear", "leaving"})
              \/ pc = "publish" /\ att.held /\ result' # "none" /\ pc' \in {"clear", "leaving"}
<1>1. AttType /\ SupType /\ HomeInv
  BY Types DEF IInv, AttemptInv
<1>2. CASE PublishResult
  BY <1>1, <1>2, Fields DEF PublishResult, Settle, SupType, dispatching
<1>3. CASE ClearMarkers
  BY <1>1, <1>3 DEF ClearMarkers, dispatching
<1> DEFINE Files == UNCHANGED <<mark, result, queue, local>> /\ pc \notin {"dead", "local", "running", "clear", "leaving"}
<1>4. ASSUME UNCHANGED aborted, UNCHANGED <<mark, result>>, att'.held = att.held,
             pc \notin {"clear", "leaving", "dead"}, pc = "proof" => rpc[Self] = "idle",
             queue' = "queued" => (queue = "queued" /\ pc # "local") \/ pc' = "local",
             local' = "alive" => (local = "alive" /\ pc # "running") \/ pc' = "running"
      PROVE  /\ pc # "dead" /\ (pc = "proof" => rpc[Self] = "idle")
             /\ queue' = "queued" => (queue = "queued" /\ pc # "local") \/ pc' = "local"
             /\ local' = "alive" => (local = "alive" /\ pc # "running") \/ pc' = "running"
             /\ mark' \in {mark, FALSE} /\ UNCHANGED aborted
             /\ \/ att'.held = att.held /\ UNCHANGED result /\ (~att.held => pc' \in {"clear", "leaving"})
                \/ pc = "publish" /\ att.held /\ result' # "none" /\ pc' \in {"clear", "leaving"}
  BY <1>1, <1>4 DEF HomeInv
<1>5. CASE Requeue \/ LocalStart \/ LocalCancelled \/ LocalRefused \/ LocalEnds \/ Rebind
  <2>1. /\ UNCHANGED <<mark, result, aborted, att>> /\ pc \notin {"clear", "leaving", "dead", "proof"}
        /\ queue' = "queued" => (queue = "queued" /\ pc # "local") \/ pc' = "local"
        /\ local' = "alive" => (local = "alive" /\ pc # "running") \/ pc' = "running"
    BY <1>5 DEF Requeue, LocalStart, LocalCancelled, LocalRefused, LocalEnds, Rebind, disk
  <2> QED
    BY <1>4, <2>1
<1>6. CASE ~(PublishResult \/ ClearMarkers \/ Requeue \/ LocalStart \/ LocalCancelled \/ LocalRefused \/ LocalEnds \/ Rebind)
  <2>1. /\ UNCHANGED <<mark, result, queue, local, aborted>>
        /\ pc \notin {"clear", "leaving", "dead", "local", "running"}
        /\ pc = "proof" => rpc[Self] = "idle"
    <3>1. CASE Send \/ SupCalls
      BY <3>1 DEF Send, SupCalls, Upload, UploadFails, Withdraw, Expire, GiveUp, Cancel, disk
    <3>2. CASE SupRemote
      BY <3>2 DEF SupRemote, PlaceNowhere, SnapshotSent, WatchStops, WithdrawLost, Close, Fetch, ExpireReply, Late,
         StopPolling, Abort, CancelReply, Stopped, Moved, Place, WatchQueued, disk
    <3>3. CASE SupHere
      BY <1>6, <3>3 DEF SupHere, Fallback, Restore, RebindDispatch
    <3> QED
      BY <3>1, <3>2, <3>3 DEF SupAny
  <2>2. att'.held = att.held
    <3>1. CASE att' \in {att, Still}
      BY <1>1, <3>1, Fields
    <3>2. CASE Send \/ SupCalls
      BY <3>1, <3>2 DEF Send, SupCalls, Upload, UploadFails, Withdraw, Expire, GiveUp, Cancel, To, Doubt, disk
    <3>3. CASE \E r : Redirect(r)
      BY <3>3 DEF Redirect
    <3>4. ASSUME NEW to \in Target, WatchQueued(to) PROVE att'.held = att.held
      BY <1>1, <3>4 DEF WatchQueued, AttType
    <3>5. CASE Fetch \/ Late
      BY <3>1, <3>5 DEF Fetch, Late, Classify, Doubt, To
    <3>6. CASE PlaceNowhere \/ SnapshotSent \/ WatchStops \/ WithdrawLost \/ Close \/ ExpireReply
               \/ StopPolling \/ Abort \/ CancelReply
      BY <3>1, <3>6 DEF PlaceNowhere, SnapshotSent, WatchStops, WithdrawLost, Close, ExpireReply, StopPolling, Abort,
         CancelReply, disk
    <3>7. CASE Stopped \/ Moved
      <4>1. CASE (Moved /\ want # Refuse) \/ (Stopped /\ pc' = "send")
        BY <3>3, <4>1, RedirectSteps
      <4> QED
        BY <3>1, <3>7, <4>1 DEF Stopped, Moved
    <3>8. CASE Fallback \/ Restore
      BY <1>1, <3>8 DEF Fallback, Restore, AttType
    <3>9. CASE \E r \in Runner : Place(r) \/ RebindDispatch(r)
      BY <3>3, <3>9, RedirectSteps
    <3> QED
      BY <1>6, <3>2, <3>4, <3>5, <3>6, <3>7, <3>8, <3>9 DEF SupAny, SupRemote, SupHere
  <2> QED
    BY <1>4, <2>1, <2>2
<1> QED
  BY <1>2, <1>3, <1>5, <1>6

LEMMA SupHomes ==
    ASSUME IInv, SupAny
    PROVE  HomeInv'
<1>1. HomeInv /\ AttType
  BY Types DEF IInv, AttemptInv
<1>2. pc' \in Home => att'.executor = "local"
  <2>1. ASSUME NEW r, Redirect(r) PROVE pc' \notin Home
    BY <2>1 DEF Redirect, Home
  <2>2. ASSUME NEW to \in Target, WatchQueued(to) PROVE pc' \notin Home
    BY <2>2 DEF WatchQueued, Home
  <2>3. CASE Turn
    BY <1>1, <2>3 DEF Turn, HomeInv
  <2> QED
    BY <2>1, <2>2, <2>3, SupTurns
<1>3. queue' = "queued" => pc' = "local"
  BY <1>1, SupFiles DEF HomeInv
<1>4. local' = "alive" => pc' = "running"
  BY <1>1, SupFiles DEF HomeInv
<1>5. ~att'.held => result' # "none" /\ pc' \in {"clear", "leaving"}
  BY <1>1, SupFiles DEF HomeInv
<1> QED
  BY <1>2, <1>3, <1>4, <1>5 DEF HomeInv, Home

LEMMA SupRuns ==
    ASSUME IInv, SupAny, Keeps
    PROVE  RunInv'
<1>1. RunInv
  BY DEF IInv, AttemptInv
<1>2. UNCHANGED off
  BY DEF SupAny, SupCalls, SupRemote, SupHere, Send, Upload, UploadFails, Withdraw, Expire, GiveUp, Cancel,
     PlaceNowhere, SnapshotSent, WatchStops, WithdrawLost, Close, Fetch, ExpireReply, Late, StopPolling, Abort,
     CancelReply, Stopped, Moved, Place, WatchQueued, Fallback, Restore, Requeue, LocalStart, LocalCancelled,
     LocalRefused, LocalEnds, Rebind, PublishResult, ClearMarkers, RebindDispatch, Answered, Lost, Unheard, world
<1>3. CASE NoneRuns'
  <2>1. \A r \in off' : ~MayRun(r)'
    BY <1>2, <1>3, Types DEF NoneRuns, IInv, WorldType
  <2>2. pc' \in {"expiring", "cancelling"} => Fenced(att.runner)'
    <3>1. SUFFICES ASSUME pc' \in {"expiring", "cancelling"} PROVE att'.runner \in Runner
      BY <1>3 DEF NoneRuns, Fenced
    <3>2. BindInv'
      BY SupBind
    <3> QED
      BY <3>1, <3>2 DEF BindInv, Bound
  <2> QED
    BY <1>3, <2>1, <2>2 DEF RunInv, NoneRuns
<1>4. CASE Along
  <2>1. /\ att'.runner = att.runner /\ att'.executor = att.executor
        /\ pc' \notin Safe /\ (conf' = "yes" => conf = "yes")
        /\ pc' \in {"expiring", "cancelling"} => Fenced(att.runner)'
    BY <1>4 DEF Along
  <2>2. \A r \in Runner : MayRun(r)' => r = att'.runner
    BY <1>1, <2>1 DEF RunInv, Keeps
  <2>3. \A r \in off' : ~MayRun(r)'
    BY <1>1, <1>2, Types DEF RunInv, Keeps, IInv, WorldType
  <2>4. att'.executor = "local" \/ conf' = "yes" => NoneRuns'
    BY <1>1, <2>1, KeepsGone DEF RunInv
  <2> QED
    BY <2>1, <2>2, <2>3, <2>4 DEF RunInv
<1> QED
  BY <1>3, <1>4, SupRun DEF SupAny
LEMMA DispatchRuns ==
    ASSUME IInv, SupAny, Dispatch
    PROVE  RunInv' /\ att.held
<1>1. RunInv /\ HostIInv /\ HomeInv /\ BindInv
  BY DEF IInv, AttemptInv
<1>2. /\ pc = "send" /\ Arrive(att.runner) /\ att.runner \in Runner \ off
      /\ pc' = "upload" /\ att' = att /\ UNCHANGED off /\ conf' = "unasked" /\ att.executor = "remote"
  BY <1>1 DEF Dispatch, Arrive, SupAny, Send, SupCalls, Upload, UploadFails, Withdraw, Expire, GiveUp, Cancel, SupRemote,
     PlaceNowhere, SnapshotSent, WatchStops, WithdrawLost, Close, Fetch, ExpireReply, Late, StopPolling, Abort,
     CancelReply, Stopped, Moved, Place, WatchQueued, SupHere, Fallback, Restore, Requeue, LocalStart, LocalCancelled,
     LocalRefused, LocalEnds, Rebind, PublishResult, ClearMarkers, RebindDispatch, world, BindInv
<1>3. PICK q \in Runner \ off : q = att.runner /\ Arrive(q)
  BY <1>2
<1>4. NoneRuns
  BY <1>1, <1>2 DEF RunInv, Safe
<1>5. \A r \in Runner \ {q} : ~MayRun(r)'
  <2>1. Others(q)
    BY <1>1, <1>3, TypeStep DEF Act, HostRequest, HostIInv
  <2> QED
    BY <1>4, <2>1 DEF Others, NoneRuns, MayRun, Live
<1>6. \A r \in off : r \in Runner
  BY Types DEF IInv, WorldType
<1> QED
  BY <1>1, <1>2, <1>3, <1>5, <1>6 DEF RunInv, HomeInv, Safe, Home

LEMMA SupSettles ==
    ASSUME IInv, SupAny, Keeps \/ Dispatch
    PROVE  SettleInv'
<1>1. SettleInv /\ HomeInv
  BY DEF IInv, AttemptInv
<1>2. Canceller = {} => ~aborted' /\ ~mark'
  BY <1>1, SupFiles DEF SettleInv
<1>3. ~Waits => pc' \notin {"expire", "expiring", "late"}
  <2>1. ASSUME NEW k, \E w \in BOOLEAN : Classify(k, conf, w) PROVE pc' \notin {"expire", "expiring", "late"}
    BY <2>1 DEF Classify, Doubt, To
  <2>2. CASE Fetch
    BY <2>1, <2>2 DEF Fetch, To
  <2>3. CASE Late
    BY <1>1, <2>3 DEF Late, SettleInv
  <2>4. CASE Send \/ SupCalls
    BY <1>1, <2>4 DEF Send, SupCalls, Upload, UploadFails, Withdraw, Expire, GiveUp, Cancel, To, Doubt, SettleInv
  <2>5. CASE SupRemote
    BY <1>1, <2>2, <2>3, <2>5 DEF SupRemote, PlaceNowhere, SnapshotSent, WatchStops, WithdrawLost, Close, ExpireReply,
       StopPolling, Abort, CancelReply, Stopped, Moved, Place, WatchQueued, SettleInv
  <2>6. CASE SupHere
    BY <2>6 DEF SupHere, Fallback, Restore, Requeue, LocalStart, LocalCancelled, LocalRefused, LocalEnds, Rebind,
       PublishResult, ClearMarkers, RebindDispatch
  <2> QED
    BY <2>4, <2>5, <2>6 DEF SupAny
<1>4. "bound" \notin Faults => \A a \in Actor : rverdict'[a] # "abandoned"
  <2>1. UNCHANGED rverdict
    BY WorldSup, Types DEF IInv, AttemptInv, rec, SupAny
  <2> QED
    BY <1>1, <2>1 DEF SettleInv
<1>5. Steady /\ pc' = "publish" => AllGone'
  <2>1. CASE Dispatch
    BY <2>1 DEF Dispatch
  <2>2. CASE Keeps
    BY <2>2, SupRun DEF SupAny, Along, NoneRuns, AllGone
  <2> QED
    BY <2>1, <2>2
<1>6. Steady /\ ~att'.held /\ result' # "abandoned" => AllGone'
  <2>1. CASE Dispatch
    BY <2>1, DispatchRuns DEF Dispatch
  <2>2. CASE Keeps
    <3>1. Steady /\ ~att'.held /\ result' # "abandoned" => AllGone
      BY <1>1, SupFiles DEF SettleInv
    <3> QED
      BY <2>2, <3>1, KeepsGone
  <2> QED
    BY <2>1, <2>2
<1> QED
  <2>1. Steady' <=> Steady
    BY DEF Steady
  <2> QED
    BY <1>2, <1>3, <1>4, <1>5, <1>6, <2>1 DEF SettleInv

LEMMA SupInv ==
    ASSUME IInv, SupAny, Keeps \/ Dispatch, HostIInv', RemoteTypeOK', StreamInv'
    PROVE  IInv'
<1>1. /\ \A a \in Actor : RecInv(a)
      /\ \A c \in Canceller : CanInv(c)
  BY DEF IInv, AttemptInv
<1>2. UNCHANGED <<rec, can>>
  BY WorldSup, Types DEF IInv, AttemptInv, SupAny
<1>3. \A a \in Actor : RecInv(a)'
  <2>1. \A a \in Actor : rpc[a] = "idle"
    BY <1>1, SupFiles DEF RecInv
  <2> QED
    BY <1>2, <2>1 DEF RecInv, rec
<1>4. \A c \in Canceller : CanInv(c)'
  <2>1. \A c \in Canceller : cpc[c] # "ask" /\ asked[c] = None
    BY <1>1, SupFiles DEF CanInv
  <2> QED
    BY <1>2, <2>1 DEF CanInv, can
<1>5. RunInv'
  BY SupRuns, DispatchRuns
<1> QED
  BY <1>3, <1>4, <1>5, SupBind, SupHomes, SupSettles DEF IInv, AttemptInv
-----------------------------------------------------------------------------
(* The end of the supervisor, and what others do once it has gone. *)

\* The attempt still says the same of its runner, and what was proven is.
LEMMA RecKept ==
    ASSUME \A a \in Actor : RecInv(a),
           NEW a \in Actor, rpc'[a] = rpc[a], rverdict'[a] = rverdict[a], Keeps,
           att'.runner = att.runner, att'.moving = att.moving,
           rpc[a] # "idle" => pc' = pc
    PROVE  RecInv(a)'
<1>1. (NoneRuns => NoneRuns') /\ (AllGone => AllGone')
  BY KeepsGone
<1>2. att.runner \in Runner /\ Fenced(att.runner) => Fenced(att.runner)'
  BY DEF Keeps
<1> QED
  BY <1>1, <1>2 DEF RecInv

LEMMA CanKept ==
    ASSUME CanType, NEW c \in Canceller, CanInv(c), Keeps,
           cpc'[c] = cpc[c], ask'[c] = ask[c], asked'[c] = asked[c], unsure'[c] = unsure[c],
           pc = "dead" => pc' = "dead"
    PROVE  CanInv(c)'
<1>1. ASSUME NEW q, q = asked[c], q # None PROVE q \in Runner /\ (Fenced(q) => Fenced(q)')
  BY <1>1 DEF Keeps, CanType
<1>2. asked[c] # None => Fenced(asked[c])'
  <2>1. SUFFICES ASSUME asked[c] # None PROVE Fenced(asked[c])'
    OBVIOUS
  <2>2. PICK q : q = asked[c]
    OBVIOUS
  <2>3. Fenced(q) /\ asked'[c] = q
    BY <2>1, <2>2 DEF CanInv
  <2>4. Fenced(q)'
    BY <1>1, <2>1, <2>2, <2>3
  <2> QED
    BY <2>3, <2>4
<1> QED
  BY <1>2 DEF CanInv, Keeps

\* The attempt names the same runner and the same move.
SameAim == /\ att'.runner = att.runner /\ att'.sent = att.sent /\ att'.executor = att.executor
           /\ att'.moving = att.moving

\* A host that has not got the snapshot does not get it.
Uploads == \A r \in Runner : wire[r] # "whole" /\ lane[r] = "none" => wire'[r] # "whole" /\ lane'[r] = "none"

LEMMA BindKept ==
    ASSUME BindInv, AttType, Keeps, SameAim,
           \/ UNCHANGED <<pc, want>> /\ (pc = "upload" => Uploads)
           \/ pc' = "dead" /\ want' = None
           \/ pc = "proof" /\ pc' \in {"clear", "stopped"} /\ UNCHANGED want
    PROVE  BindInv'
<1>1. None \notin att.sent
  BY RemoteAssumption DEF AttType
<1> QED
  BY <1>1 DEF BindInv, Bound, Keeps, Uploads, SameAim

LEMMA RunKept ==
    ASSUME RunInv, BindInv, WorldType, Keeps, SameAim, conf' \in {conf, "unasked"},
           pc' \in {pc, "dead", "clear"} \/ (pc' = "stopped" /\ NoneRuns),
           \A r \in off' : r \in off \/ ~MayRun(r)'
    PROVE  RunInv'
<1>1. NoneRuns => NoneRuns'
  BY KeepsGone
<1>2. pc \in {"expiring", "cancelling"} => att.runner \in Runner
  BY DEF BindInv, Bound
<1>3. pc' \in {"expiring", "cancelling"} => Fenced(att.runner)'
  <2>1. SUFFICES ASSUME pc' \in {"expiring", "cancelling"} PROVE Fenced(att.runner)'
    OBVIOUS
  <2>2. pc' = pc
    BY <2>1
  <2>3. PICK q \in Runner : q = att.runner
    BY <1>2, <2>1, <2>2
  <2>4. Fenced(q)'
    BY <2>1, <2>2, <2>3 DEF RunInv, Keeps
  <2> QED
    BY <2>3, <2>4 DEF SameAim
<1>4. pc' \in Safe \/ att'.executor = "local" \/ conf' = "yes" => NoneRuns'
  BY <1>1 DEF RunInv, SameAim, Safe, Home
<1>5. \A r \in off' : ~MayRun(r)'
  BY DEF RunInv, Keeps, WorldType
<1> QED
  BY <1>3, <1>4, <1>5 DEF RunInv, SameAim, Keeps

LEMMA HomeKept ==
    ASSUME HomeInv, SameAim, att'.held = att.held, UNCHANGED <<queue, local, result>>,
           pc' = pc \/ pc' = "dead"
    PROVE  HomeInv'
BY DEF HomeInv, SameAim, Home

LEMMA SettleKept ==
    ASSUME SettleInv, Keeps, UNCHANGED mark, aborted' = aborted \/ aborted' = FALSE, pc' = pc \/ pc' = "dead",
           att'.held = att.held, UNCHANGED result,
           \A a \in Actor : rverdict'[a] # "abandoned" \/ rverdict'[a] = rverdict[a] \/ "bound" \in Faults
    PROVE  SettleInv'
<1>1. Steady' <=> Steady
  BY DEF Steady
<1>2. AllGone => AllGone'
  BY KeepsGone
<1>3. "bound" \notin Faults => \A a \in Actor : rverdict'[a] # "abandoned"
  BY DEF SettleInv
<1>4. Steady /\ pc' = "publish" => AllGone'
  BY <1>2 DEF SettleInv
<1>5. Steady /\ ~att'.held /\ result' # "abandoned" => AllGone'
  BY <1>2 DEF SettleInv
<1>6. Canceller = {} => ~aborted' /\ ~mark'
  BY DEF SettleInv
<1>7. ~Waits => pc' \notin {"expire", "expiring", "late"}
  BY DEF SettleInv
<1> QED
  BY <1>1, <1>3, <1>4, <1>5, <1>6, <1>7 DEF SettleInv

LEMMA EndsInv ==
    ASSUME IInv, Ends, Keeps, HostIInv', RemoteTypeOK', StreamInv'
    PROVE  IInv'
<1>1. /\ BindInv /\ RunInv /\ HomeInv /\ SettleInv /\ AttType /\ WorldType /\ RecType
      /\ (\A a \in Actor : RecInv(a)) /\ (\A c \in Canceller : CanInv(c))
  BY Types DEF IInv, AttemptInv
<1>2. Dead /\ pc # "dead" /\ UNCHANGED off
  BY DEF Ends, Leave, Crash, Abandon, Up, world, Remote
<1>3. /\ pc' = "dead" /\ want' = None /\ conf' = "unasked" /\ aborted' = FALSE
      /\ UNCHANGED <<att, mark, result, queue, local, cpc, ask, asked, unsure>>
      /\ rpc' = [rpc EXCEPT ![Self] = "idle"] /\ rverdict' = [rverdict EXCEPT ![Self] = "none"]
  BY <1>2 DEF Dead, disk, can
<1>4. SameAim
  BY <1>3 DEF SameAim
<1>5. BindInv' /\ RunInv' /\ HomeInv'
  BY <1>1, <1>2, <1>3, <1>4, BindKept, RunKept, HomeKept
<1>6. SettleInv'
  <2>1. \A a \in Actor : rverdict'[a] # "abandoned" \/ rverdict'[a] = rverdict[a]
    BY <1>1, <1>3 DEF RecType
  <2> QED
    BY <1>1, <1>3, <2>1, SettleKept
<1>7. \A a \in Actor : RecInv(a)'
  <2>1. \A a \in Actor : rpc'[a] = "idle"
    BY <1>1, <1>2, <1>3 DEF RecInv, RecType
  <2> QED
    BY <2>1 DEF RecInv
<1>8. \A c \in Canceller : CanInv(c)'
  <2>1. \A c \in Canceller : cpc[c] # "ask" /\ asked[c] = None
    BY <1>1, <1>2 DEF CanInv
  <2> QED
    BY <1>3, <2>1 DEF CanInv
<1> QED
  BY <1>5, <1>6, <1>7, <1>8 DEF IInv, AttemptInv

LEMMA AfterInv ==
    ASSUME IInv, AfterDeath, HostIInv', RemoteTypeOK', StreamInv'
    PROVE  IInv'
<1>1. /\ BindInv /\ RunInv /\ HomeInv /\ SettleInv /\ AttType /\ WorldType /\ CanType /\ HostIInv
      /\ (\A a \in Actor : RecInv(a)) /\ (\A c \in Canceller : CanInv(c))
  BY Types DEF IInv, AttemptInv
<1>2. /\ pc = "dead" /\ pc' = "dead" /\ UNCHANGED <<host, mark, sup, aborted, rec, can, world>>
      /\ att' \in {att, Removed}
  BY DEF AfterDeath, Recover, ReapQueue, LocalOrphanEnds, SettleLocal, Up, disk, sup
<1>3. SameAim /\ Keeps
  BY <1>1, <1>2, Fields, CalmKeeps DEF SameAim
<1>4. BindInv' /\ RunInv'
  <2>1. UNCHANGED <<want, conf, off>>
    BY <1>2 DEF sup, dispatching, world
  <2> QED
    BY <1>1, <1>2, <1>3, <2>1, BindKept, RunKept
<1>5. HomeInv'
  <2>1. CASE Recover
    <3>1. queue' = "queued" => att.executor = "local"
      BY <1>1, <2>1 DEF Recover, HomeInv, AttType
    <3> QED
      BY <1>1, <1>2, <2>1, <3>1 DEF Recover, HomeInv, Home
  <2>2. CASE ReapQueue \/ LocalOrphanEnds \/ SettleLocal
    BY <1>1, <1>2, <1>3, <2>2 DEF ReapQueue, LocalOrphanEnds, SettleLocal, HomeInv, Home, SameAim, disk
  <2> QED
    BY <2>1, <2>2 DEF AfterDeath
<1>6. SettleInv'
  <2>1. AllGone => AllGone'
    BY <1>3, KeepsGone
  <2>2. ~att'.held /\ result' # "abandoned" => (~att.held /\ result # "abandoned") \/ NoneRuns
    BY <1>1, <1>2 DEF AfterDeath, Recover, ReapQueue, LocalOrphanEnds, SettleLocal, HomeInv, RunInv, disk
  <2>3. Steady /\ ~att'.held /\ result' # "abandoned" => AllGone'
    BY <1>1, <2>1, <2>2 DEF SettleInv, AllGone, NoneRuns
  <2>4. Steady' <=> Steady
    BY DEF Steady
  <2> QED
    BY <1>1, <1>2, <2>3, <2>4 DEF SettleInv, rec
<1>7. \A a \in Actor : RecInv(a)'
  BY <1>1, <1>2, <1>3, RecKept DEF SameAim, rec
<1>8. \A c \in Canceller : CanInv(c)'
  BY <1>1, <1>2, <1>3, CanKept DEF can
<1> QED
  BY <1>4, <1>5, <1>6, <1>7, <1>8 DEF IInv, AttemptInv

LEMMA HostUploads ==
    ASSUME HostIInv, NEW r \in Runner, HostAny(r)
    PROVE  Uploads
<1>1. ASSUME wire[r] # "whole", lane[r] = "none" PROVE wire'[r] # "whole" /\ lane'[r] = "none"
  BY <1>1 DEF HostIInv, HostTypeOK, HostAny, HostActs, StrayArrives, HostFails, HostStep, HostFault, NoTicket, Create,
     Announce, ExecDies, Reject, Publish, Name, NameDrained, Enqueue, Admit, StopQueued, ExpireQueued, Finish,
     OrphanEnds, End, LaneSupervisorDies, RemoteCancel, RemoteWithdraw, RemoteShutdown, Reboot, PowerOff
<1>2. Act(r)
  BY DEF HostAny, HostActs, StrayArrives, HostFails, Act, HostRequest
<1>3. Others(r)
  BY <1>2, TypeStep DEF HostIInv
<1> QED
  BY <1>1, <1>3 DEF Uploads, Others

LEMMA HostAnyInv ==
    ASSUME IInv, NEW r \in Runner, HostAny(r), Keeps, HostIInv', RemoteTypeOK', StreamInv'
    PROVE  IInv'
<1>1. /\ BindInv /\ RunInv /\ HomeInv /\ SettleInv /\ AttType /\ WorldType /\ CanType /\ HostIInv
      /\ (\A a \in Actor : RecInv(a)) /\ (\A c \in Canceller : CanInv(c))
  BY Types DEF IInv, AttemptInv
<1>2. UNCHANGED <<att, mark, result, queue, local, pc, want, conf, aborted, rpc, rverdict, cpc, ask, asked, unsure>>
  BY DEF HostAny, HostActs, StrayArrives, HostFails, disk, sup, dispatching, rec, can
<1>3. \A q \in off' : q \in off \/ ~MayRun(q)'
  <2>1. CASE UNCHANGED off
    BY <2>1
  <2>2. CASE PowerOff(r) /\ off' = off \cup {r}
    BY <1>1, <2>2, PowerOffSettles
  <2> QED
    BY <2>1, <2>2 DEF HostAny, HostActs, StrayArrives, HostFails, world
<1>4. SameAim
  BY <1>2 DEF SameAim
<1>5. BindInv' /\ RunInv' /\ HomeInv' /\ SettleInv'
  BY <1>1, <1>2, <1>3, <1>4, HostUploads, BindKept, RunKept, HomeKept, SettleKept
<1>6. \A a \in Actor : RecInv(a)'
  BY <1>1, <1>2, RecKept
<1>7. \A c \in Canceller : CanInv(c)'
  BY <1>1, <1>2, CanKept
<1> QED
  BY <1>5, <1>6, <1>7 DEF IInv, AttemptInv
-----------------------------------------------------------------------------
(* The reconciles. *)

LEMMA AdoptProves ==
    ASSUME HostIInv, RunInv, NEW q \in Runner, q = att.runner, Adopt(record[q]) # "none"
    PROVE  /\ Adopt(record[q]) = "lost" => NoneRuns
           /\ AllGone /\ Adopt(record[q]) # "abandoned"
<1>1. record[q] \in Proofs => NoneRuns
  BY RecordSettles DEF RunInv, NoneRuns
<1>2. record[q] = "cancelled" => AllGone
  BY RecordSettles DEF RunInv, AllGone
<1>3. record[q] \in Proofs \cup {"cancelled"}
  BY DEF Adopt, Kinds, NeverStarted, Proofs
<1>4. record[q] = "cancelled" => Adopt(record[q]) = "cancelled"
  BY DEF Adopt, Kinds
<1> QED
  BY <1>1, <1>2, <1>3, <1>4 DEF NoneRuns, AllGone, Adopt, Kinds, NeverStarted, Proofs

\* Where a step leads a reconcile, and what it will publish.
LEMMA Goes ==
    ASSUME RecType, NEW a \in Actor, NEW l, NEW v, Go(a, l, v)
    PROVE  /\ rpc'[a] = l /\ rverdict'[a] = v
           /\ \A b \in Actor \ {a} : rpc'[b] = rpc[b] /\ rverdict'[b] = rverdict[b]
BY DEF RecType, Go

\* A reconcile that asks: nothing changes but its own place.
Asks(a) == \/ Reconcile(a) \/ ReconcileCancel(a) \/ ReconcileReply(a) \/ ReconcileLate(a)
           \/ SettleStranded(a) \/ StrandedRedo(a) \/ StrandedDestination(a)

LEMMA RecActs ==
    ASSUME IInv, NEW a \in Actor, Asks(a), Keeps
    PROVE  /\ RecInv(a)'
           /\ rverdict'[a] # "abandoned" \/ "bound" \in Faults
           /\ \A b \in Actor \ {a} : rpc'[b] = rpc[b] /\ rverdict'[b] = rverdict[b]
<1>1. HostIInv /\ BindInv /\ RunInv /\ AttType /\ RecType /\ RecInv(a)
  BY Types DEF IInv, AttemptInv
<1>2. UNCHANGED <<att, pc>>
  BY DEF Asks, Reconcile, ReconcileCancel, ReconcileReply, ReconcileLate, SettleStranded, StrandedRedo,
     StrandedDestination, Quiet, disk, sup
<1>3. (NoneRuns => NoneRuns') /\ (AllGone => AllGone') /\ (NoneRuns' => AllGone')
  BY KeepsGone DEF NoneRuns, AllGone
<1> DEFINE Here == pc = IF a = Self THEN "proof" ELSE "dead"
           Good == /\ RecInv(a)'
                   /\ rverdict'[a] # "abandoned" \/ "bound" \in Faults
                   /\ \A b \in Actor \ {a} : rpc'[b] = rpc[b] /\ rverdict'[b] = rverdict[b]
<1> SUFFICES Good
  OBVIOUS
<1>4. Idle(a) => Good
  BY <1>1, Goes DEF Idle, RecInv
<1>5. ASSUME NEW v, Go(a, "publish", v), Here, v # "none", v = "lost" => NoneRuns', v # "abandoned" => AllGone',
             v # "abandoned" \/ "bound" \in Faults
      PROVE  Good
  BY <1>1, <1>2, <1>5, Goes DEF RecInv
<1>6. rpc[a] # "idle" => Here
  BY <1>1 DEF RecInv
<1>7. CASE Reconcile(a)
  <2>1. Here
    BY <1>7 DEF Reconcile, Reconcilable, Mine, Up
  <2>2. ASSUME att.sent = {} \/ att.runner \in off PROVE NoneRuns
    BY <1>1, <2>2, RemoteAssumption DEF RunInv, BindInv, NoneRuns
  <2>3. CASE (att.sent = {} \/ att.runner \in off) /\ Go(a, "publish", "lost")
    <3>1. NoneRuns' /\ AllGone'
      BY <1>3, <2>2, <2>3
    <3> QED
      BY <1>5, <2>1, <2>3, <3>1
  <2>4. CASE "bound" \in Faults /\ Go(a, "publish", "abandoned")
    BY <1>5, <2>1, <2>4
  <2>5. ASSUME NEW q \in Runner, q = att.runner, Adopt(record[q]) # "none", Go(a, "publish", Adopt(record[q]))
        PROVE  Good
    <3>1. /\ Adopt(record[q]) = "lost" => NoneRuns'
          /\ AllGone' /\ Adopt(record[q]) # "abandoned"
      BY <1>1, <1>3, <2>5, AdoptProves
    <3> QED
      BY <1>5, <2>1, <2>5, <3>1
  <2>6. CASE att.runner \in Runner /\ Go(a, "cancel", "none")
    BY <1>1, <1>2, <2>1, <2>6, Goes DEF RecInv
  <2> HIDE DEF Good, Here
  <2>7. att.runner # None => att.runner \in Runner
    BY <1>1 DEF AttType
  <2> QED
    BY <1>7, <2>3, <2>4, <2>5, <2>6, <2>7 DEF Reconcile, Fault
<1>8. CASE ReconcileCancel(a)
  <2>1. PICK q \in Runner : q = att.runner
    BY <1>1, <1>8 DEF ReconcileCancel, RecInv
  <2>2. CASE RemoteCancel(q) /\ Go(a, "cancelling", "none")
    <3>1. Fenced(q)'
      BY <1>1, <2>2, CancelFences
    <3>2. Here
      BY <1>6, <1>8 DEF ReconcileCancel
    <3> QED
      BY <1>1, <1>2, <2>1, <2>2, <3>1, <3>2, Goes DEF RecInv
  <2> HIDE DEF Good
  <2> QED
    BY <1>4, <1>8, <2>1, <2>2 DEF ReconcileCancel
<1>9. CASE ReconcileReply(a)
  <2>1. PICK q \in Runner : q = att.runner /\ Fenced(q)
    BY <1>1, <1>9 DEF ReconcileReply, RecInv
  <2>2. CASE Confirms(q) /\ Go(a, "late", "none")
    <3>1. NoneRuns
      BY <1>1, <2>1, <2>2, ConfirmSettles DEF RunInv, NoneRuns
    <3>2. Here
      BY <1>6, <1>9 DEF ReconcileReply
    <3> QED
      BY <1>1, <1>2, <1>3, <2>1, <2>2, <3>1, <3>2, Goes DEF RecInv
  <2> HIDE DEF Good
  <2> QED
    BY <1>4, <1>9, <2>1, <2>2 DEF ReconcileReply
<1>10. CASE ReconcileLate(a)
  <2>1. Here /\ NoneRuns' /\ AllGone'
    BY <1>1, <1>3, <1>6, <1>10 DEF ReconcileLate, RecInv
  <2>2. \A k : Adopt(k) # "abandoned"
    BY DEF Adopt, Kinds
  <2>3. PICK v : Go(a, "publish", v) /\ v # "none" /\ v # "abandoned"
    BY <1>10, <2>2 DEF ReconcileLate
  <2> HIDE DEF Good, Here
  <2> QED
    BY <1>5, <2>1, <2>3
<1>11. CASE SettleStranded(a)
  <2>1. /\ Here /\ a # Self /\ att.moving.phase = "withdrawing" /\ att.runner = att.moving.from
    BY <1>11 DEF SettleStranded, Reconcilable, Mine, Stranded, Up
  <2>2. PICK q \in Runner : q = att.moving.from
    BY <1>1, <2>1 DEF BindInv
  <2>3. record[q] \in Proofs => NoneRuns' /\ AllGone'
    BY <1>1, <1>3, <2>1, <2>2, RecordSettles DEF RunInv, NoneRuns
  <2>4. CASE Go(a, "redo", "none")
    BY <1>1, <1>2, <2>1, <2>4, Goes DEF RecInv
  <2>5. CASE record[q] = "completed" /\ Go(a, "publish", "completed")
    BY <1>5, <2>1, <2>3, <2>5 DEF Proofs
  <2>6. CASE record[q] \in NeverStarted /\ Go(a, "publish", "refused")
    BY <1>5, <2>1, <2>3, <2>6 DEF Proofs, NeverStarted
  <2>7. CASE record[q] \in NeverStarted /\ att.moving.to # Refuse /\ Go(a, "dest", "none")
    <3>1. att.moving.to \in Runner
      BY <1>1, <2>1, <2>7 DEF BindInv, Target
    <3>2. NoneRuns'
      BY <2>3, <2>7 DEF Proofs, NeverStarted
    <3> QED
      BY <1>1, <1>2, <2>1, <2>7, <3>1, <3>2, Goes DEF RecInv
  <2> HIDE DEF Good
  <2> QED
    BY <1>11, <2>2, <2>4, <2>5, <2>6, <2>7 DEF SettleStranded
<1>12. CASE StrandedRedo(a)
  <2>1. Here /\ att.moving.phase = "withdrawing" /\ att.runner = att.moving.from
    BY <1>1, <1>6, <1>12 DEF StrandedRedo, RecInv
  <2>2. PICK q \in Runner : q = att.moving.from
    BY <1>1, <2>1 DEF BindInv
  <2>3. CASE RemoteWithdraw(q) /\ GivenUp(q) /\ Go(a, "publish", "refused")
    <3>1. ~MayRun(q)'
      BY <1>1, <2>3, WithdrawSettles
    <3>2. NoneRuns' /\ AllGone'
      BY <1>1, <1>3, <2>1, <2>2, <3>1 DEF RunInv, NoneRuns, Keeps
    <3> QED
      BY <1>5, <2>1, <2>3, <3>2
  <2> HIDE DEF Good
  <2> QED
    BY <1>4, <1>12, <2>2, <2>3 DEF StrandedRedo
<1>13. CASE StrandedDestination(a)
  <2>1. /\ Here /\ NoneRuns' /\ AllGone' /\ a # Self /\ att.moving.phase = "withdrawing"
        /\ att.runner = att.moving.from /\ att.moving.to \in Runner
    BY <1>1, <1>3, <1>6, <1>13 DEF StrandedDestination, RecInv
  <2>2. CASE Go(a, "tomb", "none") \/ Go(a, "again", "none")
    BY <1>1, <1>2, <2>1, <2>2, Goes DEF RecInv
  <2>3. CASE Go(a, "publish", "lost")
    BY <1>5, <2>1, <2>3
  <2> HIDE DEF Good
  <2> QED
    BY <1>4, <1>13, <2>2, <2>3 DEF StrandedDestination
<1> HIDE DEF Good
<1> QED
  BY <1>7, <1>8, <1>9, <1>10, <1>11, <1>12, <1>13 DEF Asks

LEMMA AsksInv ==
    ASSUME IInv, NEW a \in Actor, Asks(a), Keeps, HostIInv', RemoteTypeOK', StreamInv'
    PROVE  IInv'
<1>1. /\ BindInv /\ RunInv /\ HomeInv /\ SettleInv /\ AttType /\ WorldType /\ CanType
      /\ (\A b \in Actor : RecInv(b)) /\ (\A c \in Canceller : CanInv(c))
  BY Types DEF IInv, AttemptInv
<1>2. UNCHANGED <<att, mark, result, queue, local, pc, want, conf, aborted, cpc, ask, asked, unsure>>
  BY DEF Asks, Reconcile, ReconcileCancel, ReconcileReply, ReconcileLate, SettleStranded, StrandedRedo,
     StrandedDestination, Quiet, disk, sup, dispatching, can
<1>3. UNCHANGED off
  BY DEF Asks, Reconcile, ReconcileCancel, ReconcileReply, ReconcileLate, SettleStranded, StrandedRedo,
     StrandedDestination, Answered, Lost, Unheard, world
<1>4. SameAim
  BY <1>2 DEF SameAim
<1>5. pc # "upload"
  BY <1>1 DEF Asks, Reconcile, ReconcileCancel, ReconcileReply, ReconcileLate, SettleStranded, StrandedRedo,
     StrandedDestination, Reconcilable, Mine, Up, RecInv
<1>6. BindInv' /\ RunInv' /\ HomeInv'
  BY <1>1, <1>2, <1>3, <1>4, <1>5, BindKept, RunKept, HomeKept
<1>7. SettleInv'
  <2>1. \A b \in Actor : rverdict'[b] # "abandoned" \/ rverdict'[b] = rverdict[b] \/ "bound" \in Faults
    BY RecActs
  <2> QED
    BY <1>1, <1>2, <2>1, SettleKept
<1>8. \A b \in Actor : RecInv(b)'
  BY <1>1, <1>2, RecActs, RecKept
<1>9. \A c \in Canceller : CanInv(c)'
  BY <1>1, <1>2, CanKept
<1> QED
  BY <1>6, <1>7, <1>8, <1>9 DEF IInv, AttemptInv

LEMMA RecPublishInv ==
    ASSUME IInv, NEW a \in Actor, ReconcilePublish(a), Keeps, HostIInv', RemoteTypeOK', StreamInv'
    PROVE  IInv'
<1>1. /\ BindInv /\ RunInv /\ HomeInv /\ SettleInv /\ AttType /\ WorldType /\ CanType /\ RecType
      /\ (\A b \in Actor : RecInv(b)) /\ (\A c \in Canceller : CanInv(c))
  BY Types DEF IInv, AttemptInv
<1>2. /\ UNCHANGED <<mark, queue, local, want, conf, aborted, cpc, ask, asked, unsure, off>>
      /\ att' \in {att, Removed} /\ rpc[a] = "publish"
  BY DEF ReconcilePublish, Settle, dispatching, can, world
<1>3. /\ rpc'[a] = "idle" /\ rverdict'[a] = "none"
      /\ \A b \in Actor \ {a} : rpc'[b] = rpc[b] /\ rverdict'[b] = rverdict[b]
  BY <1>1, Goes DEF ReconcilePublish, Idle
<1>4. SameAim
  BY <1>1, <1>2, Fields DEF SameAim
<1>5. /\ pc = IF a = Self THEN "proof" ELSE "dead"
      /\ rverdict[a] # "none" /\ (rverdict[a] = "lost" => NoneRuns) /\ (rverdict[a] # "abandoned" => AllGone)
  BY <1>1, <1>2 DEF RecInv
<1>6. /\ pc' \in {pc, "clear"} \/ (pc' = "stopped" /\ NoneRuns)
      /\ pc' # pc => a = Self /\ pc' \in {"clear", "stopped"}
  BY <1>5 DEF ReconcilePublish
<1>7. BindInv' /\ RunInv'
  BY <1>1, <1>2, <1>4, <1>5, <1>6, BindKept, RunKept
<1>8. ASSUME HomeInv', SettleInv' PROVE IInv'
  <2>1. \A b \in Actor : RecInv(b)'
    <3>1. RecInv(a)'
      BY <1>3 DEF RecInv
    <3>2. ASSUME NEW b \in Actor \ {a} PROVE RecInv(b)'
      <4>1. rpc[b] # "idle" => pc' = pc
        BY <1>1, <1>5, <1>6 DEF RecInv
      <4> QED
        BY <1>1, <1>3, <1>4, <4>1, RecKept DEF SameAim
    <3> QED
      BY <3>1, <3>2
  <2>2. \A c \in Canceller : CanInv(c)'
    <3>1. pc = "dead" => pc' = "dead"
      BY <1>5, <1>6
    <3> QED
      BY <1>1, <1>2, <3>1, CanKept
  <2> QED
    BY <1>7, <1>8, <2>1, <2>2 DEF IInv, AttemptInv
<1>9. CASE /\ att.held /\ att.executor = "remote" /\ Settle(rverdict[a])
           /\ pc' = IF a = Self THEN "clear" ELSE pc
  <2>1. result' # "none" /\ att' = Removed
    BY <1>5, <1>9 DEF Settle
  <2>2. HomeInv'
    BY <1>1, <1>2, <1>4, <1>5, <1>9, <2>1 DEF HomeInv, SameAim, Home
  <2>3. Steady /\ result' # "abandoned" => AllGone
    BY <1>1, <1>5, <1>9 DEF Settle, SettleInv, Steady
  <2>4. Steady' <=> Steady
    BY DEF Steady
  <2>5. pc' \in {"clear", "dead"}
    BY <1>5, <1>9
  <2>6. \A b \in Actor : rverdict'[b] = "none" \/ rverdict'[b] = rverdict[b]
    BY <1>3
  <2>7. AllGone => AllGone'
    BY KeepsGone
  <2>8. Canceller = {} => ~aborted' /\ ~mark'
    BY <1>1, <1>2 DEF SettleInv
  <2>9. "bound" \notin Faults => \A b \in Actor : rverdict'[b] # "abandoned"
    BY <1>1, <2>6 DEF SettleInv
  <2>10. SettleInv'
    BY <2>3, <2>4, <2>5, <2>7, <2>8, <2>9 DEF SettleInv
  <2> QED
    BY <2>2, <2>10, <1>8
<1>10. CASE UNCHANGED <<att, result>> /\ (pc' = pc \/ (pc' = "stopped" /\ pc = "proof"))
  <2>1. HomeInv'
    BY <1>1, <1>2, <1>10 DEF HomeInv, Home
  <2>2. \A b \in Actor : rverdict'[b] # "abandoned" \/ rverdict'[b] = rverdict[b]
    BY <1>3
  <2>3. SettleInv'
    <3>1. CASE pc' = pc
      BY <1>1, <1>2, <1>10, <2>2, <3>1, SettleKept
    <3>2. CASE pc' = "stopped"
      <4>1. Steady' <=> Steady
        BY DEF Steady
      <4>2. AllGone => AllGone'
        BY KeepsGone
      <4>3. "bound" \notin Faults => \A b \in Actor : rverdict'[b] # "abandoned"
        BY <1>1, <2>2 DEF SettleInv
      <4>4. Steady /\ ~att'.held /\ result' # "abandoned" => AllGone'
        BY <1>1, <1>10, <4>2 DEF SettleInv
      <4> QED
        BY <1>1, <1>2, <3>2, <4>1, <4>3, <4>4 DEF SettleInv
    <3> QED
      BY <1>10, <3>1, <3>2
  <2> QED
    BY <1>8, <2>1, <2>3
<1> QED
  BY <1>5, <1>9, <1>10 DEF ReconcilePublish
LEMMA RecStepInv ==
    ASSUME IInv, NEW a \in Actor, RecStep(a), Keeps, HostIInv', RemoteTypeOK', StreamInv'
    PROVE  IInv'
BY AsksInv, RecPublishInv DEF RecStep, Asks

-----------------------------------------------------------------------------
(* lane cancel. *)

\* What a step leaves to the cancel that makes it.
LEMMA Stepped ==
    ASSUME CanType, NEW c \in Canceller, NEW l, NEW rs, Step(c, l, rs)
    PROVE  /\ cpc'[c] = l /\ ask'[c] = rs /\ asked'[c] = None /\ unsure'[c] = FALSE
           /\ \A d \in Canceller \ {c} : /\ cpc'[d] = cpc[d] /\ ask'[d] = ask[d]
                                         /\ asked'[d] = asked[d] /\ unsure'[d] = unsure[d]
BY DEF CanType, Step

LEMMA WasTold ==
    ASSUME CanType, NEW c \in Canceller, NEW r, NEW b, Told(c, r, b)
    PROVE  /\ cpc' = cpc /\ ask'[c] = ask[c] \ {r} /\ asked'[c] = None
           /\ ~unsure'[c] => ~unsure[c] /\ b
           /\ \A d \in Canceller \ {c} : /\ ask'[d] = ask[d]
                                         /\ asked'[d] = asked[d] /\ unsure'[d] = unsure[d]
BY DEF CanType, Told

LEMMA CanActs ==
    ASSUME IInv, NEW c \in Canceller, CanStep(c), Keeps
    PROVE  /\ CanInv(c)'
           /\ \A d \in Canceller \ {c} : /\ cpc'[d] = cpc[d] /\ ask'[d] = ask[d]
                                         /\ asked'[d] = asked[d] /\ unsure'[d] = unsure[d]
<1>1. HostIInv /\ BindInv /\ RunInv /\ AttType /\ CanType /\ CanInv(c)
  BY Types DEF IInv, AttemptInv
<1>2. UNCHANGED pc
  BY DEF CanStep, CancelHere, CancelLive, CancelWait, CancelOrphan, CancelAsk, CancelAnswer, CancelPublish, sup
<1> DEFINE Good == /\ CanInv(c)'
                   /\ \A d \in Canceller \ {c} : /\ cpc'[d] = cpc[d] /\ ask'[d] = ask[d]
                                                 /\ asked'[d] = asked[d] /\ unsure'[d] = unsure[d]
<1> SUFFICES Good
  OBVIOUS
<1>3. ASSUME NEW l \in {"idle", "wait"}, Step(c, l, {}) PROVE Good
  BY <1>1, <1>3, Stepped DEF CanInv
<1>4. ASSUME pc = "dead", Step(c, "ask", Involved) PROVE Good
  <2>1. \A r \in Runner : MayRun(r)' => r \in Involved
    BY <1>1, RemoteAssumption DEF RunInv, Keeps, Involved
  <2> QED
    BY <1>1, <1>2, <1>4, <2>1, Stepped DEF CanInv
<1>5. CASE CancelHere(c) \/ CancelLive(c) \/ CancelWait(c) \/ CancelOrphan(c) \/ CancelPublish(c)
  <2> HIDE DEF Good
  <2> QED
    BY <1>3, <1>4, <1>5 DEF CancelHere, CancelLive, CancelWait, CancelOrphan, CancelPublish, Up
<1>6. CASE CancelAsk(c)
  <2>1. PICK r \in ask[c] :
           \/ RemoteCancel(r) /\ asked' = [asked EXCEPT ![c] = r] /\ UNCHANGED <<cpc, ask, unsure>>
           \/ Told(c, r, FALSE)
    BY <1>6 DEF CancelAsk
  <2>2. r \in Runner /\ cpc[c] = "ask" /\ pc = "dead"
    BY <1>1, <1>6 DEF CancelAsk, CanType, CanInv
  <2>3. CASE RemoteCancel(r) /\ asked' = [asked EXCEPT ![c] = r] /\ UNCHANGED <<cpc, ask, unsure>>
    <3>1. Fenced(r)'
      BY <1>1, <2>2, <2>3, CancelFences
    <3>2. asked'[c] = r /\ \A d \in Canceller \ {c} : asked'[d] = asked[d]
      BY <1>1, <2>3 DEF CanType
    <3>3. Fenced(asked[c])'
      BY <3>1, <3>2
    <3>4. cpc'[c] = "ask" /\ ~unsure'[c] => \A q \in Runner : MayRun(q)' => q \in ask'[c]
      BY <1>1, <2>3 DEF CanInv, Keeps
    <3> QED
      BY <1>2, <2>1, <2>2, <2>3, <3>2, <3>3, <3>4 DEF CanInv
  <2>4. CASE Told(c, r, FALSE)
    BY <1>1, <1>2, <2>2, <2>4, WasTold DEF CanInv
  <2> QED
    BY <2>1, <2>3, <2>4
<1>7. CASE CancelAnswer(c)
  <2>1. PICK q \in Runner : q = asked[c] /\ cpc[c] = "ask" /\ Fenced(q)
    BY <1>1, <1>7 DEF CancelAnswer, CanType, CanInv
  <2>2. \E b \in BOOLEAN : Told(c, q, b) /\ (b => Confirms(q))
    <3>1. Told(c, q, FALSE) \/ Told(c, q, Confirms(q))
      BY <1>7, <2>1 DEF CancelAnswer
    <3>2. Confirms(q) \in BOOLEAN
      BY DEF Confirms
    <3> QED
      BY <3>1, <3>2
  <2>3. PICK b \in BOOLEAN : Told(c, q, b) /\ (b => Confirms(q))
    BY <2>2
  <2>4. ~unsure'[c] => \A r \in Runner : MayRun(r)' => r \in ask'[c]
    <3>1. SUFFICES ASSUME ~unsure'[c] PROVE \A r \in Runner : MayRun(r)' => r \in ask'[c]
      OBVIOUS
    <3>2. ~unsure[c] /\ Confirms(q) /\ ask'[c] = ask[c] \ {q}
      BY <1>1, <2>3, <3>1, WasTold
    <3>3. ~MayRun(q)
      BY <2>1, <3>2, ConfirmSettles
    <3> QED
      BY <1>1, <2>1, <3>2, <3>3 DEF CanInv, Keeps
  <2>5. pc = "dead"
    BY <1>1, <2>1 DEF CanInv
  <2> QED
    BY <1>1, <1>2, <2>1, <2>3, <2>4, <2>5, WasTold DEF CanInv
<1> HIDE DEF Good
<1> QED
  BY <1>5, <1>6, <1>7 DEF CanStep

LEMMA CanStepInv ==
    ASSUME IInv, NEW c \in Canceller, CanStep(c), Keeps, HostIInv', RemoteTypeOK', StreamInv'
    PROVE  IInv'
<1>1. /\ BindInv /\ RunInv /\ HomeInv /\ SettleInv /\ AttType /\ WorldType /\ CanType
      /\ (\A a \in Actor : RecInv(a)) /\ (\A d \in Canceller : CanInv(d))
  BY Types DEF IInv, AttemptInv
<1>2. UNCHANGED <<pc, want, conf, rpc, rverdict>> /\ att' \in {att, Removed}
  BY DEF CanStep, CancelHere, CancelLive, CancelWait, CancelOrphan, CancelAsk, CancelAnswer, CancelPublish, sup,
     dispatching, rec, disk, Settle
<1>3. UNCHANGED off
  BY DEF CanStep, CancelHere, CancelLive, CancelWait, CancelOrphan, CancelAsk, CancelAnswer, CancelPublish, world,
     Answered, Lost, Unheard
<1>4. SameAim
  BY <1>1, <1>2, Fields DEF SameAim
<1>5. pc = "upload" => Uploads
  BY <1>1 DEF CanStep, CancelHere, CancelLive, CancelWait, CancelOrphan, CancelAsk, CancelAnswer, CancelPublish, Uploads,
     host, CanInv
<1>6. BindInv' /\ RunInv'
  BY <1>1, <1>2, <1>3, <1>4, <1>5, BindKept, RunKept
<1>7. \A a \in Actor : RecInv(a)'
  BY <1>1, <1>2, <1>4, RecKept DEF SameAim
<1>8. \A d \in Canceller : CanInv(d)'
  BY <1>1, <1>2, CanActs, CanKept
<1>9. AllGone => AllGone'
  BY KeepsGone
<1>10. /\ queue' \in {queue, "none"} /\ local' \in {local, "gone"}
       /\ \/ att'.held = att.held /\ UNCHANGED result
          \/ result' # "none" /\ pc = "dead" /\ NoneRuns /\ att.held
  <2>1. CASE CancelPublish(c)
    <3>1. CASE att.held /\ ~unsure[c]
      <4>1. NoneRuns /\ pc = "dead"
        BY <1>1, <2>1, <3>1 DEF CancelPublish, CanInv, NoneRuns
      <4> QED
        BY <2>1, <3>1, <4>1 DEF CancelPublish, Settle
    <3>2. CASE ~(att.held /\ ~unsure[c])
      BY <2>1, <3>2 DEF CancelPublish
    <3> QED
      BY <3>1, <3>2
  <2>2. CASE CancelHere(c)
    <3>1. CASE UNCHANGED <<att, result>>
      BY <2>2, <3>1 DEF CancelHere
    <3>2. CASE local = "alive" /\ ~Up /\ att' = Removed /\ result' = (IF att.held THEN "cancelled" ELSE result)
      <4>1. NoneRuns /\ pc = "dead" /\ Removed.held = FALSE
        BY <1>1, <3>2, Fields DEF HomeInv, RunInv, Up
      <4>2. att.held \in BOOLEAN
        BY <1>1 DEF AttType
      <4> QED
        BY <2>2, <3>2, <4>1, <4>2 DEF CancelHere
    <3> QED
      BY <2>2, <3>1, <3>2 DEF CancelHere
  <2>3. CASE CancelLive(c) \/ CancelWait(c) \/ CancelOrphan(c) \/ CancelAsk(c) \/ CancelAnswer(c)
    BY <2>3 DEF CancelLive, CancelWait, CancelOrphan, CancelAsk, CancelAnswer, disk
  <2> QED
    BY <2>1, <2>2, <2>3 DEF CanStep
<1>11. HomeInv'
  BY <1>1, <1>2, <1>4, <1>10 DEF HomeInv, SameAim, Home
<1>12. SettleInv'
  <2>1. Steady' <=> Steady
    BY DEF Steady
  <2>2. Steady /\ ~att'.held /\ result' # "abandoned" => AllGone'
    BY <1>1, <1>9, <1>10 DEF SettleInv, AllGone, NoneRuns
  <2>3. Canceller # {}
    OBVIOUS
  <2> QED
    BY <1>1, <1>2, <1>9, <2>1, <2>2, <2>3 DEF SettleInv
<1> QED
  BY <1>6, <1>7, <1>8, <1>11, <1>12 DEF IInv, AttemptInv

-----------------------------------------------------------------------------
(* The invariant holds. *)

LEMMA AttemptStep == IInv /\ [Next]_vars => IInv'
<1> SUFFICES ASSUME IInv, [Next]_vars PROVE IInv'
  OBVIOUS
<1>1. HostIInv' /\ StreamInv' /\ RemoteTypeOK'
  BY HostStays, TypeStays
<1>2. HostEffect => Keeps
  BY CalmKeeps DEF IInv, HostEffect
<1>3. BindInv /\ RemoteTypeOK /\ (\A a \in Actor : RecInv(a))
  BY DEF IInv, AttemptInv
<1>4. CASE SupAny
  BY <1>1, <1>2, <1>4, Effect, SupInv
<1>5. CASE Ends \/ AfterDeath
  BY <1>1, <1>2, <1>3, <1>5, EndsEffect, EndsInv, AfterInv
<1>6. ASSUME NEW a \in Actor, RecStep(a) PROVE IInv'
  BY <1>1, <1>2, <1>3, <1>6, RecEffect, RecStepInv
<1>7. ASSUME NEW c \in Canceller, CanStep(c) PROVE IInv'
  BY <1>1, <1>2, <1>3, <1>7, CanEffect, CanStepInv
<1>8. ASSUME NEW r \in Runner, HostAny(r) PROVE IInv'
  BY <1>1, <1>2, <1>8, AnyEffect, HostAnyInv
<1>9. CASE UNCHANGED vars
  <2>1. Keeps /\ UNCHANGED <<att, mark, result, queue, local, pc, want, conf, aborted, rpc, rverdict, cpc, ask, asked,
                            unsure, off>>
    BY <1>2, <1>9 DEF vars, HostEffect, disk, sup, dispatching, rec, can, world
  <2>2. /\ BindInv /\ RunInv /\ HomeInv /\ SettleInv /\ AttType /\ WorldType /\ CanType
        /\ (\A a \in Actor : RecInv(a)) /\ (\A c \in Canceller : CanInv(c))
    BY Types DEF IInv, AttemptInv
  <2>3. SameAim
    BY <2>1 DEF SameAim
  <2>4. Uploads
    BY <1>9 DEF vars, host, Uploads
  <2>5. BindInv' /\ RunInv' /\ HomeInv' /\ SettleInv'
    BY <2>1, <2>2, <2>3, <2>4, BindKept, RunKept, HomeKept, SettleKept
  <2>6. \A a \in Actor : RecInv(a)'
    BY <2>1, <2>2, RecKept
  <2>7. \A c \in Canceller : CanInv(c)'
    BY <2>1, <2>2, CanKept
  <2> QED
    BY <1>1, <2>5, <2>6, <2>7 DEF IInv, AttemptInv
<1> QED
  BY <1>4, <1>5, <1>6, <1>7, <1>8, <1>9, Cases DEF SupAny

LEMMA AttemptInit == Init => IInv
<1> SUFFICES ASSUME Init PROVE IInv
  OBVIOUS
<1>1. HostIInv
  BY Initially DEF Init
<1>2. \A r \in Runner : ~MayRun(r) /\ wire[r] = "none" /\ lane[r] = "none"
  BY DEF Init, HostInit, MayRun, Live
<1>3. RemoteTypeOK
  <2>1. AttType
    BY RemoteAssumption DEF Init, Created, NoMove, AttType
  <2>2. WorldType /\ DiskType
    <3>1. DiskType
      BY DEF Init, DiskType
    <3>2. 0 \in 0..MaxFaults
      BY RemoteAssumption
    <3> QED
      BY <3>1, <3>2 DEF Init, WorldType
  <2>3. SupType
    BY DEF Init, SupType, PC, Remote
  <2>4. RecType
    BY DEF Init, RecType, RPC
  <2>5. CanType
    BY DEF Init, CanType, CPC
  <2> QED
    BY <1>1, <2>1, <2>2, <2>3, <2>4, <2>5, Types DEF HostIInv
<1>4. StreamInv /\ HomeInv
  BY <1>2 DEF StreamInv, HomeInv, Init, Created, Home
<1>5. BindInv
  BY <1>2, RemoteAssumption DEF BindInv, Init, Created, NoMove, Bound
<1>6. RunInv
  BY <1>2 DEF RunInv, NoneRuns, Init
<1>7. SettleInv
  BY DEF SettleInv, Init, Created
<1>8. (\A a \in Actor : RecInv(a)) /\ (\A c \in Canceller : CanInv(c))
  BY DEF RecInv, CanInv, Init
<1> QED
  BY <1>1, <1>3, <1>4, <1>5, <1>6, <1>7, <1>8 DEF IInv, AttemptInv

LEMMA AttemptAlways == Spec => []IInv
BY AttemptInit, AttemptStep, PTL DEF Spec

-----------------------------------------------------------------------------
(* What follows. *)

\* RemoteAttempt implements RunnerTicket: whatever the submitter, its reconciles
\* and its cancels do, every step is one that a host allows at any time.  So all
\* that is proved of a host is true of it here.
THEOREM AttemptImplementsHosts == Spec => HostSpec
<1>1. Init => HostInit
  BY DEF Init
<1>2. IInv /\ [Next]_vars => [HostNext]_host
  BY HostStays
<1> QED
  BY <1>1, <1>2, AttemptAlways, PTL DEF Spec, HostSpec

\* The records of every runner prove what they say, whatever submitters do.
THEOREM AttemptRecordsProve == Spec => []RecordsProve
BY AttemptImplementsHosts, HostRecordsProve

\* What a runner has confirmed stays so.
THEOREM AttemptDeadStaysDead == Spec => DeadStaysDead
BY AttemptImplementsHosts, HostDeadStaysDead

\* The command never runs on two machines at once: on the runner that the
\* attempt names, or here once that one is proven not to run it.  Under every
\* fault, with any number of reconciles and cancels, and even where a ticket
\* is given up on.
THEOREM OneHost == Spec => []AtMostOneHost
<1>1. IInv => AtMostOneHost
  <2> SUFFICES ASSUME IInv PROVE AtMostOneHost
    OBVIOUS
  <2>1. RunInv /\ HomeInv
    BY DEF IInv, AttemptInv
  <2>2. \A r \in Runner : Live(r) => r = att.runner
    BY <2>1 DEF RunInv, MayRun
  <2>3. local = "alive" => \A r \in Runner : ~Live(r)
    BY <2>1 DEF RunInv, HomeInv, NoneRuns, MayRun
  <2>4. PICK x : Executing \subseteq {x}
    <3>1. CASE local = "alive"
      BY <2>3, <3>1 DEF Executing
    <3>2. CASE local # "alive"
      BY <2>2, <3>2 DEF Executing
    <3> QED
      BY <3>1, <3>2
  <2>5. IsFiniteSet({x}) /\ Cardinality({x}) = 1
    BY FS_Singleton
  <2>6. Cardinality(Executing) <= Cardinality({x})
    BY <2>4, <2>5, FS_Subset
  <2> QED
    BY <2>5, <2>6 DEF AtMostOneHost
<1> QED
  BY <1>1, AttemptAlways, PTL

\* A ticket is settled once: with the attempt record gone, nobody publishes
\* (publishTerminal).
THEOREM SettledOnceAlways == Spec => SettledOnce
<1>1. IInv /\ [Next]_vars => [~att.held => UNCHANGED result]_vars
  <2> SUFFICES ASSUME IInv, Next, ~att.held PROVE UNCHANGED result
    OBVIOUS
  <2>1. HomeInv
    BY DEF IInv, AttemptInv
  <2>2. CASE SupAny
    BY <2>2, SupFiles
  <2>3. CASE Ends \/ AfterDeath
    BY <2>1, <2>3 DEF Ends, Leave, Crash, Abandon, Dead, AfterDeath, Recover, ReapQueue, LocalOrphanEnds, SettleLocal,
       HomeInv, disk
  <2>4. ASSUME NEW a \in Actor, RecStep(a) PROVE UNCHANGED result
    BY <2>4 DEF RecStep, Reconcile, ReconcileCancel, ReconcileReply, ReconcileLate, SettleStranded, StrandedRedo,
       StrandedDestination, ReconcilePublish, Quiet, disk
  <2>5. ASSUME NEW c \in Canceller, CanStep(c) PROVE UNCHANGED result
    BY <2>5 DEF CanStep, CancelHere, CancelLive, CancelWait, CancelOrphan, CancelAsk, CancelAnswer, CancelPublish, disk
  <2>6. ASSUME NEW r \in Runner, HostAny(r) PROVE UNCHANGED result
    BY <2>6 DEF HostAny, HostActs, StrayArrives, HostFails, disk
  <2>7. CASE UNCHANGED vars
    BY <2>7 DEF vars, disk
  <2> QED
    BY <2>2, <2>3, <2>4, <2>5, <2>6, <2>7, Cases DEF SupAny
<1> QED
  BY <1>1, AttemptAlways, PTL DEF Spec, SettledOnce

LEMMA Tracked == ASSUME Steady PROVE IInv => TicketTracked
<1> SUFFICES ASSUME IInv PROVE TicketTracked
  OBVIOUS
<1>1. BindInv /\ RunInv /\ HomeInv /\ SettleInv /\ AttType
  BY Types DEF IInv, AttemptInv
<1>2. NeverRevisited
  BY <1>1 DEF NeverRevisited, BindInv
<1>3. QueuedRunsNowhere
  BY <1>1 DEF QueuedRunsNowhere, HomeInv, RunInv, NoneRuns
<1>4. NeverForgotten
  <2> SUFFICES ASSUME result # "abandoned", NEW r \in Runner, MayRun(r), ~Disowned(r)
               PROVE  att.held /\ att.executor = "remote" /\ r \in Involved
    BY DEF NeverForgotten
  <2>1. att.held
    BY <1>1 DEF SettleInv, AllGone
  <2>2. att.executor = "remote"
    BY <1>1 DEF RunInv, NoneRuns, AttType
  <2>3. r = att.runner /\ r \notin {None, Refuse}
    BY <1>1, RemoteAssumption DEF RunInv
  <2> QED
    BY <2>1, <2>2, <2>3 DEF Involved
<1> QED
  BY <1>2, <1>3, <1>4 DEF TicketTracked

\* A dispatch that may be live is never forgotten, no runner is sent the ticket
\* twice, and a queued one is nowhere else (README.md:1151).  Without Steady this
\* is not so: an abort during an expired wait publishes `cancelled` although the
\* runner has not confirmed it, and the marker of a `lane cancel` hides that a
\* ticket was given up (runnerLostAfterMs).
THEOREM TicketIsTracked == ASSUME Steady PROVE Spec => []TicketTracked
<1>1. IInv => TicketTracked
  BY Tracked
<1> QED
  BY <1>1, AttemptAlways, PTL

\* The same, with every file and every local variable in its type.
THEOREM DispatchesAreTracked == ASSUME Steady PROVE Spec => []DispatchesTracked
<1>1. IInv => DispatchesTracked
  BY Tracked DEF DispatchesTracked, IInv
<1> QED
  BY <1>1, AttemptAlways, PTL

\* Two parts of it need no such assumption: a runner is picked only if it never saw
\* the ticket (dispatchedRunners), and a queued ticket may run nowhere else.
THEOREM RunnersAreFresh == Spec => [](NeverRevisited /\ QueuedRunsNowhere)
<1>1. IInv => NeverRevisited /\ QueuedRunsNowhere
  BY DEF IInv, AttemptInv, NeverRevisited, QueuedRunsNowhere, BindInv, HomeInv, RunInv, NoneRuns
<1> QED
  BY <1>1, AttemptAlways, PTL
=============================================================================
