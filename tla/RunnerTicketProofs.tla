------------------------- MODULE RunnerTicketProofs -------------------------
(*****************************************************************************)
(* Proofs about RunnerTicket, for any set of runners and any faults, and for *)
(* requests that arrive in any order: HostSpec lets them.                    *)
(*****************************************************************************)
EXTENDS RunnerTicket, TLAPS

\* What is true of one runner at every time: a lane has been named by an exec
\* that has a ticket directory, a result means that the lane has ended, and a
\* lane noted as unstarted is fenced and never lives.
HostInvAt(r) ==
    /\ wire[r] = "none" => exec[r] = "none"
    /\ lane[r] # "none" => exec[r] \in {"named", "published", "dead"}
    /\ how[r] # "none" => lane[r] = "ended"
    /\ record[r] # "none" => exec[r] = "published"
    /\ r \in unstarted => r \in stop /\ lane[r] \notin {"none", "running", "orphaned"}
    /\ exec[r] = "published" => lane[r] \in {"none", "refused", "ended", "orphaned"}
    /\ lane[r] = "orphaned" => record[r] \notin Proofs

HostInv == \A r \in Runner : HostInvAt(r)

HostIInv == HostTypeOK /\ HostInv

Others(r) ==
    \A q \in Runner \ {r} :
        /\ wire'[q] = wire[q] /\ exec'[q] = exec[q] /\ lane'[q] = lane[q]
        /\ how'[q] = how[q] /\ record'[q] = record[q]
        /\ (q \in tomb' <=> q \in tomb) /\ (q \in cancelled' <=> q \in cancelled)
        /\ (q \in stop' <=> q \in stop) /\ (q \in shut' <=> q \in shut)
        /\ (q \in unstarted' <=> q \in unstarted)

-----------------------------------------------------------------------------
(* The kind that the exec derives is one of the kinds a record can have.     *)

LEMMA RecordOfType ==
    ASSUME HostTypeOK, NEW r \in Runner
    PROVE  RecordOf(r) \in Record \ {"none"}
BY DEF HostTypeOK, RecordOf, Record, How

\* A live lane's exec never derives a kind that proves anything: the lane has
\* no result, was not refused and is not noted as unstarted.
LEMMA OrphanProvesNothing ==
    ASSUME HostIInv, NEW r \in Runner, lane[r] = "orphaned"
    PROVE  RecordOf(r) \notin Proofs
<1>1. how[r] = "none" /\ r \notin unstarted
  BY DEF HostIInv, HostInv, HostInvAt
<1>2. ~ProvenStop(r)
  BY <1>1 DEF ProvenStop
<1> QED
  BY <1>1, <1>2 DEF RecordOf, Proofs

-----------------------------------------------------------------------------
\* A step of HostNext is one of these, at one runner.
Act(r) == HostStep(r) \/ HostFault(r) \/ HostRequest(r) \/ PowerOff(r)

LEMMA TypeStep ==
    ASSUME HostTypeOK, NEW r \in Runner, Act(r)
    PROVE  HostTypeOK' /\ Others(r)
<1> USE DEF Wire, Exec, Lane, How
<1>1. CASE NoTicket(r) \/ Arrive(r) \/ Land(r) \/ Cut(r)
  BY <1>1 DEF HostTypeOK, Others, NoTicket, Arrive, Land, Cut
<1>2. CASE Create(r) \/ Announce(r) \/ ExecDies(r)
  BY <1>2 DEF HostTypeOK, Others, Create, Announce, ExecDies
<1>3. CASE Reject(r)
  BY <1>3 DEF HostTypeOK, Others, Reject, Record
<1>4. CASE Name(r) \/ NameDrained(r)
  BY <1>4 DEF HostTypeOK, Others, Name, NameDrained
<1>5. CASE Publish(r)
  <2> HIDE DEF Record
  <2>1. RecordOf(r) \in Record
    BY RecordOfType
  <2> QED
    BY <1>5, <2>1 DEF HostTypeOK, Others, Publish
<1>6. CASE Enqueue(r) \/ Admit(r)
  BY <1>6 DEF HostTypeOK, Others, Enqueue, Admit
<1>7. CASE StopQueued(r) \/ ExpireQueued(r) \/ Finish(r) \/ OrphanEnds(r)
  <2>1. PICK h \in How : End(r, h)
    BY <1>7 DEF StopQueued, ExpireQueued, Finish, OrphanEnds
  <2> QED
    BY <2>1 DEF HostTypeOK, Others, End
<1>8. CASE LaneSupervisorDies(r)
  BY <1>8 DEF HostTypeOK, Others, LaneSupervisorDies, End
<1>9. CASE RemoteCancel(r)
  BY <1>9 DEF HostTypeOK, Others, RemoteCancel
<1>10. CASE RemoteWithdraw(r)
  BY <1>10 DEF HostTypeOK, Others, RemoteWithdraw
<1>11. CASE RemoteShutdown(r)
  BY <1>11 DEF HostTypeOK, Others, RemoteShutdown
<1>12. CASE Reboot(r) \/ PowerOff(r)
  BY <1>12 DEF HostTypeOK, Others, Reboot, PowerOff, Record
<1> QED
  BY <1>1, <1>2, <1>3, <1>4, <1>5, <1>6, <1>7, <1>8, <1>9, <1>10, <1>11, <1>12
     DEF Act, HostStep, HostFault, HostRequest

LEMMA InvStep ==
    ASSUME HostIInv, NEW r \in Runner, Act(r)
    PROVE  HostInvAt(r)'
<1> USE DEF HostIInv, HostInv, HostTypeOK
<1> USE DEF HostInvAt
<1>1. CASE NoTicket(r) \/ Arrive(r) \/ Land(r) \/ Cut(r)
  BY <1>1 DEF NoTicket, Arrive, Land, Cut
<1>2. CASE Create(r) \/ Announce(r) \/ ExecDies(r)
  BY <1>2 DEF Create, Announce, ExecDies
<1>3. CASE Reject(r)
  BY <1>3 DEF Reject
<1>4. CASE Name(r) \/ NameDrained(r)
  BY <1>4 DEF Name, NameDrained
<1>5. CASE Publish(r)
  <2>1. record'[r] = RecordOf(r) /\ exec'[r] = "published" /\ lane' = lane /\ wire' = wire
    BY <1>5 DEF Publish
  <2>2. lane[r] \in {"none", "refused", "ended", "orphaned"}
    BY <1>5 DEF Publish
  <2>3. lane[r] = "orphaned" => RecordOf(r) \notin Proofs
    BY OrphanProvesNothing
  <2>4. wire[r] # "none"
    BY <1>5 DEF Publish
  <2> QED
    BY <1>5, <2>1, <2>2, <2>3, <2>4 DEF Publish
<1>6. CASE Enqueue(r) \/ Admit(r)
  BY <1>6 DEF Enqueue, Admit
<1>7. CASE StopQueued(r) \/ ExpireQueued(r) \/ Finish(r) \/ OrphanEnds(r)
  <2>1. PICK h : End(r, h)
    BY <1>7 DEF StopQueued, ExpireQueued, Finish, OrphanEnds
  <2>2. lane[r] # "none" /\ lane[r] # "ended"
    BY <1>7 DEF StopQueued, ExpireQueued, Finish, OrphanEnds
  <2> QED
    BY <2>1, <2>2 DEF End
<1>8. CASE LaneSupervisorDies(r)
  BY <1>8 DEF LaneSupervisorDies, End, Proofs
<1>9. CASE RemoteCancel(r)
  BY <1>9 DEF RemoteCancel
<1>10. CASE RemoteWithdraw(r)
  BY <1>10 DEF RemoteWithdraw
<1>11. CASE RemoteShutdown(r)
  BY <1>11 DEF RemoteShutdown, Live
<1>12. CASE Reboot(r) \/ PowerOff(r)
  BY <1>12 DEF Reboot, PowerOff
<1> QED
  BY <1>1, <1>2, <1>3, <1>4, <1>5, <1>6, <1>7, <1>8, <1>9, <1>10, <1>11, <1>12
     DEF Act, HostStep, HostFault, HostRequest

\* The other runners keep what they have.
LEMMA InvOthers ==
    ASSUME HostInv, NEW r \in Runner, Others(r), NEW q \in Runner \ {r}
    PROVE  HostInvAt(q)'
BY DEF HostInv, HostInvAt, Others

LEMMA Inductive == HostIInv /\ [HostNext]_host => HostIInv'
<1> SUFFICES ASSUME HostIInv, [HostNext]_host PROVE HostIInv'
  OBVIOUS
<1>1. CASE UNCHANGED host
  BY <1>1 DEF HostIInv, HostTypeOK, HostInv, HostInvAt, host
<1>2. ASSUME NEW r \in Runner, Act(r) PROVE HostIInv'
  <2>1. HostTypeOK' /\ Others(r)
    BY <1>2, TypeStep DEF HostIInv
  <2>2. HostInvAt(r)'
    BY <1>2, InvStep
  <2>3. \A q \in Runner \ {r} : HostInvAt(q)'
    BY <2>1, InvOthers DEF HostIInv
  <2> HIDE DEF HostInvAt
  <2> QED
    BY <2>1, <2>2, <2>3 DEF HostIInv, HostInv
<1> QED
  BY <1>1, <1>2 DEF HostNext, Act

LEMMA Initially == HostInit => HostIInv
BY DEF HostInit, HostIInv, HostTypeOK, HostInv, HostInvAt, Wire, Exec, Lane, How, Record, Proofs

\* Type correctness of a runner's ticket, for every set of runners.
THEOREM HostTypeCorrect == HostSpec => []HostTypeOK
BY Initially, Inductive, PTL DEF HostSpec, HostIInv

LEMMA HostAlways == HostSpec => []HostIInv
BY Initially, Inductive, PTL DEF HostSpec

-----------------------------------------------------------------------------
\* Records prove: whatever the submitters ask of a runner and in which order,
\* and whichever of its processes die, a record that says that the job is over
\* is never wrong (remoteExecCommand, shutdownStopReason, servedRecord).
THEOREM HostRecordsProve == HostSpec => []RecordsProve
<1>1. HostIInv => RecordsProve
  BY DEF HostIInv, HostInv, HostInvAt, RecordsProve, MayRun, Live, Proofs
<1> QED
  BY <1>1, HostAlways, PTL

-----------------------------------------------------------------------------
\* A step at r does not bring r's ticket back.
LEMMA DeadStep ==
    ASSUME HostIInv, NEW r \in Runner, Act(r),
           ~MayRun(r), wire[r] # "none" \/ r \in tomb
    PROVE  ~MayRun(r)'
<1> USE DEF MayRun, Live
<1> USE DEF HostIInv, HostInv, HostInvAt, HostTypeOK
<1>1. CASE NoTicket(r) \/ Arrive(r) \/ Land(r) \/ Cut(r)
  BY <1>1 DEF NoTicket, Arrive, Land, Cut
<1>2. CASE Create(r) \/ Announce(r) \/ ExecDies(r)
  BY <1>2 DEF Create, Announce, ExecDies
<1>3. CASE Reject(r) \/ Publish(r)
  BY <1>3 DEF Reject, Publish
<1>4. CASE Name(r) \/ NameDrained(r)
  BY <1>4 DEF Name, NameDrained
<1>5. CASE Enqueue(r) \/ Admit(r)
  BY <1>5 DEF Enqueue, Admit
<1>6. CASE StopQueued(r) \/ ExpireQueued(r) \/ Finish(r) \/ OrphanEnds(r)
  BY <1>6 DEF StopQueued, ExpireQueued, Finish, OrphanEnds, End
<1>7. CASE LaneSupervisorDies(r)
  BY <1>7 DEF LaneSupervisorDies, End
<1>8. CASE RemoteCancel(r) \/ RemoteWithdraw(r)
  BY <1>8 DEF RemoteCancel, RemoteWithdraw
<1>9. CASE RemoteShutdown(r)
  BY <1>9 DEF RemoteShutdown
<1>10. CASE Reboot(r) \/ PowerOff(r)
  BY <1>10 DEF Reboot, PowerOff
<1> QED
  BY <1>1, <1>2, <1>3, <1>4, <1>5, <1>6, <1>7, <1>8, <1>9, <1>10
     DEF Act, HostStep, HostFault, HostRequest

\* What is dead stays dead: a confirmed cancel, a tombstone and a withdrawal
\* are final, for every runner and under every fault.
THEOREM HostDeadStaysDead == HostSpec => DeadStaysDead
<1>1. HostIInv /\ [HostNext]_host =>
        [\A r \in Runner : ~MayRun(r) /\ (wire[r] # "none" \/ r \in tomb) => ~MayRun(r)']_host
  <2> SUFFICES ASSUME HostIInv, HostNext, NEW r \in Runner,
                      ~MayRun(r), wire[r] # "none" \/ r \in tomb
               PROVE  ~MayRun(r)'
    OBVIOUS
  <2>1. PICK q \in Runner : Act(q)
    BY DEF HostNext, Act
  <2>2. CASE q = r
    BY <2>1, <2>2, DeadStep
  <2>3. CASE q # r
    <3>1. Others(q)
      BY <2>1, TypeStep DEF HostIInv
    <3> QED
      BY <2>3, <3>1 DEF Others, MayRun, Live
  <2> QED
    BY <2>2, <2>3
<1> QED
  BY <1>1, HostAlways, PTL DEF HostSpec, DeadStaysDead
=============================================================================
