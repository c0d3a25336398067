------------------------------ MODULE Selection ------------------------------
(*****************************************************************************)
(* Which queued ticket starts: tryStart of src/scheduler.js behind the       *)
(* scheduler fence, with the order of src/priority.js, the per-ticket        *)
(* records of src/fairness.js, the sim caps of src/classes.js, the push      *)
(* holds of src/push-gate.js, the exclusive runs of src/exclusive.js, the    *)
(* express lane of src/express.js and the CPU and memory decision of         *)
(* src/admission.js and src/resources.js.                                    *)
(*                                                                           *)
(* A poll is one callback under the broker lock, so one action.  What the    *)
(* host reports to it (load, CPU, memory, a disk that refuses writes) is the *)
(* `sample` that the poll is given.  schedulerMode is "active" and the class *)
(* caps are on.  CPU is counted in tenths of a core.                         *)
(*****************************************************************************)
EXTENDS Naturals, FiniteSets, FiniteSetsExt, Sequences

CONSTANTS
    Ticket, Key, None,
    Workloads,      \* what the tickets may ask for: a set of functions on Ticket
    Samples,        \* what a poll may find on the host
    Quiet,          \* the sample of a host with nothing else to do
    Capacity,       \* effectiveWeightCapacity
    Budget,         \* cpuBudgetCores
    MemBudget,      \* the host's memory less memoryReserveBytes
    SettledFloor,   \* settledDemandFloorFraction, in tenths
    YieldShare,     \* 1 - preemptibleShare, in tenths
    NiceMin,        \* preemptibleNiceMin
    LaneNice,       \* laneNice
    TierNice,       \* TierNice[r]: priorityNice at tier r, laneNice where it names none
    SkipLimit,      \* conflictSkipLimit
    ResLimit,       \* resourceSkipLimit
    Grace,          \* headBlockGraceMs, in ticks
    AgeMax,         \* priorityAgeMaxMs, in ticks
    TierWeight, AgeWeight,
    ExpressWait,    \* expressHeadMaxWaitMs, in ticks
    PerMinute,      \* expressPerMinute; a tick is one rate window
    IdleOvershoot, FloorOvershoot,
    BypassCap,      \* queueBypassCap
    SimTickets, SimCores, SimMem, TestReserve,
    MaxHigh,        \* maxQueuedHighPerRepo
    Arrival,        \* bound: the order in which the tickets are submitted
    Retiers,        \* bound: the re-tierings a user may ask for, <<ticket, tier>>
    Cancellable,    \* bound: the tickets a user may cancel
    Killable,       \* bound: the tickets whose supervisor may die
    MaxTicks        \* bound: how long time runs

Tiers == {"low", "medium", "high"}
Base == [low |-> 0, medium |-> 1, high |-> 2]

\* Elastic claims are whole cores.
Core == 10

\* `min` is the elastic floor, in whole cores (the whole claim when the lane is
\* not elastic), `nice` the lane's own nice,
\* `short` and `brief` the predictions of the express and the bypass table,
\* `push` the git push a gate runs under: its caller, its git process (numbered
\* in the order they started) and what it pushes.
Asks == [key : Key, conflicts : SUBSET Key, ceiling : Nat, weight : Nat,
         cpu : Nat, min : Nat, mem : Nat, nice : Nat \cup {None}, tier : Tiers, sim : BOOLEAN,
         exclusive : BOOLEAN, aging : BOOLEAN, short : BOOLEAN, brief : BOOLEAN,
         push : [caller : Nat, git : Nat, what : Nat] \cup {None}]

\* up: a usable CPU sample; gate and cool: the CPU gate is closed, an ordinary
\* start was too recent; quiet: the gate would be open without the bypass runs;
\* load, critical: the load gate, the memory brake; x, m: cores other programs
\* use, memory available above the reserve; broken: the state directory refuses
\* writes.  use[t]: what t's lease was last seen to use, None without a fresh
\* observation; `peak` is its padded recent peak once the lease has settled.
\* past[t][g]: the cores (at least MIN_ESTIMATE_CORES) that history says t needs
\* when it is granted g, None when there is no usable history.
SampleSet == [up : BOOLEAN, gate : BOOLEAN, cool : BOOLEAN, quiet : BOOLEAN,
              load : BOOLEAN, critical : BOOLEAN, x : Nat, m : Nat, broken : BOOLEAN,
              use : [Ticket -> [cpu : Nat, peak : Nat \cup {None}, mem : Nat] \cup {None}],
              past : [Ticket -> [0..Budget -> Nat \cup {None}]]]

\* The records of fairness-v2.json for a ticket.  skips: tickets counted past it
\* while it was conflicted; since: how long ago a poll first found it the blocked
\* head; heavy: tickets counted past it while it was too heavy; res: its resource
\* record.
ResourceRecords ==
    [count : 0..ResLimit, reserved : BOOLEAN, yields : 0..ResLimit, inScope : BOOLEAN,
     behind : BOOLEAN, futile : BOOLEAN, x : Nat, m : Nat \cup {None}]
Records == [skips : 0..SkipLimit, since : (0..Grace) \cup {None}, heavy : 0..SkipLimit,
            res : ResourceRecords \cup {None}]

\* The lifts, the ways to pass a head and the allowances a pass is counted on.
Words == {"floor", "bypass", "outran", "safe", "express", "yield", "conflict", "capacity", "resource"}

ASSUME SelectionAssumption ==
    /\ IsFiniteSet(Ticket) /\ None \notin Ticket \cup Nat \cup Words \cup ResourceRecords
    /\ Workloads \subseteq [Ticket -> Asks]
    /\ Samples \subseteq SampleSet /\ Quiet \in SampleSet
    \* oversizedWeight and checkResourceBudget refuse what could never start.
    /\ \A w \in Workloads, t \in Ticket :
          /\ w[t].weight <= Capacity /\ w[t].mem <= MemBudget
          /\ w[t].min <= w[t].cpu /\ w[t].cpu <= Budget
          /\ w[t].min < w[t].cpu => w[t].min % Core = 0
    /\ TierNice \in [Tiers -> Nat]
    /\ {Capacity, Budget, MemBudget, SettledFloor, YieldShare, NiceMin, LaneNice, SkipLimit, ResLimit, Grace, AgeMax, TierWeight,
        AgeWeight, ExpressWait, PerMinute, IdleOvershoot, FloorOvershoot,
        BypassCap, SimTickets, SimCores, SimMem, TestReserve, MaxHigh, MaxTicks} \subseteq Nat
    /\ Arrival \in Seq(Ticket)
    /\ Retiers \subseteq Ticket \X Tiers /\ Cancellable \subseteq Ticket /\ Killable \subseteq Ticket

VARIABLES
    ask,        \* ask[t]: what t declares, fixed when it is submitted
    state,      \* state[t]: "new", "queued", "running", "orphaned" or "done"
    queue,      \* the queued tickets by sequence number
    tier,       \* tier[t]: the tier t was admitted at
    waited,     \* waited[t]: how long t has been queued
    cancelled,  \* tickets with a cancel marker, the superseded ones included
    fair,       \* fair[t]: the records of fairness-v2.json for t
    latched,    \* the tickets that earned a reservation, by reservationSeq
    grant,      \* grant[t]: the cores t's lease was granted
    lift,       \* lift[t]: "floor", "bypass" (in its window) or "outran"
    ticks,      \* how long the model has run
    rate,       \* express starts in the current window
    passed      \* history: passed[t] counts the starts past t, by allowance

vars == <<ask, state, queue, tier, waited, cancelled, fair, latched, grant, lift, ticks, rate, passed>>

Queued == {t \in Ticket : state[t] = "queued"}
Held == {t \in Ticket : state[t] \in {"running", "orphaned"}}

NoRecords == [skips |-> 0, since |-> None, heavy |-> 0, res |-> None]
NoPass == [conflict |-> 0, capacity |-> 0, resource |-> 0, yield |-> 0]

SelectionInit ==
    /\ ask \in Workloads
    /\ state = [t \in Ticket |-> "new"]
    /\ queue = <<>>
    /\ tier = [t \in Ticket |-> "medium"]
    /\ waited = [t \in Ticket |-> 0]
    /\ cancelled = {}
    /\ fair = [t \in Ticket |-> NoRecords] /\ latched = <<>>
    /\ grant = [t \in Ticket |-> 0] /\ lift = [t \in Ticket |-> None]
    /\ ticks = 0 /\ rate = 0
    /\ passed = [t \in Ticket |-> NoPass]

-----------------------------------------------------------------------------
(* Conflicts, and what the leases are booked with.                           *)

\* A held lease of a conflicting lane, or as many of t's own as it allows.
Blocked(S, t) ==
    \/ \E u \in S : ask[u].key # ask[t].key /\ ask[u].key \in ask[t].conflicts
    \/ Cardinality({u \in S : ask[u].key = ask[t].key}) >= ask[t].ceiling

\* An exclusive lease is written with the whole capacity and the whole budgets.
Weight(S) == MapThenSumSet(LAMBDA u : IF ask[u].exclusive THEN Capacity ELSE ask[u].weight, S)
Mem(t) == IF ask[t].exclusive THEN MemBudget ELSE ask[t].mem
Memory(S) == MapThenSumSet(LAMBDA u : Mem(u), S)
Booked(S) == MapThenSumSet(LAMBDA u : grant[u], S)

Fits(t) == Weight(Held) + ask[t].weight <= Capacity

-----------------------------------------------------------------------------
(* The order of the queue.                                                   *)

MinOf(a, b) == IF a < b THEN a ELSE b

\* The score in units of 1 / (200 * AgeMax): the tier, plus an age that saturates.
\* Only a high ticket, or one past the starvation horizon, reaches the very top.
Score(t) ==
    LET credited == IF ask[t].aging /\ ~ask[t].exclusive THEN waited[t] ELSE 0
        top == tier[t] = "high" \/ credited >= 3 * AgeMax
    IN  MinOf(TierWeight * AgeMax * (IF top THEN 200 ELSE 198),
              TierWeight * Base[tier[t]] * 100 * AgeMax
                + AgeWeight * MinOf(AgeMax, credited) * 200)

SimRank(t) == IF ask[t].sim /\ waited[t] < AgeMax THEN 1 ELSE 0

At(t) == CHOOSE i \in DOMAIN queue : queue[i] = t

\* orderQueue: the score first, then tests before sims, then arrival.
Standing(t) == [score |-> Score(t), sim |-> SimRank(t), at |-> At(t)]
Precedes(x, y) ==
    \/ x.score > y.score
    \/ x.score = y.score /\ (x.sim < y.sim \/ (x.sim = y.sim /\ x.at < y.at))
Before(t, u) == Precedes(Standing(t), Standing(u))

\* The sims' share: a number of runs, of cores, of memory, and the cores that are
\* kept for tests.  Sims are booked with their grants, whatever they use.
Sims == {u \in Held : ask[u].sim}
SimCapped(t, g) ==
    \/ Cardinality(Sims) >= SimTickets
    \/ Booked(Sims) + g > SimCores
    \/ Memory(Sims) + Mem(t) > SimMem
    \/ Booked(Sims) + g + TestReserve > Budget

SmallestGrant(t) == IF ask[t].exclusive THEN Budget ELSE ask[t].min
CapDenied == {t \in Queued : ask[t].sim /\ SimCapped(t, SmallestGrant(t))}

\* A caller's pushes take turns: one waits for another push of the same caller
\* that is running, or that started earlier and is still queued.
IsPush(t) == ask[t].push # None
OtherPush(t, u) == IsPush(t) /\ IsPush(u) /\ ask[t].push.caller = ask[u].push.caller
                     /\ ask[t].push.git # ask[u].push.git
\* Mutant: a queued push waits for every other queued push of its caller.
MutPushHeldEitherWay ==
    {t \in Queued : \E u \in Ticket \ cancelled :
        OtherPush(t, u) /\ state[u] \in {"running", "queued"}}
\* Mutant: only queued pushes are looked at.
MutPushHeldQueuedOnly ==
    {t \in Queued : \E u \in Ticket \ cancelled :
        OtherPush(t, u) /\ state[u] = "queued" /\ ask[u].push.git < ask[t].push.git}

PushHeld ==
    {t \in Queued : \E u \in Ticket \ cancelled :
        /\ OtherPush(t, u)
        /\ \/ state[u] = "running"
           \/ state[u] = "queued" /\ ask[u].push.git < ask[t].push.git}

Visible == Queued \ (CapDenied \cup PushHeld)

\* The oldest reservation whose ticket may start leads the queue; a sim's never
\* puts it before a test that outranks it.
Promotable(t) ==
    t \in Visible /\ ~(ask[t].sim /\ \E u \in Queued : ~ask[u].sim /\ Before(u, t))
Owner ==
    LET live == {i \in DOMAIN latched : Promotable(latched[i])}
    IN  IF live = {} THEN None ELSE latched[Min(live)]

AheadUnder(owner, t, u) == t # u /\ (t = owner \/ (u # owner /\ Before(t, u)))
Ahead(t, u) == AheadUnder(Owner, t, u)
FirstUnder(owner, S) == CHOOSE t \in S : \A u \in S \ {t} : AheadUnder(owner, t, u)
First(S) == FirstUnder(Owner, S)

-----------------------------------------------------------------------------
(* The records a head accumulates.                                           *)

Conflicted(h) == Blocked(Held, h)
\* Mutant: the allowance is compared with > instead of >=.
MutExhausted(h) ==
    /\ Conflicted(h) /\ fair[h].skips > SkipLimit
    /\ fair[h].since = None \/ fair[h].since < Grace

Exhausted(h) ==
    /\ Conflicted(h) /\ fair[h].skips >= SkipLimit
    /\ fair[h].since = None \/ fair[h].since < Grace
TooHeavy(h) == ~Conflicted(h) /\ ~ask[h].exclusive /\ ~Fits(h)

\* The head's own resource record; a reservation that is not the active one
\* reserves nothing.
Rec(h) ==
    IF Conflicted(h) \/ fair[h].res = None THEN None
    ELSE IF fair[h].res.behind THEN None
    ELSE [fair[h].res EXCEPT !.reserved = @ /\ h = Owner]

Futile(r) == r # None /\ r.inScope /\ r.futile
Open(r) == r # None /\ r.inScope /\ (r.futile \/ (~r.reserved /\ r.count < ResLimit))
Reserved(r) == r # None /\ r.reserved /\ ~Futile(r)

\* The head has waited long enough to be protected from express starts.
Protected(h) == waited[h] > ExpressWait /\ ~Futile(Rec(h))

\* Mutant: a head declared futile keeps its latch.
MutDenial(h, s, behind, futile) ==
    LET old == IF fair[h].res = None
               THEN [count |-> 0, reserved |-> FALSE, yields |-> 0] ELSE fair[h].res
    IN  [count |-> IF futile THEN 0 ELSE old.count, reserved |-> old.reserved, yields |-> old.yields,
         inScope |-> TRUE, behind |-> behind, futile |-> futile,
         x |-> s.x, m |-> IF behind THEN None ELSE s.m]

\* recordResourceDenial: the snapshot of a denial; a futile head starts over.
Denial(h, s, behind, futile) ==
    LET old == IF fair[h].res = None \/ futile
               THEN [count |-> 0, reserved |-> FALSE, yields |-> 0] ELSE fair[h].res
    IN  [count |-> old.count, reserved |-> old.reserved, yields |-> old.yields,
         inScope |-> TRUE, behind |-> behind, futile |-> futile,
         x |-> s.x, m |-> IF behind THEN None ELSE s.m]

OutOfScope(r) == IF r = None THEN None ELSE [r EXCEPT !.inScope = FALSE]
DropSnapshot(r) == IF r = None THEN None ELSE [r EXCEPT !.inScope = FALSE, !.behind = FALSE]

-----------------------------------------------------------------------------
(* What the leases are charged on the CPU: not what they booked.             *)

MaxOf(a, b) == IF a < b THEN b ELSE a

\* cpuEstimateBasis: history lowers a claim of g cores, and raises it (up to the
\* budget) only beside other leases.
Estimate(s, t, g, beside) ==
    LET p == s.past[t][g]
    IN  IF p = None THEN g ELSE IF p > g /\ beside THEN MinOf(Budget, p) ELSE MinOf(g, p)

\* leaseDemandBasis: a lease counts for its estimate until it is observed, then
\* at least for what it uses; once settled for its recent peak, within bounds.
Demand(s, u) ==
    LET cold == Estimate(s, u, grant[u], FALSE)
        o == s.use[u]
    IN  IF o = None THEN cold
        ELSE IF o.peak = None THEN MaxOf(o.cpu, cold)
        ELSE MaxOf(o.cpu, MinOf(grant[u], MaxOf((grant[u] * SettledFloor) \div 10, o.peak)))

Nice(t) == IF ask[t].nice = None THEN TierNice[tier[t]] ELSE ask[t].nice

\* leaseCharge: a lease that the kernel runs behind the candidate `cand` (its
\* nice and its tier, None for a view without one) is charged a share.
Outranked(u, cand) ==
    /\ cand # None /\ NiceMin > 0
    /\ Nice(u) > cand.nice /\ Nice(u) >= NiceMin /\ Base[tier[u]] < Base[cand.tier]
Charge(s, S, cand) ==
    MapThenSumSet(LAMBDA u : IF Outranked(u, cand) THEN (Demand(s, u) * YieldShare) \div 10 ELSE Demand(s, u), S)

-----------------------------------------------------------------------------
(* The CPU and memory decision for a claim beside the leases and, when the   *)
(* head is protected, the head's own claim.                                  *)

Busy(s, head, cand) ==
    s.x + Charge(s, Held, cand) + (IF head = None THEN 0 ELSE Estimate(s, head, ask[head].cpu, FALSE))

Beside(head) == Held # {} \/ head # None

\* projectBusy: the cores in use if t were admitted with a claim of g.
Projected(s, head, cand, t, g) == Busy(s, head, cand) + Estimate(s, t, g, Beside(head))

CpuReason(s, head, cand, t, g) ==
    CASE ~s.up /\ ~Beside(head) -> "empty"
      [] ~s.up /\ Beside(head) -> "unavailable"
      [] s.up /\ s.gate -> "gate"
      [] s.up /\ ~s.gate /\ s.cool -> "cooldown"
      [] OTHER -> IF Projected(s, head, cand, t, g) <= Budget THEN "ok" ELSE "over"

\* Mutant: what the leases have booked is not counted, only what they may still grow.
MutFitsMemory(m, s, head, t) ==
    LET more == ask[t].mem + (IF head = None THEN 0 ELSE ask[head].mem)
        growth == MapThenSumSet(LAMBDA u : IF s.use[u] = None THEN Mem(u)
                                           ELSE Mem(u) - MinOf(Mem(u), s.use[u].mem), Held)
    IN  growth + more <= m

\* evaluateMemoryAdmission: the bookings fit the host, and what the leases have
\* booked but do not use yet stays available.
FitsMemory(m, s, head, t) ==
    LET more == ask[t].mem + (IF head = None THEN 0 ELSE ask[head].mem)
        growth == MapThenSumSet(LAMBDA u : IF s.use[u] = None THEN Mem(u)
                                           ELSE Mem(u) - MinOf(Mem(u), s.use[u].mem), Held)
    IN  Memory(Held) + more <= MemBudget /\ growth + more <= m

\* elasticClaimRange: the smaller grants an elastic claim of g may be given while
\* `busy` cores are in use.
Grants(t, g, busy) == {k \in ask[t].min..g : k < g /\ k % Core = 0 /\ busy + k <= Budget}

\* capSimClaim: an elastic sim asks for no more whole cores than the caps leave.
Claim(t) ==
    LET room == MinOf(SimCores, Budget - TestReserve) - Booked(Sims)
        whole == (room \div Core) * Core
    IN  IF ask[t].sim /\ ask[t].min < ask[t].cpu /\ ask[t].cpu > whole /\ whole >= ask[t].min
        THEN whole ELSE ask[t].cpu

\* The cores t is admitted with when it claims g: all of them, or when refused by
\* the projection alone the largest smaller grant that fits; None when denied.
Granted(s, head, cand, t, g) ==
    LET reason == CpuReason(s, head, cand, t, g)
        fit == {k \in Grants(t, g, Busy(s, head, cand)) : Projected(s, head, cand, t, k) <= Budget}
    IN  IF ~FitsMemory(s.m, s, head, t) THEN None
        ELSE IF reason \in {"ok", "empty"} THEN g
        ELSE IF reason = "over" /\ fit # {} THEN Max(fit)
        ELSE None

\* ticketCpuFloor: the least t can be charged, on a drained host or beside the
\* leases with `busy` cores in use.
DrainedFloor(s, t) == MinOf(Estimate(s, t, ask[t].cpu, FALSE), ask[t].min)
Floor(s, t, busy) ==
    IF Held = {} THEN DrainedFloor(s, t)
    ELSE Min({Estimate(s, t, g, TRUE) : g \in {ask[t].cpu} \cup Grants(t, ask[t].cpu, busy)})

\* headFutility: with every lease drained the head would still not fit.
NeverFits(s, h) ==
    /\ \A u \in Held : s.use[u] # None
    /\ \/ ask[h].mem > s.m + MapThenSumSet(LAMBDA u : s.use[u].mem, Held)
       \/ s.x + DrainedFloor(s, h) > Budget + IdleOvershoot

-----------------------------------------------------------------------------
(* Who may pass the head.                                                    *)

\* Safe backfill: t shares no conflict with the head and both fit together.
CannotDelay(t, h) ==
    /\ ~ask[t].exclusive /\ ~Blocked(Held, t)
    /\ ~Blocked({t}, h) /\ ~Blocked({h}, t)
    /\ Weight(Held) + ask[h].weight + ask[t].weight <= Capacity

Safe(t, h) ==
    /\ t # h /\ CannotDelay(t, h)
    /\ Exhausted(h) \/ (ask[t].sim /\ ~ask[h].sim)

\* A sim behind a test starts as safe backfill or not at all.
Overtakes(t, h) ==
    t # h /\ ~Safe(t, h) /\ ~ask[t].exclusive /\ (ask[t].sim => ask[h].sim) /\ rate < PerMinute

YieldEligible(t, h) ==
    /\ Overtakes(t, h) /\ Reserved(Rec(h))
    /\ Base[tier[t]] > Base[tier[h]] /\ CannotDelay(t, h)

Express(t, h) ==
    /\ Overtakes(t, h) /\ ask[t].short /\ ~Blocked(Held, t) /\ Fits(t)
    /\ Protected(h) => CannotDelay(t, h) /\ ~YieldEligible(t, h)

\* How t may be judged before the head; a yield that is out of allowance keeps
\* the head's claim free.
Way(t, h) ==
    IF Safe(t, h) THEN "safe"
    ELSE IF Express(t, h) THEN "express"
    ELSE IF YieldEligible(t, h) THEN "yield"
    ELSE None
YieldProtects(way, h) == way = "yield" /\ Rec(h).yields >= ResLimit

\* What the walks behind the head may see.
Walk(h) == {t \in Visible : t = h \/ (~ask[t].exclusive /\ (ask[t].sim => ask[h].sim))}

\* selectResourceCandidate: the smallest claim that fits the recorded snapshot
\* and leaves the head startable, the earliest of equals.  Behind a conflicted
\* head (`behind`) the head's own claim is counted as held.
ResourcePick(s, h, r, behind) ==
    LET head == IF behind THEN h ELSE None
        busy == Busy([s EXCEPT !.x = r.x], head, None)
        Room == {t \in Walk(h) \ {h} :
                   /\ ~Blocked(Held, t)
                   /\ Weight(Held) + (IF behind THEN ask[h].weight ELSE 0) + ask[t].weight <= Capacity
                   /\ IF behind THEN ~Blocked({t}, h) /\ ~Blocked({h}, t)
                                ELSE ~Blocked(Held \cup {t}, h)
                   /\ busy + Floor(s, t, busy) <= Budget
                   /\ r.m # None => FitsMemory(r.m, s, head, t)}
        least == {t \in Room : \A u \in Room : Floor(s, t, busy) <= Floor(s, u, busy)}
    IN  IF Room = {} THEN None ELSE First(least)

ConflictPick(s, h) ==
    IF Conflicted(h) /\ ~Exhausted(h) /\ fair[h].res # None
    THEN IF fair[h].res.behind THEN ResourcePick(s, h, fair[h].res, TRUE) ELSE None
    ELSE None

FirstOf(S) == IF S = {} THEN None ELSE First(S)

\* The ticket this poll would start, None when everyone waits for the head.
Candidate(s, t, h, way, pick) ==
    LET r == Rec(h)
        free == {u \in Walk(h) : ~Blocked(Held, u)}
    IN  CASE way # None -> t
          [] way = None /\ Conflicted(h) ->
                IF Exhausted(h) THEN None ELSE IF pick # None THEN pick ELSE FirstOf(free)
          [] way = None /\ TooHeavy(h) ->
                IF fair[h].heavy >= SkipLimit \/ Reserved(r) THEN None
                ELSE FirstOf({u \in free : Fits(u)})
          [] OTHER -> IF Open(r) /\ t # h THEN ResourcePick(s, h, r, FALSE) ELSE h

-----------------------------------------------------------------------------
(* The two lifts: a floor slot for a push gate, the bypass for brief runs.   *)

NoExclusiveAhead(t) == \A u \in Visible : Ahead(u, t) => ~ask[u].exclusive

IsFloorTicket(t) == IsPush(t) /\ ~ask[t].sim /\ ~ask[t].exclusive

\* A queued ticket as floorWinner judges it: its record holds laneNice, not the
\* nice of its tier.
AsQueued(t) == [nice |-> IF ask[t].nice = None THEN LaneNice ELSE ask[t].nice, tier |-> tier[t]]

WithinOvershoot(s, t) ==
    /\ FitsMemory(s.m, s, None, t)
    /\ IF s.up THEN ~s.cool /\ Projected(s, None, AsQueued(t), t, ask[t].cpu) <= Budget + FloorOvershoot
               ELSE Held = {}

Startable(s, h) ==
    /\ ~Blocked(Held, h) /\ Fits(h)
    /\ \/ Granted(s, None, AsQueued(h), h, ask[h].cpu) # None
       \/ /\ Held = {} /\ CpuReason(s, None, AsQueued(h), h, ask[h].cpu) = "over"
          /\ WithinOvershoot(s, h)

FloorWinner(s, h) ==
    LET fit == {t \in Visible : /\ IsFloorTicket(t) /\ NoExclusiveAhead(t)
                                /\ ~Blocked(Held, t) /\ Fits(t) /\ WithinOvershoot(s, t)}
    IN  IF s.critical \/ (s.load /\ Held # {}) \/ Startable(s, h) THEN None ELSE FirstOf(fit)

FloorTrial(t) ==
    /\ FloorOvershoot > 0 /\ \A u \in Held : lift[u] # "floor"
    /\ IsFloorTicket(t) /\ NoExclusiveAhead(t)

Bypassing(kind) == {u \in Held : lift[u] = kind}
BypassTrial(t) ==
    /\ Cardinality(Bypassing("bypass")) < BypassCap
    /\ Cardinality(Bypassing("outran")) < BypassCap
    /\ ask[t].brief /\ ~ask[t].exclusive /\ ~ask[t].sim
    /\ NoExclusiveAhead(t) /\ ~Blocked(Held, t) /\ Fits(t)

\* headClearWithoutBypass: only the bypass leases keep the head waiting.  One
\* that was not observed runs on the cores counted as other programs'.
ClearWithoutBypass(s, h) ==
    LET lifted == Bypassing("bypass") \cup Bypassing("outran")
        unseen == Charge(s, {u \in lifted : s.use[u] = None}, None)
    IN  /\ lifted # {} /\ s.quiet /\ ~s.cool
        /\ s.x - MinOf(s.x, unseen) + Charge(s, Held \ lifted, None) + DrainedFloor(s, h) <= Budget

\* A bypass yields to a waiting push gate and to an aged head.
BypassYields(s, t, h) ==
    \/ FloorOvershoot > 0 /\ FloorWinner(s, h) \notin {None, t}
    \/ /\ t # h /\ Protected(h)
       /\ \/ ask[t].key \in ask[h].conflicts \cup {ask[h].key}
          \/ ~Conflicted(h) /\ ClearWithoutBypass(s, h)

-----------------------------------------------------------------------------
(* A poll.                                                                   *)

\* exclusiveDeny: nothing runs beside an exclusive run, and nothing starts
\* while one waits at the head for the host to drain.
ExclusiveDenied(t, h) ==
    \/ \E u \in Held : ask[u].exclusive
    \/ ask[h].exclusive /\ (t # h \/ Held # {})

\* What is decided about a poll of t behind h before the host is asked; `head` is
\* the ticket whose claim is kept free while t is judged.
PlanFor(s, t, h, way, pick) ==
    [way |-> way, pick |-> pick, candidate |-> Candidate(s, t, h, way, pick),
     floor |-> FloorTrial(t), bypass |-> BypassTrial(t),
     head |-> IF \/ way = "safe" \/ pick # None \/ YieldProtects(way, h)
                 \/ way = "express" /\ Protected(h)
              THEN h ELSE None]
Plan(s, t, h) == PlanFor(s, t, h, Way(t, h), ConflictPick(s, h))

\* evaluateNewAdmission for t beside the leases and the protected head.  t is
\* judged at the tier it was admitted at, except beside another ticket's claim:
\* there it is the tier it was submitted with, which the ticket still carries.
Candidacy(head, t) ==
    [nice |-> Nice(t), tier |-> IF head \in {None, t} THEN tier[t] ELSE ask[t].tier]
DecisionAs(s, head, cand, t) ==
    [cores |-> Granted(s, head, cand, t, Claim(t)), reason |-> CpuReason(s, head, cand, t, Claim(t)),
     memory |-> FitsMemory(s.m, s, head, t), busy |-> Projected(s, head, cand, t, Claim(t))]
Decision(s, head, t) == DecisionAs(s, head, Candidacy(head, t), t)

\* The lift that lets t start although it is not the pick or has no cores (d is
\* the decision about it).
Lift(t, h, p, s, d) ==
    CASE p.candidate = t /\ d.cores # None -> None
      [] ~(p.candidate = t /\ d.cores # None) ->
            IF p.floor /\ FloorWinner(s, h) = t THEN "floor"
            ELSE IF /\ p.bypass /\ d.memory /\ d.reason \in {"gate", "cooldown", "over"}
                    /\ d.cores = None /\ ~BypassYields(s, t, h)
            THEN "bypass" ELSE None

\* What the host's state makes of that plan.
Judged(t, h, p, s, d, raised) ==
    LET over == d.cores = None /\ d.reason = "over" /\ d.memory
        alone == ask[t].exclusive
        g == IF alone THEN Budget ELSE IF d.cores = None THEN Claim(t) ELSE d.cores
        idle == /\ over /\ t = h /\ Held = {} /\ IdleOvershoot > 0
                /\ d.busy <= Budget + IdleOvershoot
        braked == \/ ask[t].sim /\ SimCapped(t, g)
                  \/ ~alone /\ ((s.load /\ Held # {}) \/ ~Fits(t))
                  \/ s.critical
    IN  [outcome |->
           IF /\ p.candidate # t /\ raised = None
              /\ p.candidate # None \/ t # h \/ ~TooHeavy(h) \/ p.floor \/ p.bypass THEN "not-head"
           ELSE IF braked THEN "braked"
           ELSE IF d.cores = None /\ ~idle /\ raised = None /\ ~alone THEN "denied"
           ELSE "start",
         lift |-> raised, grant |-> g, reason |-> d.reason, over |-> over,
         inScope |-> d.cores = None /\ d.reason \in {"ok", "over"}]
JudgedBy(t, h, p, s, d) == Judged(t, h, p, s, d, Lift(t, h, p, s, d))
Verdict(t, h, p, s) == JudgedBy(t, h, p, s, Decision(s, p.head, t))

\* How a start of t leaves the head behind: on which allowance it is counted.
Counted(t, h, p, v) ==
    IF t = h \/ v.lift # None \/ p.way \in {"express", "yield"} THEN None
    ELSE IF Conflicted(h) /\ p.way # "safe" THEN "conflict"
    ELSE IF TooHeavy(h) THEN "capacity"
    ELSE IF p.way # "safe" /\ ~Conflicted(h) /\ Open(Rec(h)) /\ ~Futile(Rec(h)) THEN "resource"
    ELSE None

\* The head's resource record after a poll that did not start its ticket.
AfterDenial(t, h, p, s, v) ==
    LET old == fair[h].res
    IN  IF t = h
        THEN CASE v.outcome = "denied" /\ v.inScope -> Denial(h, s, FALSE, NeverFits(s, h))
               [] v.outcome = "denied" /\ v.reason = "cooldown" -> old
               [] OTHER -> OutOfScope(old)
        ELSE CASE /\ v.outcome = "denied" /\ v.over /\ Conflicted(h) /\ ~Exhausted(h)
                  /\ p.way = None -> Denial(h, s, TRUE, FALSE)
               [] v.outcome = "denied" /\ v.reason = "cooldown" -> old
               [] OTHER -> IF t = p.pick THEN DropSnapshot(old) ELSE old

\* The head's records with a pass counted on one of its allowances.
Charged(r, kind) ==
    CASE kind = "conflict" -> [r EXCEPT !.skips = MinOf(SkipLimit, @ + 1)]
      [] kind = "capacity" -> [r EXCEPT !.heavy = @ + 1]
      [] kind = "resource" -> [r EXCEPT !.res.count = @ + 1, !.res.reserved = r.res.count + 1 >= ResLimit]
      [] kind = "yield" -> [r EXCEPT !.res.yields = MinOf(ResLimit, @ + 1)]
      [] OTHER -> r

\* resolveHeadBlock: the grace period runs from the first poll that found h blocked.
Stamped(h) == IF Conflicted(h) /\ fair[h].since = None THEN [fair[h] EXCEPT !.since = 0] ELSE fair[h]

\* The tickets of q in their order, without t, which occurs at most once.
Without(q, t) ==
    IF \A i \in DOMAIN q : q[i] # t THEN q
    ELSE LET at == CHOOSE i \in DOMAIN q : q[i] = t
         IN  [i \in 1..(Len(q) - 1) |-> IF i < at THEN q[i] ELSE q[i + 1]]

\* A poll that leaves t queued: it is not its turn, or the host says no.
Refuse(t, h, p, s, v) ==
    LET after == IF v.outcome = "not-head" THEN fair[h].res ELSE AfterDenial(t, h, p, s, v)
    IN  /\ v.outcome # "start" /\ ~s.broken
        /\ fair' = [fair EXCEPT ![h] = [Stamped(h) EXCEPT !.res = after]]
        /\ latched' = IF after # None /\ ~after.reserved THEN Without(latched, h) ELSE latched
        /\ passed' = IF after # None /\ after.futile
                     THEN [passed EXCEPT ![h].resource = 0, ![h].yield = 0] ELSE passed
        /\ UNCHANGED <<state, queue, grant, lift, rate>>

\* A poll that admits t.  The pass is recorded first: one that cannot be recorded
\* is refused, and a ticket cancelled meanwhile does not start.
Start(t, h, p, s, v) ==
    LET kind == Counted(t, h, p, v)
        ahead == v.lift = None /\ p.way \in {"express", "yield"}
        yield == IF ahead /\ p.way = "yield" THEN "yield" ELSE None
        counted == Charged(IF s.broken THEN fair[h] ELSE Stamped(h), kind)
        resumed == fair[h].since # None /\ fair[h].since >= Grace
        order == IF kind = "resource" /\ counted.res.reserved THEN Append(latched, h) ELSE latched
        \* what the history counts: not the passes after the grace period
        seen == IF yield # None /\ p.head = None THEN yield
                ELSE IF kind = "conflict" /\ resumed THEN None ELSE kind
    IN  /\ v.outcome = "start"
        /\ s.broken => kind = None /\ ~ahead
        /\ IF t \in cancelled
           THEN /\ fair' = [fair EXCEPT ![h] = counted]
                /\ latched' = order
                /\ UNCHANGED <<state, queue, grant, lift, rate, passed>>
           ELSE /\ fair' = [fair EXCEPT ![h] = Charged(counted, yield), ![t] = NoRecords]
                /\ latched' = Without(order, t)
                /\ state' = [state EXCEPT ![t] = "running"]
                /\ queue' = Without(queue, t)
                /\ grant' = [grant EXCEPT ![t] = v.grant]
                /\ lift' = [lift EXCEPT ![t] = v.lift]
                /\ rate' = IF ahead THEN rate + 1 ELSE rate
                /\ passed' = IF seen = None THEN [passed EXCEPT ![t] = NoPass]
                             ELSE [passed EXCEPT ![h][seen] = @ + 1, ![t] = NoPass]

\* tryStart for a ticket that no cap and no push holds back.
Poll(t, S) ==
    /\ t \in Visible
    /\ \E h \in {First(Visible)} :
          /\ ~ExclusiveDenied(t, h)
          /\ \E s \in S : \E p \in {Plan(s, t, h)} :
                \E v \in {Verdict(t, h, p, s)} : Refuse(t, h, p, s, v) \/ Start(t, h, p, s, v)
    /\ UNCHANGED <<ask, tier, waited, cancelled, ticks>>

-----------------------------------------------------------------------------
(* What else happens to a ticket.                                            *)

\* admitTier: a high is admitted high while fewer than MaxHigh others are queued.
AdmitTier(t, asked) ==
    IF asked = "high" /\ Cardinality({u \in Queued \ {t} : tier[u] = "high"}) >= MaxHigh
    THEN "medium" ELSE asked

\* A push of the same branch from the same checkout by a later git process
\* replaces the earlier one, whichever of them is enqueued first.
Repeats(t) ==
    {u \in (Queued \cup Held) \ (cancelled \cup {t}) :
        /\ IsPush(t) /\ IsPush(u)
        /\ ask[u].push.what = ask[t].push.what /\ ask[u].push.git # ask[t].push.git}
Superseded(t) ==
    LET older == {u \in Repeats(t) : ask[u].push.git < ask[t].push.git}
    IN  IF older = Repeats(t) THEN older ELSE older \cup {t}

Enqueue(t) ==
    /\ \E i \in DOMAIN Arrival :
          Arrival[i] = t /\ \A j \in DOMAIN Arrival : state[Arrival[j]] = "new" <=> j >= i
    /\ state' = [state EXCEPT ![t] = "queued"]
    /\ queue' = Append(queue, t)
    /\ tier' = [tier EXCEPT ![t] = AdmitTier(t, ask[t].tier)]
    /\ cancelled' = cancelled \cup Superseded(t)
    /\ UNCHANGED <<ask, waited, fair, latched, grant, lift, ticks, rate, passed>>

\* retierQueued: only the tier changes, so t keeps its place, age and records.
Retier(t, to) ==
    /\ <<t, to>> \in Retiers /\ t \in Queued \ cancelled
    /\ AdmitTier(t, to) # tier[t]
    /\ tier' = [tier EXCEPT ![t] = AdmitTier(t, to)]
    /\ UNCHANGED <<ask, state, queue, waited, cancelled, fair, latched, grant, lift, ticks, rate, passed>>

Cancel(t) ==
    /\ t \in Cancellable \cap ((Queued \cup Held) \ cancelled)
    /\ cancelled' = cancelled \cup {t}
    /\ UNCHANGED <<ask, state, queue, tier, waited, fair, latched, grant, lift, ticks, rate, passed>>

\* The supervisor of a cancelled ticket dequeues it; prune drops its records.
Dequeue(t) ==
    /\ t \in Queued \cap cancelled
    /\ state' = [state EXCEPT ![t] = "done"]
    /\ queue' = Without(queue, t)
    /\ fair' = [fair EXCEPT ![t] = NoRecords]
    /\ latched' = Without(latched, t)
    /\ passed' = [passed EXCEPT ![t] = NoPass]
    /\ UNCHANGED <<ask, tier, waited, cancelled, grant, lift, ticks, rate>>

\* A supervisor dies and leaves its children running: the lease stays, orphaned.
Orphan(t) ==
    /\ t \in Killable /\ state[t] = "running"
    /\ state' = [state EXCEPT ![t] = "orphaned"]
    /\ UNCHANGED <<ask, queue, tier, waited, cancelled, fair, latched, grant, lift, ticks, rate, passed>>

\* The run ends, or the reaper finds the orphaned group gone: the lease is removed.
End(t) ==
    /\ t \in Held
    /\ state' = [state EXCEPT ![t] = "done"]
    /\ grant' = [grant EXCEPT ![t] = 0] /\ lift' = [lift EXCEPT ![t] = None]
    /\ UNCHANGED <<ask, queue, tier, waited, cancelled, fair, latched, ticks, rate, passed>>

\* One window passes: tickets age, the grace periods run, the express rate is
\* renewed, brief runs outlive their window and futility verdicts grow stale.
Tick ==
    /\ ticks < MaxTicks /\ ticks' = ticks + 1
    /\ waited' = [t \in Ticket |-> IF t \in Queued THEN MinOf(3 * AgeMax, waited[t] + 1) ELSE waited[t]]
    /\ rate' = 0
    /\ lift' = [t \in Ticket |-> IF lift[t] = "bypass" THEN "outran" ELSE lift[t]]
    /\ fair' = [t \in Ticket |->
         [fair[t] EXCEPT !.since = IF @ = None THEN None ELSE MinOf(Grace, @ + 1),
                         !.res = IF @ = None THEN None ELSE [@ EXCEPT !.futile = FALSE]]]
    /\ UNCHANGED <<ask, state, queue, tier, cancelled, latched, grant, passed>>

SelectionNext ==
    \/ Tick
    \/ \E t \in Ticket :
          \/ Enqueue(t) \/ Cancel(t) \/ Dequeue(t) \/ Orphan(t) \/ End(t)
          \/ \E to \in Tiers : Retier(t, to)
          \/ Poll(t, Samples)

SelectionSpec == SelectionInit /\ [][SelectionNext]_vars

-----------------------------------------------------------------------------
(* Properties.                                                               *)

SelectionTypeOK ==
    /\ ask \in Workloads
    /\ state \in [Ticket -> {"new", "queued", "running", "orphaned", "done"}]
    /\ queue \in Seq(Ticket) /\ latched \in Seq(Ticket)
    /\ \A t \in Ticket : t \in Queued <=> \E i \in DOMAIN queue : queue[i] = t
    /\ \A i, j \in DOMAIN queue : queue[i] = queue[j] => i = j
    /\ tier \in [Ticket -> Tiers] /\ waited \in [Ticket -> 0..(3 * AgeMax)]
    /\ cancelled \subseteq Ticket
    /\ grant \in [Ticket -> 0..Budget]
    /\ lift \in [Ticket -> {"floor", "bypass", "outran", None}]
    /\ ticks \in 0..MaxTicks /\ rate \in 0..PerMinute
    /\ fair \in [Ticket -> Records]
    /\ \A t \in Ticket \ Queued : fair[t] = NoRecords
    /\ passed \in [Ticket -> [conflict : Nat, capacity : Nat, resource : Nat, yield : Nat]]

\* The records of fairness-v2.json are well formed and leave with their ticket; a
\* reservation is recorded once, in the ticket's record and in the order of
\* reservationSeq, and only for a ticket that used up its allowance: whatever the
\* ticket goes through (displaced, re-tiered, denied for another reason, declared
\* futile), no latch is lost or left behind for the next owner to wait on.
ReservationsConsistent ==
    /\ SelectionTypeOK
    /\ \A i, j \in DOMAIN latched : latched[i] = latched[j] => i = j
    /\ \A t \in Ticket :
          (\E i \in DOMAIN latched : latched[i] = t) <=> (fair[t].res # None /\ fair[t].res.reserved)
    /\ \A t \in Ticket : fair[t].res # None /\ fair[t].res.reserved => fair[t].res.count >= ResLimit

\* Over its whole time in the queue a ticket is passed at most SkipLimit times
\* while it is conflicted (until the grace period lapses), SkipLimit times while
\* it is too heavy, ResLimit times while the projection denies it, and once it
\* is reserved by ResLimit yields that do not leave room for it; a ticket that
\* was displaced from the head and came back does not start a new allowance.
AllowancesHold ==
    \A t \in Queued :
        /\ passed[t].conflict <= SkipLimit /\ passed[t].capacity <= SkipLimit
        /\ passed[t].resource <= ResLimit /\ passed[t].yield <= ResLimit

\* The leases, orphaned ones included, never outweigh the host and never book
\* more memory than it has.  Nothing of the kind holds of the cores: a lease is
\* charged what it uses or is expected to, so together they may be granted more
\* than the budget.
HostNotOverbooked == Weight(Held) <= Capacity /\ Memory(Held) <= MemBudget

\* Nothing runs beside an exclusive run, not even a bypass or a floor start.
ExclusiveRunsAlone == \A t \in Held : ask[t].exclusive => Held = {t}

\* One floor slot, and fewer than twice BypassCap bypass runs.
LiftsBounded ==
    /\ Cardinality(Bypassing("floor")) <= 1
    /\ BypassCap > 0 => Cardinality(Bypassing("bypass") \cup Bypassing("outran")) < 2 * BypassCap

\* The running sims stay within their share, whatever starts between the poll
\* that judged a sim's floor and the grant it is given.
SimsLeaveReserve ==
    Sims # {} => /\ Cardinality(Sims) <= SimTickets /\ Memory(Sims) <= SimMem
                 /\ Booked(Sims) <= SimCores /\ Booked(Sims) + TestReserve <= Budget

\* What the leases may add up to, however the starts were decided (in order, as
\* backfill, express, by the floor or the bypass) and whatever started or was
\* orphaned between the poll that judged a ticket and its grant.
BookingsHold == HostNotOverbooked /\ ExclusiveRunsAlone /\ LiftsBounded /\ SimsLeaveReserve

\* Two different pushes of one caller do not run at once, unless one of them is
\* being stopped.
PushesTakeTurns ==
    \A t, u \in Ticket \ cancelled :
        state[t] = "running" /\ state[u] = "running" => ~OtherPush(t, u)

\* Of two pushes of the same thing only the later git process is left standing,
\* in whichever order they are enqueued.
RepeatsAreReplaced == \A t \in (Queued \cup Held) \ cancelled : Repeats(t) = {}

\* However tickets are submitted, re-tiered and withdrawn, no more than MaxHigh
\* of them are queued at the high tier.
HighCapHolds == Cardinality({t \in Queued : tier[t] = "high"}) <= MaxHigh

\* What the queue promises whoever submits to it: pushes of one caller take
\* turns, a repeat replaces the push it repeats, the high tier stays scarce.
QueueRulesHold == PushesTakeTurns /\ RepeatsAreReplaced /\ HighCapHolds

\* The host is quiet, and whatever may be asked for can be had on a quiet host:
\* every lane has room for one run, and the caps for the smallest grant of a sim.
Servable ==
    /\ Quiet.up /\ ~Quiet.gate /\ ~Quiet.cool /\ ~Quiet.critical /\ Quiet.x = 0
    /\ \A w \in Workloads, t \in Ticket :
          /\ w[t].ceiling > 0 /\ w[t].mem <= Quiet.m
          /\ w[t].sim => LET g == IF w[t].exclusive THEN Budget ELSE w[t].min
                             m == IF w[t].exclusive THEN MemBudget ELSE w[t].mem
                         IN  /\ 0 < SimTickets /\ m <= SimMem
                             /\ g <= SimCores /\ g + TestReserve <= Budget

\* The holds, caps, reservations and refusals never make everyone wait for
\* everyone: once the host has drained and is quiet, some queued ticket starts
\* at its next poll.
DrainedHostStartsSomeone ==
    Held = {} /\ Queued # {} /\ Queued \cap cancelled = {} =>
        \E t \in Visible : \E h \in {First(Visible)} :
            ~ExclusiveDenied(t, h) /\ Verdict(t, h, Plan(Quiet, t, h), Quiet).outcome = "start"
=============================================================================
