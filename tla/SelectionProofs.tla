--------------------------- MODULE SelectionProofs ---------------------------
(*****************************************************************************)
(* Theorems about Selection: the rules of the queue, what the leases book of *)
(* the host, what a waiting ticket's fairness record says, and that a        *)
(* drained host starts somebody.                                             *)
(*****************************************************************************)
EXTENDS Selection, FiniteSetTheorems, SequenceTheorems, WellFoundedInduction, TLAPS

-----------------------------------------------------------------------------
(* What the queue promises whoever submits to it.                            *)

States == {"new", "queued", "running", "orphaned", "done"}
Submissions ==
    /\ ask \in [Ticket -> Asks]
    /\ state \in [Ticket -> States]
    /\ tier \in [Ticket -> Tiers]

QueueInv == Submissions /\ QueueRulesHold

Highs == {t \in Queued : tier[t] = "high"}

\* A poll touches no ticket but the one it starts, and starts only one that no
\* push of its caller holds back and nobody has cancelled.
LEMMA PollStarts ==
    ASSUME NEW t \in Ticket, NEW S, Poll(t, S)
    PROVE  /\ t \in Visible
           /\ UNCHANGED <<ask, tier, cancelled>>
           /\ \/ UNCHANGED state
              \/ t \notin cancelled /\ state' = [state EXCEPT ![t] = "running"]
<1>1. t \in Visible /\ UNCHANGED <<ask, tier, cancelled>>
  BY DEF Poll
<1>2. PICK h, p, s, v : Refuse(t, h, p, s, v) \/ Start(t, h, p, s, v)
  BY Zenon DEF Poll
<1>3. CASE Refuse(t, h, p, s, v)
  <2>1. UNCHANGED state
    BY <1>3 DEF Refuse
  <2> QED BY <1>1, <2>1
<1>4. CASE Start(t, h, p, s, v)
  <2>1. \/ UNCHANGED state
        \/ t \notin cancelled /\ state' = [state EXCEPT ![t] = "running"]
    BY <1>4, Zenon DEF Start
  <2> QED BY <1>1, <2>1
<1> QED BY <1>2, <1>3, <1>4

\* The high tier of the queue never outgrows its cap when a ticket that is not
\* counted yet is admitted.
LEMMA HighsAdmit ==
    ASSUME NEW H \in SUBSET Ticket, NEW H2 \in SUBSET Ticket, NEW t \in Ticket,
           H2 \subseteq H \/ (H2 \subseteq H \cup {t} /\ Cardinality(H \ {t}) < MaxHigh),
           Cardinality(H) <= MaxHigh
    PROVE  Cardinality(H2) <= MaxHigh
<1>1. IsFiniteSet(H) /\ IsFiniteSet(H2) /\ MaxHigh \in Nat /\ IsFiniteSet(H \ {t})
  BY FS_Subset, SelectionAssumption
<1>2. Cardinality(H) \in Nat /\ Cardinality(H2) \in Nat /\ Cardinality(H \ {t}) \in Nat
  BY <1>1, FS_CardinalityType
<1>3. CASE H2 \subseteq H
  BY <1>1, <1>2, <1>3, FS_Subset
<1>4. CASE H2 \subseteq H \cup {t} /\ Cardinality(H \ {t}) < MaxHigh
  <2>1. H2 \subseteq (H \ {t}) \cup {t}
    BY <1>4
  <2>2. IsFiniteSet((H \ {t}) \cup {t}) /\ Cardinality((H \ {t}) \cup {t}) = Cardinality(H \ {t}) + 1
    BY <1>1, FS_AddElement, t \notin (H \ {t})
  <2>3. Cardinality(H2) <= Cardinality((H \ {t}) \cup {t})
    BY <2>1, <2>2, FS_Subset
  <2> QED BY <1>1, <1>2, <1>4, <2>2, <2>3
<1> QED BY <1>3, <1>4

LEMMA HighCapStep ==
    ASSUME Submissions, Submissions', HighCapHolds, [SelectionNext]_vars
    PROVE  HighCapHolds'
<1> USE DEF Queued
<1>a. Highs \in SUBSET Ticket /\ Highs' \in SUBSET Ticket
  BY DEF Highs
<1>b. HighCapHolds <=> Cardinality(Highs) <= MaxHigh
  BY DEF HighCapHolds, Highs
<1>c. HighCapHolds' <=> Cardinality(Highs') <= MaxHigh
  BY DEF HighCapHolds, Highs
<1>d. ASSUME Highs' \subseteq Highs PROVE HighCapHolds'
  <2>1. CASE Ticket = {}
    <3>1. Highs' = Highs
      BY <1>a, <2>1
    <3> QED BY <3>1, <1>b, <1>c
  <2>2. CASE Ticket # {}
    <3>1. PICK t \in Ticket : TRUE
      BY <2>2
    <3> QED BY <1>a, <1>b, <1>c, <1>d, HighsAdmit
  <2> QED BY <2>1, <2>2
<1>e. ASSUME NEW t \in Ticket, NEW asked,
             Highs' \subseteq (Highs \cup {t}),
             t \in Highs' => AdmitTier(t, asked) = "high"
      PROVE HighCapHolds'
  <2>1. CASE t \in Highs'
    <3>1. ~(asked = "high" /\ Cardinality({u \in Queued \ {t} : tier[u] = "high"}) >= MaxHigh)
      BY <2>1, <1>e DEF AdmitTier
    <3>2. asked = "high"
      BY <2>1, <1>e DEF AdmitTier
    <3>3. {u \in Queued \ {t} : tier[u] = "high"} = Highs \ {t}
      BY DEF Highs
    <3>4. Cardinality(Highs \ {t}) \in Nat /\ MaxHigh \in Nat
      BY <1>a, FS_Subset, FS_CardinalityType, SelectionAssumption
    <3>5. Cardinality(Highs \ {t}) < MaxHigh
      BY <3>1, <3>2, <3>3, <3>4
    <3> QED BY <1>a, <1>b, <1>c, <1>e, <3>5, HighsAdmit
  <2>2. CASE t \notin Highs'
    <3>1. Highs' \subseteq Highs
      BY <2>2, <1>e
    <3> QED BY <3>1, <1>d
  <2> QED BY <2>1, <2>2
<1>1. ASSUME NEW t \in Ticket, Enqueue(t) PROVE HighCapHolds'
  <2>1. Highs' \subseteq (Highs \cup {t})
    BY <1>1 DEF Enqueue, Highs, Submissions
  <2>2. t \in Highs' => AdmitTier(t, ask[t].tier) = "high"
    BY <1>1 DEF Enqueue, Highs, Submissions
  <2> QED BY <2>1, <2>2, <1>e
<1>2. ASSUME NEW t \in Ticket, NEW to \in Tiers, Retier(t, to) PROVE HighCapHolds'
  <2>1. Highs' \subseteq (Highs \cup {t})
    BY <1>2 DEF Retier, Highs, Submissions
  <2>2. t \in Highs' => AdmitTier(t, to) = "high"
    BY <1>2 DEF Retier, Highs, Submissions
  <2> QED BY <2>1, <2>2, <1>e
<1>3. ASSUME NEW t \in Ticket, Poll(t, Samples) PROVE HighCapHolds'
  <2>1. Highs' \subseteq Highs
    BY <1>3, PollStarts DEF Highs, Submissions
  <2> QED BY <2>1, <1>d
<1>4. CASE Tick \/ UNCHANGED vars
  BY <1>4, <1>d DEF Tick, vars, Highs
<1>5. ASSUME NEW t \in Ticket, Cancel(t) \/ Dequeue(t) \/ Orphan(t) \/ End(t)
      PROVE HighCapHolds'
  <2>1. Highs' \subseteq Highs
    BY <1>5 DEF Cancel, Dequeue, Orphan, End, Highs, Submissions
  <2> QED BY <2>1, <1>d
<1> QED BY <1>1, <1>2, <1>3, <1>4, <1>5 DEF SelectionNext

\* Two pushes that repeat each other, as a relation.
SameThing(t, u) == t # u /\ IsPush(t) /\ IsPush(u)
                     /\ ask[u].push.what = ask[t].push.what /\ ask[u].push.git # ask[t].push.git

LEMMA RepeatsRelation ==
    RepeatsAreReplaced <=>
        \A t, u \in (Queued \cup Held) \ cancelled : ~SameThing(t, u)
  BY DEF RepeatsAreReplaced, Repeats, SameThing

LEMMA RepeatsStep ==
    ASSUME Submissions, Submissions', RepeatsAreReplaced, [SelectionNext]_vars
    PROVE  RepeatsAreReplaced'
<1> DEFINE Live == (Queued \cup Held) \ cancelled
<1>a. \A t, u \in Live : ~SameThing(t, u)
  BY RepeatsRelation
<1>b. SUFFICES \A t, u \in Live' : ~SameThing(t, u)'
  BY DEF RepeatsAreReplaced, Repeats, SameThing
<1>c. UNCHANGED ask => \A t, u : SameThing(t, u)' <=> SameThing(t, u)
  BY DEF SameThing, IsPush
<1>d. ASSUME Live' \subseteq Live, UNCHANGED ask PROVE \A t, u \in Live' : ~SameThing(t, u)'
  BY <1>a, <1>c, <1>d
<1>1. ASSUME NEW t \in Ticket, Enqueue(t) PROVE \A x, u \in Live' : ~SameThing(x, u)'
  <2>1. Live' \subseteq (Live \cup {t}) \ Superseded(t)
    BY <1>1 DEF Enqueue, Submissions, Queued, Held
  <2>2. \A u \in Live' \ {t} : t \in Live' => ~SameThing(t, u)
    <3> SUFFICES ASSUME NEW u \in Live' \ {t}, t \in Live', SameThing(t, u) PROVE FALSE
      OBVIOUS
    <3>1. u \in Live
      BY <2>1
    <3>2. u \in Repeats(t)
      BY <3>1 DEF Repeats, SameThing
    <3>3. u \in Superseded(t) \/ t \in Superseded(t)
      BY <3>2 DEF Superseded
    <3> QED BY <2>1, <3>3
  <2>3. \A x, u : SameThing(x, u) => SameThing(u, x) /\ x # u
    BY DEF SameThing
  <2>4. UNCHANGED ask
    BY <1>1 DEF Enqueue
  <2> QED BY <1>a, <1>c, <2>1, <2>2, <2>3, <2>4
<1>2. ASSUME NEW t \in Ticket, Poll(t, Samples) PROVE \A x, u \in Live' : ~SameThing(x, u)'
  <2>1. Live' \subseteq Live /\ UNCHANGED ask
    BY <1>2, PollStarts DEF Submissions, Queued, Held, Visible
  <2> QED BY <2>1, <1>d
<1>3. CASE Tick \/ UNCHANGED vars
  <2>1. Live' = Live /\ UNCHANGED ask
    BY <1>3 DEF Tick, vars, Queued, Held
  <2> QED BY <2>1, <1>d
<1>4. ASSUME NEW t \in Ticket, \/ Cancel(t) \/ Dequeue(t) \/ Orphan(t) \/ End(t)
                               \/ \E to \in Tiers : Retier(t, to)
      PROVE \A x, u \in Live' : ~SameThing(x, u)'
  <2>1. Live' \subseteq Live /\ UNCHANGED ask
    BY <1>4 DEF Cancel, Dequeue, Orphan, End, Retier, Submissions, Queued, Held
  <2> QED BY <2>1, <1>d
<1> QED BY <1>1, <1>2, <1>3, <1>4 DEF SelectionNext

LEMMA PushesStep ==
    ASSUME Submissions, Submissions', PushesTakeTurns, [SelectionNext]_vars
    PROVE  PushesTakeTurns'
<1> DEFINE Runs == {t \in Ticket \ cancelled : state[t] = "running"}
<1>a. \A t, u \in Runs : ~OtherPush(t, u)
  BY DEF PushesTakeTurns
<1>b. SUFFICES \A t, u \in Runs' : ~OtherPush(t, u)'
  BY DEF PushesTakeTurns
<1>c. UNCHANGED ask => \A t, u : OtherPush(t, u)' <=> OtherPush(t, u)
  BY DEF OtherPush, IsPush
<1>d. ASSUME Runs' \subseteq Runs, UNCHANGED ask PROVE \A t, u \in Runs' : ~OtherPush(t, u)'
  BY <1>a, <1>c, <1>d
<1>1. ASSUME NEW t \in Ticket, Poll(t, Samples) PROVE \A x, u \in Runs' : ~OtherPush(x, u)'
  <2>1. UNCHANGED <<ask, cancelled>> /\ t \in Visible
    BY <1>1, PollStarts
  <2>2. CASE UNCHANGED state
    BY <2>1, <2>2, <1>d
  <2>3. CASE t \notin cancelled /\ state' = [state EXCEPT ![t] = "running"]
    <3>1. Runs' = Runs \cup {t}
      BY <2>1, <2>3 DEF Submissions
    <3>2. \A u \in Runs : ~OtherPush(t, u)
      BY <2>1 DEF Visible, PushHeld
    <3>3. \A x, u : OtherPush(x, u) => OtherPush(u, x) /\ x # u
      BY DEF OtherPush
    <3> QED BY <1>a, <1>c, <2>1, <3>1, <3>2, <3>3
  <2> QED BY <1>1, PollStarts, <2>2, <2>3
<1>2. CASE Tick \/ UNCHANGED vars
  <2>1. Runs' = Runs /\ UNCHANGED ask
    BY <1>2 DEF Tick, vars
  <2> QED BY <2>1, <1>d
<1>3. ASSUME NEW t \in Ticket, \/ Enqueue(t) \/ Cancel(t) \/ Dequeue(t) \/ Orphan(t) \/ End(t)
                               \/ \E to \in Tiers : Retier(t, to)
      PROVE \A x, u \in Runs' : ~OtherPush(x, u)'
  <2>1. Runs' \subseteq Runs /\ UNCHANGED ask
    BY <1>3 DEF Enqueue, Cancel, Dequeue, Orphan, End, Retier, Submissions
  <2> QED BY <2>1, <1>d
<1> QED BY <1>1, <1>2, <1>3 DEF SelectionNext

LEMMA SubmissionsStep ==
    ASSUME Submissions, [SelectionNext]_vars
    PROVE  Submissions'
<1>1. ASSUME NEW t \in Ticket, Enqueue(t) PROVE Submissions'
  <2>1. ask[t].tier \in Tiers
    BY DEF Submissions, Asks
  <2>2. AdmitTier(t, ask[t].tier) \in Tiers
    BY <2>1 DEF AdmitTier, Tiers
  <2> QED BY <1>1, <2>2 DEF Enqueue, Submissions, States
<1>2. ASSUME NEW t \in Ticket, NEW to \in Tiers, Retier(t, to) PROVE Submissions'
  <2>1. AdmitTier(t, to) \in Tiers
    BY DEF AdmitTier, Tiers
  <2> QED BY <1>2, <2>1 DEF Retier, Submissions
<1>3. ASSUME NEW t \in Ticket, Poll(t, Samples) PROVE Submissions'
  BY <1>3, PollStarts DEF Submissions, States
<1>4. CASE Tick \/ UNCHANGED vars
  BY <1>4 DEF Tick, vars, Submissions
<1>5. ASSUME NEW t \in Ticket, Cancel(t) \/ Dequeue(t) \/ Orphan(t) \/ End(t) PROVE Submissions'
  BY <1>5 DEF Cancel, Dequeue, Orphan, End, Submissions, States
<1> QED BY <1>1, <1>2, <1>3, <1>4, <1>5 DEF SelectionNext

LEMMA SubmissionsInit == SelectionInit => Submissions
  BY SelectionAssumption DEF SelectionInit, Submissions, States, Tiers

\* However tickets are submitted, repeated, re-tiered, cancelled, started,
\* orphaned and removed, two pushes of one caller never run side by side, the
\* earlier of two pushes of the same thing has been replaced, and no more than
\* MaxHigh tickets are queued at the high tier (enqueue, retierQueued and
\* supersedeRepeatedPushes of src/scheduler.js, pushHolds of src/push-gate.js).
THEOREM QueueRulesKept == SelectionSpec => []QueueRulesHold
<1>1. SelectionInit => QueueInv
  <2> SUFFICES ASSUME SelectionInit PROVE QueueInv
    OBVIOUS
  <2>1. Queued = {} /\ Held = {}
    BY DEF SelectionInit, Queued, Held
  <2>2. {t \in Queued : tier[t] = "high"} = {} /\ MaxHigh \in Nat
    BY <2>1, SelectionAssumption
  <2>3. HighCapHolds
    BY <2>2, FS_EmptySet DEF HighCapHolds
  <2>4. RepeatsAreReplaced
    BY <2>1 DEF RepeatsAreReplaced
  <2>5. PushesTakeTurns
    BY DEF PushesTakeTurns, SelectionInit
  <2> QED BY <2>3, <2>4, <2>5, SubmissionsInit DEF QueueInv, QueueRulesHold
<1>2. QueueInv /\ [SelectionNext]_vars => QueueInv'
  BY SubmissionsStep, HighCapStep, RepeatsStep, PushesStep DEF QueueInv, QueueRulesHold
<1>3. QueueInv => QueueRulesHold
  BY DEF QueueInv
<1> QED BY <1>1, <1>2, <1>3, PTL DEF SelectionSpec

-----------------------------------------------------------------------------
(* Sums over finite sets, whatever order their elements are taken in.       *)

\* The order that induction over the numbers needs.
LEMMA LessThan == \A x, y \in Nat : <<y, x>> \in OpToRel(<, Nat) <=> y < x
  BY DEF OpToRel

\* Induction, for a set of numbers and for a family of subsets of a finite set.
LEMMA NumbersInduct ==
    ASSUME NEW P \in SUBSET Nat, 0 \in P, \A n \in P : n + 1 \in P
    PROVE  P = Nat
<1> SUFFICES ASSUME P # Nat PROVE FALSE
  OBVIOUS
<1>1. PICK x \in Nat \ P : \A y \in Nat \ P : ~(<<y, x>> \in OpToRel(<, Nat))
  BY WFMin, NatLessThanWellFounded
<1>2. \A y \in Nat \ P : ~(y < x)
  BY <1>1, LessThan
<1>3. x - 1 \in Nat
  OBVIOUS
<1>4. x - 1 \in P
  BY <1>2, <1>3
<1>5. (x - 1) + 1 = x
  OBVIOUS
<1> QED BY <1>4, <1>5

LEMMA SubsetsInduct ==
    ASSUME NEW T, IsFiniteSet(T), NEW P \in SUBSET (SUBSET T),
           \A s \in SUBSET T : (\A u \in SUBSET s : u # s => u \in P) => s \in P
    PROVE  P = SUBSET T
<1> DEFINE N == {n \in Nat : \A s \in SUBSET T : Cardinality(s) <= n => s \in P}
<1>1. \A s \in SUBSET T : IsFiniteSet(s) /\ Cardinality(s) \in Nat
  BY FS_Subset, FS_CardinalityType
<1>2. \A s \in SUBSET T : \A u \in SUBSET s : u # s => Cardinality(u) < Cardinality(s)
  <2> SUFFICES ASSUME NEW s \in SUBSET T, NEW u \in SUBSET s, u # s
               PROVE  Cardinality(u) < Cardinality(s)
    OBVIOUS
  <2>1. Cardinality(u) <= Cardinality(s) /\ Cardinality(s) # Cardinality(u)
    BY <1>1, FS_Subset
  <2>2. u \in SUBSET T
    OBVIOUS
  <2> QED BY <1>1, <2>1, <2>2
<1>3. 0 \in N
  <2> SUFFICES ASSUME NEW s \in SUBSET T, Cardinality(s) <= 0 PROVE s \in P
    OBVIOUS
  <2>1. \A u \in SUBSET s : u = s
    <3> SUFFICES ASSUME NEW u \in SUBSET s, u # s PROVE FALSE
      OBVIOUS
    <3>1. u \in SUBSET T
      OBVIOUS
    <3>2. Cardinality(u) \in Nat /\ Cardinality(s) \in Nat /\ Cardinality(u) < Cardinality(s)
      BY <1>1, <1>2, <3>1
    <3> QED BY <3>2
  <2> QED BY <2>1
<1>4. \A n \in N : n + 1 \in N
  <2> SUFFICES ASSUME NEW n \in N, NEW s \in SUBSET T, Cardinality(s) <= n + 1 PROVE s \in P
    OBVIOUS
  <2>1. \A u \in SUBSET s : u # s => u \in P
    <3> SUFFICES ASSUME NEW u \in SUBSET s, u # s PROVE u \in P
      OBVIOUS
    <3>1. u \in SUBSET T
      OBVIOUS
    <3>2. Cardinality(u) <= n
      BY <1>1, <1>2, <3>1
    <3> QED BY <3>1, <3>2
  <2> QED BY <2>1
<1>5. N = Nat
  <2> HIDE DEF N
  <2>1. N \in SUBSET Nat
    BY DEF N
  <2> QED BY <1>3, <1>4, <2>1, NumbersInduct
<1>6. \A s \in SUBSET T : s \in P
  BY <1>1, <1>5
<1> QED BY <1>6

\* it sums up the weights of every subset of T, one chosen element at a time.
Choice(s) == CHOOSE x \in s : TRUE
Adds(it, w, T) ==
    it = [s \in SUBSET T |-> IF s = {} THEN 0 ELSE w[Choice(s)] + it[s \ {Choice(s)}]]

LEMMA ChoiceIn == \A s : s # {} => Choice(s) \in s
  BY DEF Choice

LEMMA AddsExists ==
    ASSUME NEW T, IsFiniteSet(T), NEW w
    PROVE  \E it : Adds(it, w, T)
<1> DEFINE Body(f, s) == IF s = {} THEN 0 ELSE w[Choice(s)] + f[s \ {Choice(s)}]
           Fun(f) == f = [s \in SUBSET T |-> f[s]]
           Part(f, n) == Fun(f) /\ \A s \in SUBSET T : Cardinality(s) <= n => f[s] = Body(f, s)
           N == {n \in Nat : \E f : Part(f, n)}
<1>1. \A s \in SUBSET T : Cardinality(s) \in Nat /\ (s # {} =>
        s \ {Choice(s)} \in SUBSET T /\ Cardinality(s \ {Choice(s)}) = Cardinality(s) - 1)
  BY FS_Subset, FS_CardinalityType, FS_RemoveElement, ChoiceIn
<1>2. 0 \in N
  <2> DEFINE f == [s \in SUBSET T |-> 0]
  <2>1. \A s \in SUBSET T : Cardinality(s) <= 0 => s = {}
    <3> SUFFICES ASSUME NEW s \in SUBSET T, Cardinality(s) <= 0 PROVE s = {}
      OBVIOUS
    <3>1. Cardinality(s) \in Nat
      BY <1>1
    <3>2. IsFiniteSet(s) /\ Cardinality(s) = 0
      BY <3>1, FS_Subset
    <3> QED BY <3>2, FS_EmptySet
  <2>2. \A s \in SUBSET T : Cardinality(s) <= 0 => f[s] = Body(f, s)
    BY <2>1
  <2>3. Part(f, 0)
    BY <2>2
  <2> QED BY <2>3
<1>3. \A n \in N : n + 1 \in N
  <2> SUFFICES ASSUME NEW n \in N PROVE n + 1 \in N
    OBVIOUS
  <2>0. n \in Nat /\ \E f : Part(f, n)
    <3> HIDE DEF Part
    <3> QED OBVIOUS
  <2>1. PICK f : Part(f, n)
    BY <2>0
  <2> DEFINE g == [s \in SUBSET T |-> IF Cardinality(s) <= n THEN f[s] ELSE Body(f, s)]
  <2>2. ASSUME NEW s \in SUBSET T, Cardinality(s) <= n + 1 PROVE g[s] = Body(g, s)
    <3>1. CASE s = {}
      <4>1. f[s] = 0 \/ ~(Cardinality(s) <= n)
        BY <2>1, <3>1
      <4> QED BY <3>1, <4>1
    <3>2. CASE s # {}
      <4> DEFINE u == s \ {Choice(s)}
      <4>1. u \in SUBSET T /\ Cardinality(u) <= n
        BY <1>1, <2>2, <3>2
      <4>2. g[u] = f[u]
        BY <4>1
      <4>3. g[s] = Body(f, s)
        BY <2>1
      <4> QED BY <3>2, <4>2, <4>3
    <3> QED BY <3>1, <3>2
  <2>3. Fun(g)
    OBVIOUS
  <2>4. Part(g, n + 1)
    BY <2>2, <2>3
  <2>5. \E h : Part(h, n + 1)
    <3> HIDE DEF Part
    <3> QED BY <2>4
  <2> HIDE DEF Part
  <2> QED BY <2>0, <2>5
<1>4. N = Nat
  <2> HIDE DEF N
  <2>1. N \in SUBSET Nat
    BY DEF N
  <2> QED BY <1>2, <1>3, <2>1, NumbersInduct
<1>5. Cardinality(T) \in N
  BY <1>4, FS_CardinalityType
<1>6. PICK f : Part(f, Cardinality(T))
  BY <1>5
<1>7. \A s \in SUBSET T : Cardinality(s) <= Cardinality(T)
  BY FS_Subset
<1>8. f = [s \in SUBSET T |-> f[s]] /\ \A s \in SUBSET T : f[s] = Body(f, s)
  BY <1>6, <1>7
<1>9. f = [s \in SUBSET T |-> Body(f, s)]
  BY <1>8
<1> QED BY <1>9 DEF Adds

LEMMA AddsAgree ==
    ASSUME NEW T, NEW U, IsFiniteSet(T), NEW w, NEW z, NEW it, NEW jt,
           Adds(it, w, T), Adds(jt, z, U), \A x \in T \cap U : w[x] = z[x]
    PROVE  \A s \in SUBSET (T \cap U) : it[s] = jt[s]
<1> DEFINE P == {s \in SUBSET (T \cap U) : it[s] = jt[s]}
<1>1. ASSUME NEW s \in SUBSET (T \cap U), \A u \in SUBSET s : u # s => u \in P PROVE s \in P
  <2>1. CASE s = {}
    BY <2>1 DEF Adds
  <2>2. CASE s # {}
    <3> DEFINE x == Choice(s)
               u == s \ {x}
    <3>1. x \in s /\ u \in SUBSET s /\ u # s
      BY <2>2, ChoiceIn
    <3>2. it[u] = jt[u] /\ w[x] = z[x]
      BY <3>1, <1>1
    <3>3. it[s] = w[x] + it[u] /\ jt[s] = z[x] + jt[u]
      BY <2>2 DEF Adds
    <3> QED BY <3>2, <3>3
  <2> QED BY <2>1, <2>2
<1>2. IsFiniteSet(T \cap U)
  BY FS_Subset, (T \cap U) \in SUBSET T
<1>3. P = SUBSET (T \cap U)
  <2> HIDE DEF P
  <2>1. P \in SUBSET (SUBSET (T \cap U))
    BY DEF P
  <2> QED BY <1>1, <1>2, <2>1, SubsetsInduct
<1> QED BY <1>3

LEMMA AddsType ==
    ASSUME NEW T, IsFiniteSet(T), NEW w, NEW it, Adds(it, w, T), \A x \in T : w[x] \in Nat
    PROVE  \A s \in SUBSET T : it[s] \in Nat
<1> DEFINE P == {s \in SUBSET T : it[s] \in Nat}
<1>1. ASSUME NEW s \in SUBSET T, \A u \in SUBSET s : u # s => u \in P PROVE s \in P
  <2>1. CASE s = {}
    BY <2>1 DEF Adds
  <2>2. CASE s # {}
    <3> DEFINE x == Choice(s)
               u == s \ {x}
    <3>1. x \in s /\ u \in SUBSET s /\ u # s
      BY <2>2, ChoiceIn
    <3>2. it[u] \in Nat /\ w[x] \in Nat
      BY <3>1, <1>1
    <3>3. it[s] = w[x] + it[u]
      BY <2>2 DEF Adds
    <3> QED BY <3>2, <3>3
  <2> QED BY <2>1, <2>2
<1>3. P = SUBSET T
  <2> HIDE DEF P
  <2>1. P \in SUBSET (SUBSET T)
    BY DEF P
  <2> QED BY <1>1, <2>1, SubsetsInduct
<1> QED BY <1>3

\* The sum does not depend on the order in which the elements are chosen.
LEMMA AddsAny ==
    ASSUME NEW T, IsFiniteSet(T), NEW w, NEW it, Adds(it, w, T), \A x \in T : w[x] \in Nat
    PROVE  \A s \in SUBSET T : \A x \in s : it[s] = w[x] + it[s \ {x}]
<1> DEFINE P == {s \in SUBSET T : \A x \in s : it[s] = w[x] + it[s \ {x}]}
<1>1. ASSUME NEW s \in SUBSET T, \A u \in SUBSET s : u # s => u \in P PROVE s \in P
  <2> SUFFICES ASSUME NEW x \in s PROVE it[s] = w[x] + it[s \ {x}]
    OBVIOUS
  <2> DEFINE c == Choice(s)
  <2>1. c \in s /\ it[s] = w[c] + it[s \ {c}]
    BY ChoiceIn DEF Adds
  <2>2. CASE x = c
    BY <2>1, <2>2
  <2>3. CASE x # c
    <3>1. s \ {c} \in P /\ s \ {x} \in P
      BY <2>1, <1>1
    <3>2. it[s \ {c}] = w[x] + it[(s \ {c}) \ {x}]
      BY <2>1, <2>3, <3>1
    <3>3. it[s \ {x}] = w[c] + it[(s \ {x}) \ {c}]
      BY <2>1, <2>3, <3>1
    <3>4. (s \ {x}) \ {c} = (s \ {c}) \ {x}
      OBVIOUS
    <3> DEFINE k == it[(s \ {c}) \ {x}]
    <3>5. w[x] \in Nat /\ w[c] \in Nat /\ k \in Nat
      BY <2>1, AddsType
    <3>6. it[s] = w[c] + (w[x] + k) /\ it[s \ {x}] = w[c] + k
      BY <2>1, <3>2, <3>3, <3>4
    <3> HIDE DEF c, k
    <3> QED BY <3>5, <3>6
  <2> QED BY <2>2, <2>3
<1>3. P = SUBSET T
  <2> HIDE DEF P
  <2>1. P \in SUBSET (SUBSET T)
    BY DEF P
  <2> QED BY <1>1, <2>1, SubsetsInduct
<1> QED BY <1>3

\* The sum of the weights w[x] of the elements x of S.
Total(w, S) == LET it == CHOOSE it : Adds(it, w, S) IN it[S]

LEMMA TotalAdds ==
    ASSUME NEW S, IsFiniteSet(S), NEW w
    PROVE  \E it : Adds(it, w, S) /\ Total(w, S) = it[S]
  BY AddsExists DEF Total

LEMMA TotalType ==
    ASSUME NEW S, IsFiniteSet(S), NEW w, \A x \in S : w[x] \in Nat
    PROVE  Total(w, S) \in Nat
<1>1. PICK it : Adds(it, w, S) /\ Total(w, S) = it[S]
  BY TotalAdds
<1> QED BY <1>1, AddsType

LEMMA TotalEmpty == \A w : Total(w, {}) = 0
<1> SUFFICES ASSUME NEW w PROVE Total(w, {}) = 0
  OBVIOUS
<1>1. PICK it : Adds(it, w, {}) /\ Total(w, {}) = it[{}]
  BY TotalAdds, FS_EmptySet
<1> QED BY <1>1 DEF Adds

LEMMA TotalAgree ==
    ASSUME NEW S, IsFiniteSet(S), NEW w, NEW z, \A x \in S : w[x] = z[x]
    PROVE  Total(w, S) = Total(z, S)
<1>1. PICK it : Adds(it, w, S) /\ Total(w, S) = it[S]
  BY TotalAdds
<1>2. PICK jt : Adds(jt, z, S) /\ Total(z, S) = jt[S]
  BY TotalAdds
<1>3. S \cap S = S /\ S \in SUBSET (S \cap S)
  OBVIOUS
<1>4. \A s \in SUBSET (S \cap S) : it[s] = jt[s]
  <2>1. \A x \in S \cap S : w[x] = z[x]
    OBVIOUS
  <2> QED BY <1>1, <1>2, <2>1, AddsAgree
<1> QED BY <1>1, <1>2, <1>3, <1>4

LEMMA TotalAdd ==
    ASSUME NEW S, IsFiniteSet(S), NEW x, x \notin S, NEW w,
           w[x] \in Nat, \A y \in S : w[y] \in Nat
    PROVE  Total(w, S \cup {x}) = w[x] + Total(w, S)
<1> DEFINE T == S \cup {x}
<1>1. IsFiniteSet(T) /\ \A y \in T : w[y] \in Nat
  BY FS_AddElement
<1>2. PICK it : Adds(it, w, S) /\ Total(w, S) = it[S]
  BY TotalAdds
<1>3. PICK jt : Adds(jt, w, T) /\ Total(w, T) = jt[T]
  BY <1>1, TotalAdds
<1>4. jt[T] = w[x] + jt[T \ {x}] /\ T \ {x} = S
  BY <1>1, <1>3, AddsAny
<1>5. it[S] = jt[S]
  <2>1. S \in SUBSET (S \cap T)
    OBVIOUS
  <2>2. \A y \in S \cap T : w[y] = w[y]
    OBVIOUS
  <2>3. \A s \in SUBSET (S \cap T) : it[s] = jt[s]
    <3> HIDE DEF T
    <3> QED BY <1>2, <1>3, <2>2, AddsAgree
  <2> QED BY <2>1, <2>3
<1> QED BY <1>2, <1>3, <1>4, <1>5

LEMMA TotalSubset ==
    ASSUME NEW T, IsFiniteSet(T), NEW w, \A x \in T : w[x] \in Nat, NEW S \in SUBSET T
    PROVE  Total(w, S) <= Total(w, T)
<1> DEFINE P == {U \in SUBSET T : S \subseteq U => Total(w, S) <= Total(w, U)}
<1>a. \A U \in SUBSET T : IsFiniteSet(U) /\ Total(w, U) \in Nat
  BY FS_Subset, TotalType
<1>1. ASSUME NEW U \in SUBSET T, \A V \in SUBSET U : V # U => V \in P PROVE U \in P
  <2> SUFFICES ASSUME S \subseteq U PROVE Total(w, S) <= Total(w, U)
    OBVIOUS
  <2>1. CASE U = S
    BY <2>1, <1>a
  <2>2. CASE U # S
    <3>1. PICK x \in U \ S : TRUE
      BY <2>2
    <3>2. U \ {x} \in P /\ S \subseteq U \ {x} /\ U \ {x} \in SUBSET T
      BY <1>1, <3>1
    <3>3. Total(w, (U \ {x}) \cup {x}) = w[x] + Total(w, U \ {x})
      BY <1>a, <3>2, TotalAdd
    <3>4. Total(w, U) = w[x] + Total(w, U \ {x}) /\ w[x] \in Nat
      <4>1. (U \ {x}) \cup {x} = U
        BY <3>1
      <4> QED BY <3>3, <4>1
    <3>5. Total(w, S) <= Total(w, U \ {x})
      BY <3>2
    <3>6. Total(w, S) \in Nat /\ Total(w, U \ {x}) \in Nat
      BY <1>a, <3>2
    <3> HIDE DEF P
    <3> QED BY <3>4, <3>5, <3>6
  <2> QED BY <2>1, <2>2
<1>3. P = SUBSET T
  <2> HIDE DEF P
  <2>1. P \in SUBSET (SUBSET T)
    BY DEF P
  <2> QED BY <1>1, <2>1, SubsetsInduct
<1> QED BY <1>3

-----------------------------------------------------------------------------
(* Lists without repetitions: the queue and the latched reservations.       *)

\* No element occurs twice.
Distinct(q) == \A i, j \in DOMAIN q : q[i] = q[j] => i = j

LEMMA AppendOne ==
    ASSUME NEW T, NEW q \in Seq(T), Distinct(q), NEW t \in T, t \notin Range(q)
    PROVE  Append(q, t) \in Seq(T) /\ Distinct(Append(q, t)) /\ Range(Append(q, t)) = Range(q) \cup {t}
<1>1. /\ Append(q, t) \in Seq(T) /\ DOMAIN Append(q, t) = 1..(Len(q) + 1) /\ DOMAIN q = 1..Len(q)
      /\ \A i \in 1..Len(q) : Append(q, t)[i] = q[i]
      /\ Append(q, t)[Len(q) + 1] = t /\ Len(q) \in Nat
  OBVIOUS
<1> DEFINE p == Append(q, t)
<1>2. DOMAIN p = DOMAIN q \cup {Len(q) + 1} /\ Len(q) + 1 \notin DOMAIN q
  BY <1>1
<1>3. Range(p) = Range(q) \cup {t}
  BY <1>1, <1>2 DEF Range
<1>4. Distinct(p)
  BY <1>1, <1>2 DEF Distinct, Range
<1> QED BY <1>1, <1>3, <1>4

LEMMA WithoutOne ==
    ASSUME NEW T, NEW q \in Seq(T), Distinct(q), NEW t
    PROVE  Without(q, t) \in Seq(T) /\ Distinct(Without(q, t)) /\ Range(Without(q, t)) = Range(q) \ {t}
<1>1. CASE \A i \in DOMAIN q : q[i] # t
  BY <1>1 DEF Without, Range
<1>2. CASE \E i \in DOMAIN q : q[i] = t
  <2> DEFINE at == CHOOSE i \in DOMAIN q : q[i] = t
             n == Len(q) - 1
             p == [i \in 1..n |-> IF i < at THEN q[i] ELSE q[i + 1]]
  <2>1. Without(q, t) = p
    BY <1>2 DEF Without
  <2>2. DOMAIN q = 1..Len(q) /\ Len(q) \in Nat /\ at \in DOMAIN q /\ q[at] = t
    BY <1>2
  <2> HIDE DEF at
  <2>3. n \in Nat /\ n + 1 = Len(q)
    BY <2>2
  <2> HIDE DEF n
  <2>4. \A i \in 1..n : i \in DOMAIN q /\ i + 1 \in DOMAIN q
    BY <2>2, <2>3
  <2>5. p \in Seq(T)
    <3>1. \A i \in DOMAIN q : q[i] \in T
      OBVIOUS
    <3>2. \A i \in 1..n : (IF i < at THEN q[i] ELSE q[i + 1]) \in T
      BY <2>4, <3>1
    <3> QED BY <2>3, <3>2
  <2>6. \A i \in 1..n : i < at => p[i] = q[i]
    OBVIOUS
  <2>7. \A i \in 1..n : ~(i < at) => p[i] = q[i + 1]
    OBVIOUS
  <2>8. DOMAIN p = 1..n
    OBVIOUS
  <2> HIDE DEF p
  <2>9. Distinct(p)
    <3> SUFFICES ASSUME NEW i \in 1..n, NEW j \in 1..n, p[i] = p[j] PROVE i = j
      BY <2>8 DEF Distinct
    <3>1. i \in Nat /\ j \in Nat /\ at \in Nat
      BY <2>2, <2>3
    <3>2. (IF i < at THEN i ELSE i + 1) = (IF j < at THEN j ELSE j + 1)
      BY <2>4, <2>6, <2>7 DEF Distinct
    <3> QED BY <3>1, <3>2
  <2>10. \A i \in DOMAIN q : i # at => \E j \in 1..n : p[j] = q[i]
    <3> SUFFICES ASSUME NEW i \in DOMAIN q, i # at PROVE \E j \in 1..n : p[j] = q[i]
      OBVIOUS
    <3>1. i \in 1..Len(q) /\ at \in 1..Len(q) /\ n \in Nat /\ Len(q) = n + 1
      BY <2>2, <2>3
    <3>2. CASE i < at
      <4>1. i \in 1..n
        BY <3>1, <3>2
      <4> QED BY <3>2, <4>1, <2>6
    <3>3. CASE ~(i < at)
      <4>1. i - 1 \in 1..n /\ ~(i - 1 < at) /\ (i - 1) + 1 = i
        BY <3>1, <3>3
      <4> QED BY <4>1, <2>7
    <3> QED BY <3>2, <3>3
  <2>11. \A j \in 1..n : \E i \in DOMAIN q : i # at /\ p[j] = q[i]
    <3> SUFFICES ASSUME NEW j \in 1..n PROVE \E i \in DOMAIN q : i # at /\ p[j] = q[i]
      OBVIOUS
    <3>1. at \in Nat /\ j \in Nat
      BY <2>2, <2>3
    <3>2. CASE j < at
      BY <2>4, <2>6, <3>1, <3>2
    <3>3. CASE ~(j < at)
      <4>1. j + 1 # at
        BY <3>1, <3>3
      <4> QED BY <2>4, <2>7, <3>3, <4>1
    <3> QED BY <3>2, <3>3
  <2>12. Range(p) = Range(q) \ {t}
    <3>1. \A i \in DOMAIN q : q[i] = t <=> i = at
      BY <2>2 DEF Distinct
    <3>2. \A x \in Range(p) : x \in Range(q) /\ x # t
      BY <2>8, <2>11, <3>1 DEF Range
    <3>3. ASSUME NEW x \in Range(q), x # t PROVE x \in Range(p)
      <4>1. PICK i \in DOMAIN q : x = q[i]
        BY DEF Range
      <4>2. PICK j \in 1..n : p[j] = q[i]
        BY <2>10, <3>1, <3>3, <4>1
      <4> QED BY <2>8, <4>1, <4>2 DEF Range
    <3> QED BY <3>2, <3>3
  <2> QED BY <2>1, <2>5, <2>9, <2>12
<1> QED BY <1>1, <1>2

-----------------------------------------------------------------------------
(* The types of the state, and the order of the queue.                      *)

\* The parts of SelectionTypeOK that the bookings rest on, and the queue as a list
\* that holds each queued ticket once.
Types ==
    /\ ask \in Workloads
    /\ state \in [Ticket -> {"new", "queued", "running", "orphaned", "done"}]
    /\ tier \in [Ticket -> Tiers]
    /\ waited \in [Ticket -> 0..(3 * AgeMax)]
    /\ cancelled \subseteq Ticket
    /\ grant \in [Ticket -> 0..Budget]
    /\ lift \in [Ticket -> {"floor", "bypass", "outran", None}]
    /\ ticks \in 0..MaxTicks /\ rate \in 0..PerMinute
InLine == queue \in Seq(Ticket) /\ Distinct(queue) /\ Range(queue) = Queued

LEMMA NaturalBounds ==
    /\ Capacity \in Nat /\ Budget \in Nat /\ SkipLimit \in Nat /\ ResLimit \in Nat
    /\ Grace \in Nat /\ AgeMax \in Nat /\ TierWeight \in Nat /\ AgeWeight \in Nat
    /\ ExpressWait \in Nat /\ PerMinute \in Nat /\ IdleOvershoot \in Nat
    /\ FloorOvershoot \in Nat /\ BypassCap \in Nat /\ SimTickets \in Nat
    /\ MemBudget \in Nat /\ SimMem \in Nat /\ SimCores \in Nat /\ TestReserve \in Nat /\ MaxHigh \in Nat /\ MaxTicks \in Nat
  BY SelectionAssumption

LEMMA AskType ==
    ASSUME Types, NEW t \in Ticket
    PROVE  /\ ask[t] \in Asks
           /\ ask[t].weight \in Nat /\ ask[t].cpu \in Nat /\ ask[t].min \in Nat /\ ask[t].mem \in Nat
           /\ ask[t].weight <= Capacity /\ ask[t].min <= ask[t].cpu /\ ask[t].cpu <= Budget
           /\ ask[t].mem <= MemBudget
<1>1. ask \in Workloads /\ ask \in [Ticket -> Asks]
  BY SelectionAssumption DEF Types
<1>2. ask[t] \in Asks
  BY <1>1
<1>3. ask[t].weight <= Capacity /\ ask[t].min <= ask[t].cpu /\ ask[t].cpu <= Budget /\ ask[t].mem <= MemBudget
  BY <1>1, SelectionAssumption
<1> QED BY <1>2, <1>3 DEF Asks

LEMMA Products == \A x, y \in Nat : x * y \in Nat
  OBVIOUS

LEMMA ScoreType ==
    ASSUME Types, NEW t \in Ticket
    PROVE  Score(t) \in Nat
<1>1. waited[t] \in Nat
  BY NaturalBounds DEF Types
<1> DEFINE credited == IF ask[t].aging /\ ~ask[t].exclusive THEN waited[t] ELSE 0
           age == MinOf(AgeMax, credited)
           base == Base[tier[t]]
<1>2. age \in Nat
  BY <1>1, NaturalBounds DEF MinOf
<1>3. base \in Nat
  BY DEF Base, Types, Tiers
<1>4. TierWeight * AgeMax \in Nat /\ TierWeight * base \in Nat /\ AgeWeight * age \in Nat
  BY <1>2, <1>3, NaturalBounds, Products
<1>5. (TierWeight * base * 100) * AgeMax \in Nat
  BY <1>4, NaturalBounds, Products
<1> DEFINE top == tier[t] = "high" \/ credited >= 3 * AgeMax
<1>6. TierWeight * AgeMax * (IF top THEN 200 ELSE 198) \in Nat
  <2> HIDE DEF top
  <2> QED BY <1>4, Products
<1>7. TierWeight * base * 100 * AgeMax + AgeWeight * age * 200 \in Nat
  BY <1>4, <1>5
<1>8. Score(t) = MinOf(TierWeight * AgeMax * (IF top THEN 200 ELSE 198),
                       TierWeight * base * 100 * AgeMax + AgeWeight * age * 200)
  BY DEF Score
<1> HIDE DEF top, age, base
<1> QED BY <1>6, <1>7, <1>8 DEF MinOf

\* The order of the queue is total, whichever reservation leads it.
LEMMA AheadTotal ==
    ASSUME Types, InLine, NEW owner
    PROVE  /\ \A t, u \in Queued : t # u => AheadUnder(owner, t, u) \/ AheadUnder(owner, u, t)
           /\ \A t, u, v \in Queued :
                AheadUnder(owner, t, u) /\ AheadUnder(owner, u, v) => t = v \/ AheadUnder(owner, t, v)
<1>1. \A t \in Queued : t \in Ticket /\ Score(t) \in Nat /\ SimRank(t) \in Nat
  BY ScoreType DEF Queued, SimRank
<1>2. \A t \in Queued : At(t) \in Nat /\ At(t) \in DOMAIN queue /\ queue[At(t)] = t
  <2> SUFFICES ASSUME NEW t \in Queued
               PROVE  At(t) \in Nat /\ At(t) \in DOMAIN queue /\ queue[At(t)] = t
    OBVIOUS
  <2>1. t \in Range(queue)
    BY DEF InLine
  <2>2. At(t) \in DOMAIN queue /\ queue[At(t)] = t
    BY <2>1 DEF Range, At
  <2> QED BY <2>2 DEF InLine
<1>3. \A t, u \in Queued : t # u => At(t) # At(u)
  BY <1>2
<1>4. \A t, u \in Queued : Before(t, u) <=>
        \/ Score(t) > Score(u)
        \/ Score(t) = Score(u) /\ (SimRank(t) < SimRank(u) \/ (SimRank(t) = SimRank(u) /\ At(t) < At(u)))
  BY DEF Before, Precedes, Standing
<1>5. \A t, u \in Queued : t # u => Before(t, u) \/ Before(u, t)
  <2> SUFFICES ASSUME NEW t \in Queued, NEW u \in Queued, t # u PROVE Before(t, u) \/ Before(u, t)
    OBVIOUS
  <2>1. Score(t) \in Nat /\ Score(u) \in Nat /\ SimRank(t) \in Nat /\ SimRank(u) \in Nat
        /\ At(t) \in Nat /\ At(u) \in Nat /\ At(t) # At(u)
    BY <1>1, <1>2, <1>3
  <2> QED BY <1>4, <2>1
<1>6. \A t, u, v \in Queued : Before(t, u) /\ Before(u, v) => Before(t, v)
  <2> SUFFICES ASSUME NEW t \in Queued, NEW u \in Queued, NEW v \in Queued, Before(t, u), Before(u, v)
               PROVE Before(t, v)
    OBVIOUS
  <2>1. Score(t) \in Nat /\ Score(u) \in Nat /\ SimRank(t) \in Nat /\ SimRank(u) \in Nat
        /\ At(t) \in Nat /\ At(u) \in Nat /\ Score(v) \in Nat /\ SimRank(v) \in Nat /\ At(v) \in Nat
    BY <1>1, <1>2
  <2> QED BY <1>4, <2>1
<1> QED BY <1>5, <1>6 DEF AheadUnder

LEMMA FirstIn ==
    ASSUME Types, InLine, NEW S \in SUBSET Queued, S # {}, NEW owner
    PROVE  /\ FirstUnder(owner, S) \in S
           /\ \A u \in S \ {FirstUnder(owner, S)} : AheadUnder(owner, FirstUnder(owner, S), u)
<1> DEFINE P == {U \in SUBSET S : U = {} \/ \E t \in U : \A u \in U \ {t} : AheadUnder(owner, t, u)}
<1>1. IsFiniteSet(S)
  BY SelectionAssumption, FS_Subset DEF Queued
<1>2. ASSUME NEW U \in SUBSET S, \A V \in SUBSET U : V # U => V \in P PROVE U \in P
  <2>1. CASE U = {}
    BY <2>1
  <2>2. CASE U # {}
    <3>1. PICK x \in U : TRUE
      BY <2>2
    <3>2. U \ {x} \in P
      BY <1>2
    <3>3. CASE U \ {x} = {}
      BY <3>3
    <3>4. CASE U \ {x} # {}
      <4>1. PICK t \in U \ {x} : \A u \in (U \ {x}) \ {t} : AheadUnder(owner, t, u)
        BY <3>2, <3>4
      <4>2. CASE AheadUnder(owner, t, x)
        BY <4>1, <4>2
      <4>3. CASE AheadUnder(owner, x, t)
        <5>1. \A u \in U \ {x} : AheadUnder(owner, x, u)
          <6> SUFFICES ASSUME NEW u \in U \ {x}, u # t PROVE AheadUnder(owner, x, u)
            BY <4>3
          <6>1. AheadUnder(owner, t, u)
            BY <4>1
          <6> QED BY <4>3, <6>1, AheadTotal
        <5> QED BY <5>1
      <4> QED BY <4>2, <4>3, AheadTotal
    <3> QED BY <3>3, <3>4
  <2> QED BY <2>1, <2>2
<1>3. P = SUBSET S
  <2> HIDE DEF P
  <2>1. P \in SUBSET (SUBSET S)
    BY DEF P
  <2> QED BY <1>1, <1>2, <2>1, SubsetsInduct
<1>4. \E t \in S : \A u \in S \ {t} : AheadUnder(owner, t, u)
  BY <1>3
<1> QED BY <1>4 DEF FirstUnder

LEMMA FirstOfIn ==
    ASSUME Types, InLine, NEW S \in SUBSET Queued, NEW t \in Ticket, FirstOf(S) = t
    PROVE  t \in S
  BY FirstIn, SelectionAssumption DEF FirstOf, First

-----------------------------------------------------------------------------
(* What a poll decides, and about whom.                                     *)

\* What a ticket weighs: an exclusive one takes the whole host.
Heft == [u \in Ticket |-> IF ask[u].exclusive THEN Capacity ELSE ask[u].weight]

\* The memory its lease books.
Load == [u \in Ticket |-> Mem(u)]

LEMMA BookedIsTotal == \A S : Booked(S) = Total(grant, S)
  BY DEF Booked, MapThenSumSet, MapThenFoldSet, Total, Adds, Choice

LEMMA WeightIsTotal == ASSUME NEW S \in SUBSET Ticket PROVE Weight(S) = Total(Heft, S)
<1> DEFINE W(u) == IF ask[u].exclusive THEN Capacity ELSE ask[u].weight
           F(it) == [s \in SUBSET S |-> IF s = {} THEN 0 ELSE W(Choice(s)) + it[s \ {Choice(s)}]]
           G(it) == [s \in SUBSET S |-> IF s = {} THEN 0 ELSE Heft[Choice(s)] + it[s \ {Choice(s)}]]
<1>1. \A s \in SUBSET S : s # {} => Heft[Choice(s)] = W(Choice(s))
  BY ChoiceIn DEF Heft
<1>2. \A it : F(it) = G(it)
  BY <1>1
<1>3. Weight(S) = LET it == CHOOSE it : it = F(it) IN it[S]
  BY DEF Weight, MapThenSumSet, MapThenFoldSet, Choice
<1>4. Total(Heft, S) = LET it == CHOOSE it : it = G(it) IN it[S]
  BY DEF Total, Adds
<1> HIDE DEF F, G
<1> QED BY <1>2, <1>3, <1>4

LEMMA MemoryIsTotal == ASSUME NEW S \in SUBSET Ticket PROVE Memory(S) = Total(Load, S)
<1> DEFINE F(it) == [s \in SUBSET S |-> IF s = {} THEN 0 ELSE Mem(Choice(s)) + it[s \ {Choice(s)}]]
           G(it) == [s \in SUBSET S |-> IF s = {} THEN 0 ELSE Load[Choice(s)] + it[s \ {Choice(s)}]]
<1>1. \A s \in SUBSET S : s # {} => Load[Choice(s)] = Mem(Choice(s))
  BY ChoiceIn DEF Load
<1>2. \A it : F(it) = G(it)
  BY <1>1
<1>3. Memory(S) = LET it == CHOOSE it : it = F(it) IN it[S]
  BY DEF Memory, MapThenSumSet, MapThenFoldSet, Choice
<1>4. Total(Load, S) = LET it == CHOOSE it : it = G(it) IN it[S]
  BY DEF Total, Adds
<1> HIDE DEF F, G
<1> QED BY <1>2, <1>3, <1>4

LEMMA SampleType ==
    ASSUME NEW s \in Samples \cup {Quiet}
    PROVE  /\ s.x \in Nat /\ s.m \in Nat /\ s \in SampleSet
           /\ \A t \in Ticket : s.past[t] \in [0..Budget -> Nat \cup {None}]
<1>1. s \in SampleSet
  BY SelectionAssumption
<1> QED BY <1>1 DEF SampleSet

\* What a poll consists of.
LEMMA PollShape ==
    ASSUME Types, InLine, NEW t \in Ticket, Poll(t, Samples)
    PROVE  LET h == First(Visible)
           IN  /\ t \in Visible /\ h \in Visible /\ ~ExclusiveDenied(t, h)
               /\ \E s \in Samples :
                    LET v == Verdict(t, h, Plan(s, t, h), s)
                    IN  Refuse(t, h, Plan(s, t, h), s, v) \/ Start(t, h, Plan(s, t, h), s, v)
<1>1. t \in Visible /\ Visible \in SUBSET Queued /\ Visible # {}
  BY DEF Poll, Visible
<1>2. First(Visible) \in Visible
  BY <1>1, FirstIn DEF First
<1> QED BY <1>1, <1>2, Zenon DEF Poll

\* The smallest number of some.
LEMMA SmallestExists ==
    ASSUME NEW N \in SUBSET Nat, N # {}
    PROVE  \E n \in N : \A m \in N : n <= m
<1>1. PICK n \in N : \A m \in N : ~(<<m, n>> \in OpToRel(<, Nat))
  BY WFMin, NatLessThanWellFounded
<1>2. \A m \in N : m \in Nat /\ n \in Nat /\ ~(m < n)
  BY <1>1, LessThan
<1> QED BY <1>2

\* What a claim, and a ticket at its floor, is charged is a number of cores.
LEMMA EstimateType ==
    ASSUME NEW s \in Samples \cup {Quiet}, NEW t \in Ticket, NEW g \in 0..Budget, NEW beside \in BOOLEAN
    PROVE  /\ Estimate(s, t, g, beside) \in Nat
           /\ ~beside => Estimate(s, t, g, beside) <= g
<1>1. s.past[t][g] \in Nat \cup {None} /\ g \in Nat /\ Budget \in Nat
  BY SampleType, NaturalBounds
<1> DEFINE past == s.past[t][g]
<1>2. Estimate(s, t, g, beside) = IF past = None THEN g ELSE IF past > g /\ beside THEN MinOf(Budget, past) ELSE MinOf(g, past)
  BY DEF Estimate
<1> HIDE DEF past
<1>3. past \in Nat \cup {None}
  BY <1>1 DEF past
<1>4. CASE past = None
  BY <1>1, <1>2, <1>4
<1>5. CASE past # None
  BY <1>1, <1>2, <1>3, <1>5 DEF MinOf
<1> QED BY <1>4, <1>5

LEMMA FloorType ==
    ASSUME Types, NEW s \in Samples \cup {Quiet}, NEW t \in Ticket, NEW busy
    PROVE  Floor(s, t, busy) \in Nat
<1>1. ask[t].cpu \in 0..Budget /\ ask[t].min \in Nat
  BY AskType, NaturalBounds
<1>2. CASE Held = {}
  <2>1. Floor(s, t, busy) = MinOf(Estimate(s, t, ask[t].cpu, FALSE), ask[t].min)
    BY <1>2 DEF Floor, DrainedFloor
  <2> QED BY <1>1, <2>1, EstimateType DEF MinOf
<1>3. CASE Held # {}
  <2> DEFINE G == {ask[t].cpu} \cup Grants(t, ask[t].cpu, busy)
             E == {Estimate(s, t, g, TRUE) : g \in G}
  <2>1. G \in SUBSET (0..Budget)
    BY <1>1, AskType, NaturalBounds DEF Grants
  <2> HIDE DEF G
  <2>2. E \in SUBSET Nat
    BY <2>1, EstimateType
  <2>3. E # {}
    BY DEF G
  <2> HIDE DEF E
  <2>4. \E n \in E : \A m \in E : n <= m
    BY <2>2, <2>3, SmallestExists
  <2>5. Min(E) \in E
    BY <2>4, Zenon DEF Min
  <2>6. Floor(s, t, busy) = Min(E)
    BY <1>3, Zenon DEF Floor, E, G
  <2> QED BY <2>2, <2>5, <2>6
<1> QED BY <1>2, <1>3

\* The tickets with the smallest floor among some.
LEMMA LeastExists ==
    ASSUME Types, NEW s \in Samples \cup {Quiet}, NEW busy, NEW R \in SUBSET Ticket, R # {}
    PROVE  {t \in R : \A u \in R : Floor(s, t, busy) <= Floor(s, u, busy)} # {}
<1> DEFINE N == {Floor(s, t, busy) : t \in R}
<1>1. N \in SUBSET Nat /\ N # {}
  BY FloorType
<1>2. PICK n \in N : \A m \in N : n <= m
  <2> HIDE DEF N
  <2> QED BY <1>1, SmallestExists
<1>3. PICK t \in R : Floor(s, t, busy) = n
  BY <1>2
<1>4. \A u \in R : Floor(s, t, busy) <= Floor(s, u, busy)
  BY <1>2, <1>3
<1> QED BY <1>4

\* The tickets that the walks behind a head find are never exclusive.
LEMMA PickIn ==
    ASSUME Types, InLine, NEW s \in Samples \cup {Quiet}, NEW h \in Visible, NEW r, NEW behind,
           NEW t \in Ticket, ResourcePick(s, h, r, behind) = t
    PROVE  t \in Walk(h) \ {h}
<1> DEFINE head == IF behind THEN h ELSE None
           busy == Busy([s EXCEPT !.x = r.x], head, None)
           Room == {x \in Walk(h) \ {h} :
                   /\ ~Blocked(Held, x)
                   /\ Weight(Held) + (IF behind THEN ask[h].weight ELSE 0) + ask[x].weight <= Capacity
                   /\ IF behind THEN ~Blocked({x}, h) /\ ~Blocked({h}, x)
                                ELSE ~Blocked(Held \cup {x}, h)
                   /\ busy + Floor(s, x, busy) <= Budget
                   /\ r.m # None => FitsMemory(r.m, s, head, x)}
           least == {x \in Room : \A u \in Room : Floor(s, x, busy) <= Floor(s, u, busy)}
<1>1. ResourcePick(s, h, r, behind) = IF Room = {} THEN None ELSE First(least)
  BY Zenon DEF ResourcePick
<1>2. Room \in SUBSET (Walk(h) \ {h}) /\ Walk(h) \in SUBSET Queued
  BY DEF Walk, Visible
<1> HIDE DEF Room, busy
<1>3. Room # {} /\ t = First(least)
  BY <1>1, SelectionAssumption
<1>4. least # {} /\ least \in SUBSET Queued
  BY <1>2, <1>3, LeastExists DEF Queued
<1> HIDE DEF least
<1>5. First(least) \in least
  BY <1>4, FirstIn DEF First
<1> QED BY <1>2, <1>3, <1>5 DEF least

\* Who is started in place of the head it is behind, and on which allowance.
LEMMA CandidateIn ==
    ASSUME Types, InLine, NEW s \in Samples \cup {Quiet}, NEW h \in Visible, NEW t \in Ticket,
           Plan(s, t, h).candidate = t, Way(t, h) = None, t # h
    PROVE  /\ t \in Walk(h)
           /\ Conflicted(h) => ~Exhausted(h)
           /\ TooHeavy(h) => ~(fair[h].heavy >= SkipLimit)
           /\ ~Conflicted(h) /\ ~TooHeavy(h) => Open(Rec(h))
<1> DEFINE r == Rec(h)
           pick == ConflictPick(s, h)
           free == {u \in Walk(h) : ~Blocked(Held, u)}
<1>1. Candidate(s, t, h, None, pick) = t
  BY DEF Plan, PlanFor
<1>2. t # None /\ Walk(h) \in SUBSET Queued
  BY SelectionAssumption DEF Walk, Visible
<1>3. CASE Conflicted(h)
  <2>1. ~Exhausted(h) /\ t = IF pick # None THEN pick ELSE FirstOf(free)
    BY <1>1, <1>2, <1>3 DEF Candidate, TooHeavy
  <2>2. CASE pick # None
    <3>1. ResourcePick(s, h, fair[h].res, TRUE) = t
      BY <2>1, <2>2, <1>3 DEF ConflictPick
    <3> QED BY <3>1, <2>1, <1>3, PickIn DEF TooHeavy
  <2>3. CASE pick = None
    <3>1. FirstOf(free) = t /\ free \in SUBSET Queued
      BY <2>1, <2>3, <1>2
    <3>2. t \in free
      BY <3>1, FirstOfIn
    <3> QED BY <3>2, <2>1, <1>3 DEF TooHeavy
  <2> QED BY <2>2, <2>3
<1>4. CASE ~Conflicted(h) /\ TooHeavy(h)
  <2> DEFINE light == {u \in free : Fits(u)}
  <2>1. ~(fair[h].heavy >= SkipLimit \/ Reserved(r)) /\ FirstOf(light) = t
    BY <1>1, <1>2, <1>4 DEF Candidate
  <2>2. light \in SUBSET Queued
    BY <1>2
  <2>3. t \in light
    <3> HIDE DEF light
    <3> QED BY <2>1, <2>2, FirstOfIn
  <2> QED BY <2>1, <2>3, <1>4
<1>5. CASE ~Conflicted(h) /\ ~TooHeavy(h)
  <2>1. t = IF Open(r) /\ t # h THEN ResourcePick(s, h, r, FALSE) ELSE h
    BY <1>1, <1>5 DEF Candidate
  <2>2. Open(r) /\ ResourcePick(s, h, r, FALSE) = t
    BY <2>1
  <2> QED BY <2>2, <1>5, PickIn
<1> QED BY <1>3, <1>4, <1>5

\* The parts of a verdict.
LEMMA VerdictParts ==
    ASSUME NEW t, NEW h, NEW s
    PROVE  LET p == Plan(s, t, h)
               d == Decision(s, p.head, t)
               v == Verdict(t, h, p, s)
               alone == ask[t].exclusive
           IN  /\ v.lift = Lift(t, h, p, s, d)
               /\ v.grant = IF alone THEN Budget ELSE IF d.cores = None THEN Claim(t) ELSE d.cores
               /\ v.outcome = "start" =>
                    /\ p.candidate # t /\ v.lift = None =>
                          ~(p.candidate # None \/ t # h \/ ~TooHeavy(h) \/ p.floor \/ p.bypass)
                    /\ ask[t].sim => ~SimCapped(t, v.grant)
                    /\ ~alone => Fits(t) /\ (s.load => Held = {})
                    /\ d.cores # None \/ v.lift # None \/ alone \/ d.memory
<1> DEFINE p == Plan(s, t, h)
           d == Decision(s, p.head, t)
           v == Verdict(t, h, p, s)
           raised == Lift(t, h, p, s, d)
<1>1. v = Judged(t, h, p, s, d, raised)
  BY Zenon DEF Verdict, JudgedBy
<1> HIDE DEF p, d, raised
<1>2. v.lift = raised /\ v.grant = IF ask[t].exclusive THEN Budget ELSE IF d.cores = None THEN Claim(t) ELSE d.cores
  BY <1>1 DEF Judged
<1>3. ASSUME v.outcome = "start"
      PROVE  /\ p.candidate # t /\ raised = None =>
                    ~(p.candidate # None \/ t # h \/ ~TooHeavy(h) \/ p.floor \/ p.bypass)
             /\ ask[t].sim => ~SimCapped(t, v.grant)
             /\ ~ask[t].exclusive => Fits(t) /\ (s.load => Held = {})
             /\ d.cores # None \/ raised # None \/ ask[t].exclusive \/ d.memory
  BY <1>1, <1>2, <1>3 DEF Judged
<1> QED BY <1>2, <1>3 DEF p, d, raised

LEMMA NoneFresh ==
    /\ None \notin Ticket /\ None \notin Nat
    /\ None # "floor" /\ None # "bypass" /\ None # "outran" /\ None # "safe" /\ None # "express"
    /\ None # "yield" /\ None # "conflict" /\ None # "capacity" /\ None # "resource"
  BY SelectionAssumption DEF Words

LEMMA HeldFinite ==
    /\ IsFiniteSet(Held) /\ Held \in SUBSET Ticket /\ Queued \in SUBSET Ticket /\ IsFiniteSet(Queued)
    /\ Visible \in SUBSET Queued
  BY SelectionAssumption, FS_Subset DEF Held, Queued, Visible

LEMMA BookedType ==
    ASSUME Types, NEW S \in SUBSET Ticket
    PROVE  Booked(S) \in Nat /\ IsFiniteSet(S) /\ \A x \in S : grant[x] \in Nat
<1>1. IsFiniteSet(S)
  BY SelectionAssumption, FS_Subset
<1>2. \A x \in S : grant[x] \in Nat
  BY NaturalBounds DEF Types
<1> QED BY <1>1, <1>2, TotalType, BookedIsTotal

LEMMA WeightType ==
    ASSUME Types, NEW S \in SUBSET Ticket
    PROVE  Weight(S) \in Nat /\ IsFiniteSet(S) /\ \A x \in S : Heft[x] \in Nat
<1>1. IsFiniteSet(S)
  BY SelectionAssumption, FS_Subset
<1>2. \A x \in S : Heft[x] \in Nat
  BY AskType, NaturalBounds DEF Heft
<1> QED BY <1>1, <1>2, TotalType, WeightIsTotal

LEMMA MemoryType ==
    ASSUME Types, NEW S \in SUBSET Ticket
    PROVE  Memory(S) \in Nat /\ IsFiniteSet(S) /\ \A x \in S : Load[x] \in Nat
<1>1. IsFiniteSet(S)
  BY SelectionAssumption, FS_Subset
<1>2. \A x \in S : Load[x] \in Nat
  BY AskType, NaturalBounds DEF Load, Mem
<1> QED BY <1>1, <1>2, TotalType, MemoryIsTotal

LEMMA ClaimType ==
    ASSUME Types, NEW t \in Ticket
    PROVE  Claim(t) \in 0..Budget
<1> DEFINE sims == Booked(Sims)
           room == MinOf(SimCores, Budget - TestReserve) - sims
           whole == (room \div Core) * Core
<1>1. sims \in Nat
  BY BookedType, HeldFinite DEF Sims
<1>2. Claim(t) = IF ask[t].sim /\ ask[t].min < ask[t].cpu /\ ask[t].cpu > whole /\ whole >= ask[t].min
                 THEN whole ELSE ask[t].cpu
  BY DEF Claim
<1> HIDE DEF sims
<1>3. room \in Int
  BY <1>1, NaturalBounds DEF MinOf
<1> HIDE DEF room
<1>4. whole \in Int
  BY <1>3 DEF Core
<1> HIDE DEF whole
<1> QED BY <1>2, <1>4, AskType, NaturalBounds

\* An admission is granted no more than it claims, and leaves the bookings of
\* memory within the host's.
LEMMA GrantedFits ==
    ASSUME Types, NEW t \in Ticket, NEW s, NEW head, NEW cand, Granted(s, head, cand, t, Claim(t)) # None
    PROVE  /\ Granted(s, head, cand, t, Claim(t)) \in 0..Budget
           /\ FitsMemory(s.m, s, head, t)
<1> DEFINE claim == Claim(t)
           g == Granted(s, head, cand, t, claim)
           fit == {k \in Grants(t, claim, Busy(s, head, cand)) : Projected(s, head, cand, t, k) <= Budget}
<1>1. claim \in 0..Budget /\ ask[t].min \in Nat /\ Budget \in Nat
  BY ClaimType, AskType, NaturalBounds
<1>2. FitsMemory(s.m, s, head, t) /\ (g = claim \/ (fit # {} /\ g = Max(fit)))
  BY DEF Granted
<1> HIDE DEF g, claim
<1>3. fit \in SUBSET (0..Budget) /\ fit \in SUBSET (0..claim)
  BY <1>1 DEF Grants
<1> HIDE DEF fit
<1>4. ASSUME fit # {} PROVE Max(fit) \in fit
  <2> DEFINE N == {claim - k : k \in fit}
  <2>1. N \in SUBSET Nat /\ N # {}
    <3>1. \A k \in 0..claim : claim - k \in Nat
      BY <1>1
    <3> QED BY <1>3, <1>4, <3>1
  <2>2. PICK n \in N : \A m \in N : n <= m
    <3> HIDE DEF N
    <3> QED BY <2>1, SmallestExists
  <2>3. PICK k \in fit : n = claim - k
    BY <2>2
  <2>4. \A j \in fit : k >= j
    <3> SUFFICES ASSUME NEW j \in fit PROVE k >= j
      OBVIOUS
    <3>1. claim - k <= claim - j
      BY <2>2, <2>3
    <3> QED BY <3>1, <1>1, <1>3
  <2> QED BY <2>4, Zenon DEF Max
<1> QED BY <1>1, <1>2, <1>3, <1>4 DEF g, claim

LEMMA MemoryRoom ==
    ASSUME Types, NEW t \in Ticket, NEW s, NEW m, NEW head \in Ticket \cup {None}, FitsMemory(m, s, head, t)
    PROVE  Memory(Held) + ask[t].mem <= MemBudget
<1> DEFINE more == ask[t].mem + (IF head = None THEN 0 ELSE ask[head].mem)
<1>1. Memory(Held) + more <= MemBudget
  BY DEF FitsMemory
<1>2. Memory(Held) \in Nat /\ ask[t].mem \in Nat /\ MemBudget \in Nat
      /\ (IF head = None THEN 0 ELSE ask[head].mem) \in Nat
  BY MemoryType, HeldFinite, AskType, NaturalBounds
<1> QED BY <1>1, <1>2

\* What a start in front of the queue's rules means: which lift it used, who may
\* be exclusive, and what it books beside the leases.
LEMMA StartFacts ==
    ASSUME Types, InLine, NEW t \in Visible, NEW h \in Visible, NEW s \in Samples,
           ~ExclusiveDenied(t, h), Verdict(t, h, Plan(s, t, h), s).outcome = "start"
    PROVE  LET p == Plan(s, t, h)
               v == Verdict(t, h, p, s)
           IN  /\ v.lift \in {"floor", "bypass", None}
               /\ v.lift = "floor" => FloorTrial(t)
               /\ v.lift = "bypass" => BypassTrial(t)
               /\ v.lift = None => p.candidate = t \/ t = h
               /\ v.lift = None /\ t # h => ~ask[t].exclusive
               /\ ask[t].exclusive => Held = {}
               /\ \A u \in Held : ~ask[u].exclusive
               /\ ~ask[t].exclusive => Fits(t) /\ Memory(Held) + ask[t].mem <= MemBudget
               /\ ask[t].sim => ~SimCapped(t, v.grant)
               /\ v.grant \in 0..Budget
<1> DEFINE p == Plan(s, t, h)
           d == Decision(s, p.head, t)
           v == Verdict(t, h, p, s)
<1>a. t \in Ticket /\ h \in Ticket /\ t \in Queued /\ t # None
  BY HeldFinite, SelectionAssumption
<1>b. /\ v.lift = Lift(t, h, p, s, d)
      /\ v.grant = IF ask[t].exclusive THEN Budget ELSE IF d.cores = None THEN Claim(t) ELSE d.cores
      /\ p.candidate # t /\ v.lift = None =>
            ~(p.candidate # None \/ t # h \/ ~TooHeavy(h) \/ p.floor \/ p.bypass)
      /\ ask[t].sim => ~SimCapped(t, v.grant)
      /\ ~ask[t].exclusive => Fits(t)
      /\ d.cores # None \/ v.lift # None \/ ask[t].exclusive \/ d.memory
  BY VerdictParts
<1>c. p.floor = FloorTrial(t) /\ p.bypass = BypassTrial(t) /\ p.head \in Ticket \cup {None}
  BY <1>a DEF Plan, PlanFor
<1>d. /\ d.cores = Granted(s, p.head, Candidacy(p.head, t), t, Claim(t))
      /\ d.memory = FitsMemory(s.m, s, p.head, t)
  BY DEF Decision, DecisionAs
<1>1. v.lift \in {"floor", "bypass", None}
  BY <1>b DEF Lift
<1>2. v.lift = "floor" => FloorTrial(t) /\ FloorWinner(s, h) = t
  BY <1>b, <1>c, NoneFresh DEF Lift
<1>3. v.lift = "bypass" => BypassTrial(t) /\ d.memory
  BY <1>b, <1>c, NoneFresh DEF Lift
<1>4. v.lift = None => p.candidate = t \/ t = h
  BY <1>b
<1>5. \A u \in Held : ~ask[u].exclusive
  BY DEF ExclusiveDenied
<1>6. ask[t].exclusive => t = h
  <2> SUFFICES ASSUME ask[t].exclusive, t # h PROVE FALSE
    OBVIOUS
  <2>1. ~FloorTrial(t) /\ ~BypassTrial(t)
    BY DEF FloorTrial, BypassTrial, IsFloorTicket
  <2>2. v.lift = None
    BY <1>1, <1>2, <1>3, <2>1
  <2>3. p.candidate = t
    BY <1>4, <2>2
  <2>4. Way(t, h) = None
    BY DEF Way, Safe, CannotDelay, Express, YieldEligible, Overtakes
  <2>5. t \in Walk(h)
    BY <1>a, <2>3, <2>4, CandidateIn
  <2> QED BY <2>5 DEF Walk
<1>7. ask[t].exclusive => Held = {}
  BY <1>6 DEF ExclusiveDenied
<1>8. d.cores # None => d.cores \in 0..Budget /\ d.memory
  BY <1>a, <1>d, GrantedFits
<1>9. v.grant \in 0..Budget
  BY <1>a, <1>b, <1>8, ClaimType, NaturalBounds
<1>10. v.lift = "floor" => FitsMemory(s.m, s, None, t)
  <2> SUFFICES ASSUME v.lift = "floor" PROVE FitsMemory(s.m, s, None, t)
    OBVIOUS
  <2> DEFINE fit == {u \in Visible : /\ IsFloorTicket(u) /\ NoExclusiveAhead(u)
                              /\ ~Blocked(Held, u) /\ Fits(u) /\ WithinOvershoot(s, u)}
  <2>1. FirstOf(fit) = t
    BY <1>2, <1>a DEF FloorWinner
  <2>2. fit \in SUBSET Queued
    BY HeldFinite
  <2>3. t \in fit
    <3> HIDE DEF fit
    <3> QED BY <1>a, <2>1, <2>2, FirstOfIn
  <2> QED BY <2>3 DEF WithinOvershoot
<1>11. ~ask[t].exclusive => \E head \in Ticket \cup {None} : FitsMemory(s.m, s, head, t)
  BY <1>1, <1>3, <1>8, <1>10, <1>b, <1>c, <1>d
<1>12. ~ask[t].exclusive => Memory(Held) + ask[t].mem <= MemBudget
  BY <1>11, <1>a, MemoryRoom
<1> QED BY <1>1, <1>2, <1>3, <1>4, <1>5, <1>6, <1>7, <1>9, <1>12, <1>b

\* What a start of t with g cores and lift l has been checked against.
Permitted(t, g, l) ==
    /\ l \in {"floor", "bypass", None}
    /\ l = "floor" => FloorTrial(t)
    /\ l = "bypass" => BypassTrial(t)
    /\ ask[t].exclusive => Held = {}
    /\ \A u \in Held : ~ask[u].exclusive
    /\ ~ask[t].exclusive => Fits(t) /\ Memory(Held) + ask[t].mem <= MemBudget
    /\ ask[t].sim => ~SimCapped(t, g)
    /\ g \in 0..Budget

\* A poll refuses, or starts a run that Permitted describes.
LEMMA PollOutcome ==
    ASSUME Types, InLine, NEW t \in Ticket, Poll(t, Samples)
    PROVE  /\ t \in Queued /\ t \in Visible
           /\ UNCHANGED <<ask, tier, waited, cancelled, ticks>>
           /\ \/ UNCHANGED <<state, queue, grant, lift, rate>>
              \/ \E g, l : /\ Permitted(t, g, l)
                           /\ state' = [state EXCEPT ![t] = "running"]
                           /\ queue' = Without(queue, t)
                           /\ grant' = [grant EXCEPT ![t] = g]
                           /\ lift' = [lift EXCEPT ![t] = l]
                           /\ rate' \in 0..PerMinute
<1> DEFINE h == First(Visible)
           p(s) == Plan(s, t, h)
           v(s) == Verdict(t, h, p(s), s)
<1>1. t \in Visible /\ h \in Visible /\ ~ExclusiveDenied(t, h) /\ t \in Queued
  BY PollShape, HeldFinite
<1>2. PICK s \in Samples : Refuse(t, h, p(s), s, v(s)) \/ Start(t, h, p(s), s, v(s))
  BY PollShape
<1>3. UNCHANGED <<ask, tier, waited, cancelled, ticks>>
  BY DEF Poll
<1>4. CASE Refuse(t, h, p(s), s, v(s))
  <2>1. UNCHANGED <<state, queue, grant, lift, rate>>
    BY <1>4, Zenon DEF Refuse
  <2> QED BY <1>1, <1>3, <2>1
<1>5. CASE Start(t, h, p(s), s, v(s))
  <2>1. v(s).outcome = "start"
    BY <1>5, Zenon DEF Start
  <2>2. Permitted(t, v(s).grant, v(s).lift)
    BY <1>1, <2>1, StartFacts, Zenon DEF Permitted
  <2> DEFINE ahead == v(s).lift = None /\ p(s).way \in {"express", "yield"}
  <2>3. \/ UNCHANGED <<state, queue, grant, lift, rate>>
        \/ /\ state' = [state EXCEPT ![t] = "running"]
           /\ queue' = Without(queue, t)
           /\ grant' = [grant EXCEPT ![t] = v(s).grant]
           /\ lift' = [lift EXCEPT ![t] = v(s).lift]
           /\ rate' = IF ahead THEN rate + 1 ELSE rate
    BY <1>5, Zenon DEF Start
  <2>4. ahead => rate < PerMinute
    <3>1. p(s).way = Way(t, h)
      BY DEF Plan, PlanFor
    <3>2. Way(t, h) \in {"express", "yield"} => Overtakes(t, h)
      BY NoneFresh DEF Way, Express, YieldEligible
    <3> QED BY <3>1, <3>2 DEF Overtakes
  <2>5. (IF ahead THEN rate + 1 ELSE rate) \in 0..PerMinute
    BY <2>4, NaturalBounds DEF Types
  <2> HIDE DEF v, p, h, ahead
  <2>6. CASE UNCHANGED <<state, queue, grant, lift, rate>>
    BY <1>1, <1>3, <2>6
  <2>7. CASE ~UNCHANGED <<state, queue, grant, lift, rate>>
    <3>1. /\ state' = [state EXCEPT ![t] = "running"]
          /\ queue' = Without(queue, t)
          /\ grant' = [grant EXCEPT ![t] = v(s).grant]
          /\ lift' = [lift EXCEPT ![t] = v(s).lift]
          /\ rate' \in 0..PerMinute
      BY <2>3, <2>5, <2>7
    <3> QED BY <1>1, <1>3, <2>2, <3>1
  <2> QED BY <2>6, <2>7
<1> QED BY <1>2, <1>4, <1>5

\* Types, and the queue as a list, survive every step.
LEMMA TypesStep ==
    ASSUME Types, InLine, [SelectionNext]_vars
    PROVE  Types' /\ InLine'
<1>a. ask \in [Ticket -> Asks]
  BY SelectionAssumption DEF Types
<1>1. ASSUME NEW t \in Ticket, Enqueue(t) PROVE Types' /\ InLine'
  <2>1. state[t] = "new"
    <3>1. PICK i \in DOMAIN Arrival :
            Arrival[i] = t /\ \A j \in DOMAIN Arrival : state[Arrival[j]] = "new" <=> j >= i
      BY <1>1 DEF Enqueue
    <3>2. DOMAIN Arrival = 1..Len(Arrival)
      BY SelectionAssumption
    <3>3. i \in Nat
      BY <3>2
    <3>4. i >= i
      BY <3>3
    <3> QED BY <3>1, <3>4
  <2>2. ask[t].tier \in Tiers
    BY <1>a DEF Asks
  <2>3. AdmitTier(t, ask[t].tier) \in Tiers
    BY <2>2 DEF AdmitTier, Tiers
  <2>4. Superseded(t) \subseteq Ticket
    BY DEF Superseded, Repeats, Queued, Held
  <2>5. Types'
    BY <1>1, <2>3, <2>4 DEF Enqueue, Types
  <2>6. t \notin Range(queue)
    BY <2>1 DEF InLine, Queued
  <2>7. queue' = Append(queue, t)
    BY <1>1 DEF Enqueue
  <2>8. Queued' = Queued \cup {t}
    BY <1>1 DEF Enqueue, Queued, Types
  <2>9. queue' \in Seq(Ticket) /\ Distinct(queue') /\ Range(queue') = Range(queue) \cup {t}
    BY <2>6, <2>7, AppendOne DEF InLine
  <2>10. InLine'
    BY <2>8, <2>9 DEF InLine, Distinct
  <2> QED BY <2>5, <2>10
<1>b. ASSUME NEW t \in Ticket, Queued' = Queued \ {t}, queue' = Without(queue, t) PROVE InLine'
  <2>1. queue' \in Seq(Ticket) /\ Distinct(queue') /\ Range(queue') = Range(queue) \ {t}
    BY <1>b, WithoutOne DEF InLine
  <2> QED BY <1>b, <2>1 DEF InLine, Distinct
<1>c. ASSUME UNCHANGED queue, Queued' = Queued PROVE InLine'
  BY <1>c DEF InLine, Distinct
<1>2. ASSUME NEW t \in Ticket, Poll(t, Samples) PROVE Types' /\ InLine'
  <2>1. t \in Queued /\ UNCHANGED <<ask, tier, waited, cancelled, ticks>>
    BY <1>2, PollOutcome
  <2>2. CASE UNCHANGED <<state, queue, grant, lift, rate>>
    <3>1. Types'
      BY <2>1, <2>2 DEF Types
    <3>2. Queued' = Queued
      BY <2>2 DEF Queued
    <3> QED BY <2>2, <3>1, <3>2, <1>c
  <2>3. ASSUME NEW g, NEW l, Permitted(t, g, l),
               state' = [state EXCEPT ![t] = "running"], queue' = Without(queue, t),
               grant' = [grant EXCEPT ![t] = g], lift' = [lift EXCEPT ![t] = l],
               rate' \in 0..PerMinute
        PROVE Types' /\ InLine'
    <3>1. g \in 0..Budget /\ l \in {"floor", "bypass", None}
      BY <2>3 DEF Permitted
    <3>2. Types'
      BY <2>1, <2>3, <3>1 DEF Types
    <3>3. Queued' = Queued \ {t}
      BY <2>1, <2>3 DEF Queued, Types
    <3> QED BY <2>3, <3>2, <3>3, <1>b
  <2> QED BY <1>2, PollOutcome, <2>2, <2>3
<1>3. CASE Tick
  <2>1. /\ ticks < MaxTicks /\ ticks' = ticks + 1 /\ rate' = 0
        /\ waited' = [t \in Ticket |-> IF t \in Queued THEN MinOf(3 * AgeMax, waited[t] + 1) ELSE waited[t]]
        /\ lift' = [t \in Ticket |-> IF lift[t] = "bypass" THEN "outran" ELSE lift[t]]
        /\ UNCHANGED <<ask, state, queue, tier, cancelled, grant>>
    BY <1>3, Zenon DEF Tick
  <2>2. Queued' = Queued
    BY <2>1 DEF Queued
  <2>3. waited' \in [Ticket -> 0..(3 * AgeMax)]
    <3>1. \A n \in 0..(3 * AgeMax) : MinOf(3 * AgeMax, n + 1) \in 0..(3 * AgeMax)
      BY NaturalBounds DEF MinOf
    <3> QED BY <2>1, <3>1 DEF Types
  <2>4. lift' \in [Ticket -> {"floor", "bypass", "outran", None}]
    BY <2>1 DEF Types
  <2>5. ticks' \in 0..MaxTicks /\ rate' \in 0..PerMinute
    BY <2>1, NaturalBounds DEF Types
  <2> QED BY <2>1, <2>2, <2>3, <2>4, <2>5, <1>c DEF Types
<1>4. CASE UNCHANGED vars
  BY <1>4, <1>c DEF vars, Types, Queued
<1>5. ASSUME NEW t \in Ticket, Dequeue(t) PROVE Types' /\ InLine'
  <2>1. Types'
    BY <1>5 DEF Dequeue, Types
  <2>2. Queued' = Queued \ {t} /\ queue' = Without(queue, t)
    BY <1>5 DEF Dequeue, Types, Queued
  <2> QED BY <2>1, <2>2, <1>b
<1>6. ASSUME NEW t \in Ticket, Cancel(t) \/ Orphan(t) \/ End(t) \/ \E to \in Tiers : Retier(t, to)
      PROVE Types' /\ InLine'
  <2>1. \A to \in Tiers : AdmitTier(t, to) \in Tiers
    BY DEF AdmitTier, Tiers
  <2>2. Queued' = Queued /\ UNCHANGED queue
    BY <1>6 DEF Cancel, Orphan, End, Retier, Queued, Types, Held
  <2>3. CASE Cancel(t) \/ Orphan(t)
    BY <2>2, <2>3, <1>c DEF Cancel, Orphan, Types, Queued, Held
  <2>4. CASE \E to \in Tiers : Retier(t, to)
    BY <2>1, <2>2, <2>4, <1>c DEF Retier, Types
  <2>5. CASE End(t)
    <3>1. grant' \in [Ticket -> 0..Budget] /\ lift' \in [Ticket -> {"floor", "bypass", "outran", None}]
      BY <2>5, NaturalBounds DEF End, Types
    <3>2. state' \in [Ticket -> {"new", "queued", "running", "orphaned", "done"}]
      BY <2>5 DEF End, Types
    <3> QED BY <2>2, <2>5, <3>1, <3>2, <1>c DEF End, Types
  <2> QED BY <1>6, <2>3, <2>4, <2>5
<1> QED BY <1>1, <1>2, <1>3, <1>4, <1>5, <1>6 DEF SelectionNext

-----------------------------------------------------------------------------
(* What the leases book of the host.                                        *)

\* The leases of bypass runs, in and past their window.
Outside == Bypassing("bypass") \cup Bypassing("outran")

LEMMA SumsAfter ==
    ASSUME UNCHANGED ask
    PROVE  /\ Weight(Held)' = Total(Heft, Held') /\ Memory(Held)' = Total(Load, Held')
           /\ Memory(Sims)' = Total(Load, Sims') /\ Booked(Sims)' = Total(grant', Sims')
<1>1. Weight(Held)' = Total(Heft, Held')
  <2> DEFINE S == Held'
             W(u) == IF ask'[u].exclusive THEN Capacity ELSE ask'[u].weight
             F(it) == [s \in SUBSET S |-> IF s = {} THEN 0 ELSE W(Choice(s)) + it[s \ {Choice(s)}]]
             G(it) == [s \in SUBSET S |-> IF s = {} THEN 0 ELSE Heft[Choice(s)] + it[s \ {Choice(s)}]]
  <2>1. \A s \in SUBSET S : s # {} => Heft[Choice(s)] = W(Choice(s))
    BY ChoiceIn DEF Heft, Held
  <2>2. \A it : F(it) = G(it)
    BY <2>1
  <2>3. Weight(Held)' = LET it == CHOOSE it : it = F(it) IN it[S]
    BY DEF Weight, MapThenSumSet, MapThenFoldSet, Choice
  <2>4. Total(Heft, S) = LET it == CHOOSE it : it = G(it) IN it[S]
    BY DEF Total, Adds
  <2> HIDE DEF F, G
  <2> QED BY <2>2, <2>3, <2>4
<1> DEFINE W(u) == IF ask'[u].exclusive THEN MemBudget ELSE ask'[u].mem
           F(S, it) == [s \in SUBSET S |-> IF s = {} THEN 0 ELSE W(Choice(s)) + it[s \ {Choice(s)}]]
           G(S, it) == [s \in SUBSET S |-> IF s = {} THEN 0 ELSE Load[Choice(s)] + it[s \ {Choice(s)}]]
<1>2. ASSUME NEW S \in SUBSET Ticket
      PROVE  Total(Load, S) = LET it == CHOOSE it : it = F(S, it) IN it[S]
  <2>1. \A s \in SUBSET S : s # {} => Load[Choice(s)] = W(Choice(s))
    BY ChoiceIn DEF Load, Mem
  <2>2. \A it : F(S, it) = G(S, it)
    BY <2>1
  <2>3. Total(Load, S) = LET it == CHOOSE it : it = G(S, it) IN it[S]
    BY DEF Total, Adds
  <2> HIDE DEF F, G
  <2> QED BY <2>2, <2>3
<1>3. Held' \in SUBSET Ticket /\ Sims' \in SUBSET Ticket
  BY DEF Held, Sims
<1>4. Memory(Held)' = LET it == CHOOSE it : it = F(Held', it) IN it[Held']
  BY DEF Memory, Mem, MapThenSumSet, MapThenFoldSet, Choice
<1>5. Memory(Sims)' = LET it == CHOOSE it : it = F(Sims', it) IN it[Sims']
  BY DEF Memory, Mem, MapThenSumSet, MapThenFoldSet, Choice
<1>6. Booked(Sims)' = Total(grant', Sims')
  BY DEF Booked, MapThenSumSet, MapThenFoldSet, Total, Adds, Choice
<1> HIDE DEF F
<1> QED BY <1>1, <1>2, <1>3, <1>4, <1>5, <1>6

LEMMA SumsNow ==
    /\ Weight(Held) = Total(Heft, Held) /\ Memory(Held) = Total(Load, Held)
    /\ Memory(Sims) = Total(Load, Sims) /\ Booked(Sims) = Total(grant, Sims)
  BY WeightIsTotal, MemoryIsTotal, BookedIsTotal, HeldFinite DEF Sims

\* Leases that leave, and runs that outlive their window, book nothing.
LEMMA BookingsShrink ==
    ASSUME Types, BookingsHold, UNCHANGED ask, Held' \subseteq Held,
           \A u \in Held' : grant'[u] = grant[u],
           Outside' = Outside \cap Held', Bypassing("floor")' \subseteq Bypassing("floor")
    PROVE  BookingsHold'
<1>a. Held \in SUBSET Ticket /\ Outside \in SUBSET Held /\ Sims \in SUBSET Held
      /\ Held' \in SUBSET Ticket /\ Bypassing("floor") \in SUBSET Ticket
  BY HeldFinite DEF Outside, Bypassing, Sims
<1>b. \A S \in SUBSET Ticket : IsFiniteSet(S) /\ Cardinality(S) \in Nat
  BY BookedType, FS_CardinalityType
<1>c. \A S \in SUBSET Ticket, R \in SUBSET Ticket : R \subseteq S => Cardinality(R) <= Cardinality(S)
  BY <1>b, FS_Subset
<1>d. ASSUME NEW S \in SUBSET Held, NEW R \in SUBSET Held', R \subseteq S
      PROVE  Total(grant', R) <= Total(grant, S) /\ Total(grant', R) \in Nat /\ Total(grant, S) \in Nat
  <2>1. IsFiniteSet(S) /\ IsFiniteSet(R) /\ \A x \in S : grant[x] \in Nat
    BY <1>a, BookedType
  <2>2. Total(grant', R) = Total(grant, R)
    BY <2>1, TotalAgree
  <2>3. Total(grant, R) <= Total(grant, S) /\ R \in SUBSET S
    BY <1>d, <2>1, TotalSubset
  <2>4. Total(grant, R) \in Nat /\ Total(grant, S) \in Nat
    BY <2>1, <2>3, TotalType
  <2> QED BY <2>2, <2>3, <2>4
<1>1. HostNotOverbooked'
  <2>1. Weight(Held)' <= Capacity
    <3>1. Total(Heft, Held') <= Total(Heft, Held)
      BY <1>a, WeightType, TotalSubset
    <3>2. Total(Heft, Held') \in Nat /\ Total(Heft, Held) \in Nat
      BY <1>a, WeightType, TotalType
    <3> QED BY <3>1, <3>2, SumsAfter, SumsNow, NaturalBounds DEF BookingsHold, HostNotOverbooked
  <2>2. Memory(Held)' <= MemBudget
    <3>1. Total(Load, Held') <= Total(Load, Held)
      BY <1>a, MemoryType, TotalSubset
    <3>2. Total(Load, Held') \in Nat /\ Total(Load, Held) \in Nat
      BY <1>a, MemoryType, TotalType
    <3> QED BY <3>1, <3>2, SumsAfter, SumsNow, NaturalBounds DEF BookingsHold, HostNotOverbooked
  <2> QED BY <2>1, <2>2 DEF HostNotOverbooked
<1>2. ExclusiveRunsAlone'
  BY <1>a DEF BookingsHold, ExclusiveRunsAlone
<1>3. LiftsBounded'
  <2>1. Cardinality(Bypassing("floor")') <= Cardinality(Bypassing("floor"))
        /\ Cardinality(Outside') <= Cardinality(Outside)
        /\ Cardinality(Bypassing("floor")') \in Nat /\ Cardinality(Bypassing("floor")) \in Nat
        /\ Cardinality(Outside') \in Nat /\ Cardinality(Outside) \in Nat
    BY <1>a, <1>b, <1>c
  <2>2. Cardinality(Bypassing("floor")) <= 1 /\ (BypassCap > 0 => Cardinality(Outside) < 2 * BypassCap)
    BY DEF BookingsHold, LiftsBounded, Outside
  <2>3. Cardinality(Bypassing("floor")') <= 1
    BY <2>1, <2>2
  <2>4. BypassCap > 0 => Cardinality(Outside') < 2 * BypassCap
    BY <2>1, <2>2, NaturalBounds
  <2> QED BY <2>3, <2>4 DEF LiftsBounded, Outside
<1>4. SimsLeaveReserve'
  <2>1. Sims' \subseteq Sims /\ Sims' \in SUBSET Held' /\ Sims \in SUBSET Held
    BY DEF Sims
  <2>2. Total(grant', Sims') <= Total(grant, Sims) /\ Total(grant', Sims') \in Nat /\ Total(grant, Sims) \in Nat
    BY <2>1, <1>d
  <2>3. Cardinality(Sims') <= Cardinality(Sims) /\ Cardinality(Sims') \in Nat /\ Cardinality(Sims) \in Nat
    BY <2>1, <1>a, <1>b, <1>c
  <2>4. Sims' # {} => /\ Cardinality(Sims) <= SimTickets /\ Total(Load, Sims) <= SimMem
                      /\ Total(grant, Sims) <= SimCores /\ Total(grant, Sims) + TestReserve <= Budget
    BY <2>1, SumsNow DEF BookingsHold, SimsLeaveReserve
  <2>5. Booked(Sims)' = Total(grant', Sims') /\ Memory(Sims)' = Total(Load, Sims')
    BY SumsAfter
  <2>7. Total(Load, Sims') <= Total(Load, Sims) /\ Total(Load, Sims') \in Nat /\ Total(Load, Sims) \in Nat
    <3>1. Sims \in SUBSET Ticket /\ Sims' \in SUBSET Sims
      BY <1>a, <2>1
    <3> QED BY <3>1, MemoryType, TotalSubset, TotalType
  <2>6. Sims' # {} => /\ Cardinality(Sims') <= SimTickets /\ Total(Load, Sims') <= SimMem
                      /\ Total(grant', Sims') <= SimCores /\ Total(grant', Sims') + TestReserve <= Budget
    BY <2>2, <2>3, <2>4, <2>7, NaturalBounds
  <2> QED BY <2>5, <2>6 DEF SimsLeaveReserve
<1> QED BY <1>1, <1>2, <1>3, <1>4 DEF BookingsHold

\* A start that was checked is a start that the host can carry.
LEMMA BookingsGrow ==
    ASSUME Types, BookingsHold, NEW t \in Queued, NEW g, NEW l, Permitted(t, g, l), UNCHANGED ask,
           state' = [state EXCEPT ![t] = "running"],
           grant' = [grant EXCEPT ![t] = g], lift' = [lift EXCEPT ![t] = l]
    PROVE  BookingsHold'
<1>a. /\ Held \in SUBSET Ticket /\ Outside \in SUBSET Held /\ Sims \in SUBSET Held
      /\ t \in Ticket /\ t \notin Held /\ Bypassing("floor") \in SUBSET Held
  BY HeldFinite DEF Outside, Bypassing, Sims, Queued, Held
<1>b. Held' = Held \cup {t}
  BY <1>a DEF Held, Types
<1>c. /\ grant'[t] = g /\ lift'[t] = l /\ g \in Nat
      /\ \A u \in Held : grant'[u] = grant[u] /\ lift'[u] = lift[u]
  BY <1>a, NaturalBounds DEF Types, Permitted
<1>d. ASSUME NEW S \in SUBSET Held
      PROVE  /\ Total(grant', S) = Total(grant, S) /\ Total(grant, S) \in Nat
             /\ Total(grant', S \cup {t}) = g + Total(grant, S)
  <2>1. IsFiniteSet(S) /\ IsFiniteSet(Held) /\ \A x \in Held : grant[x] \in Nat
    BY <1>a, BookedType
  <2>2. Total(grant', S) = Total(grant, S)
    BY <1>c, <2>1, TotalAgree
  <2>3. \A x \in S : grant'[x] \in Nat
    BY <1>c, <2>1
  <2>4. Total(grant', S \cup {t}) = grant'[t] + Total(grant', S)
    BY <1>a, <1>c, <2>1, <2>3, TotalAdd
  <2>5. Total(grant, S) \in Nat
    BY <2>1, TotalType
  <2> QED BY <1>c, <2>2, <2>4, <2>5
<1>1. HostNotOverbooked'
  <2>1. Total(Heft, Held') <= Capacity
    <3>1. Total(Heft, Held') = Heft[t] + Total(Heft, Held) /\ Heft[t] \in Nat /\ Total(Heft, Held) \in Nat
      <4>1. \A x \in Ticket : Heft[x] \in Nat
        BY WeightType
      <4> QED BY <1>a, <1>b, <4>1, WeightType, TotalAdd, TotalType
    <3>2. CASE ask[t].exclusive
      <4>1. Total(Heft, Held) = 0
        BY <3>2, TotalEmpty DEF Permitted
      <4> QED BY <1>a, <3>1, <3>2, <4>1, NaturalBounds DEF Heft
    <3>3. CASE ~ask[t].exclusive
      <4>1. Weight(Held) + ask[t].weight <= Capacity
        BY <3>3 DEF Permitted, Fits
      <4> QED BY <1>a, <3>1, <3>3, <4>1, SumsNow, AskType, NaturalBounds DEF Heft
    <3> QED BY <3>2, <3>3
  <2>2. Total(Load, Held') <= MemBudget
    <3>1. Total(Load, Held') = Load[t] + Total(Load, Held) /\ Load[t] \in Nat /\ Total(Load, Held) \in Nat
      <4>1. \A x \in Ticket : Load[x] \in Nat
        BY MemoryType
      <4> QED BY <1>a, <1>b, <4>1, MemoryType, TotalAdd, TotalType
    <3>2. CASE ask[t].exclusive
      <4>1. Total(Load, Held) = 0
        BY <3>2, TotalEmpty DEF Permitted
      <4> QED BY <1>a, <3>1, <3>2, <4>1, NaturalBounds DEF Load, Mem
    <3>3. CASE ~ask[t].exclusive
      <4>1. Memory(Held) + ask[t].mem <= MemBudget
        BY <3>3 DEF Permitted
      <4> QED BY <1>a, <3>1, <3>3, <4>1, SumsNow, AskType, NaturalBounds DEF Load, Mem
    <3> QED BY <3>2, <3>3
  <2> QED BY <2>1, <2>2, SumsAfter DEF HostNotOverbooked
<1>2. ExclusiveRunsAlone'
  BY <1>b DEF BookingsHold, ExclusiveRunsAlone, Permitted
<1>e. \A S \in SUBSET Ticket : IsFiniteSet(S) /\ Cardinality(S) \in Nat
  BY BookedType, FS_CardinalityType
<1>3. LiftsBounded'
  <2>1. Cardinality(Bypassing("floor")') <= 1
    <3>1. CASE l = "floor"
      <4>1. \A u \in Held : lift[u] # "floor"
        BY <3>1 DEF Permitted, FloorTrial
      <4>2. Bypassing("floor")' = {t}
        BY <1>b, <1>c, <3>1, <4>1 DEF Bypassing
      <4>3. Cardinality({t}) = 1
        BY FS_Singleton
      <4> QED BY <4>2, <4>3
    <3>2. CASE l # "floor"
      <4>1. Bypassing("floor")' = Bypassing("floor")
        BY <1>b, <1>c, <3>2 DEF Bypassing
      <4> QED BY <4>1 DEF BookingsHold, LiftsBounded
    <3> QED BY <3>1, <3>2
  <2>2. ASSUME BypassCap > 0 PROVE Cardinality(Outside') < 2 * BypassCap
    <3>1. CASE l = "bypass"
      <4> DEFINE X == Bypassing("bypass")
                 Y == Bypassing("outran")
      <4>1. Cardinality(X) < BypassCap /\ Cardinality(Y) < BypassCap
        BY <3>1 DEF Permitted, BypassTrial
      <4>2. X \in SUBSET Ticket /\ Y \in SUBSET Ticket /\ X \cup Y \in SUBSET Ticket /\ X \cap Y \in SUBSET Ticket
        BY <1>a DEF Bypassing
      <4>3. Cardinality(X \cup Y) = Cardinality(X) + Cardinality(Y) - Cardinality(X \cap Y)
        BY <1>e, <4>2, FS_Union
      <4>4. Outside' = (X \cup Y) \cup {t} /\ t \notin (X \cup Y)
        BY <1>a, <1>b, <1>c, <3>1 DEF Outside, Bypassing
      <4>5. Cardinality((X \cup Y) \cup {t}) = Cardinality(X \cup Y) + 1
        BY <1>e, <4>2, <4>4, FS_AddElement
      <4>6. Cardinality(X) \in Nat /\ Cardinality(Y) \in Nat /\ Cardinality(X \cap Y) \in Nat
            /\ Cardinality(X \cup Y) \in Nat
        BY <1>e, <4>2
      <4> HIDE DEF X, Y
      <4> QED BY <4>1, <4>3, <4>4, <4>5, <4>6, NaturalBounds
    <3>2. CASE l # "bypass"
      <4>1. l # "outran"
        BY NoneFresh DEF Permitted
      <4>2. Outside' = Outside
        BY <1>b, <1>c, <3>2, <4>1 DEF Bypassing, Outside
      <4> QED BY <4>2, <2>2 DEF BookingsHold, LiftsBounded, Outside
    <3> QED BY <3>1, <3>2
  <2> QED BY <2>1, <2>2 DEF LiftsBounded, Outside
<1>4. SimsLeaveReserve'
  <2>1. CASE ask[t].sim
    <3>1. Sims' = Sims \cup {t} /\ t \notin Sims
      BY <1>a, <1>b, <2>1 DEF Sims
    <3>2. ~(Cardinality(Sims) >= SimTickets) /\ ~(Booked(Sims) + g > SimCores)
          /\ ~(Booked(Sims) + g + TestReserve > Budget) /\ ~(Memory(Sims) + Mem(t) > SimMem)
      BY <2>1 DEF Permitted, SimCapped
    <3>3. IsFiniteSet(Sims) /\ Cardinality(Sims) \in Nat
      BY <1>a, <1>e
    <3>4. Cardinality(Sims \cup {t}) = Cardinality(Sims) + 1
      BY <3>1, <3>3, FS_AddElement
    <3>5. Total(grant', Sims \cup {t}) = g + Total(grant, Sims) /\ Total(grant, Sims) \in Nat
      BY <1>a, <1>d
    <3>6. Cardinality(Sims') <= SimTickets
      BY <3>1, <3>2, <3>3, <3>4, NaturalBounds
    <3>7. Total(grant', Sims') <= SimCores /\ Total(grant', Sims') + TestReserve <= Budget
      BY <1>c, <3>1, <3>2, <3>5, SumsNow, NaturalBounds
    <3>8. /\ Total(Load, Sims \cup {t}) = Load[t] + Total(Load, Sims)
          /\ Load[t] \in Nat /\ Total(Load, Sims) \in Nat /\ Load[t] = Mem(t)
      <4>1. (\A x \in Ticket : Load[x] \in Nat) /\ Sims \in SUBSET Ticket /\ Load[t] = Mem(t)
        BY <1>a, MemoryType DEF Load
      <4> QED BY <1>a, <3>1, <3>3, <4>1, TotalAdd, TotalType
    <3>9. Total(Load, Sims') <= SimMem
      BY <3>1, <3>2, <3>8, SumsNow, NaturalBounds
    <3> QED BY <3>6, <3>7, <3>9, SumsAfter DEF SimsLeaveReserve
  <2>2. CASE ~ask[t].sim
    <3>1. Sims' = Sims
      BY <1>a, <1>b, <2>2 DEF Sims
    <3>2. Total(grant', Sims) = Total(grant, Sims)
      BY <1>a, <1>d
    <3> QED BY <3>1, <3>2, SumsAfter, SumsNow DEF SimsLeaveReserve, BookingsHold
  <2> QED BY <2>1, <2>2
<1> QED BY <1>1, <1>2, <1>3, <1>4 DEF BookingsHold

\* The bookings with what they rest on: the inductive invariant.
BookingsInv == Types /\ InLine /\ BookingsHold

\* Each action either takes leases away, leaves them alone or starts one run that
\* was checked.
LEMMA BookingsStep ==
    ASSUME BookingsInv, [SelectionNext]_vars
    PROVE  BookingsHold'
<1> USE DEF BookingsInv
<1>a. Outside \in SUBSET Held
  BY DEF Outside, Bypassing
<1>b. ASSUME UNCHANGED <<ask, grant, lift>>, Held' = Held PROVE BookingsHold'
  <2>1. Outside' = Outside \cap Held' /\ Bypassing("floor")' \subseteq Bypassing("floor")
    BY <1>b DEF Outside, Bypassing
  <2> QED BY <1>b, <2>1, BookingsShrink
<1>1. ASSUME NEW t \in Ticket, Poll(t, Samples) PROVE BookingsHold'
  <2>1. t \in Queued /\ UNCHANGED ask
    BY <1>1, PollOutcome
  <2>2. CASE UNCHANGED <<state, queue, grant, lift, rate>>
    BY <2>1, <2>2, <1>b DEF Held
  <2>3. ASSUME NEW g, NEW l, Permitted(t, g, l),
               state' = [state EXCEPT ![t] = "running"],
               grant' = [grant EXCEPT ![t] = g], lift' = [lift EXCEPT ![t] = l]
        PROVE BookingsHold'
    BY <2>1, <2>3, BookingsGrow
  <2> QED BY <1>1, PollOutcome, <2>2, <2>3
<1>2. CASE Tick
  <2>1. /\ lift' = [t \in Ticket |-> IF lift[t] = "bypass" THEN "outran" ELSE lift[t]]
        /\ UNCHANGED <<ask, state, grant>>
    BY <1>2, Zenon DEF Tick
  <2>2. Held' = Held
    BY <2>1 DEF Held
  <2>3. Outside' = Outside \cap Held' /\ Bypassing("floor")' \subseteq Bypassing("floor")
    BY <2>1, <2>2 DEF Outside, Bypassing, Held, Types
  <2> QED BY <2>1, <2>2, <2>3, BookingsShrink
<1>3. ASSUME NEW t \in Ticket, End(t) PROVE BookingsHold'
  <2>1. Held' = Held \ {t} /\ UNCHANGED ask
    BY <1>3 DEF End, Held, Types
  <2>2. \A u \in Held' : grant'[u] = grant[u] /\ lift'[u] = lift[u]
    BY <1>3, <2>1 DEF End, Types, Held
  <2>3. Outside' = Outside \cap Held' /\ Bypassing("floor")' \subseteq Bypassing("floor")
    BY <2>1, <2>2 DEF Outside, Bypassing
  <2> QED BY <2>1, <2>2, <2>3, BookingsShrink
<1>4. ASSUME NEW t \in Ticket, Dequeue(t) PROVE BookingsHold'
  <2>1. Held' = Held /\ UNCHANGED <<ask, grant, lift>>
    BY <1>4 DEF Dequeue, Held, Queued, Types
  <2> QED BY <2>1, <1>b
<1>5. ASSUME NEW t \in Ticket, Enqueue(t) PROVE BookingsHold'
  <2>1. state[t] = "new"
    <3>1. PICK i \in DOMAIN Arrival :
            Arrival[i] = t /\ \A j \in DOMAIN Arrival : state[Arrival[j]] = "new" <=> j >= i
      BY <1>5 DEF Enqueue
    <3>2. DOMAIN Arrival = 1..Len(Arrival)
      BY SelectionAssumption
    <3>3. i \in Nat
      BY <3>2
    <3>4. i >= i
      BY <3>3
    <3> QED BY <3>1, <3>4
  <2>2. Held' = Held /\ UNCHANGED <<ask, grant, lift>>
    BY <1>5, <2>1 DEF Enqueue, Held, Types
  <2> QED BY <2>2, <1>b
<1>6. ASSUME NEW t \in Ticket, Cancel(t) \/ Orphan(t) \/ \E to \in Tiers : Retier(t, to)
      PROVE BookingsHold'
  <2>1. Held' = Held /\ UNCHANGED <<ask, grant, lift>>
    BY <1>6 DEF Cancel, Orphan, Retier, Held, Types
  <2> QED BY <2>1, <1>b
<1>7. CASE UNCHANGED vars
  BY <1>7, <1>b DEF vars, Held
<1> QED BY <1>1, <1>2, <1>3, <1>4, <1>5, <1>6, <1>7 DEF SelectionNext

LEMMA TypesInit == SelectionInit => Types /\ InLine
<1> SUFFICES ASSUME SelectionInit PROVE Types /\ InLine
  OBVIOUS
<1>1. Types
  BY NaturalBounds DEF SelectionInit, Types, Tiers
<1>2. Queued = {} /\ Range(queue) = {} /\ Distinct(queue)
  BY DEF SelectionInit, Queued, Range, Distinct
<1>3. queue \in Seq(Ticket)
  BY DEF SelectionInit
<1> QED BY <1>1, <1>2, <1>3 DEF InLine

\* Whatever starts in order, as backfill, as express or by a lift, and whatever is
\* orphaned, stopped or ends beside it, the leases fit the host: their weight and
\* the memory they book within the host's, an exclusive run alone, one floor run,
\* bypasses below twice their cap, sims within their share of runs, cores and
\* memory (tryStart of src/scheduler.js, evaluateMemoryAdmission of
\* src/resources.js, src/classes.js).
THEOREM BookingsKept == SelectionSpec => []BookingsHold
<1>1. SelectionInit => BookingsInv
  <2> SUFFICES ASSUME SelectionInit PROVE BookingsInv
    OBVIOUS
  <2>1. Held = {} /\ Outside = {} /\ Sims = {} /\ Bypassing("floor") = {}
    BY DEF SelectionInit, Held, Outside, Bypassing, Sims
  <2>2. Total(Heft, Held) = 0 /\ Total(Load, Held) = 0
    BY <2>1, TotalEmpty
  <2>3. HostNotOverbooked
    BY <2>2, SumsNow, NaturalBounds DEF HostNotOverbooked
  <2>4. ExclusiveRunsAlone /\ SimsLeaveReserve
    BY <2>1 DEF ExclusiveRunsAlone, SimsLeaveReserve
  <2>5. Cardinality(Bypassing("floor")) = 0 /\ Cardinality(Outside) = 0
    BY <2>1, FS_EmptySet
  <2>6. LiftsBounded
    BY <2>5, NaturalBounds DEF LiftsBounded, Outside
  <2> QED BY <2>3, <2>4, <2>6, TypesInit DEF BookingsInv, BookingsHold
<1>2. BookingsInv /\ [SelectionNext]_vars => BookingsInv'
  BY TypesStep, BookingsStep DEF BookingsInv
<1>3. BookingsInv => BookingsHold
  BY DEF BookingsInv
<1> QED BY <1>1, <1>2, <1>3, PTL DEF SelectionSpec

-----------------------------------------------------------------------------
(* The fairness records.                                                    *)

\* The counts of passes, whether a record holds a reservation, and that it holds
\* one only after the allowance was used up.
Passes == [conflict : Nat, capacity : Nat, resource : Nat, yield : Nat]
Latch(f) == f.res # None /\ f.res.reserved
Earned(f) == Latch(f) => f.res.count >= ResLimit

\* What a ticket was passed is what its records say, or less.
Counts(f, q) ==
    /\ q.conflict <= f.skips /\ q.capacity <= f.heavy
    /\ q.resource <= (IF f.res = None THEN 0 ELSE f.res.count)
    /\ q.yield <= (IF f.res = None THEN 0 ELSE f.res.yields)

\* The records fa, the reservations la and the history pa of the tickets in Q.
Kept(fa, la, pa, Q) ==
    /\ fa \in [Ticket -> Records] /\ pa \in [Ticket -> Passes]
    /\ \A t \in Ticket : Earned(fa[t]) /\ Counts(fa[t], pa[t])
    /\ \A t \in Ticket \ Q : fa[t] = NoRecords
    /\ la \in Seq(Ticket) /\ Distinct(la)
    /\ \A t \in Ticket : t \in Range(la) <=> Latch(fa[t])

RecordsInv == Kept(fair, latched, passed, Queued)

LEMMA NoRecordsType ==
    /\ NoRecords \in Records /\ NoPass \in Passes /\ ~Latch(NoRecords) /\ Earned(NoRecords)
    /\ Counts(NoRecords, NoPass)
  BY NaturalBounds DEF NoRecords, NoPass, Records, Passes, Latch, Earned, Counts

LEMMA KeptHead ==
    ASSUME NEW fa, NEW la, NEW pa, NEW Q \in SUBSET Ticket, Kept(fa, la, pa, Q), NEW h \in Q,
           NEW f \in Records, NEW q \in Passes, Earned(f), Counts(f, q),
           NEW l2, l2 \in Seq(Ticket), Distinct(l2),
           Range(l2) = IF Latch(f) THEN Range(la) \cup {h} ELSE Range(la) \ {h}
    PROVE  Kept([fa EXCEPT ![h] = f], l2, [pa EXCEPT ![h] = q], Q)
<1> DEFINE fb == [fa EXCEPT ![h] = f]
           pb == [pa EXCEPT ![h] = q]
<1>1. fb \in [Ticket -> Records] /\ pb \in [Ticket -> Passes] /\ fb[h] = f /\ pb[h] = q
      /\ \A t \in Ticket : t # h => fb[t] = fa[t] /\ pb[t] = pa[t]
  BY DEF Kept
<1> HIDE DEF fb, pb
<1>2. \A t \in Ticket : Earned(fb[t]) /\ Counts(fb[t], pb[t])
  BY <1>1 DEF Kept
<1>3. \A t \in Ticket \ Q : fb[t] = NoRecords
  BY <1>1 DEF Kept
<1>4. \A t \in Ticket : t \in Range(l2) <=> Latch(fb[t])
  BY <1>1 DEF Kept
<1> QED BY <1>1, <1>2, <1>3, <1>4 DEF Kept, fb, pb

LEMMA KeptClear ==
    ASSUME NEW fa, NEW la, NEW pa, NEW Q \in SUBSET Ticket, Kept(fa, la, pa, Q), NEW t \in Ticket
    PROVE  Kept([fa EXCEPT ![t] = NoRecords], Without(la, t), [pa EXCEPT ![t] = NoPass], Q \ {t})
<1> DEFINE fb == [fa EXCEPT ![t] = NoRecords]
           pb == [pa EXCEPT ![t] = NoPass]
<1>1. fb \in [Ticket -> Records] /\ pb \in [Ticket -> Passes] /\ fb[t] = NoRecords /\ pb[t] = NoPass
      /\ \A u \in Ticket : u # t => fb[u] = fa[u] /\ pb[u] = pa[u]
  BY NoRecordsType DEF Kept
<1>a. Without(la, t) \in Seq(Ticket) /\ Distinct(Without(la, t)) /\ Range(Without(la, t)) = Range(la) \ {t}
  BY WithoutOne DEF Kept
<1> HIDE DEF fb, pb
<1>2. \A u \in Ticket : Earned(fb[u]) /\ Counts(fb[u], pb[u])
  BY <1>1, NoRecordsType DEF Kept
<1>3. \A u \in Ticket \ (Q \ {t}) : fb[u] = NoRecords
  BY <1>1 DEF Kept
<1>4. \A u \in Ticket : u \in Range(Without(la, t)) <=> Latch(fb[u])
  BY <1>1, <1>a, NoRecordsType DEF Kept
<1> QED BY <1>1, <1>a, <1>2, <1>3, <1>4 DEF Kept, fb, pb

LEMMA RecordType ==
    ASSUME RecordsInv, NEW h \in Ticket
    PROVE  /\ fair[h] \in Records /\ passed[h] \in Passes
           /\ fair[h].skips \in 0..SkipLimit /\ fair[h].heavy \in 0..SkipLimit
           /\ fair[h].since \in (0..Grace) \cup {None}
           /\ fair[h].res # None => fair[h].res \in ResourceRecords
           /\ Earned(fair[h]) /\ Counts(fair[h], passed[h])
           /\ h \in Range(latched) <=> Latch(fair[h])
<1>1. /\ fair[h] \in Records /\ passed[h] \in Passes /\ Earned(fair[h]) /\ Counts(fair[h], passed[h])
      /\ h \in Range(latched) <=> Latch(fair[h])
  BY DEF RecordsInv, Kept
<1>2. fair[h].skips \in 0..SkipLimit /\ fair[h].heavy \in 0..SkipLimit
      /\ fair[h].since \in (0..Grace) \cup {None} /\ fair[h].res \in ResourceRecords \cup {None}
  BY <1>1 DEF Records
<1> QED BY <1>1, <1>2

LEMMA StampedType ==
    ASSUME RecordsInv, NEW h \in Ticket
    PROVE  /\ Stamped(h) \in Records /\ Stamped(h).skips = fair[h].skips
           /\ Stamped(h).heavy = fair[h].heavy /\ Stamped(h).res = fair[h].res
  BY RecordType, NaturalBounds DEF Stamped, Records

\* What a denial leaves of a head's resource record: the reservation and its
\* count, or nothing at all when the head is futile.
Follows(old, new) ==
    /\ new \in ResourceRecords \cup {None}
    /\ new = None => old = None
    /\ new # None => \/ /\ new.futile
                        /\ new.reserved => (old # None /\ old.reserved /\ new.count = old.count)
                     \/ /\ new.count = (IF old = None THEN 0 ELSE old.count)
                        /\ new.yields = (IF old = None THEN 0 ELSE old.yields)
                        /\ new.reserved => (old # None /\ old.reserved)

LEMMA DenialFollows ==
    ASSUME RecordsInv, NEW h \in Ticket, NEW s \in Samples, NEW behind \in BOOLEAN, NEW futile \in BOOLEAN
    PROVE  Follows(fair[h].res, Denial(h, s, behind, futile)) /\ Denial(h, s, behind, futile) # None
<1> DEFINE res == fair[h].res
           blank == [count |-> 0, reserved |-> FALSE, yields |-> 0]
           old == IF res = None \/ futile THEN blank ELSE res
           new == Denial(h, s, behind, futile)
<1>1. new = [count |-> old.count, reserved |-> old.reserved, yields |-> old.yields,
             inScope |-> TRUE, behind |-> behind, futile |-> futile,
             x |-> s.x, m |-> IF behind THEN None ELSE s.m]
  BY DEF Denial
<1>2. res # None => res \in ResourceRecords
  BY RecordType
<1>3. old.count \in 0..ResLimit /\ old.reserved \in BOOLEAN /\ old.yields \in 0..ResLimit
  <2>1. CASE res = None \/ futile
    <3>1. old = blank
      BY <2>1
    <3> HIDE DEF old
    <3> QED BY <3>1, NaturalBounds
  <2>2. CASE ~(res = None \/ futile)
    <3>1. old = res /\ res \in ResourceRecords
      BY <2>2, <1>2
    <3> HIDE DEF old, res
    <3> QED BY <3>1 DEF ResourceRecords
  <2> QED BY <2>1, <2>2
<1>4. new \in ResourceRecords
  <2> DEFINE m == IF behind THEN None ELSE s.m
  <2>1. m \in Nat \cup {None} /\ s.x \in Nat
    BY SampleType
  <2> HIDE DEF old, m, new
  <2>2. [count |-> old.count, reserved |-> old.reserved, yields |-> old.yields,
         inScope |-> TRUE, behind |-> behind, futile |-> futile, x |-> s.x, m |-> m] \in ResourceRecords
    BY <1>3, <2>1 DEF ResourceRecords
  <2> QED BY <1>1, <2>2 DEF m
<1>5. new # None
  BY <1>4, SelectionAssumption
<1>6. new.futile = futile /\ new.reserved = old.reserved /\ new.count = old.count /\ new.yields = old.yields
  BY <1>1
<1> HIDE DEF new, res
<1> QED BY <1>4, <1>5, <1>6 DEF Follows, new, res

LEMMA SameFollows ==
    ASSUME RecordsInv, NEW h \in Ticket
    PROVE  /\ Follows(fair[h].res, fair[h].res)
           /\ Follows(fair[h].res, OutOfScope(fair[h].res))
           /\ Follows(fair[h].res, DropSnapshot(fair[h].res))
<1> DEFINE r == fair[h].res
<1>1. CASE r = None
  BY <1>1 DEF Follows, OutOfScope, DropSnapshot
<1>2. CASE r # None
  <2>1. r \in ResourceRecords
    BY <1>2, RecordType
  <2> HIDE DEF r
  <2>2. [r EXCEPT !.inScope = FALSE] \in ResourceRecords
        /\ [r EXCEPT !.inScope = FALSE, !.behind = FALSE] \in ResourceRecords
    BY <2>1 DEF ResourceRecords
  <2>3. OutOfScope(r) = [r EXCEPT !.inScope = FALSE]
        /\ DropSnapshot(r) = [r EXCEPT !.inScope = FALSE, !.behind = FALSE]
    BY <1>2 DEF OutOfScope, DropSnapshot
  <2>4. \A q \in {r, OutOfScope(r), DropSnapshot(r)} :
           q \in ResourceRecords /\ q.count = r.count /\ q.yields = r.yields /\ q.reserved = r.reserved
    BY <2>1, <2>2, <2>3 DEF ResourceRecords
  <2>5. None \notin ResourceRecords
    BY SelectionAssumption
  <2>6. Follows(r, r) /\ Follows(r, OutOfScope(r)) /\ Follows(r, DropSnapshot(r))
    BY <1>2, <2>4, <2>5 DEF Follows
  <2> QED BY <2>6 DEF r
<1> QED BY <1>1, <1>2

LEMMA AfterFollows ==
    ASSUME RecordsInv, NEW t, NEW h \in Ticket, NEW p, NEW s \in Samples, NEW v
    PROVE  Follows(fair[h].res, AfterDenial(t, h, p, s, v))
<1>1. NeverFits(s, h) \in BOOLEAN
  BY DEF NeverFits
<1>2. AfterDenial(t, h, p, s, v) \in
        {fair[h].res, OutOfScope(fair[h].res), DropSnapshot(fair[h].res),
         Denial(h, s, FALSE, NeverFits(s, h)), Denial(h, s, TRUE, FALSE)}
  BY Zenon DEF AfterDenial
<1>3. Follows(fair[h].res, Denial(h, s, FALSE, NeverFits(s, h)))
  BY <1>1, DenialFollows
<1>4. Follows(fair[h].res, Denial(h, s, TRUE, FALSE))
  BY DenialFollows
<1> QED BY <1>2, <1>3, <1>4, SameFollows

\* So does a refusal, whatever it says of the head.
LEMMA RefuseKeeps ==
    ASSUME RecordsInv, NEW t, NEW h \in Queued, NEW p, NEW s \in Samples, NEW v,
           Refuse(t, h, p, s, v)
    PROVE  Kept(fair', latched', passed', Queued)
<1> DEFINE after == IF v.outcome = "not-head" THEN fair[h].res ELSE AfterDenial(t, h, p, s, v)
           f == [Stamped(h) EXCEPT !.res = after]
           q == IF after # None /\ after.futile
                THEN [passed[h] EXCEPT !.resource = 0, !.yield = 0] ELSE passed[h]
           drop == after # None /\ ~after.reserved
<1>a. h \in Ticket /\ Queued \in SUBSET Ticket
  BY HeldFinite
<1>1. Follows(fair[h].res, after)
  BY <1>a, AfterFollows, SameFollows
<1>2. /\ fair' = [fair EXCEPT ![h] = f]
      /\ latched' = IF drop THEN Without(latched, h) ELSE latched
      /\ passed' = IF after # None /\ after.futile
                   THEN [passed EXCEPT ![h].resource = 0, ![h].yield = 0] ELSE passed
  BY Zenon DEF Refuse
<1> HIDE DEF after
<1>3. /\ f \in Records /\ f.skips = fair[h].skips /\ f.heavy = fair[h].heavy /\ f.res = after
  BY <1>a, <1>1, StampedType DEF Records, Follows
<1>b. passed \in [Ticket -> Passes]
  BY DEF RecordsInv, Kept
<1>4. passed' = [passed EXCEPT ![h] = q] /\ q \in Passes
  <2>1. CASE after # None /\ after.futile
    BY <1>a, <1>2, <1>b, <2>1 DEF Passes
  <2>2. CASE ~(after # None /\ after.futile)
    BY <1>a, <1>2, <1>b, <2>2
  <2> QED BY <2>1, <2>2
<1> HIDE DEF f
<1>c. passed[h] \in Passes /\ Counts(fair[h], passed[h]) /\ Earned(fair[h])
      /\ (fair[h].res # None => fair[h].res \in ResourceRecords)
  BY <1>a, RecordType
<1>d. after # None => after \in ResourceRecords /\ after.count \in Nat /\ after.yields \in Nat
  BY <1>1, NaturalBounds DEF Follows, ResourceRecords
<1>5. Counts(f, q)
  <2>1. CASE after # None /\ after.futile
    <3>1. q = [passed[h] EXCEPT !.resource = 0, !.yield = 0]
      BY <2>1
    <3>2. q.resource = 0 /\ q.yield = 0 /\ q.conflict = passed[h].conflict /\ q.capacity = passed[h].capacity
      BY <3>1, <1>c DEF Passes
    <3> HIDE DEF q
    <3> QED BY <1>3, <1>c, <1>d, <2>1, <3>2 DEF Counts
  <2>2. CASE ~(after # None /\ after.futile)
    <3>1. q = passed[h]
      BY <2>2
    <3> HIDE DEF q
    <3> QED BY <1>1, <1>3, <1>c, <2>2, <3>1 DEF Counts, Follows
  <2> QED BY <2>1, <2>2
<1>6. Earned(f)
  BY <1>1, <1>3, <1>c DEF Earned, Latch, Follows
<1>7. /\ latched' \in Seq(Ticket) /\ Distinct(latched')
      /\ Range(latched') = IF Latch(f) THEN Range(latched) \cup {h} ELSE Range(latched) \ {h}
  <2>1. latched \in Seq(Ticket) /\ Distinct(latched) /\ (h \in Range(latched) <=> Latch(fair[h]))
    BY <1>a DEF RecordsInv, Kept
  <2>2. CASE drop
    <3>1. ~Latch(f)
      BY <2>2, <1>3 DEF Latch
    <3>2. latched' = Without(latched, h)
      BY <1>2, <2>2
    <3>3. Without(latched, h) \in Seq(Ticket) /\ Distinct(Without(latched, h))
          /\ Range(Without(latched, h)) = Range(latched) \ {h}
      BY <2>1, WithoutOne
    <3>4. Distinct(latched')
      BY <3>2, <3>3 DEF Distinct
    <3> QED BY <3>1, <3>2, <3>3, <3>4
  <2>3. CASE ~drop
    <3>1. latched' = latched
      BY <1>2, <2>3
    <3>2. Latch(f) <=> Latch(fair[h])
      BY <1>1, <1>3, <2>3 DEF Latch, Follows
    <3> QED BY <2>1, <3>1, <3>2 DEF Distinct
  <2> QED BY <2>2, <2>3
<1> HIDE DEF q, drop
<1>8. Kept([fair EXCEPT ![h] = f], latched', [passed EXCEPT ![h] = q], Queued)
  BY <1>a, <1>3, <1>4, <1>5, <1>6, <1>7, KeptHead DEF RecordsInv
<1> QED BY <1>2, <1>4, <1>8

\* A pass is only counted on an allowance that is not used up yet.
LEMMA CountedRoom ==
    ASSUME Types, InLine, RecordsInv, NEW t \in Visible, NEW h \in Visible, NEW s \in Samples,
           ~ExclusiveDenied(t, h), Verdict(t, h, Plan(s, t, h), s).outcome = "start"
    PROVE  LET kind == Counted(t, h, Plan(s, t, h), Verdict(t, h, Plan(s, t, h), s))
           IN  /\ kind \in {None, "conflict", "capacity", "resource"}
               /\ kind = "conflict" => ~Exhausted(h) /\ Conflicted(h)
               /\ kind = "capacity" => fair[h].heavy < SkipLimit
               /\ kind = "resource" => /\ fair[h].res # None /\ ~fair[h].res.reserved
                                       /\ fair[h].res.count < ResLimit
<1> DEFINE p == Plan(s, t, h)
           v == Verdict(t, h, p, s)
           kind == Counted(t, h, p, v)
<1>a. t \in Ticket /\ h \in Ticket /\ t \in Queued /\ h \in Queued
  BY HeldFinite
<1>b. p.way = Way(t, h)
  BY DEF Plan, PlanFor
<1>c. v.lift = None => p.candidate = t \/ t = h
  BY StartFacts
<1>d. Way(t, h) \in {"safe", "express", "yield", None}
  BY DEF Way
<1>e. Way(t, h) = "safe" => Safe(t, h)
  BY NoneFresh DEF Way
<1>f. fair[h].heavy \in 0..SkipLimit /\ (fair[h].res # None => fair[h].res \in ResourceRecords)
      /\ Earned(fair[h])
  BY <1>a, RecordType
<1>1. kind = IF t = h \/ v.lift # None \/ p.way \in {"express", "yield"} THEN None
             ELSE IF Conflicted(h) /\ p.way # "safe" THEN "conflict"
             ELSE IF TooHeavy(h) THEN "capacity"
             ELSE IF p.way # "safe" /\ ~Conflicted(h) /\ Open(Rec(h)) /\ ~Futile(Rec(h)) THEN "resource"
             ELSE None
  BY Zenon DEF Counted
<1> HIDE DEF kind, v, p
<1>2. CASE t = h \/ v.lift # None \/ p.way \in {"express", "yield"}
  <2>1. kind = None
    BY <1>1, <1>2
  <2> QED BY <2>1, NoneFresh DEF kind, v, p
<1>3. CASE ~(t = h \/ v.lift # None \/ p.way \in {"express", "yield"})
  <2>1. p.candidate = t /\ t # h
    BY <1>3, <1>c
  <2>2. CASE Way(t, h) = "safe"
    <3>1. Weight(Held) + ask[h].weight + ask[t].weight <= Capacity
      BY <2>2, <1>e DEF Safe, CannotDelay
    <3>2. Fits(h)
      BY <1>a, <3>1, AskType, WeightType, HeldFinite, NaturalBounds DEF Fits
    <3>3. kind = None
      BY <1>1, <1>3, <1>b, <2>2, <3>2 DEF TooHeavy
    <3> QED BY <3>3, NoneFresh DEF kind, v, p
  <2>3. CASE Way(t, h) = None
    <3>1. /\ Conflicted(h) => ~Exhausted(h)
          /\ TooHeavy(h) => ~(fair[h].heavy >= SkipLimit)
          /\ ~Conflicted(h) /\ ~TooHeavy(h) => Open(Rec(h))
      BY <1>a, <2>1, <2>3, CandidateIn DEF p
    <3>2. p.way # "safe"
      BY <1>b, <2>3, NoneFresh
    <3>3. CASE Conflicted(h)
      <4>1. kind = "conflict"
        BY <1>1, <1>3, <3>2, <3>3 DEF TooHeavy
      <4> QED BY <3>1, <3>3, <4>1 DEF kind, v, p
    <3>4. CASE TooHeavy(h)
      <4>1. kind = "capacity"
        BY <1>1, <1>3, <3>2, <3>4 DEF TooHeavy
      <4>2. fair[h].heavy < SkipLimit
        BY <1>f, <3>1, <3>4, NaturalBounds
      <4> QED BY <4>1, <4>2 DEF kind, v, p
    <3>5. CASE ~Conflicted(h) /\ ~TooHeavy(h)
      <4>1. kind \in {"resource", None} /\ (kind = "resource" => ~Futile(Rec(h)) /\ Open(Rec(h)))
        BY <1>1, <1>3, <3>1, <3>2, <3>5, NoneFresh
      <4>2. ASSUME kind = "resource"
            PROVE  fair[h].res # None /\ ~fair[h].res.reserved /\ fair[h].res.count < ResLimit
        <5> DEFINE r == fair[h].res
        <5>1. Rec(h) # None /\ ~Rec(h).reserved /\ Rec(h).count < ResLimit
          BY <4>1, <4>2 DEF Open, Futile
        <5>2. r # None /\ r \in ResourceRecords /\ Rec(h) = [r EXCEPT !.reserved = r.reserved /\ h = Owner]
          BY <5>1, <1>f DEF Rec
        <5>3. r.count < ResLimit /\ r.count \in Nat
          BY <5>1, <5>2 DEF ResourceRecords
        <5>4. ~r.reserved
          BY <1>f, <5>2, <5>3, NaturalBounds DEF Earned, Latch
        <5> QED BY <5>2, <5>3, <5>4
      <4> QED BY <4>1, <4>2, NoneFresh DEF kind, v, p
    <3> QED BY <3>3, <3>4, <3>5
  <2> QED BY <2>2, <2>3, <1>3, <1>b, <1>d
<1> QED BY <1>2, <1>3 DEF kind, v, p

\* A yield is only counted on a reservation.
LEMMA YieldRoom ==
    ASSUME RecordsInv, NEW s, NEW t, NEW h \in Ticket, Plan(s, t, h).way = "yield"
    PROVE  /\ fair[h].res # None
           /\ Plan(s, t, h).head = None => fair[h].res.yields < ResLimit
<1> DEFINE r == fair[h].res
<1>1. Way(t, h) = "yield"
  BY DEF Plan, PlanFor
<1>2. YieldEligible(t, h)
  BY <1>1, NoneFresh DEF Way
<1>3. Rec(h) # None
  BY <1>2 DEF YieldEligible, Reserved
<1>4. r # None /\ Rec(h) = [r EXCEPT !.reserved = r.reserved /\ h = Owner]
  BY <1>3 DEF Rec
<1>5. r \in ResourceRecords
  BY <1>4, RecordType
<1>6. Rec(h).yields = r.yields /\ r.yields \in Nat
  BY <1>4, <1>5 DEF ResourceRecords
<1>7. Plan(s, t, h).head = None => ~YieldProtects(Way(t, h), h)
  BY NoneFresh DEF Plan, PlanFor
<1>8. Plan(s, t, h).head = None => ~(Rec(h).yields >= ResLimit)
  BY <1>1, <1>7 DEF YieldProtects
<1> QED BY <1>4, <1>6, <1>8, NaturalBounds

\* What charging a pass to a record does.
LEMMA ChargedParts ==
    ASSUME NEW r \in Records, NEW kind \in {None, "conflict", "capacity", "resource", "yield"},
           kind = "capacity" => r.heavy < SkipLimit,
           kind = "resource" => r.res # None /\ r.res.count < ResLimit,
           kind = "yield" => r.res # None
    PROVE  /\ Charged(r, kind) \in Records
           /\ Charged(r, kind).skips = (IF kind = "conflict" THEN MinOf(SkipLimit, r.skips + 1) ELSE r.skips)
           /\ Charged(r, kind).heavy = (IF kind = "capacity" THEN r.heavy + 1 ELSE r.heavy)
           /\ Charged(r, kind).res = None <=> r.res = None
           /\ r.res # None =>
                /\ Charged(r, kind).res \in ResourceRecords
                /\ Charged(r, kind).res.count = (IF kind = "resource" THEN r.res.count + 1 ELSE r.res.count)
                /\ Charged(r, kind).res.yields =
                      (IF kind = "yield" THEN MinOf(ResLimit, r.res.yields + 1) ELSE r.res.yields)
                /\ Charged(r, kind).res.reserved <=>
                      (IF kind = "resource" THEN r.res.count + 1 >= ResLimit ELSE r.res.reserved)
<1> DEFINE c == Charged(r, kind)
<1>a. /\ r.skips \in 0..SkipLimit /\ r.since \in (0..Grace) \cup {None} /\ r.heavy \in 0..SkipLimit
      /\ r.res \in ResourceRecords \cup {None}
      /\ r = [skips |-> r.skips, since |-> r.since, heavy |-> r.heavy, res |-> r.res]
  BY DEF Records
<1>b. None \notin ResourceRecords
  BY SelectionAssumption
<1>c. r.res # None => /\ r.res \in ResourceRecords /\ r.res.count \in 0..ResLimit /\ r.res.yields \in 0..ResLimit
                      /\ r.res.reserved \in BOOLEAN
  BY <1>a DEF ResourceRecords
<1>1. CASE kind = "conflict"
  <2>1. c = [r EXCEPT !.skips = MinOf(SkipLimit, r.skips + 1)]
    BY <1>1 DEF Charged
  <2>2. MinOf(SkipLimit, r.skips + 1) \in 0..SkipLimit
    BY <1>a, NaturalBounds DEF MinOf
  <2> HIDE DEF c
  <2>3. c \in Records /\ c.skips = MinOf(SkipLimit, r.skips + 1) /\ c.heavy = r.heavy /\ c.res = r.res
    BY <2>1, <2>2 DEF Records
  <2> QED BY <1>1, <1>c, <2>3 DEF c
<1>2. CASE kind = "capacity"
  <2>1. c = [r EXCEPT !.heavy = r.heavy + 1]
    BY <1>2 DEF Charged
  <2>2. r.heavy + 1 \in 0..SkipLimit
    BY <1>2, <1>a, NaturalBounds
  <2> HIDE DEF c
  <2>3. c \in Records /\ c.skips = r.skips /\ c.heavy = r.heavy + 1 /\ c.res = r.res
    BY <2>1, <2>2 DEF Records
  <2> QED BY <1>2, <1>c, <2>3 DEF c
<1>3. CASE kind = "resource"
  <2> DEFINE q == [r.res EXCEPT !.count = r.res.count + 1, !.reserved = (r.res.count + 1 >= ResLimit)]
  <2>1. c = [r EXCEPT !.res = q]
    BY <1>3, Zenon DEF Charged
  <2>2. r.res.count + 1 \in 0..ResLimit /\ (r.res.count + 1 >= ResLimit) \in BOOLEAN
    BY <1>3, <1>c, NaturalBounds
  <2>3. q \in ResourceRecords /\ q.count = r.res.count + 1 /\ q.yields = r.res.yields
        /\ (q.reserved <=> r.res.count + 1 >= ResLimit)
    BY <1>3, <1>c, <2>2 DEF ResourceRecords
  <2> HIDE DEF c, q
  <2>4. c \in Records /\ c.skips = r.skips /\ c.heavy = r.heavy /\ c.res = q
    BY <2>1, <2>3 DEF Records
  <2> QED BY <1>3, <1>b, <2>3, <2>4 DEF c
<1>4. CASE kind = "yield"
  <2> DEFINE q == [r.res EXCEPT !.yields = MinOf(ResLimit, r.res.yields + 1)]
  <2>1. c = [r EXCEPT !.res = q]
    BY <1>4, Zenon DEF Charged
  <2>2. MinOf(ResLimit, r.res.yields + 1) \in 0..ResLimit
    BY <1>4, <1>c, NaturalBounds DEF MinOf
  <2>3. q \in ResourceRecords /\ q.count = r.res.count /\ q.yields = MinOf(ResLimit, r.res.yields + 1)
        /\ q.reserved = r.res.reserved
    BY <1>4, <1>c, <2>2 DEF ResourceRecords
  <2> HIDE DEF c, q
  <2>4. c \in Records /\ c.skips = r.skips /\ c.heavy = r.heavy /\ c.res = q
    BY <2>1, <2>3 DEF Records
  <2> QED BY <1>4, <1>b, <2>3, <2>4 DEF c
<1>5. CASE kind = None
  <2>1. c = r
    BY <1>5, NoneFresh DEF Charged
  <2> QED BY <1>5, <1>c, <2>1, NoneFresh
<1> QED BY <1>1, <1>2, <1>3, <1>4, <1>5

\* The head's record after a pass of the given kind was counted on it.
LEMMA ChargedKeeps ==
    ASSUME RecordsInv, NEW h \in Queued, NEW r, r = fair[h] \/ r = Stamped(h),
           NEW kind \in {None, "conflict", "capacity", "resource"},
           kind = "capacity" => fair[h].heavy < SkipLimit,
           kind = "resource" => /\ fair[h].res # None /\ ~fair[h].res.reserved
                                /\ fair[h].res.count < ResLimit,
           NEW yield \in {None, "yield"}, yield # None => kind = None /\ fair[h].res # None,
           NEW q \in Passes,
           \/ q = passed[h]
           \/ kind = "conflict" /\ fair[h].skips < SkipLimit /\ q = [passed[h] EXCEPT !.conflict = @ + 1]
           \/ kind = "capacity" /\ q = [passed[h] EXCEPT !.capacity = @ + 1]
           \/ kind = "resource" /\ q = [passed[h] EXCEPT !.resource = @ + 1]
           \/ yield = "yield" /\ fair[h].res.yields < ResLimit /\ q = [passed[h] EXCEPT !.yield = @ + 1]
    PROVE  LET f == Charged(Charged(r, kind), yield)
               order == IF kind = "resource" /\ Charged(r, kind).res.reserved THEN Append(latched, h) ELSE latched
           IN  Kept([fair EXCEPT ![h] = f], order, [passed EXCEPT ![h] = q], Queued)
<1> DEFINE c == Charged(r, kind)
           f == Charged(c, yield)
           order == IF kind = "resource" /\ c.res.reserved THEN Append(latched, h) ELSE latched
           res == fair[h].res
<1>a. h \in Ticket /\ Queued \in SUBSET Ticket
  BY HeldFinite
<1>b. /\ r \in Records /\ r.skips = fair[h].skips /\ r.heavy = fair[h].heavy /\ r.res = res
      /\ passed[h] \in Passes /\ Counts(fair[h], passed[h]) /\ Earned(fair[h])
      /\ r.skips \in 0..SkipLimit /\ r.heavy \in 0..SkipLimit
      /\ (res # None => res \in ResourceRecords /\ res.count \in 0..ResLimit /\ res.yields \in 0..ResLimit)
  BY <1>a, RecordType, StampedType DEF ResourceRecords
<1>1. /\ c \in Records
      /\ c.skips = (IF kind = "conflict" THEN MinOf(SkipLimit, r.skips + 1) ELSE r.skips)
      /\ c.heavy = (IF kind = "capacity" THEN r.heavy + 1 ELSE r.heavy)
      /\ c.res = None <=> res = None
      /\ res # None => /\ c.res \in ResourceRecords
                       /\ c.res.count = (IF kind = "resource" THEN res.count + 1 ELSE res.count)
                       /\ c.res.yields = res.yields
                       /\ c.res.reserved <=> (IF kind = "resource" THEN res.count + 1 >= ResLimit ELSE res.reserved)
  BY <1>b, ChargedParts, NoneFresh
<1> HIDE DEF c
<1>2. /\ f \in Records /\ f.skips = c.skips /\ f.heavy = c.heavy
      /\ f.res = None <=> res = None
      /\ res # None => /\ f.res.count = c.res.count
                       /\ f.res.yields = (IF yield = "yield" THEN MinOf(ResLimit, c.res.yields + 1) ELSE c.res.yields)
                       /\ f.res.reserved <=> c.res.reserved
  BY <1>1, ChargedParts, NoneFresh
<1> HIDE DEF f, res
<1>3. /\ f.skips = (IF kind = "conflict" THEN MinOf(SkipLimit, r.skips + 1) ELSE r.skips)
      /\ f.heavy = (IF kind = "capacity" THEN r.heavy + 1 ELSE r.heavy)
      /\ res # None => /\ f.res.count = (IF kind = "resource" THEN res.count + 1 ELSE res.count)
                       /\ f.res.yields = (IF yield = "yield" THEN MinOf(ResLimit, res.yields + 1) ELSE res.yields)
                       /\ f.res.reserved <=> (IF kind = "resource" THEN res.count + 1 >= ResLimit ELSE res.reserved)
  BY <1>1, <1>2
<1>4. Earned(f)
  BY <1>b, <1>2, <1>3, NaturalBounds DEF Earned, Latch, res
<1>5. Counts(f, q)
  <2> DEFINE o == passed[h]
  <2>1. /\ o.conflict \in Nat /\ o.capacity \in Nat /\ o.resource \in Nat /\ o.yield \in Nat
        /\ o.conflict <= r.skips /\ o.capacity <= r.heavy
        /\ o.resource <= (IF res = None THEN 0 ELSE res.count)
        /\ o.yield <= (IF res = None THEN 0 ELSE res.yields)
    BY <1>b DEF Passes, Counts, res
  <2>2. /\ q.conflict = o.conflict \/ (q.conflict = o.conflict + 1 /\ kind = "conflict" /\ r.skips < SkipLimit)
        /\ q.capacity = o.capacity \/ (q.capacity = o.capacity + 1 /\ kind = "capacity")
        /\ q.resource = o.resource \/ (q.resource = o.resource + 1 /\ kind = "resource" /\ res # None)
        /\ q.yield = o.yield \/ (q.yield = o.yield + 1 /\ yield = "yield" /\ res # None /\ res.yields < ResLimit)
    BY <1>b, NoneFresh DEF Passes, res
  <2> HIDE DEF o
  <2>3. q.conflict <= f.skips
    BY <1>b, <1>3, <2>1, <2>2, NaturalBounds DEF MinOf
  <2>4. q.capacity <= f.heavy
    BY <1>b, <1>3, <2>1, <2>2, NaturalBounds
  <2>5. q.resource <= (IF f.res = None THEN 0 ELSE f.res.count)
    BY <1>b, <1>2, <1>3, <2>1, <2>2, NaturalBounds
  <2>6. q.yield <= (IF f.res = None THEN 0 ELSE f.res.yields)
    BY <1>b, <1>2, <1>3, <2>1, <2>2, NaturalBounds DEF MinOf
  <2> QED BY <2>3, <2>4, <2>5, <2>6 DEF Counts
<1>6. /\ order \in Seq(Ticket) /\ Distinct(order)
      /\ Range(order) = IF Latch(f) THEN Range(latched) \cup {h} ELSE Range(latched) \ {h}
  <2>1. latched \in Seq(Ticket) /\ Distinct(latched) /\ (h \in Range(latched) <=> Latch(fair[h]))
    BY <1>a DEF RecordsInv, Kept
  <2>2. CASE kind = "resource" /\ c.res.reserved
    <3>1. Latch(f) /\ h \notin Range(latched)
      BY <1>1, <1>2, <2>1, <2>2 DEF Latch, res
    <3>2. order = Append(latched, h)
      BY <2>2
    <3> HIDE DEF order
    <3> QED BY <1>a, <2>1, <3>1, <3>2, AppendOne
  <2>3. CASE ~(kind = "resource" /\ c.res.reserved)
    <3>1. order = latched
      BY <2>3
    <3>2. Latch(f) <=> Latch(fair[h])
      BY <1>1, <1>2, <1>3, <2>3 DEF Latch, res
    <3> HIDE DEF order
    <3> QED BY <2>1, <3>1, <3>2
  <2> QED BY <2>2, <2>3
<1> HIDE DEF order
<1>7. Kept([fair EXCEPT ![h] = f], order, [passed EXCEPT ![h] = q], Queued)
  BY <1>a, <1>2, <1>4, <1>5, <1>6, KeptHead DEF RecordsInv
<1> QED BY <1>7 DEF f, order, c

\* A start leaves the records of those who stay in step with their counts, and
\* takes the record of the one who left along.
LEMMA StartKeeps ==
    ASSUME Types, InLine, RecordsInv, NEW t \in Visible, NEW h \in Visible, NEW s \in Samples,
           ~ExclusiveDenied(t, h), Start(t, h, Plan(s, t, h), s, Verdict(t, h, Plan(s, t, h), s))
    PROVE  \/ UNCHANGED state /\ Kept(fair', latched', passed', Queued)
           \/ state' = [state EXCEPT ![t] = "running"] /\ Kept(fair', latched', passed', Queued \ {t})
<1> DEFINE p == Plan(s, t, h)
           v == Verdict(t, h, p, s)
           kind == Counted(t, h, p, v)
           ahead == v.lift = None /\ p.way \in {"express", "yield"}
           yield == IF ahead /\ p.way = "yield" THEN "yield" ELSE None
           r == IF s.broken THEN fair[h] ELSE Stamped(h)
           counted == Charged(r, kind)
           resumed == fair[h].since # None /\ fair[h].since >= Grace
           order == IF kind = "resource" /\ counted.res.reserved THEN Append(latched, h) ELSE latched
           seen == IF yield # None /\ p.head = None THEN yield
                   ELSE IF kind = "conflict" /\ resumed THEN None ELSE kind
           q == IF seen = None THEN passed[h] ELSE [passed[h] EXCEPT ![seen] = @ + 1]
<1>a. t \in Ticket /\ h \in Ticket /\ h \in Queued /\ Queued \in SUBSET Ticket
  BY HeldFinite
<1>1. v.outcome = "start"
  BY Zenon DEF Start
<1>2. IF t \in cancelled
      THEN /\ fair' = [fair EXCEPT ![h] = counted] /\ latched' = order
           /\ UNCHANGED <<state, passed>>
      ELSE /\ fair' = [fair EXCEPT ![h] = Charged(counted, yield), ![t] = NoRecords]
           /\ latched' = Without(order, t)
           /\ state' = [state EXCEPT ![t] = "running"]
           /\ passed' = IF seen = None THEN [passed EXCEPT ![t] = NoPass]
                        ELSE [passed EXCEPT ![h][seen] = @ + 1, ![t] = NoPass]
  BY Zenon DEF Start
<1>3. /\ kind \in {None, "conflict", "capacity", "resource"}
      /\ kind = "conflict" => ~Exhausted(h) /\ Conflicted(h)
      /\ kind = "capacity" => fair[h].heavy < SkipLimit
      /\ kind = "resource" => /\ fair[h].res # None /\ ~fair[h].res.reserved
                              /\ fair[h].res.count < ResLimit
  BY <1>1, CountedRoom
<1>4. ahead => kind = None
  BY DEF Counted
<1>5. p.way = "yield" => /\ fair[h].res # None
                         /\ p.head = None => fair[h].res.yields < ResLimit
  BY <1>a, YieldRoom
<1>6. yield \in {None, "yield"} /\ (yield # None => kind = None /\ fair[h].res # None)
  BY <1>4, <1>5
<1>b. /\ passed[h] \in Passes /\ fair[h].skips \in 0..SkipLimit
      /\ fair[h].since \in (0..Grace) \cup {None}
  BY <1>a, RecordType
<1>7. kind = "conflict" /\ ~resumed => fair[h].skips < SkipLimit
  BY <1>3, <1>b, NaturalBounds DEF Exhausted
<1>8. r = fair[h] \/ r = Stamped(h)
  OBVIOUS
<1> HIDE DEF kind, v, p, r, resumed
<1>9. seen \in {None, "conflict", "capacity", "resource", "yield"}
      /\ (seen = "yield" => yield = "yield" /\ p.head = None) /\ (seen \notin {None, "yield"} => seen = kind)
      /\ (seen = "conflict" => ~resumed)
  BY <1>3, <1>6, NoneFresh
<1>10. seen = "yield" => p.way = "yield" /\ fair[h].res.yields < ResLimit
  BY <1>5, <1>9, NoneFresh
<1> HIDE DEF seen, yield
<1>11. q \in Passes
       /\ \/ q = passed[h]
          \/ kind = "conflict" /\ fair[h].skips < SkipLimit /\ q = [passed[h] EXCEPT !.conflict = @ + 1]
          \/ kind = "capacity" /\ q = [passed[h] EXCEPT !.capacity = @ + 1]
          \/ kind = "resource" /\ q = [passed[h] EXCEPT !.resource = @ + 1]
          \/ yield = "yield" /\ fair[h].res.yields < ResLimit /\ q = [passed[h] EXCEPT !.yield = @ + 1]
  <2>1. CASE seen = None
    BY <2>1, <1>b
  <2>2. CASE seen = "conflict"
    <3>1. q = [passed[h] EXCEPT !.conflict = @ + 1]
      BY <2>2, NoneFresh
    <3>2. [passed[h] EXCEPT !.conflict = @ + 1] \in Passes
      BY <1>b DEF Passes
    <3> QED BY <3>1, <3>2, <2>2, <1>7, <1>9, NoneFresh
  <2>3. CASE seen = "capacity"
    <3>1. q = [passed[h] EXCEPT !.capacity = @ + 1]
      BY <2>3, NoneFresh
    <3>2. [passed[h] EXCEPT !.capacity = @ + 1] \in Passes
      BY <1>b DEF Passes
    <3> QED BY <3>1, <3>2, <2>3, <1>9, NoneFresh
  <2>4. CASE seen = "resource"
    <3>1. q = [passed[h] EXCEPT !.resource = @ + 1]
      BY <2>4, NoneFresh
    <3>2. [passed[h] EXCEPT !.resource = @ + 1] \in Passes
      BY <1>b DEF Passes
    <3> QED BY <3>1, <3>2, <2>4, <1>9, NoneFresh
  <2>5. CASE seen = "yield"
    <3>1. q = [passed[h] EXCEPT !.yield = @ + 1]
      BY <2>5, NoneFresh
    <3>2. [passed[h] EXCEPT !.yield = @ + 1] \in Passes
      BY <1>b DEF Passes
    <3> QED BY <3>1, <3>2, <2>5, <1>9, <1>10, NoneFresh
  <2> QED BY <1>9, <2>1, <2>2, <2>3, <2>4, <2>5
<1> HIDE DEF q
<1>c. passed \in [Ticket -> Passes] /\ fair \in [Ticket -> Records]
  BY DEF RecordsInv, Kept
<1>12. CASE t \in cancelled
  <2>1. Kept([fair EXCEPT ![h] = Charged(Charged(r, kind), None)], order, [passed EXCEPT ![h] = passed[h]], Queued)
    <3>1. /\ passed[h] \in Passes /\ None \in {None, "yield"} /\ passed[h] = passed[h]
      BY <1>b
    <3> QED BY <1>3, <1>8, <1>a, <3>1, ChargedKeeps
  <2>2. Charged(counted, None) = counted
    BY NoneFresh DEF Charged
  <2>3. [passed EXCEPT ![h] = passed[h]] = passed
    BY <1>c
  <2>4. fair' = [fair EXCEPT ![h] = counted] /\ latched' = order /\ UNCHANGED <<state, passed>>
    BY <1>2, <1>12
  <2> HIDE DEF order, counted
  <2>5. Charged(Charged(r, kind), None) = counted
    BY <2>2 DEF counted
  <2> QED BY <2>1, <2>3, <2>4, <2>5
<1>13. CASE t \notin cancelled
  <2> DEFINE fa == [fair EXCEPT ![h] = Charged(counted, yield)]
             pa == [passed EXCEPT ![h] = q]
  <2>1. Kept(fa, order, pa, Queued)
    BY <1>3, <1>6, <1>8, <1>11, <1>a, ChargedKeeps
  <2>2. /\ fair' = [fair EXCEPT ![h] = Charged(counted, yield), ![t] = NoRecords]
        /\ latched' = Without(order, t)
        /\ state' = [state EXCEPT ![t] = "running"]
        /\ passed' = IF seen = None THEN [passed EXCEPT ![t] = NoPass]
                     ELSE [passed EXCEPT ![h][seen] = @ + 1, ![t] = NoPass]
    BY <1>2, <1>13
  <2> HIDE DEF counted, order
  <2>3. fair' = [fa EXCEPT ![t] = NoRecords]
    BY <2>2
  <2>4. passed' = [pa EXCEPT ![t] = NoPass]
    <3>1. CASE seen = None
      <4>1. pa = passed
        BY <1>c, <3>1 DEF q
      <4> QED BY <2>2, <3>1, <4>1
    <3>2. CASE seen # None
      <4>1. pa = [passed EXCEPT ![h][seen] = @ + 1]
        BY <3>2 DEF q
      <4>2. passed' = [[passed EXCEPT ![h][seen] = @ + 1] EXCEPT ![t] = NoPass]
        BY <2>2, <3>2, Zenon
      <4> HIDE DEF pa
      <4> QED BY <4>1, <4>2
    <3> QED BY <3>1, <3>2
  <2> HIDE DEF fa, pa
  <2>5. Kept([fa EXCEPT ![t] = NoRecords], Without(order, t), [pa EXCEPT ![t] = NoPass], Queued \ {t})
    BY <1>a, <2>1, KeptClear
  <2> QED BY <2>2, <2>3, <2>4, <2>5
<1> QED BY <1>12, <1>13

\* Every step keeps the fairness records, the latches and the counts in step.
LEMMA RecordsStep ==
    ASSUME Types, InLine, RecordsInv, [SelectionNext]_vars
    PROVE  RecordsInv'
<1>a. ASSUME Kept(fair', latched', passed', Queued') PROVE RecordsInv'
  BY <1>a DEF RecordsInv, Kept, Distinct, Range, Earned, Counts, Latch
<1>b. ASSUME UNCHANGED <<fair, latched, passed>>, Queued \subseteq Queued' PROVE RecordsInv'
  <2>1. Kept(fair', latched', passed', Queued')
    BY <1>b DEF RecordsInv, Kept
  <2> QED BY <2>1, <1>a
<1>1. ASSUME NEW t \in Ticket, Poll(t, Samples) PROVE RecordsInv'
  <2> DEFINE h == First(Visible)
  <2>1. t \in Visible /\ h \in Visible /\ ~ExclusiveDenied(t, h)
    BY <1>1, PollShape
  <2>2. PICK s \in Samples : \/ Refuse(t, h, Plan(s, t, h), s, Verdict(t, h, Plan(s, t, h), s))
                             \/ Start(t, h, Plan(s, t, h), s, Verdict(t, h, Plan(s, t, h), s))
    BY <1>1, PollShape
  <2> HIDE DEF h
  <2>3. CASE Refuse(t, h, Plan(s, t, h), s, Verdict(t, h, Plan(s, t, h), s))
    <3>1. h \in Queued
      BY <2>1, HeldFinite
    <3>2. Kept(fair', latched', passed', Queued)
      BY <2>3, <3>1, RefuseKeeps
    <3>3. UNCHANGED state
      BY <2>3, Zenon DEF Refuse
    <3>4. Queued' = Queued
      BY <3>3 DEF Queued
    <3> QED BY <3>2, <3>4, <1>a
  <2>4. CASE Start(t, h, Plan(s, t, h), s, Verdict(t, h, Plan(s, t, h), s))
    <3>1. \/ UNCHANGED state /\ Kept(fair', latched', passed', Queued)
          \/ state' = [state EXCEPT ![t] = "running"] /\ Kept(fair', latched', passed', Queued \ {t})
      BY <2>1, <2>4, StartKeeps
    <3>2. UNCHANGED state => Queued' = Queued
      BY DEF Queued
    <3>3. state' = [state EXCEPT ![t] = "running"] => Queued' = Queued \ {t}
      BY DEF Queued, Types
    <3> QED BY <3>1, <3>2, <3>3, <1>a
  <2> QED BY <2>2, <2>3, <2>4
<1>2. CASE Tick
  <2> DEFINE res(t) == IF fair[t].res = None THEN None ELSE [fair[t].res EXCEPT !.futile = FALSE]
             since(t) == IF fair[t].since = None THEN None ELSE MinOf(Grace, fair[t].since + 1)
  <2>1. /\ fair' = [t \in Ticket |-> [fair[t] EXCEPT !.since = since(t), !.res = res(t)]]
        /\ UNCHANGED <<state, latched, passed>>
    BY <1>2, Zenon DEF Tick
  <2>2. Queued' = Queued
    BY <2>1 DEF Queued
  <2>3. ASSUME NEW t \in Ticket
        PROVE  /\ fair'[t] \in Records /\ fair'[t].skips = fair[t].skips /\ fair'[t].heavy = fair[t].heavy
               /\ fair'[t].res = None <=> fair[t].res = None
               /\ fair[t].res # None => /\ fair'[t].res.count = fair[t].res.count
                                        /\ fair'[t].res.yields = fair[t].res.yields
                                        /\ fair'[t].res.reserved = fair[t].res.reserved
               /\ fair[t] = NoRecords => fair'[t] = NoRecords
    <3>1. fair[t] \in Records /\ (fair[t].res # None => fair[t].res \in ResourceRecords)
          /\ fair[t].since \in (0..Grace) \cup {None}
      BY RecordType
    <3>2. since(t) \in (0..Grace) \cup {None}
      BY <3>1, NaturalBounds DEF MinOf
    <3>3. /\ res(t) \in ResourceRecords \cup {None} /\ (res(t) = None <=> fair[t].res = None)
          /\ fair[t].res # None => /\ res(t).count = fair[t].res.count /\ res(t).yields = fair[t].res.yields
                                   /\ res(t).reserved = fair[t].res.reserved
      <4>1. CASE fair[t].res = None
        BY <4>1
      <4>2. CASE fair[t].res # None
        <5>1. res(t) = [fair[t].res EXCEPT !.futile = FALSE] /\ fair[t].res \in ResourceRecords
          BY <4>2, <3>1
        <5>2. None \notin ResourceRecords
          BY SelectionAssumption
        <5> HIDE DEF res
        <5> QED BY <4>2, <5>1, <5>2 DEF ResourceRecords
      <4> QED BY <4>1, <4>2
    <3>4. fair[t] = NoRecords => since(t) = None /\ res(t) = None
      BY DEF NoRecords
    <3> HIDE DEF since, res
    <3>5. fair'[t] = [fair[t] EXCEPT !.since = since(t), !.res = res(t)]
      BY <2>1
    <3>6. fair'[t] \in Records /\ fair'[t].skips = fair[t].skips /\ fair'[t].heavy = fair[t].heavy
          /\ fair'[t].res = res(t)
      BY <3>1, <3>2, <3>3, <3>5 DEF Records
    <3>7. fair[t] = NoRecords => fair'[t] = NoRecords
      <4> SUFFICES ASSUME fair[t] = NoRecords PROVE fair'[t] = NoRecords
        OBVIOUS
      <4>1. since(t) = fair[t].since /\ res(t) = fair[t].res
        BY <3>4 DEF NoRecords
      <4>2. fair'[t].since = fair[t].since /\ fair'[t].res = fair[t].res
        BY <3>1, <3>5, <4>1 DEF Records
      <4> QED BY <3>1, <3>6, <4>2 DEF Records
    <3> QED BY <3>3, <3>6, <3>7
  <2>4. fair' \in [Ticket -> Records]
    <3> HIDE DEF since, res
    <3> QED BY <2>1, <2>3
  <2>5. \A t \in Ticket : Earned(fair'[t]) /\ Counts(fair'[t], passed'[t]) /\ (Latch(fair'[t]) <=> Latch(fair[t]))
    <3> SUFFICES ASSUME NEW t \in Ticket
                 PROVE  Earned(fair'[t]) /\ Counts(fair'[t], passed'[t]) /\ (Latch(fair'[t]) <=> Latch(fair[t]))
      OBVIOUS
    <3>1. Earned(fair[t]) /\ Counts(fair[t], passed[t]) /\ passed'[t] = passed[t]
      BY <2>1, RecordType
    <3>2. Latch(fair'[t]) <=> Latch(fair[t])
      BY <2>3 DEF Latch
    <3>3. Earned(fair'[t])
      BY <2>3, <3>1, <3>2 DEF Earned, Latch
    <3>4. Counts(fair'[t], passed'[t])
      BY <2>3, <3>1 DEF Counts
    <3> QED BY <3>2, <3>3, <3>4
  <2>6. Kept(fair', latched', passed', Queued')
    BY <2>1, <2>2, <2>3, <2>4, <2>5 DEF RecordsInv, Kept
  <2> QED BY <2>6, <1>a
<1>3. ASSUME NEW t \in Ticket, Dequeue(t) PROVE RecordsInv'
  <2>1. /\ Queued' = Queued \ {t} /\ fair' = [fair EXCEPT ![t] = NoRecords]
        /\ latched' = Without(latched, t) /\ passed' = [passed EXCEPT ![t] = NoPass]
    BY <1>3 DEF Dequeue, Queued, Types
  <2>2. Kept([fair EXCEPT ![t] = NoRecords], Without(latched, t), [passed EXCEPT ![t] = NoPass], Queued \ {t})
    BY HeldFinite, KeptClear DEF RecordsInv
  <2> QED BY <2>1, <2>2, <1>a
<1>4. ASSUME NEW t \in Ticket, Enqueue(t) \/ Cancel(t) \/ Orphan(t) \/ \E to \in Tiers : Retier(t, to)
      PROVE RecordsInv'
  <2>1. UNCHANGED <<fair, latched, passed>> /\ Queued \subseteq Queued'
    BY <1>4 DEF Enqueue, Cancel, Orphan, Retier, Queued, Types
  <2> QED BY <2>1, <1>b
<1>5. ASSUME NEW t \in Ticket, End(t) PROVE RecordsInv'
  <2>1. UNCHANGED <<fair, latched, passed>> /\ Queued \subseteq Queued'
    BY <1>5 DEF End, Held, Queued, Types
  <2> QED BY <2>1, <1>b
<1>6. CASE UNCHANGED vars
  BY <1>6, <1>b DEF vars, Queued
<1> QED BY <1>1, <1>2, <1>3, <1>4, <1>5, <1>6 DEF SelectionNext

\* The records with what they rest on: the inductive invariant.
FairnessInv == Types /\ InLine /\ RecordsInv

LEMMA FairnessKept == SelectionSpec => []FairnessInv
<1>1. SelectionInit => FairnessInv
  <2> SUFFICES ASSUME SelectionInit PROVE FairnessInv
    OBVIOUS
  <2>1. fair \in [Ticket -> Records] /\ passed \in [Ticket -> Passes]
        /\ \A t \in Ticket : fair[t] = NoRecords /\ passed[t] = NoPass
    BY NoRecordsType DEF SelectionInit
  <2>2. latched \in Seq(Ticket) /\ Distinct(latched) /\ Range(latched) = {}
    BY DEF SelectionInit, Distinct, Range
  <2>3. RecordsInv
    BY <2>1, <2>2, NoRecordsType DEF RecordsInv, Kept
  <2> QED BY <2>3, TypesInit DEF FairnessInv
<1>2. FairnessInv /\ [SelectionNext]_vars => FairnessInv'
  BY TypesStep, RecordsStep DEF FairnessInv
<1> QED BY <1>1, <1>2, PTL DEF SelectionSpec

\* A reservation is recorded in the ticket's record and in the order of
\* reservations or in neither, and only a ticket that used its allowance up holds
\* one, however it was displaced, denied again, re-tiered or removed (the records
\* of fairness-v2.json, src/fairness.js).
THEOREM ReservationsAreKept == SelectionSpec => []ReservationsConsistent
<1>1. FairnessInv => ReservationsConsistent
  <2> SUFFICES ASSUME FairnessInv PROVE ReservationsConsistent
    OBVIOUS
  <2>1. SelectionTypeOK
    <3>1. \A t \in Ticket : t \in Queued <=> \E i \in DOMAIN queue : queue[i] = t
      BY DEF FairnessInv, InLine, Range
    <3>2. passed \in [Ticket -> [conflict : Nat, capacity : Nat, resource : Nat, yield : Nat]]
      BY DEF FairnessInv, RecordsInv, Kept, Passes
    <3> QED BY <3>1, <3>2 DEF SelectionTypeOK, FairnessInv, Types, InLine, Distinct, RecordsInv, Kept
  <2>2. \A t \in Ticket :
          (\E i \in DOMAIN latched : latched[i] = t) <=> (fair[t].res # None /\ fair[t].res.reserved)
    BY DEF FairnessInv, RecordsInv, Kept, Range, Latch
  <2>3. \A t \in Ticket : fair[t].res # None /\ fair[t].res.reserved => fair[t].res.count >= ResLimit
    BY DEF FairnessInv, RecordsInv, Kept, Earned, Latch
  <2>4. \A i, j \in DOMAIN latched : latched[i] = latched[j] => i = j
    BY DEF FairnessInv, RecordsInv, Kept, Distinct
  <2> QED BY <2>1, <2>2, <2>3, <2>4 DEF ReservationsConsistent
<1> QED BY <1>1, FairnessKept, PTL

\* Over its whole time in the queue no ticket is passed more often than each of
\* its allowances says, whoever headed the queue in between (the skips, heavy,
\* count and yields of src/fairness.js).
THEOREM AllowancesAreKept == SelectionSpec => []AllowancesHold
<1>1. FairnessInv => AllowancesHold
  <2> SUFFICES ASSUME FairnessInv, NEW t \in Queued
               PROVE  /\ passed[t].conflict <= SkipLimit /\ passed[t].capacity <= SkipLimit
                      /\ passed[t].resource <= ResLimit /\ passed[t].yield <= ResLimit
    BY DEF AllowancesHold
  <2>1. t \in Ticket /\ RecordsInv
    BY HeldFinite DEF FairnessInv
  <2>2. /\ passed[t] \in Passes /\ Counts(fair[t], passed[t])
        /\ fair[t].skips \in 0..SkipLimit /\ fair[t].heavy \in 0..SkipLimit
        /\ fair[t].res # None => fair[t].res.count \in 0..ResLimit /\ fair[t].res.yields \in 0..ResLimit
    BY <2>1, RecordType DEF ResourceRecords
  <2> QED BY <2>2, NaturalBounds DEF Passes, Counts
<1> QED BY <1>1, FairnessKept, PTL

-----------------------------------------------------------------------------
(* A host with no lease on it.                                              *)

LEMMA DrainedSums ==
    ASSUME Types, Held = {}
    PROVE  /\ Weight(Held) = 0 /\ Memory(Held) = 0
           /\ Sims = {} /\ Booked(Sims) = 0 /\ Memory(Sims) = 0 /\ Cardinality(Sims) = 0
           /\ \A s, cand : Charge(s, Held, cand) = 0
<1>1. Weight({}) = 0 /\ Memory({}) = 0 /\ Booked({}) = 0
  BY TotalEmpty, WeightIsTotal, MemoryIsTotal, BookedIsTotal
<1>2. Sims = {}
  BY DEF Sims
<1>3. ASSUME NEW s, NEW cand PROVE Charge(s, {}, cand) = 0
  <2> DEFINE W(u) == IF Outranked(u, cand) THEN (Demand(s, u) * YieldShare) \div 10 ELSE Demand(s, u)
             G(it) == [S \in SUBSET {} |-> IF S = {} THEN 0 ELSE W(Choice(S)) + it[S \ {Choice(S)}]]
             z == [S \in SUBSET {} |-> 0]
  <2>1. z = G(z)
    OBVIOUS
  <2>2. Charge(s, {}, cand) = LET it == CHOOSE it : it = G(it) IN it[{}]
    BY DEF Charge, MapThenSumSet, MapThenFoldSet, Choice
  <2>3. \A it : it = G(it) => it[{}] = 0
    OBVIOUS
  <2> HIDE DEF G, z
  <2> QED BY <2>1, <2>2, <2>3
<1> QED BY <1>1, <1>2, <1>3, FS_EmptySet

\* Nor do leases that are not there want more memory.
LEMMA DrainedMemory ==
    ASSUME Types, Held = {}, NEW s \in Samples \cup {Quiet}, NEW t \in Ticket, ask[t].mem <= s.m
    PROVE  FitsMemory(s.m, s, None, t)
<1> DEFINE W(u) == IF s.use[u] = None THEN Mem(u) ELSE Mem(u) - MinOf(Mem(u), s.use[u].mem)
           G(it) == [S \in SUBSET {} |-> IF S = {} THEN 0 ELSE W(Choice(S)) + it[S \ {Choice(S)}]]
           growth == MapThenSumSet(W, {})
           z == [S \in SUBSET {} |-> 0]
<1>1. z = G(z)
  OBVIOUS
<1>2. growth = LET it == CHOOSE it : it = G(it) IN it[{}]
  BY DEF MapThenSumSet, MapThenFoldSet, Choice
<1>3. \A it : it = G(it) => it[{}] = 0
  OBVIOUS
<1>4. growth = 0
  <2> HIDE DEF G, z, growth
  <2> QED BY <1>1, <1>2, <1>3
<1>5. ask[t].mem \in Nat /\ ask[t].mem <= MemBudget /\ s.m \in Nat
  BY AskType, SampleType
<1>6. FitsMemory(s.m, s, None, t) <=> Memory(Held) + (ask[t].mem + 0) <= MemBudget /\ growth + (ask[t].mem + 0) <= s.m
  BY DEF FitsMemory
<1> HIDE DEF growth
<1> QED BY <1>4, <1>5, <1>6, DrainedSums, NaturalBounds

\* On a drained host nobody is capped, and some push is not held by another.
LEMMA DrainedVisible ==
    ASSUME Servable, Types, Held = {}, Queued # {}, Queued \cap cancelled = {}
    PROVE  Visible # {}
<1>a. ask \in Workloads /\ ask \in [Ticket -> Asks] /\ Queued \in SUBSET Ticket
  BY SelectionAssumption DEF Types, Queued
<1>1. CapDenied = {}
  <2> SUFFICES ASSUME NEW t \in Queued, ask[t].sim, SimCapped(t, SmallestGrant(t)) PROVE FALSE
    BY DEF CapDenied
  <2>1. Booked(Sims) = 0 /\ Memory(Sims) = 0 /\ Cardinality(Sims) = 0
    BY DrainedSums
  <2>2. /\ 0 < SimTickets /\ SmallestGrant(t) <= SimCores /\ SmallestGrant(t) + TestReserve <= Budget
        /\ SmallestGrant(t) \in Nat /\ Mem(t) \in Nat /\ Mem(t) <= SimMem
    BY <1>a, AskType, NaturalBounds DEF Servable, SmallestGrant, Mem
  <2> QED BY <2>1, <2>2, NaturalBounds DEF SimCapped
<1>2. \A t \in Ticket : IsPush(t) => ask[t].push.git \in Nat
  BY <1>a DEF IsPush, Asks
<1>3. \E t \in Queued : t \notin PushHeld
  <2>1. CASE \E t \in Queued : ~IsPush(t)
    BY <2>1 DEF PushHeld, OtherPush
  <2>2. CASE \A t \in Queued : IsPush(t)
    <3> DEFINE N == {n \in Nat : \E t \in Queued : ask[t].push.git = n}
    <3>1. \A t \in Queued : ask[t].push.git \in N
      BY <1>a, <1>2, <2>2
    <3>2. N # {} /\ N \in SUBSET Nat
      BY <3>1
    <3>3. PICK n \in N : \A m \in N : ~(m < n)
      <4> HIDE DEF N
      <4>1. PICK n \in N : \A m \in N : ~(<<m, n>> \in OpToRel(<, Nat))
        BY <3>2, WFMin, NatLessThanWellFounded
      <4> QED BY <3>2, <4>1, LessThan
    <3>4. PICK t \in Queued : ask[t].push.git = n
      BY <3>3
    <3>5. \A u \in Ticket : state[u] # "running"
      BY DEF Held
    <3>6. \A u \in Ticket : state[u] = "queued" => ~(ask[u].push.git < n)
      BY <3>1, <3>3 DEF Queued
    <3> QED BY <3>4, <3>5, <3>6 DEF PushHeld
  <2> QED BY <2>1, <2>2
<1> QED BY <1>1, <1>3 DEF Visible

\* The head of a drained queue starts at its next poll on a quiet host.
LEMMA DrainedHeadStarts ==
    ASSUME Servable, Types, Held = {}, NEW h \in Visible
    PROVE  ~ExclusiveDenied(h, h) /\ Verdict(h, h, Plan(Quiet, h, h), Quiet).outcome = "start"
<1> DEFINE p == Plan(Quiet, h, h)
           d == Decision(Quiet, p.head, h)
<1>a. h \in Ticket /\ ask \in Workloads /\ Quiet \in Samples \cup {Quiet}
  BY HeldFinite DEF Types
<1>b. /\ ask[h].ceiling > 0 /\ ask[h].ceiling \in Nat /\ ask[h].mem <= Quiet.m /\ ask[h].weight <= Capacity
      /\ ask[h].sim => LET g == IF ask[h].exclusive THEN Budget ELSE ask[h].min
                       IN  /\ 0 < SimTickets /\ Mem(h) <= SimMem
                           /\ g <= SimCores /\ g + TestReserve <= Budget
      /\ ask[h].cpu \in Nat /\ ask[h].min \in Nat /\ ask[h].weight \in Nat /\ ask[h].mem \in Nat
      /\ ask[h].min <= ask[h].cpu /\ ask[h].cpu <= Budget /\ Quiet.m \in Nat /\ Mem(h) \in Nat
      /\ ask[h].min < ask[h].cpu => ask[h].min % Core = 0
  BY <1>a, AskType, SelectionAssumption DEF Servable, Asks, SampleSet, Mem
<1>c. /\ Weight(Held) = 0 /\ Sims = {} /\ Booked(Sims) = 0 /\ Memory(Sims) = 0 /\ Cardinality(Sims) = 0
      /\ \A s, cand : Charge(s, Held, cand) = 0
  BY DrainedSums
<1>1. ~ExclusiveDenied(h, h)
  BY DEF ExclusiveDenied
<1>2. ~Conflicted(h)
  <2>1. {u \in Held : ask[u].key = ask[h].key} = {}
    OBVIOUS
  <2>2. ~(Cardinality({u \in Held : ask[u].key = ask[h].key}) >= ask[h].ceiling)
    BY <1>b, <2>1, FS_EmptySet
  <2> QED BY <2>2 DEF Conflicted, Blocked
<1>3. Fits(h) /\ ~TooHeavy(h)
  BY <1>b, <1>c DEF Fits, TooHeavy
<1>4. Way(h, h) = None
  BY DEF Way, Safe, Express, YieldEligible, Overtakes
<1>5. ConflictPick(Quiet, h) = None
  BY <1>2 DEF ConflictPick
<1>6. p.candidate = h /\ p.head = None
  BY <1>2, <1>3, <1>4, <1>5, NoneFresh DEF Plan, PlanFor, Candidate, YieldProtects
<1>7. /\ Claim(h) \in 0..Budget
      /\ ask[h].sim /\ ~ask[h].exclusive => Claim(h) <= SimCores /\ Claim(h) + TestReserve <= Budget
  <2>1. Claim(h) \in 0..Budget
    BY <1>a, ClaimType
  <2> DEFINE room == MinOf(SimCores, Budget - TestReserve) - Booked(Sims)
             whole == (room \div Core) * Core
  <2>2. Claim(h) = IF ask[h].sim /\ ask[h].min < ask[h].cpu /\ ask[h].cpu > whole /\ whole >= ask[h].min
                   THEN whole ELSE ask[h].cpu
    BY DEF Claim
  <2>3. room \in Int /\ room <= SimCores /\ room + TestReserve <= Budget
        /\ (room = SimCores \/ room = Budget - TestReserve)
    BY <1>c, NaturalBounds DEF MinOf
  <2> HIDE DEF room
  <2>4. whole \in Int /\ whole <= room
    BY <2>3 DEF Core
  <2>5. ask[h].sim /\ ~ask[h].exclusive => room >= ask[h].min
    BY <1>b, <2>3, NaturalBounds
  <2>6. ASSUME ask[h].sim, ~ask[h].exclusive, ask[h].min < ask[h].cpu PROVE whole >= ask[h].min
    <3> DEFINE min == ask[h].min
    <3>1. min % 10 = 0 /\ min \in Nat /\ room >= min
      BY <1>b, <2>5, <2>6 DEF Core
    <3> HIDE DEF min
    <3>2. (room \div 10) * 10 >= min
      BY <2>3, <3>1
    <3> QED BY <3>2 DEF Core, min
  <2> HIDE DEF whole
  <2> QED BY <1>b, <2>1, <2>2, <2>3, <2>4, <2>5, <2>6, NaturalBounds
<1>8. d.cores = Claim(h)
  <2> DEFINE cand == Candidacy(None, h)
             claim == Claim(h)
  <2>1. FitsMemory(Quiet.m, Quiet, None, h)
    BY <1>a, <1>b, DrainedMemory
  <2>2. Busy(Quiet, None, cand) = 0
    BY <1>c DEF Busy, Servable
  <2>3. Beside(None) = FALSE
    BY DEF Beside
  <2> DEFINE e == Estimate(Quiet, h, claim, Beside(None))
  <2>4. e \in Nat /\ e <= claim
    BY <1>a, <1>7, <2>3, EstimateType
  <2>5. Projected(Quiet, None, cand, h, claim) = Busy(Quiet, None, cand) + e
    BY DEF Projected
  <2>6. Projected(Quiet, None, cand, h, claim) <= Budget
    <3> HIDE DEF e
    <3> QED BY <1>7, <2>2, <2>4, <2>5, NaturalBounds
  <2>7. CpuReason(Quiet, None, cand, h, claim) = "ok"
    BY <2>6 DEF CpuReason, Servable
  <2> QED BY <1>6, <2>1, <2>7 DEF Decision, DecisionAs, Granted
<1>9. d.cores # None
  BY <1>7, <1>8, NoneFresh
<1>10. Lift(h, h, p, Quiet, d) = None
  BY <1>6, <1>9 DEF Lift
<1> DEFINE g == IF ask[h].exclusive THEN Budget ELSE IF d.cores = None THEN Claim(h) ELSE d.cores
<1>11. ~(ask[h].sim /\ SimCapped(h, g))
  <2> SUFFICES ASSUME ask[h].sim PROVE ~SimCapped(h, g)
    OBVIOUS
  <2>1. g \in Nat /\ g <= SimCores /\ g + TestReserve <= Budget /\ 0 < SimTickets
    <3>1. CASE ask[h].exclusive
      BY <1>b, <3>1, NaturalBounds
    <3>2. CASE ~ask[h].exclusive
      BY <1>b, <1>7, <1>8, <3>2, NaturalBounds
    <3> QED BY <3>1, <3>2
  <2> HIDE DEF g
  <2> QED BY <1>b, <1>c, <2>1, NaturalBounds DEF SimCapped
<1>12. Verdict(h, h, p, Quiet) = Judged(h, h, p, Quiet, d, None)
  BY <1>10, Zenon DEF Verdict, JudgedBy
<1> HIDE DEF p, d
<1>13. ~Quiet.critical
  BY DEF Servable
<1>14. Judged(h, h, p, Quiet, d, None).outcome = "start"
  BY <1>3, <1>6, <1>9, <1>11, <1>13 DEF Judged
<1> QED BY <1>1, <1>12, <1>14 DEF p

\* When every lease is gone, the host is quiet and nobody in the queue has been
\* cancelled, the next poll of some visible ticket starts it: pushes that hold
\* each other, caps, latches and refusals never keep all of them waiting. The
\* hypothesis is that each ticket is one the quiet host could serve at all.
THEOREM DrainedHostsStart ==
    ASSUME Servable
    PROVE  SelectionSpec => []DrainedHostStartsSomeone
<1>1. FairnessInv => DrainedHostStartsSomeone
  <2> SUFFICES ASSUME FairnessInv, Held = {}, Queued # {}, Queued \cap cancelled = {}
               PROVE  \E t \in Visible : \E h \in {First(Visible)} :
                        ~ExclusiveDenied(t, h) /\ Verdict(t, h, Plan(Quiet, t, h), Quiet).outcome = "start"
    BY Zenon DEF DrainedHostStartsSomeone
  <2>1. Visible # {} /\ Visible \in SUBSET Queued
    BY DrainedVisible, HeldFinite DEF FairnessInv
  <2>2. First(Visible) \in Visible
    BY <2>1, FirstIn DEF First, FairnessInv
  <2>3. LET h == First(Visible)
        IN  ~ExclusiveDenied(h, h) /\ Verdict(h, h, Plan(Quiet, h, h), Quiet).outcome = "start"
    BY <2>2, DrainedHeadStarts DEF FairnessInv
  <2> QED BY <2>2, <2>3, Zenon
<1> QED BY <1>1, FairnessKept, PTL
=============================================================================
