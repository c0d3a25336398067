----------------------------- MODULE StoreProofs -----------------------------
(*****************************************************************************)
(* Machine-checked proofs about Store, for every set of blobs, jobs and      *)
(* uploaders and every bound on time, faults and records.                    *)
(*****************************************************************************)
EXTENDS Store, Integers, FunctionTheorems, FiniteSetTheorems, SequenceTheorems, TLAPS

-----------------------------------------------------------------------------
(* The journal only grows *)

\* A journal is a sequence of whatever was written to it.
IsLog(s) == s \in Seq(Range(s))

\* s is the beginning of t.
Begins(s, t) ==
    IsLog(s) /\ IsLog(t) /\ Len(s) <= Len(t) /\ \A i \in 1..Len(s) : t[i] = s[i]

\* An append keeps what was written before.
LEMMA LogAppend ==
    ASSUME NEW s, IsLog(s), NEW r
    PROVE  Begins(s, Append(s, r))
<1>1. s \in Seq(Range(s) \cup {r})
  BY DEF IsLog
<1>2. Append(s, r) \in Seq(Range(s) \cup {r})
  BY <1>1
<1>3. Append(s, r) \in Seq(Range(Append(s, r)))
  BY <1>2, SeqOfRange
<1>4. QED
  BY <1>1, <1>3 DEF Begins, IsLog

\* So does a concatenation.
LEMMA LogConcat ==
    ASSUME NEW s, IsLog(s), NEW t, IsLog(t)
    PROVE  Begins(s, s \o t)
<1> DEFINE S == Range(s) \cup Range(t)
<1>1. s \in Seq(S) /\ t \in Seq(S)
  BY DEF IsLog
<1>2. s \o t \in Seq(S)
  BY <1>1
<1>3. s \o t \in Seq(Range(s \o t))
  BY <1>2, SeqOfRange
<1>4. /\ Len(s \o t) = Len(s) + Len(t) /\ Len(s) \in Nat /\ Len(t) \in Nat
      /\ \A i \in 1..Len(s) : (s \o t)[i] = s[i]
  BY <1>1
<1>5. QED
  BY <1>3, <1>4 DEF Begins, IsLog

\* The beginning of a beginning is a beginning.
LEMMA BeginsTransitive ==
    ASSUME NEW r, NEW s, NEW t, Begins(r, s), Begins(s, t)
    PROVE  Begins(r, t)
<1>1. Len(r) \in Nat /\ Len(s) \in Nat /\ Len(t) \in Nat
  BY DEF Begins, IsLog
<1>2. QED
  BY <1>1 DEF Begins

-----------------------------------------------------------------------------
(* Sets of indices and the order of what is taken from a sequence *)

UpTo(K, i) == {j \in K : j <= i}

\* The rank of an element in a finite set of numbers numbers the set without a gap.
LEMMA RanksAreBijective ==
    ASSUME NEW K \in SUBSET Nat, IsFiniteSet(K)
    PROVE  /\ Cardinality(K) \in Nat
           /\ \A i \in K : Cardinality(UpTo(K, i)) \in 1..Cardinality(K)
           /\ \A i, j \in K : Cardinality(UpTo(K, i)) = Cardinality(UpTo(K, j)) => i = j
           /\ \A n \in 1..Cardinality(K) : \E i \in K : Cardinality(UpTo(K, i)) = n
<1> DEFINE N == Cardinality(K)  rank == [i \in K |-> Cardinality(UpTo(K, i))]
<1>1. N \in Nat
  BY FS_CardinalityType
<1>2. \A i \in K : UpTo(K, i) \in SUBSET K /\ IsFiniteSet(UpTo(K, i)) /\ Cardinality(UpTo(K, i)) \in Nat
                   /\ Cardinality(UpTo(K, i)) <= N
  <2> TAKE i \in K
  <2>1. UpTo(K, i) \in SUBSET K
    BY DEF UpTo
  <2> QED BY <2>1, FS_Subset, FS_CardinalityType
<1>3. \A i \in K : Cardinality(UpTo(K, i)) # 0
  <2> TAKE i \in K
  <2>1. i \in UpTo(K, i)
    BY DEF UpTo
  <2> QED BY <1>2, <2>1, FS_EmptySet
<1>4. \A i, j \in K : i < j => Cardinality(UpTo(K, i)) # Cardinality(UpTo(K, j))
  <2> SUFFICES ASSUME NEW i \in K, NEW j \in K, i < j,
                      Cardinality(UpTo(K, i)) = Cardinality(UpTo(K, j)) PROVE FALSE
    OBVIOUS
  <2>0. \A x \in K : x <= i => x <= j
    OBVIOUS
  <2>1. UpTo(K, i) \in SUBSET UpTo(K, j)
    BY <2>0, Zenon DEF UpTo
  <2>2. UpTo(K, j) = UpTo(K, i)
    BY <1>2, <2>1, FS_Subset
  <2>3. j \in UpTo(K, j) /\ j \notin UpTo(K, i)
    BY DEF UpTo
  <2> QED BY <2>2, <2>3
<1>5. \A i, j \in K : Cardinality(UpTo(K, i)) = Cardinality(UpTo(K, j)) => i = j
  BY <1>4
<1>6. \A i \in K : Cardinality(UpTo(K, i)) \in 1..N
  BY <1>1, <1>2, <1>3
<1>7. rank \in Injection(K, 1..N)
  <2>1. rank \in [K -> 1..N]
    BY <1>6
  <2>2. \A i, j \in K : rank[i] = rank[j] => i = j
    BY <1>5
  <2> HIDE DEF rank, N
  <2> QED BY <2>1, <2>2, Fun_IsInj
<1>8. IsFiniteSet(1..N) /\ Cardinality(1..N) = N
  BY <1>1, FS_Interval
<1>9. rank \in Surjection(K, 1..N)
  BY <1>7, <1>8, FS_Injection
<1>10. \A n \in 1..N : \E i \in K : rank[i] = n
  <2> HIDE DEF rank, N
  <2> QED BY <1>9, Fun_SurjectionProperties
<1> QED BY <1>1, <1>5, <1>6, <1>10


\* A finite set of numbers that is not empty has a greatest element.
LEMMA GreatestExists ==
    ASSUME NEW K \in SUBSET Nat, IsFiniteSet(K), K # {}
    PROVE  Max(K) \in K /\ \A k \in K : k <= Max(K)
<1>1. Cardinality(K) \in Nat /\ Cardinality(K) # 0
  BY FS_CardinalityType, FS_EmptySet
<1>2. PICK i \in K : Cardinality(UpTo(K, i)) = Cardinality(K)
  BY <1>1, RanksAreBijective
<1>3. UpTo(K, i) \in SUBSET K
  BY DEF UpTo
<1>4. UpTo(K, i) = K
  BY <1>2, <1>3, FS_Subset
<1>5. \A k \in K : i >= k
  BY <1>4 DEF UpTo
<1>6. Max(K) \in K /\ \A k \in K : Max(K) >= k
  BY <1>5 DEF Max
<1> QED BY <1>6

\* f numbers the steps of a section that are not idle, in their order.
Numbers(f, steps) ==
    LET due == {i \in DOMAIN steps : ~Idle(steps[i])}
    IN  /\ f \in [DOMAIN Due(steps) -> due]
        /\ \A m, n \in DOMAIN Due(steps) : m < n => f[m] < f[n]
        /\ \A i \in due : \E n \in DOMAIN Due(steps) : f[n] = i
        /\ \A n \in DOMAIN Due(steps) : Due(steps)[n] = steps[f[n]]

\* A section makes its steps in the order of the handler, but for the idle ones.
LEMMA DueIsNumbered ==
    ASSUME NEW S, NEW steps \in Seq(S)
    PROVE  Due(steps) \in Seq(S) /\ \E f : Numbers(f, steps)
<1> DEFINE due == {i \in DOMAIN steps : ~Idle(steps[i])}
           Nth(n) == CHOOSE i \in due : Cardinality(UpTo(due, i)) = n
           f == [n \in 1..Cardinality(due) |-> Nth(n)]
<1>1. due \in SUBSET Nat /\ IsFiniteSet(due)
  <2>1. DOMAIN steps = 1..Len(steps) /\ Len(steps) \in Nat
    OBVIOUS
  <2>2. IsFiniteSet(DOMAIN steps)
    BY <2>1, FS_Interval
  <2>3. due \in SUBSET DOMAIN steps
    OBVIOUS
  <2> QED BY <2>1, <2>2, <2>3, FS_Subset
<1>2. Due(steps) = [n \in 1..Cardinality(due) |-> steps[Nth(n)]]
  BY DEF Due, UpTo
<1>3. \A i \in due : steps[i] \in S
  OBVIOUS
<1>0. due = {i \in DOMAIN steps : ~Idle(steps[i])}
  OBVIOUS
<1> HIDE DEF due
<1>4. /\ Cardinality(due) \in Nat
      /\ \A i \in due : Cardinality(UpTo(due, i)) \in 1..Cardinality(due)
      /\ \A i, j \in due : Cardinality(UpTo(due, i)) = Cardinality(UpTo(due, j)) => i = j
      /\ \A n \in 1..Cardinality(due) : \E i \in due : Cardinality(UpTo(due, i)) = n
  BY <1>1, RanksAreBijective
<1>5. \A n \in 1..Cardinality(due) : Nth(n) \in due /\ Cardinality(UpTo(due, Nth(n))) = n
  BY <1>4
<1>6. f \in [1..Cardinality(due) -> due]
  BY <1>5
<1>7. \A m, n \in 1..Cardinality(due) : m < n => f[m] < f[n]
  <2> SUFFICES ASSUME NEW m \in 1..Cardinality(due), NEW n \in 1..Cardinality(due), m < n, ~(Nth(m) < Nth(n))
               PROVE  FALSE
    OBVIOUS
  <2>1. Nth(m) \in Nat /\ Nth(n) \in Nat /\ Nth(n) <= Nth(m)
    <3> DEFINE a == Nth(m)  b == Nth(n)
    <3>1. a \in due /\ b \in due /\ ~(a < b)
      BY <1>5
    <3> HIDE DEF a, b
    <3>2. a \in Nat /\ b \in Nat /\ b <= a
      BY <1>1, <3>1
    <3> QED BY <3>2 DEF a, b
  <2>2. UpTo(due, Nth(n)) \in SUBSET UpTo(due, Nth(m))
    <3> HIDE DEF Nth
    <3>1. \A x \in due : x <= Nth(n) => x <= Nth(m)
      BY <1>1, <2>1
    <3> QED BY <3>1, Zenon DEF UpTo
  <2>3. IsFiniteSet(UpTo(due, Nth(m)))
    <3>1. UpTo(due, Nth(m)) \in SUBSET due
      BY DEF UpTo
    <3> QED BY <1>1, <3>1, FS_Subset
  <2>4. Cardinality(UpTo(due, Nth(n))) <= Cardinality(UpTo(due, Nth(m)))
    BY <2>2, <2>3, FS_Subset
  <2> QED BY <1>4, <1>5, <2>4
<1>8. \A i \in due : \E n \in 1..Cardinality(due) : f[n] = i
  <2> SUFFICES ASSUME NEW i \in due PROVE \E n \in 1..Cardinality(due) : f[n] = i
    OBVIOUS
  <2> DEFINE n == Cardinality(UpTo(due, i))
  <2>1. n \in 1..Cardinality(due)
    BY <1>4
  <2>2. Nth(n) = i
    BY <1>4, <1>5, <2>1
  <2> QED BY <2>1, <2>2
<1>9. Due(steps) = [n \in 1..Cardinality(due) |-> steps[f[n]]]
  BY <1>2
<1> HIDE DEF f
<1>10. Due(steps) \in [1..Cardinality(due) -> S]
  BY <1>3, <1>6, <1>9
<1>11. Due(steps) \in Seq(S) /\ DOMAIN Due(steps) = 1..Cardinality(due)
  BY <1>4, <1>10
<1>12. /\ f \in [DOMAIN Due(steps) -> due]
       /\ \A m, n \in DOMAIN Due(steps) : m < n => f[m] < f[n]
       /\ \A i \in due : \E n \in DOMAIN Due(steps) : f[n] = i
       /\ \A n \in DOMAIN Due(steps) : Due(steps)[n] = steps[f[n]]
  BY <1>6, <1>7, <1>8, <1>9, <1>11
<1>13. Numbers(f, steps)
  BY <1>0, <1>12, Zenon DEF Numbers
<1> QED BY <1>11, <1>13

-----------------------------------------------------------------------------
(* What the journal says of an object *)

\* Record i of s is an object record of o.
Names(s, o, i) == i \in DOMAIN s /\ s[i].of = o /\ s[i].kind \notin {"terminal", "pin"}

Says(r) == IF r.kind = "cancel" THEN "put" ELSE r.kind

\* The last object record of o decides, if there is one.
LEMMA LastDecides ==
    ASSUME NEW s, IsLog(s), NEW o
    PROVE  \/ ObjectState(s, o) = "none" /\ \A i : ~Names(s, o, i)
           \/ \E i : /\ Names(s, o, i) /\ ObjectState(s, o) = Says(s[i])
                     /\ \A k : Names(s, o, k) => k <= i
<1> DEFINE at == {i \in DOMAIN s : s[i].of = o /\ s[i].kind \notin {"terminal", "pin"}}
<1>1. \A i : i \in at <=> Names(s, o, i)
  BY DEF Names
<1>2. ObjectState(s, o) = IF at = {} THEN "none" ELSE Says(s[Max(at)])
  BY DEF ObjectState, Says
<1>3. at \in SUBSET Nat /\ IsFiniteSet(at)
  <2>1. DOMAIN s = 1..Len(s) /\ Len(s) \in Nat
    BY DEF IsLog
  <2>2. IsFiniteSet(DOMAIN s) /\ at \in SUBSET DOMAIN s
    BY <2>1, FS_Interval
  <2> QED BY <2>1, <2>2, FS_Subset
<1> HIDE DEF at
<1>4. CASE at = {}
  BY <1>1, <1>2, <1>4
<1>5. CASE at # {}
  <2>1. Max(at) \in at /\ \A k \in at : k <= Max(at)
    BY <1>3, <1>5, GreatestExists
  <2> QED BY <1>1, <1>2, <1>5, <2>1
<1> QED BY <1>4, <1>5

\* A record decides when no object record of o follows it.
LEMMA NothingFollows ==
    ASSUME NEW s, IsLog(s), NEW o, NEW i, Names(s, o, i), \A k : Names(s, o, k) => k <= i
    PROVE  ObjectState(s, o) = Says(s[i])
<1>1. PICK m : Names(s, o, m) /\ ObjectState(s, o) = Says(s[m]) /\ \A k : Names(s, o, k) => k <= m
  BY LastDecides
<1>2. i \in Nat /\ m \in Nat
  BY <1>1 DEF Names, IsLog
<1>3. i = m
  BY <1>1, <1>2
<1> QED BY <1>1, <1>3

\* A longer journal says the same of o when nothing in its rest names o.
LEMMA StateStays ==
    ASSUME NEW s, NEW t, Begins(s, t), NEW o, \A i \in (Len(s) + 1)..Len(t) : ~Names(t, o, i)
    PROVE  ObjectState(t, o) = ObjectState(s, o)
<1>1. /\ DOMAIN s = 1..Len(s) /\ DOMAIN t = 1..Len(t) /\ Len(s) \in Nat /\ Len(t) \in Nat
      /\ IsLog(s) /\ IsLog(t) /\ Len(s) <= Len(t) /\ \A i \in 1..Len(s) : t[i] = s[i]
  BY DEF Begins, IsLog
<1>2. \A i : Names(t, o, i) <=> Names(s, o, i)
  BY <1>1 DEF Names
<1>3. CASE \A i : ~Names(s, o, i)
  BY <1>1, <1>2, <1>3, LastDecides
<1>4. CASE \E i : Names(s, o, i)
  <2>1. PICK i : Names(s, o, i) /\ ObjectState(s, o) = Says(s[i]) /\ \A k : Names(s, o, k) => k <= i
    BY <1>1, <1>4, LastDecides
  <2>2. Names(t, o, i) /\ \A k : Names(t, o, k) => k <= i
    BY <1>2, <2>1
  <2>3. ObjectState(t, o) = Says(t[i])
    BY <1>1, <2>2, NothingFollows
  <2>4. t[i] = s[i]
    BY <1>1, <2>1 DEF Names
  <2> QED BY <2>1, <2>3, <2>4
<1> QED BY <1>3, <1>4

\* An appended object record decides about its object and about no other.
LEMMA StateAfterAppend ==
    ASSUME NEW s, IsLog(s), NEW r, NEW o
    PROVE  ObjectState(Append(s, r), o)
             = IF r.of = o /\ r.kind \notin {"terminal", "pin"} THEN Says(r) ELSE ObjectState(s, o)
<1> DEFINE t == Append(s, r)
<1>1. Begins(s, t)
  BY LogAppend
<1>2. /\ Len(s) \in Nat /\ Len(t) = Len(s) + 1 /\ t[Len(t)] = r /\ DOMAIN t = 1..Len(t)
      /\ IsLog(t)
  <2>1. s \in Seq(Range(s) \cup {r})
    BY DEF IsLog
  <2> QED BY <1>1, <2>1 DEF Begins
<1> HIDE DEF t
<1>3. CASE r.of = o /\ r.kind \notin {"terminal", "pin"}
  <2>1. Names(t, o, Len(t)) /\ \A k : Names(t, o, k) => k <= Len(t)
    BY <1>2, <1>3 DEF Names
  <2>2. ObjectState(t, o) = Says(r)
    BY <1>2, <2>1, NothingFollows
  <2> QED BY <1>3, <2>2 DEF t
<1>4. CASE ~(r.of = o /\ r.kind \notin {"terminal", "pin"})
  <2>1. \A i \in (Len(s) + 1)..Len(t) : ~Names(t, o, i)
    BY <1>2, <1>4 DEF Names
  <2>2. ObjectState(t, o) = ObjectState(s, o)
    BY <1>1, <2>1, StateStays
  <2> QED BY <1>4, <2>2 DEF t
<1> QED BY <1>3, <1>4

-----------------------------------------------------------------------------
(* What a restart writes *)

\* The order in which a finite set is written down is a sequence of its elements,
\* each of them once.
LEMMA SetToSeqIsBijective ==
    ASSUME NEW S, IsFiniteSet(S)
    PROVE  /\ SetToSeq(S) \in Seq(S)
           /\ \A m, n \in DOMAIN SetToSeq(S) : SetToSeq(S)[m] = SetToSeq(S)[n] => m = n
           /\ \A x \in S : \E n \in DOMAIN SetToSeq(S) : SetToSeq(S)[n] = x
<1> DEFINE N == Cardinality(S)  f == SetToSeq(S)
<1>1. ExistsBijection(1..N, S) /\ N \in Nat
  BY FS_CardinalityType
<1>2. \E g \in [1..N -> S] : IsInjective(g)
  BY <1>1 DEF ExistsBijection, Bijection, Injection, IsInjective
<1>3. f \in [1..N -> S] /\ IsInjective(f)
  BY <1>2 DEF SetToSeq
<1> HIDE DEF f
<1>4. \A m, n \in 1..N : f[m] = f[n] => m = n
  BY <1>3 DEF IsInjective
<1> HIDE DEF N
<1>5. f \in Injection(1..N, S)
  BY <1>3, <1>4, Fun_IsInj
<1>6. IsFiniteSet(1..N) /\ Cardinality(1..N) = N
  BY <1>1, FS_Interval
<1>7. f \in Surjection(1..N, S)
  BY <1>5, <1>6, FS_Injection DEF N
<1>8. \A x \in S : \E n \in 1..N : f[n] = x
  BY <1>7 DEF Surjection
<1>9. f \in Seq(S) /\ DOMAIN f = 1..N
  BY <1>1, <1>3
<1> QED BY <1>4, <1>8, <1>9 DEF f

\* t is s and one record of that kind for each object of S.
Adds(s, t, kind, S) ==
    /\ Begins(s, t)
    /\ \A i \in (Len(s) + 1)..Len(t) : t[i] = Rec(kind, t[i].of) /\ t[i].of \in S
    /\ \A i, k \in (Len(s) + 1)..Len(t) : t[i].of = t[k].of => i = k
    /\ \A o \in S : \E i \in (Len(s) + 1)..Len(t) : t[i] = Rec(kind, o)

\* So a restart writes the records of a finite set of objects.
LEMMA RecordsAdded ==
    ASSUME NEW s, IsLog(s), NEW S, IsFiniteSet(S), NEW kind
    PROVE  Adds(s, s \o SetToSeq({Rec(kind, o) : o \in S}), kind, S)
<1> DEFINE T == {Rec(kind, o) : o \in S}
           f == [o \in S |-> Rec(kind, o)]
           r == SetToSeq(T)
           t == s \o r
<1>1. f \in Surjection(S, T)
  BY DEF Surjection
<1>2. IsFiniteSet(T)
  BY <1>1, FS_Surjection
<1>3. /\ \A x \in T : x = Rec(kind, x.of) /\ x.of \in S
      /\ \A x, y \in T : x.of = y.of => x = y
      /\ \A o \in S : Rec(kind, o) \in T
  BY DEF Rec
<1> HIDE DEF T
<1>4. /\ r \in Seq(T)
      /\ \A m, n \in DOMAIN r : r[m] = r[n] => m = n
      /\ \A x \in T : \E n \in DOMAIN r : r[n] = x
  BY <1>2, SetToSeqIsBijective
<1> HIDE DEF r
<1>5. IsLog(r)
  BY <1>4, SeqOfRange DEF IsLog
<1>6. Begins(s, t)
  BY <1>5, LogConcat
<1>7. /\ Len(s) \in Nat /\ Len(r) \in Nat /\ Len(t) = Len(s) + Len(r) /\ DOMAIN r = 1..Len(r)
      /\ \A i \in (Len(s) + 1)..Len(t) : i - Len(s) \in 1..Len(r) /\ t[i] = r[i - Len(s)]
      /\ \A n \in 1..Len(r) : Len(s) + n \in (Len(s) + 1)..Len(t) /\ t[Len(s) + n] = r[n]
  <2> DEFINE X == Range(s) \cup T
  <2>1. s \in Seq(X) /\ r \in Seq(X)
    <3>1. T \subseteq X /\ Range(s) \subseteq X
      OBVIOUS
    <3> HIDE DEF X
    <3> QED BY <1>4, <3>1 DEF IsLog
  <2> HIDE DEF X
  <2> QED BY <2>1
<1>8. \A n \in 1..Len(r) : r[n] \in T
  BY <1>4
<1> HIDE DEF t
<1>9. \A i \in (Len(s) + 1)..Len(t) : t[i] = Rec(kind, t[i].of) /\ t[i].of \in S
  BY <1>3, <1>7, <1>8
<1>10. \A i, k \in (Len(s) + 1)..Len(t) : t[i].of = t[k].of => i = k
  <2> SUFFICES ASSUME NEW i \in (Len(s) + 1)..Len(t), NEW k \in (Len(s) + 1)..Len(t), t[i].of = t[k].of
               PROVE  i = k
    OBVIOUS
  <2>1. r[i - Len(s)] = r[k - Len(s)]
    BY <1>3, <1>7, <1>8
  <2>2. i - Len(s) = k - Len(s)
    BY <1>4, <1>7, <2>1
  <2> QED BY <1>7, <2>2
<1>11. \A o \in S : \E i \in (Len(s) + 1)..Len(t) : t[i] = Rec(kind, o)
  BY <1>3, <1>4, <1>7
<1>12. Adds(s, t, kind, S)
  BY <1>6, <1>9, <1>10, <1>11 DEF Adds
<1> QED BY <1>12 DEF t, r, T

Orphans(s) == {o \in disk["primary"] : ObjectState(s, o) \notin {"put", "intent"}}
Halfway(s) == {o \in Object \ disk["primary"] : ObjectState(s, o) = "intent"}

\* What a restart makes t of the journal s: a put of every object on the disk that
\* has none, blobs before jobs, and a delete of every object that is gone from the
\* disk with an intent.
Mends(s, t) ==
    LET new == (Len(s) + 1)..Len(t)
    IN  /\ Begins(s, t)
        /\ \A i \in new : \/ t[i] = Rec("put", t[i].of) /\ t[i].of \in Orphans(s)
                          \/ t[i] = Rec("delete", t[i].of) /\ t[i].of \in Halfway(s)
        /\ \A i, k \in new : t[i].of = t[k].of => i = k
        /\ \A i, k \in new : t[i].of \in Orphans(s) \cap Blob /\ t[k].of \in Orphans(s) \cap Job => i < k
        /\ \A o \in Orphans(s) : \E i \in new : t[i] = Rec("put", o)
        /\ \A o \in Halfway(s) : \E i \in new : t[i] = Rec("delete", o)

LEMMA RestartMends ==
    ASSUME NEW s, IsLog(s), disk["primary"] \subseteq Object
    PROVE  Mends(s, Reconciled(s))
<1> DEFINE A == Orphans(s) \cap Blob
           B == Orphans(s) \cap Job
           C == Halfway(s)
           t1 == s \o SetToSeq({Rec("put", o) : o \in A})
           t2 == t1 \o SetToSeq({Rec("put", o) : o \in B})
           t == t2 \o SetToSeq({Rec("delete", o) : o \in C})
<1>1. Reconciled(s) = t
  BY DEF Reconciled, Orphans, Halfway
<1>2. IsFiniteSet(A) /\ IsFiniteSet(B) /\ IsFiniteSet(C)
  <2>1. A \in SUBSET Object /\ B \in SUBSET Object /\ C \in SUBSET Object
    BY DEF Object, Halfway
  <2> HIDE DEF A, B, C
  <2> QED BY <2>1, FS_Subset, StoreAssumption
<1>3. A \cup B = Orphans(s) /\ A \cap B = {} /\ A \cap C = {} /\ B \cap C = {} /\ A \subseteq Blob /\ B \subseteq Job
  BY StoreAssumption DEF Orphans, Halfway, Object
<1> HIDE DEF A, B, C
<1>4. Adds(s, t1, "put", A)
  BY <1>2, RecordsAdded
<1>5. Adds(t1, t2, "put", B)
  <2>1. IsLog(t1)
    BY <1>4 DEF Adds, Begins
  <2> HIDE DEF t1
  <2> QED BY <1>2, <2>1, RecordsAdded
<1>6. Adds(t2, t, "delete", C)
  <2>1. IsLog(t2)
    BY <1>5 DEF Adds, Begins
  <2> HIDE DEF t2
  <2> QED BY <1>2, <2>1, RecordsAdded
<1> HIDE DEF t1, t2, t
<1>7. /\ Len(s) \in Nat /\ Len(t1) \in Nat /\ Len(t2) \in Nat /\ Len(t) \in Nat
      /\ Len(s) <= Len(t1) /\ Len(t1) <= Len(t2) /\ Len(t2) <= Len(t)
      /\ \A i \in 1..Len(t1) : t2[i] = t1[i] /\ t[i] = t1[i]
      /\ \A i \in 1..Len(t2) : t[i] = t2[i]
      /\ Begins(s, t)
  <2>1. Begins(s, t1) /\ Begins(t1, t2) /\ Begins(t2, t)
    BY <1>4, <1>5, <1>6 DEF Adds
  <2>2. Begins(s, t2)
    BY <2>1, BeginsTransitive
  <2>3. Begins(s, t)
    BY <2>1, <2>2, BeginsTransitive
  <2> QED BY <2>1, <2>3 DEF Begins, IsLog
<1>8. \A i \in (Len(s) + 1)..Len(t1) : t[i] = Rec("put", t[i].of) /\ t[i].of \in A
  BY <1>4, <1>7 DEF Adds
<1>9. \A i \in (Len(t1) + 1)..Len(t2) : t[i] = Rec("put", t[i].of) /\ t[i].of \in B
  BY <1>5, <1>7 DEF Adds
<1>10. \A i \in (Len(t2) + 1)..Len(t) : t[i] = Rec("delete", t[i].of) /\ t[i].of \in C
  BY <1>6 DEF Adds
<1>11. \A i \in (Len(s) + 1)..Len(t) : \/ i \in (Len(s) + 1)..Len(t1)
                                       \/ i \in (Len(t1) + 1)..Len(t2)
                                       \/ i \in (Len(t2) + 1)..Len(t)
  BY <1>7
<1>12. \A i \in (Len(s) + 1)..Len(t) : \/ t[i] = Rec("put", t[i].of) /\ t[i].of \in Orphans(s)
                                       \/ t[i] = Rec("delete", t[i].of) /\ t[i].of \in Halfway(s)
  BY <1>3, <1>8, <1>9, <1>10, <1>11 DEF C
<1>13. /\ \A i, k \in (Len(s) + 1)..Len(t1) : t[i].of = t[k].of => i = k
       /\ \A i, k \in (Len(t1) + 1)..Len(t2) : t[i].of = t[k].of => i = k
       /\ \A i, k \in (Len(t2) + 1)..Len(t) : t[i].of = t[k].of => i = k
  <2>1. \A i, k \in (Len(s) + 1)..Len(t1) : t[i].of = t[k].of => i = k
    <3>1. \A i \in (Len(s) + 1)..Len(t1) : t[i] = t1[i]
      BY <1>7
    <3> QED BY <1>4, <3>1 DEF Adds
  <2>2. \A i, k \in (Len(t1) + 1)..Len(t2) : t[i].of = t[k].of => i = k
    <3>1. \A i \in (Len(t1) + 1)..Len(t2) : t[i] = t2[i]
      BY <1>7
    <3> QED BY <1>5, <3>1 DEF Adds
  <2>3. \A i, k \in (Len(t2) + 1)..Len(t) : t[i].of = t[k].of => i = k
    BY <1>6 DEF Adds
  <2> QED BY <2>1, <2>2, <2>3
<1>14. \A i, k \in (Len(s) + 1)..Len(t) : t[i].of = t[k].of => i = k
  BY <1>3, <1>8, <1>9, <1>10, <1>11, <1>13
<1>15. \A i, k \in (Len(s) + 1)..Len(t) : t[i].of \in Orphans(s) \cap Blob /\ t[k].of \in Orphans(s) \cap Job => i < k
  <2> SUFFICES ASSUME NEW i \in (Len(s) + 1)..Len(t), NEW k \in (Len(s) + 1)..Len(t),
                      t[i].of \in Orphans(s) \cap Blob, t[k].of \in Orphans(s) \cap Job
               PROVE  i < k
    OBVIOUS
  <2>1. t[i].of \in A /\ t[k].of \in B
    BY DEF A, B
  <2>2. i \in (Len(s) + 1)..Len(t1) /\ k \in (Len(t1) + 1)..Len(t2)
    BY <1>3, <1>8, <1>9, <1>10, <1>11, <2>1
  <2> QED BY <1>7, <2>2
<1>16. \A o \in Orphans(s) : \E i \in (Len(s) + 1)..Len(t) : t[i] = Rec("put", o)
  <2> SUFFICES ASSUME NEW o \in Orphans(s) PROVE \E i \in (Len(s) + 1)..Len(t) : t[i] = Rec("put", o)
    OBVIOUS
  <2>1. CASE o \in A
    <3>1. PICK i \in (Len(s) + 1)..Len(t1) : t1[i] = Rec("put", o)
      BY <1>4, <2>1 DEF Adds
    <3> QED BY <1>7, <3>1
  <2>2. CASE o \in B
    <3>1. PICK i \in (Len(t1) + 1)..Len(t2) : t2[i] = Rec("put", o)
      BY <1>5, <2>2 DEF Adds
    <3> QED BY <1>7, <3>1
  <2> QED BY <1>3, <2>1, <2>2
<1>17. \A o \in Halfway(s) : \E i \in (Len(s) + 1)..Len(t) : t[i] = Rec("delete", o)
  BY <1>6, <1>7 DEF Adds, C
<1>18. Mends(s, t)
  BY <1>7, <1>12, <1>14, <1>15, <1>16, <1>17 DEF Mends
<1> QED BY <1>1, <1>18

\* What the mended journal says of an object.
LEMMA MendedState ==
    ASSUME NEW s, NEW t, Mends(s, t), NEW o
    PROVE  ObjectState(t, o) = IF o \in Orphans(s) THEN "put"
                               ELSE IF o \in Halfway(s) THEN "delete" ELSE ObjectState(s, o)
<1> DEFINE new == (Len(s) + 1)..Len(t)
<1>1. /\ IsLog(s) /\ IsLog(t) /\ Len(s) \in Nat /\ Len(t) \in Nat /\ Begins(s, t)
      /\ DOMAIN t = 1..Len(t) /\ Len(s) <= Len(t)
  BY DEF Mends, Begins, IsLog
<1>2. ASSUME NEW i \in new, t[i].of = o, t[i].kind \in {"put", "delete"}
      PROVE  ObjectState(t, o) = t[i].kind
  <2>1. Names(t, o, i)
    BY <1>1, <1>2 DEF Names
  <2>2. ASSUME NEW k, Names(t, o, k) PROVE k <= i
    <3>1. k \in 1..Len(t)
      BY <1>1, <2>2 DEF Names
    <3>2. CASE k \in new
      BY <1>1, <1>2, <2>2, <3>2 DEF Mends, Names
    <3> QED BY <1>1, <3>1, <3>2
  <2>3. ObjectState(t, o) = Says(t[i])
    BY <1>1, <2>1, <2>2, NothingFollows
  <2> QED BY <1>2, <2>3 DEF Says
<1>3. CASE o \in Orphans(s)
  <2>1. PICK i \in new : t[i] = Rec("put", o)
    BY <1>3 DEF Mends
  <2> QED BY <1>2, <1>3, <2>1 DEF Rec
<1>4. CASE o \in Halfway(s) /\ o \notin Orphans(s)
  <2>1. PICK i \in new : t[i] = Rec("delete", o)
    BY <1>4 DEF Mends
  <2> QED BY <1>2, <1>4, <2>1 DEF Rec
<1>5. CASE o \notin Orphans(s) /\ o \notin Halfway(s)
  <2>1. \A i \in new : ~Names(t, o, i)
    BY <1>5 DEF Mends, Names
  <2>2. ObjectState(t, o) = ObjectState(s, o)
    BY <1>1, <2>1, StateStays
  <2> QED BY <1>5, <2>2
<1> QED BY <1>3, <1>4, <1>5

-----------------------------------------------------------------------------
(* Types *)

StepKinds == {"flush", "rename", "touch", "commit", "journal", "verify", "rejournal", "cancel", "write", "stamp",
              "register", "meta", "state", "intent", "unlink", "unmeta", "delete",
              "expire", "collect", "evict", "free"}
OfBlobs == {"rename", "commit", "journal", "cancel"}
OfJobs == {"write", "stamp", "register", "meta", "state"}

\* The steps that handlers put together: what is uploaded is a blob, what is
\* registered a job.
TypedSteps == {s \in Steps : (s.do \in OfBlobs => s.of \in Blob) /\ (s.do \in OfJobs => s.of \in Job)}

MemTypes == [intents : SUBSET Object, pending : SUBSET Object, unjournaled : SUBSET Blob,
             verifying : SUBSET Object, bytes : Int, broken : BOOLEAN]
Uploads == [Uploader -> [pc : {"idle", "stream", "duplicate"}, of : Blob]]

JournalTypes == journal \in Seq(Records) /\ tail \in {<<>>} \cup {<<r>> : r \in Records}
                  /\ mark \in 0..Len(journal)
DiskTypes == /\ disk \in [Node -> SUBSET Object] /\ meta \in [Node -> [Job -> Metas]]
             /\ mtime \in [Node -> [Blob -> 0..MaxNow]]
ProcessTypes == mem \in MemTypes /\ todo \in Seq(TypedSteps) /\ upload \in Uploads
OtherTypes == /\ mix \in Mixes /\ alive \in BOOLEAN /\ shipping \in BOOLEAN
              /\ now \in 1..MaxNow /\ faults \in 0..MaxFaults
              /\ gone \subseteq Object /\ arrived \subseteq Object

StoreTypes == JournalTypes /\ DiskTypes /\ ProcessTypes /\ OtherTypes

\* A step that a handler puts together is a typed step.
LEMMA TypedDo ==
    ASSUME NEW kind \in StepKinds, NEW o \in Object,
           kind \in OfBlobs => o \in Blob, kind \in OfJobs => o \in Job
    PROVE  Do(kind, o) \in TypedSteps
<1>1. NoMeta \in Metas
  BY StoreAssumption DEF NoMeta, Metas
<1> QED BY <1>1 DEF Do, TypedSteps, Steps, StepKinds

\* What is due of typed steps is typed.
LEMMA DueTyped ==
    ASSUME NEW steps \in Seq(TypedSteps)
    PROVE  Due(steps) \in Seq(TypedSteps)
BY DueIsNumbered

\* A deletion is a section of typed steps.
LEMMA DeleteTyped ==
    ASSUME NEW o \in Object
    PROVE  DeleteSteps(o) \in Seq(TypedSteps)
<1>1. /\ Do("flush", o) \in TypedSteps /\ Do("intent", o) \in TypedSteps /\ Do("unlink", o) \in TypedSteps
      /\ Do("unmeta", o) \in TypedSteps /\ Do("delete", o) \in TypedSteps
  BY TypedDo DEF StepKinds, OfBlobs, OfJobs
<1>2. /\ <<Do("flush", o), Do("intent", o), Do("unlink", o)>> \in Seq(TypedSteps)
      /\ (IF o \in Job THEN <<Do("unmeta", o)>> ELSE <<>>) \in Seq(TypedSteps)
      /\ <<Do("delete", o)>> \in Seq(TypedSteps)
  BY <1>1
<1> QED BY <1>2 DEF DeleteSteps

\* So are the steps that a registration makes for the blobs of the job.
LEMMA EachTyped ==
    ASSUME NEW kind \in {"journal", "cancel"}, NEW j \in Job
    PROVE  SetToSeq({Do(kind, b) : b \in Refs[j]}) \in Seq(TypedSteps)
<1> DEFINE S == {Do(kind, b) : b \in Refs[j]}
           f == [b \in Refs[j] |-> Do(kind, b)]
<1>1. Refs[j] \in SUBSET Blob /\ Refs[j] \in SUBSET Object
  BY StoreAssumption DEF Object
<1>2. IsFiniteSet(Refs[j])
  BY <1>1, FS_Subset, StoreAssumption
<1>3. f \in Surjection(Refs[j], S)
  BY DEF Surjection
<1>4. IsFiniteSet(S)
  BY <1>2, <1>3, FS_Surjection
<1>5. \A b \in Refs[j] : Do(kind, b) \in TypedSteps
  BY <1>1, TypedDo DEF StepKinds, OfBlobs, OfJobs
<1>6. S \subseteq TypedSteps
  BY <1>5
<1> HIDE DEF S
<1>7. SetToSeq(S) \in Seq(S)
  BY <1>4, SetToSeqIsBijective
<1> QED BY <1>6, <1>7 DEF S

\* A section that begins is typed.
LEMMA BeginTyped ==
    ASSUME NEW steps \in Seq(TypedSteps), Begin(steps)
    PROVE  todo' \in Seq(TypedSteps)
BY DueTyped DEF Begin

\* The types of a handler that only begins a section.
LEMMA OnlyBegins ==
    ASSUME StoreTypes, todo' \in Seq(TypedSteps),
           UNCHANGED <<mix, journal, tail, disk, meta, mtime, alive, mem, upload, net, now, faults, gone>>
    PROVE  StoreTypes'
BY DEF StoreTypes, JournalTypes, DiskTypes, ProcessTypes, OtherTypes, net

LEMMA HandlersTyped ==
    ASSUME StoreTypes,
           \/ \E u \in Uploader : \/ \E b \in Blob : PutBlob(u, b)
                                  \/ AcknowledgeDuplicate(u) \/ CommitBlob(u) \/ UploadFails(u)
           \/ \E j \in Job : RegisterManifest(j) \/ MarkTerminal(j) \/ SetPinned(j)
           \/ \E o \in Object : DeleteObject(o) \/ Rejournal(o) \/ Rejournaled(o)
           \/ Sweep \/ Maintain
    PROVE  StoreTypes'
<1> DEFINE Same == UNCHANGED <<journal, tail, disk, meta, mtime, net, mix, alive, now, faults, gone>>
<1>0. ASSUME Same, ProcessTypes' PROVE StoreTypes'
  BY <1>0 DEF StoreTypes, JournalTypes, DiskTypes, OtherTypes, net
<1>1. /\ Blob \subseteq Object /\ Job \subseteq Object
      /\ todo \in Seq(TypedSteps) /\ upload \in Uploads /\ mem \in MemTypes
      /\ disk["primary"] \subseteq Object
  BY DEF Object, StoreTypes, ProcessTypes, DiskTypes, Node
<1>2. ASSUME NEW u \in Uploader, NEW b \in Blob, PutBlob(u, b) PROVE StoreTypes'
  <2>1. Same /\ UNCHANGED <<todo, mem>>
    BY <1>2 DEF PutBlob
  <2>2. upload' \in Uploads
    BY <1>1, <1>2 DEF PutBlob, Uploads
  <2> QED BY <1>0, <1>1, <2>1, <2>2 DEF ProcessTypes
<1>3. ASSUME NEW u \in Uploader, AcknowledgeDuplicate(u) \/ CommitBlob(u) \/ UploadFails(u) PROVE StoreTypes'
  <2> DEFINE b == upload[u].of
  <2>1. Same /\ UNCHANGED mem
    BY <1>3 DEF AcknowledgeDuplicate, CommitBlob, UploadFails
  <2>2. upload' \in Uploads /\ b \in Blob
    BY <1>1, <1>3 DEF AcknowledgeDuplicate, CommitBlob, UploadFails, Uploads
  <2>3. todo' \in Seq(TypedSteps)
    <3> HIDE DEF b
    <3>1. /\ Do("flush", b) \in TypedSteps /\ Do("touch", b) \in TypedSteps /\ Do("journal", b) \in TypedSteps
          /\ Do("cancel", b) \in TypedSteps /\ Do("rename", b) \in TypedSteps /\ Do("commit", b) \in TypedSteps
      BY <1>1, <2>2, TypedDo DEF StepKinds, OfBlobs, OfJobs
    <3>2. /\ <<>> \in Seq(TypedSteps)
          /\ <<Do("touch", b), Do("journal", b), Do("cancel", b)>> \in Seq(TypedSteps)
          /\ <<Do("touch", b), Do("journal", b)>> \in Seq(TypedSteps)
          /\ <<Do("flush", b), Do("rename", b), Do("commit", b)>> \in Seq(TypedSteps)
      BY <3>1
    <3>3. CASE AcknowledgeDuplicate(u)
      <4>1. Begin(IF Intact(b) THEN <<Do("touch", b), Do("journal", b), Do("cancel", b)>> ELSE <<>>)
        BY <3>3 DEF AcknowledgeDuplicate, b
      <4> QED BY <3>2, <4>1, BeginTyped
    <3>4. CASE CommitBlob(u)
      <4>1. Begin(IF Intact(b) THEN <<Do("touch", b), Do("journal", b)>>
                  ELSE <<Do("flush", b), Do("rename", b), Do("commit", b)>>)
        BY <3>4 DEF CommitBlob, b
      <4> QED BY <3>2, <4>1, BeginTyped
    <3>5. CASE UploadFails(u)
      BY <1>1, <3>5 DEF UploadFails
    <3> QED BY <1>3, <3>3, <3>4, <3>5
  <2> QED BY <1>0, <1>1, <2>1, <2>2, <2>3 DEF ProcessTypes
<1>4. ASSUME NEW j \in Job, RegisterManifest(j) PROVE StoreTypes'
  <2> DEFINE each(do) == SetToSeq({Do(do, b) : b \in Refs[j]})
             steps == <<Do("flush", j)>> \o each("journal") \o each("cancel")
                        \o <<Do("write", j), Do("stamp", j), Do("register", j)>>
  <2>1. Begin(steps)
    BY <1>4 DEF RegisterManifest
  <2>2. UNCHANGED <<mix, journal, tail, disk, meta, mtime, alive, mem, upload, net, now, faults, gone>>
    BY <1>4 DEF RegisterManifest
  <2>3. /\ Do("flush", j) \in TypedSteps /\ Do("write", j) \in TypedSteps
        /\ Do("stamp", j) \in TypedSteps /\ Do("register", j) \in TypedSteps
    BY <1>1, TypedDo DEF StepKinds, OfBlobs, OfJobs
  <2>4. <<Do("flush", j)>> \in Seq(TypedSteps)
        /\ <<Do("write", j), Do("stamp", j), Do("register", j)>> \in Seq(TypedSteps)
    BY <2>3
  <2>5. each("journal") \in Seq(TypedSteps) /\ each("cancel") \in Seq(TypedSteps)
    BY EachTyped
  <2>6. steps \in Seq(TypedSteps)
    <3> HIDE DEF each
    <3> QED BY <2>4, <2>5
  <2> HIDE DEF steps
  <2> QED BY <2>1, <2>2, <2>6, BeginTyped, OnlyBegins
<1>5. ASSUME NEW j \in Job, NEW m, SetJobState(j, m), m \in Metas PROVE StoreTypes'
  <2> DEFINE old == meta["primary"][j]
             step(do) == [do |-> do, of |-> j, was |-> old, as |-> m]
  <2>1. Begin(<<Do("flush", j), step("meta"), step("state")>>)
    BY <1>5 DEF SetJobState
  <2>2. UNCHANGED <<mix, journal, tail, disk, meta, mtime, alive, mem, upload, net, now, faults, gone>>
    BY <1>5 DEF SetJobState
  <2>3. old \in Metas
    BY DEF StoreTypes, DiskTypes, Node
  <2>4. Do("flush", j) \in TypedSteps
    BY <1>1, TypedDo DEF StepKinds, OfBlobs, OfJobs
  <2>5. step("meta") \in TypedSteps /\ step("state") \in TypedSteps
    BY <1>1, <1>5, <2>3 DEF TypedSteps, Steps, OfBlobs, OfJobs
  <2> HIDE DEF step
  <2>6. <<Do("flush", j), step("meta"), step("state")>> \in Seq(TypedSteps)
    BY <2>4, <2>5
  <2> QED BY <2>1, <2>2, <2>6, BeginTyped, OnlyBegins
<1>6. ASSUME NEW j \in Job, MarkTerminal(j) \/ SetPinned(j) PROVE StoreTypes'
  <2>1. meta["primary"][j] \in Metas /\ now \in 1..MaxNow
    BY DEF StoreTypes, DiskTypes, OtherTypes, Node
  <2>2. [meta["primary"][j] EXCEPT !.terminal = now] \in Metas
        /\ [meta["primary"][j] EXCEPT !.pinned = ~@] \in Metas
    <3> DEFINE m == meta["primary"][j]
    <3>1. ASSUME NEW x \in 0..MaxNow PROVE [m EXCEPT !.terminal = x] \in Metas
      BY <2>1 DEF Metas
    <3>2. ASSUME NEW y \in BOOLEAN PROVE [m EXCEPT !.pinned = y] \in Metas
      BY <2>1 DEF Metas
    <3> HIDE DEF m
    <3>3. now \in 0..MaxNow
      BY <2>1
    <3>0. (~m.pinned) \in BOOLEAN
      OBVIOUS
    <3>4. [m EXCEPT !.terminal = now] \in Metas
      BY <3>1, <3>3
    <3>5. [m EXCEPT !.pinned = ~m.pinned] \in Metas
      BY <3>2, <3>0
    <3> QED BY <3>4, <3>5 DEF m
  <2> QED BY <1>5, <1>6, <2>2 DEF MarkTerminal, SetPinned
<1>7. ASSUME NEW o \in Object, DeleteObject(o) PROVE StoreTypes'
  <2>1. DeleteSteps(o) \in Seq(TypedSteps)
    BY DeleteTyped
  <2> QED BY <1>7, <2>1, BeginTyped, OnlyBegins DEF DeleteObject
<1>8. ASSUME NEW o \in Object, Rejournal(o) PROVE StoreTypes'
  <2>1. Do("flush", o) \in TypedSteps /\ Do("verify", o) \in TypedSteps
    BY TypedDo DEF StepKinds, OfBlobs, OfJobs
  <2>2. <<Do("flush", o), Do("verify", o)>> \in Seq(TypedSteps)
    BY <2>1
  <2> QED BY <1>8, <2>2, BeginTyped, OnlyBegins DEF Rejournal
<1>9. ASSUME NEW o \in Object, Rejournaled(o) PROVE StoreTypes'
  <2>1. Do("rejournal", o) \in TypedSteps
    BY TypedDo DEF StepKinds, OfBlobs, OfJobs
  <2>2. <<Do("rejournal", o)>> \in Seq(TypedSteps)
    BY <2>1
  <2>3. todo' \in Seq(TypedSteps)
    BY <1>9, <2>2, BeginTyped DEF Rejournaled
  <2>4. mem' \in MemTypes
    BY <1>1, <1>9 DEF Rejournaled, MemTypes
  <2> QED BY <1>0, <1>1, <1>9, <2>3, <2>4 DEF Rejournaled, ProcessTypes
<1>10. CASE Sweep
  <2> DEFINE pass == [i \in 1..3 |-> Do(<<"expire", "collect", "evict">>[i], CHOOSE o \in Object : TRUE)]
  <2>1. (CHOOSE o \in Object : TRUE) \in Object
    BY StoreAssumption DEF Object
  <2>2. \A i \in 1..3 : <<"expire", "collect", "evict">>[i] \in {"expire", "collect", "evict"}
    OBVIOUS
  <2>3. \A i \in 1..3 : Do(<<"expire", "collect", "evict">>[i], CHOOSE o \in Object : TRUE) \in TypedSteps
    BY <2>1, <2>2, TypedDo DEF StepKinds, OfBlobs, OfJobs
  <2>4. pass \in [1..3 -> TypedSteps]
    BY <2>3
  <2>5. pass \in Seq(TypedSteps)
    <3> HIDE DEF pass
    <3>1. PICK n \in Nat : n = 3
      OBVIOUS
    <3>2. pass \in [1..n -> TypedSteps]
      BY <2>4, <3>1
    <3> QED BY <3>2
  <2>6. Begin(pass)
    BY <1>10 DEF Sweep
  <2> HIDE DEF pass
  <2> QED BY <1>10, <2>5, <2>6, BeginTyped, OnlyBegins DEF Sweep
<1>11. CASE Maintain
  <2> DEFINE p == CHOOSE o \in mem.pending : TRUE
  <2>1. p \in Object
    BY <1>1, <1>11 DEF Maintain, MemTypes
  <2> HIDE DEF p
  <2>2. Do("flush", p) \in TypedSteps
    BY <2>1, TypedDo DEF StepKinds, OfBlobs, OfJobs
  <2>3. <<Do("flush", p)>> \in Seq(TypedSteps)
    BY <2>2
  <2>4. Begin(<<Do("flush", p)>>)
    BY <1>11 DEF Maintain, p
  <2> QED BY <1>11, <2>3, <2>4, BeginTyped, OnlyBegins DEF Maintain
<1> QED BY <1>2, <1>3, <1>4, <1>6, <1>7, <1>8, <1>9, <1>10, <1>11

\* What a step writes to the journal is a record.
LEMMA WrittenTyped ==
    ASSUME NEW s \in TypedSteps, s.do \in Appending
    PROVE  Written(s) \in Records
<1>1. /\ s.of \in Object /\ s.was \in Metas /\ s.as \in Metas /\ 0 \in 0..MaxNow /\ 1 \in 0..MaxNow
      /\ s.was.terminal \in 0..MaxNow /\ s.as.terminal \in 0..MaxNow
  BY StoreAssumption DEF TypedSteps, Steps, Metas
<1>2. CASE s.do = "state"
  BY <1>1, <1>2 DEF Written, Records
<1>3. CASE s.do # "state"
  BY <1>1, <1>3 DEF Written, Records, Rec, Appending
<1> QED BY <1>2, <1>3

\* A deletion record is a record.
LEMMA RecTyped ==
    ASSUME NEW kind \in {"put", "delete"}, NEW o \in Object
    PROVE  Rec(kind, o) \in Records
BY StoreAssumption DEF Rec, Records

\* Types survive the steps of a section.
LEMMA SectionTyped ==
    ASSUME StoreTypes, Step
    PROVE  StoreTypes'
<1> DEFINE s == Head(todo)
<1>1. /\ todo \in Seq(TypedSteps) /\ todo # <<>> /\ s \in TypedSteps /\ Tail(todo) \in Seq(TypedSteps)
      /\ mem \in MemTypes /\ journal \in Seq(Records) /\ disk \in [Node -> SUBSET Object]
      /\ meta \in [Node -> [Job -> Metas]] /\ mtime \in [Node -> [Blob -> 0..MaxNow]]
      /\ now \in 1..MaxNow /\ mark \in 0..Len(journal) /\ gone \subseteq Object
  BY DEF Step, StoreTypes, ProcessTypes, JournalTypes, DiskTypes, OtherTypes
<1>2. s.of \in Object /\ s.as \in Metas /\ (s.do \in OfBlobs => s.of \in Blob)
  BY <1>1 DEF TypedSteps, Steps
<1>3. UNCHANGED <<mix, tail, alive, upload, mark, shipping, arrived, now, faults>>
  BY DEF Step, net
<1>4. ASSUME journal' \in Seq(Records), Len(journal) <= Len(journal'), disk' \in [Node -> SUBSET Object],
             meta' \in [Node -> [Job -> Metas]], mtime' \in [Node -> [Blob -> 0..MaxNow]],
             mem' \in MemTypes, todo' \in Seq(TypedSteps), gone' \subseteq Object
      PROVE  StoreTypes'
  <2>1. mark' \in 0..Len(journal')
    BY <1>1, <1>3, <1>4
  <2> QED BY <1>3, <1>4, <2>1 DEF StoreTypes, ProcessTypes, JournalTypes, DiskTypes, OtherTypes
<1>5. ASSUME NEW r \in Records, journal' = Append(journal, r)
      PROVE  journal' \in Seq(Records) /\ Len(journal) <= Len(journal')
  BY <1>1, <1>5
<1>13. ASSUME NEW o PROVE [mtime EXCEPT !["primary"][o] = now] \in [Node -> [Blob -> 0..MaxNow]]
  <2>1. mtime["primary"] \in [Blob -> 0..MaxNow] /\ now \in 0..MaxNow
    BY <1>1 DEF Node
  <2>2. [mtime["primary"] EXCEPT ![o] = now] \in [Blob -> 0..MaxNow]
    BY <2>1
  <2> QED BY <1>1, <2>2
<1> HIDE DEF s
<1>6. CASE AppendRecord(s)
  <2>1. Written(s) \in Records
    BY <1>1, <1>6, WrittenTyped DEF AppendRecord
  <2>2. mem' \in MemTypes
    BY <1>1, <1>2, <1>6 DEF AppendRecord, Recorded, MemTypes
  <2> QED BY <1>1, <1>4, <1>5, <1>6, <2>1, <2>2 DEF AppendRecord, s
<1>7. CASE FlushOne(s)
  <2>1. PICK o \in mem.pending : /\ journal' = Append(journal, Rec("delete", o))
                                 /\ mem' = [mem EXCEPT !.pending = @ \ {o}]
                                 /\ todo' = IF mem.pending = {o} THEN Tail(todo) ELSE todo
    BY <1>7 DEF FlushOne
  <2>2. o \in Object /\ mem' \in MemTypes
    BY <1>1, <2>1 DEF MemTypes
  <2>3. Rec("delete", o) \in Records
    BY <2>2, RecTyped
  <2> QED BY <1>1, <1>4, <1>5, <1>7, <2>1, <2>2, <2>3 DEF FlushOne
<1>8. CASE StoreObject(s)
  <2>1. mem' \in MemTypes
    <3>1. mem' = [mem EXCEPT !.bytes = mem.bytes + 1] /\ mem.bytes + 1 \in Int
      BY <1>1, <1>8 DEF StoreObject, MemTypes
    <3> QED BY <1>1, <3>1 DEF MemTypes
  <2>2. disk' \in [Node -> SUBSET Object]
    BY <1>1, <1>2, <1>8 DEF StoreObject
  <2>3. mtime' \in [Node -> [Blob -> 0..MaxNow]]
    BY <1>1, <1>8, <1>13 DEF StoreObject
  <2> QED BY <1>1, <1>4, <1>8, <2>1, <2>2, <2>3 DEF StoreObject
<1>9. CASE UpdateMeta(s)
  <2>1. meta' \in [Node -> [Job -> Metas]]
    BY <1>1, <1>2, <1>9 DEF UpdateMeta
  <2> QED BY <1>1, <1>4, <1>9, <2>1 DEF UpdateMeta
<1>10. CASE Touch(s)
  <2>1. mem' \in MemTypes
    BY <1>1, <1>2, <1>10 DEF Touch, MemTypes
  <2>2. mtime' \in [Node -> [Blob -> 0..MaxNow]]
    BY <1>1, <1>10, <1>13 DEF Touch
  <2> QED BY <1>1, <1>4, <1>10, <2>1, <2>2 DEF Touch
<1>11. CASE Unlink(s)
  <2>1. mem' \in MemTypes
    <3>1. /\ mem' = [mem EXCEPT !.bytes = mem.bytes - 1, !.pending = mem.pending \cup {s.of}]
          /\ mem.bytes - 1 \in Int /\ mem.pending \cup {s.of} \in SUBSET Object
      BY <1>1, <1>2, <1>11 DEF Unlink, MemTypes
    <3> QED BY <1>1, <3>1 DEF MemTypes
  <2>2. disk' \in [Node -> SUBSET Object]
    BY <1>1, <1>11 DEF Unlink
  <2> QED BY <1>1, <1>4, <1>11, <2>1, <2>2 DEF Unlink
<1>12. CASE Retain(s)
  <2>1. todo' \in Seq(TypedSteps)
    <3>1. CASE Victims(s) = {} /\ todo' = Tail(todo)
      BY <1>1, <3>1
    <3>2. CASE \E o \in Victims(s) :
                  todo' = Due(DeleteSteps(o)) \o (IF s.do = "evict" THEN <<Do("free", o)>> ELSE <<>>) \o todo
      <4>1. PICK o \in Victims(s) :
               todo' = Due(DeleteSteps(o)) \o (IF s.do = "evict" THEN <<Do("free", o)>> ELSE <<>>) \o todo
        BY <3>2
      <4>2. disk["primary"] \subseteq Object
        BY <1>1 DEF Node
      <4>3. o \in Object
        BY <4>1, <4>2 DEF Victims, Expired, Unreferenced, Terminal
      <4>4. Due(DeleteSteps(o)) \in Seq(TypedSteps)
        BY <4>3, DeleteTyped, DueTyped
      <4>5. Do("free", o) \in TypedSteps
        BY <4>3, TypedDo DEF StepKinds, OfBlobs, OfJobs
      <4>6. (IF s.do = "evict" THEN <<Do("free", o)>> ELSE <<>>) \in Seq(TypedSteps)
        BY <4>5
      <4> QED BY <1>1, <4>1, <4>4, <4>6
    <3> QED BY <1>12, <3>1, <3>2 DEF Retain
  <2> QED BY <1>1, <1>4, <1>12, <2>1 DEF Retain
<1> QED BY <1>6, <1>7, <1>8, <1>9, <1>10, <1>11, <1>12 DEF Step, s

\* Types survive failed writes.
LEMMA FailuresTyped ==
    ASSUME StoreTypes, AppendFails \/ UnlinkFails
    PROVE  StoreTypes'
<1> DEFINE s == Head(todo)
<1>1. /\ todo \in Seq(TypedSteps) /\ todo # <<>> /\ s \in TypedSteps
      /\ mem \in MemTypes /\ disk \in [Node -> SUBSET Object]
      /\ meta \in [Node -> [Job -> Metas]] /\ faults \in 0..MaxFaults
      /\ tail \in {<<>>} \cup {<<r>> : r \in Records}
  BY DEF AppendFails, UnlinkFails, StoreTypes, ProcessTypes, JournalTypes, DiskTypes, OtherTypes
<1>2. s.of \in Object /\ s.was \in Metas /\ (s.do \in OfBlobs => s.of \in Blob)
  BY <1>1 DEF TypedSteps, Steps
<1>3. UNCHANGED <<mix, journal, mtime, alive, upload, mark, shipping, arrived, now, gone>> /\ todo' = <<>>
  BY DEF AppendFails, UnlinkFails, net
<1>4. ASSUME disk' \in [Node -> SUBSET Object], meta' \in [Node -> [Job -> Metas]], mem' \in MemTypes,
             faults' \in 0..MaxFaults, tail' \in {<<>>} \cup {<<r>> : r \in Records}
      PROVE  StoreTypes'
  BY <1>3, <1>4 DEF StoreTypes, ProcessTypes, JournalTypes, DiskTypes, OtherTypes
<1>5. ASSUME NEW kind, Fault(kind) PROVE faults' \in 0..MaxFaults
  BY <1>1, <1>5, StoreAssumption DEF Fault
<1>6. CASE UnlinkFails
  BY <1>1, <1>4, <1>5, <1>6 DEF UnlinkFails
<1>7. CASE AppendFails
  <2> HIDE DEF s
  <2> DEFINE broken == [mem EXCEPT !.broken = TRUE]
  <2>1. broken \in MemTypes
    BY <1>1 DEF MemTypes
  <2>2. ASSUME NEW after \in MemTypes, Undo(s, after)
        PROVE  disk' \in [Node -> SUBSET Object] /\ meta' \in [Node -> [Job -> Metas]] /\ mem' \in MemTypes
    <3>1. NoMeta \in Metas
      BY StoreAssumption DEF NoMeta, Metas
    <3>2. [after EXCEPT !.bytes = @ - 1] \in MemTypes
      BY DEF MemTypes
    <3>3. s.do = "commit" => [after EXCEPT !.unjournaled = @ \cup {s.of}] \in MemTypes
      BY <1>2 DEF MemTypes, OfBlobs
    <3>4. meta' \in [Node -> [Job -> Metas]]
      BY <1>1, <1>2, <2>2, <3>1 DEF Undo
    <3>5. disk' \in [Node -> SUBSET Object]
      BY <1>1, <2>2 DEF Undo
    <3>6. mem' \in MemTypes
      BY <2>2, <3>2, <3>3 DEF Undo
    <3> QED BY <3>4, <3>5, <3>6
  <2>3. /\ s.do \in Appending \cup {"flush"}
        /\ \/ mem.broken /\ UNCHANGED <<tail, faults>> /\ Undo(s, mem)
           \/ Fault("fail") /\ UNCHANGED tail /\ Undo(s, mem)
           \/ /\ Fault("fail") /\ tail' \in {<<>>} \cup {<<r>> : r \in IF "torn" \in mix THEN Unfinished(s) ELSE {}}
              /\ Undo(s, broken)
    BY <1>7 DEF AppendFails, s
  <2>4. CASE mem.broken /\ UNCHANGED <<tail, faults>> /\ Undo(s, mem)
    BY <1>1, <1>4, <2>2, <2>4
  <2>5. CASE Fault("fail") /\ UNCHANGED tail /\ Undo(s, mem)
    BY <1>1, <1>4, <1>5, <2>2, <2>5
  <2>6. CASE /\ Fault("fail") /\ tail' \in {<<>>} \cup {<<r>> : r \in IF "torn" \in mix THEN Unfinished(s) ELSE {}}
             /\ Undo(s, broken)
    <3>1. Unfinished(s) \subseteq Records
      <4>1. CASE s.do = "flush"
        <5>1. \A o \in mem.pending : o \in Object
          BY <1>1 DEF MemTypes
        <5> QED BY <4>1, <5>1, RecTyped DEF Unfinished
      <4>2. CASE s.do # "flush"
        BY <1>1, <2>3, <4>2, WrittenTyped DEF Unfinished
      <4> QED BY <4>1, <4>2
    <3>2. tail' \in {<<>>} \cup {<<r>> : r \in Records}
      BY <2>6, <3>1
    <3> QED BY <1>4, <1>5, <2>1, <2>2, <2>6, <3>2
  <2> QED BY <2>3, <2>4, <2>5, <2>6
<1> QED BY <1>6, <1>7

\* Types survive crashes, restarts, accidents and the passing of time.
LEMMA AccidentsTyped ==
    ASSUME StoreTypes, Crash \/ Restart \/ (\E o \in Object : Loss(o)) \/ Tick
    PROVE  StoreTypes'
<1>1. /\ todo \in Seq(TypedSteps) /\ upload \in Uploads /\ disk \in [Node -> SUBSET Object]
      /\ meta \in [Node -> [Job -> Metas]] /\ mtime \in [Node -> [Blob -> 0..MaxNow]]
      /\ journal \in Seq(Records) /\ mark \in 0..Len(journal) /\ now \in 1..MaxNow
      /\ tail \in {<<>>} \cup {<<r>> : r \in Records} /\ faults \in 0..MaxFaults
      /\ gone \subseteq Object
  BY DEF StoreTypes, ProcessTypes, JournalTypes, DiskTypes, OtherTypes
<1>2. ASSUME NEW s, NEW d, d \subseteq Object PROVE Boot(s, d) \in MemTypes
  <2>1. Cardinality(d) \in Int
    BY <1>2, FS_Subset, FS_CardinalityType, StoreAssumption
  <2> QED BY <2>1 DEF Boot, MemTypes
<1>3. [u \in Uploader |-> [upload[u] EXCEPT !.pc = "idle"]] \in Uploads
  BY <1>1 DEF Uploads
<1>4. ASSUME NEW kind, Fault(kind) PROVE faults' \in 0..MaxFaults
  BY <1>1, <1>4, StoreAssumption DEF Fault
<1>5. CASE Crash
  <2>1. mem' \in MemTypes /\ upload' \in Uploads /\ todo' = <<>> /\ alive' = FALSE /\ shipping' = FALSE
    BY <1>2, <1>3, <1>5 DEF Crash
  <2>2. faults' \in 0..MaxFaults /\ UNCHANGED <<mix, journal, tail, disk, meta, mtime, mark, arrived, now, gone>>
    BY <1>4, <1>5 DEF Crash
  <2>3. JournalTypes' /\ DiskTypes'
    BY <2>2 DEF StoreTypes, JournalTypes, DiskTypes
  <2>4. ProcessTypes'
    BY <2>1 DEF ProcessTypes
  <2>5. OtherTypes'
    BY <2>1, <2>2 DEF StoreTypes, OtherTypes
  <2> QED BY <2>3, <2>4, <2>5 DEF StoreTypes
<1>6. CASE Restart
  <2> DEFINE found == journal \o tail
  <2>1. mem' = Boot(found, disk["primary"]) /\ journal' = Reconciled(found) /\ alive' = TRUE /\ tail' = <<>>
        /\ upload' = [u \in Uploader |-> [upload[u] EXCEPT !.pc = "idle"]]
        /\ UNCHANGED <<mix, disk, meta, mtime, todo, mark, shipping, arrived, now, faults, gone>>
    BY <1>6 DEF Restart, net
  <2>2. disk["primary"] \subseteq Object
    BY <1>1 DEF Node
  <2>3. mem' \in MemTypes
    BY <1>2, <2>1, <2>2
  <2>4. tail \in Seq(Records)
    <3>1. ASSUME NEW r \in Records PROVE <<r>> \in Seq(Records)
      OBVIOUS
    <3>2. <<>> \in Seq(Records)
      OBVIOUS
    <3> QED BY <1>1, <3>1, <3>2
  <2>5. found \in Seq(Records) /\ Len(journal) <= Len(found)
    BY <1>1, <2>4
  <2> HIDE DEF found
  <2>6. IsLog(found)
    BY <2>5, SeqOfRange DEF IsLog
  <2>7. Mends(found, journal')
    BY <2>1, <2>2, <2>6, RestartMends
  <2>8. journal' \in Seq(Records) /\ Len(found) <= Len(journal')
    <3>1. /\ IsLog(journal') /\ Len(found) <= Len(journal') /\ Len(found) \in Nat /\ Len(journal') \in Nat
          /\ \A i \in 1..Len(found) : journal'[i] = found[i]
      BY <2>6, <2>7 DEF Mends, Begins, IsLog
    <3>2. ASSUME NEW i \in 1..Len(journal') PROVE journal'[i] \in Records
      <4>1. CASE i \in 1..Len(found)
        BY <2>5, <3>1, <4>1
      <4>2. CASE i \in (Len(found) + 1)..Len(journal')
        <5>1. /\ journal'[i].of \in Object
              /\ \/ journal'[i] = Rec("put", journal'[i].of)
                 \/ journal'[i] = Rec("delete", journal'[i].of)
          BY <2>2, <2>7, <4>2 DEF Mends, Orphans, Halfway
        <5> QED BY <5>1, RecTyped
      <4> QED BY <3>1, <4>1, <4>2
    <3>3. journal' \in Seq(Records)
      BY <3>1, <3>2 DEF IsLog
    <3> QED BY <3>1, <3>3
  <2>9. mark' \in 0..Len(journal')
    BY <1>1, <2>1, <2>5, <2>8
  <2> QED BY <1>1, <1>3, <2>1, <2>3, <2>8, <2>9 DEF StoreTypes, ProcessTypes, JournalTypes, DiskTypes, OtherTypes
<1>7. ASSUME NEW o \in Object, Loss(o) PROVE StoreTypes'
  <2>1. disk' \in [Node -> SUBSET Object] /\ gone' \subseteq Object /\ faults' \in 0..MaxFaults
    BY <1>1, <1>4, <1>7 DEF Loss
  <2> QED BY <1>7, <2>1 DEF Loss, net, StoreTypes, ProcessTypes, JournalTypes, DiskTypes, OtherTypes
<1>8. CASE Tick
  <2>1. now' \in 1..MaxNow
    BY <1>1, <1>8, StoreAssumption DEF Tick
  <2> QED BY <1>8, <2>1 DEF Tick, net, StoreTypes, ProcessTypes, JournalTypes, DiskTypes, OtherTypes
<1> QED BY <1>5, <1>6, <1>7, <1>8

\* Types survive the replicator and the replica.
LEMMA ReplicationTyped ==
    ASSUME StoreTypes, SkipRecord \/ ShipObject \/ ShipState \/ VerifyShipped \/ AnswerLost \/ ReplicaSweep
    PROVE  StoreTypes'
<1>1. /\ disk \in [Node -> SUBSET Object] /\ meta \in [Node -> [Job -> Metas]]
      /\ mtime \in [Node -> [Blob -> 0..MaxNow]] /\ journal \in Seq(Records)
      /\ mark \in 0..Len(journal) /\ now \in 1..MaxNow /\ faults \in 0..MaxFaults
      /\ arrived \subseteq Object /\ disk["primary"] \subseteq Object /\ disk["replica"] \subseteq Object
      /\ shipping \in BOOLEAN /\ "replica" \in Node
  BY DEF StoreTypes, ProcessTypes, JournalTypes, DiskTypes, OtherTypes, Node
<1>2. UNCHANGED <<mix, primary, now, gone>>
  BY DEF SkipRecord, ShipObject, ShipState, VerifyShipped, AnswerLost, ReplicaSweep
<1>3. ASSUME disk' \in [Node -> SUBSET Object], meta' \in [Node -> [Job -> Metas]],
             mtime' \in [Node -> [Blob -> 0..MaxNow]], mark' \in 0..Len(journal), shipping' \in BOOLEAN,
             arrived' \subseteq Object, faults' \in 0..MaxFaults
      PROVE  StoreTypes'
  BY <1>2, <1>3 DEF primary, StoreTypes, ProcessTypes, JournalTypes, DiskTypes, OtherTypes
<1>4. ASSUME Round
      PROVE  Next1 \in Records /\ mark + 1 \in 0..Len(journal) /\ Next1.of \in Object /\ Next1.val \in 0..MaxNow
  <2>1. mark + 1 \in 1..Len(journal)
    BY <1>1, <1>4 DEF Round
  <2>2. Next1 \in Records
    BY <1>1, <2>1 DEF Next1
  <2> QED BY <2>1, <2>2 DEF Records
<1>5. CASE SkipRecord
  BY <1>1, <1>3, <1>4, <1>5 DEF SkipRecord, Advance
<1>6. CASE ShipObject
  <2>1. NoMeta \in Metas
    BY StoreAssumption DEF NoMeta, Metas
  <2>2. PICK o \in disk["primary"] :
               /\ disk' = [disk EXCEPT !["replica"] = @ \cup {o}]
               /\ mtime' = IF o \in Blob THEN [mtime EXCEPT !["replica"][o] = now] ELSE mtime
               /\ meta' = IF o \in Job \ disk["replica"] THEN [meta EXCEPT !["replica"][o] = NoMeta] ELSE meta
               /\ shipping' \in BOOLEAN
    BY <1>6, Zenon DEF ShipObject
  <2>3. disk' \in [Node -> SUBSET Object]
    BY <1>1, <2>2
  <2>4. mtime' \in [Node -> [Blob -> 0..MaxNow]]
    BY <1>1, <2>2
  <2>5. meta' \in [Node -> [Job -> Metas]]
    BY <1>1, <2>1, <2>2
  <2> QED BY <1>1, <1>3, <1>6, <2>2, <2>3, <2>4, <2>5 DEF ShipObject
<1>7. CASE ShipState
  <2>1. ASSUME NEW m \in Metas PROVE Round => MetaWith(m, Next1) \in Metas
    <3>1. m.terminal \in 0..MaxNow
      BY DEF Metas
    <3>2. ASSUME NEW y \in BOOLEAN PROVE [m EXCEPT !.pinned = y] \in Metas
      BY DEF Metas
    <3>3. (Next1.val = 1) \in BOOLEAN
      OBVIOUS
    <3>4. [m EXCEPT !.pinned = (Next1.val = 1)] \in Metas
      BY <3>2, <3>3
    <3>5. Round => [m EXCEPT !.terminal = Next1.val] \in Metas
      BY <1>4 DEF Metas
    <3> QED BY <3>4, <3>5, Zenon DEF MetaWith
  <2>2. Round /\ meta' = [meta EXCEPT !["replica"][Next1.of] = MetaWith(@, Next1)]
    BY <1>7 DEF ShipState
  <2>3. meta' \in [Node -> [Job -> Metas]]
    <3> DEFINE o == Next1.of
    <3>1. CASE o \in Job
      <4>1. meta["replica"][o] \in Metas
        BY <1>1, <3>1
      <4>2. MetaWith(meta["replica"][o], Next1) \in Metas
        BY <2>1, <2>2, <4>1
      <4> QED BY <1>1, <2>2, <4>2
    <3>2. CASE o \notin Job
      BY <1>1, <2>2, <3>2
    <3> QED BY <3>1, <3>2
  <2> QED BY <1>1, <1>3, <1>7, <2>3 DEF ShipState
<1>8. CASE VerifyShipped
  <2>1. Round
    BY <1>8 DEF VerifyShipped
  <2>2. mark' \in 0..Len(journal) /\ arrived' \subseteq Object /\ shipping' \in BOOLEAN
    BY <1>1, <1>4, <1>8, <2>1 DEF VerifyShipped, Advance
  <2> QED BY <1>1, <1>3, <1>8, <2>2 DEF VerifyShipped
<1>9. CASE AnswerLost
  <2>1. faults' \in 0..MaxFaults
    BY <1>1, <1>9, StoreAssumption DEF AnswerLost, Fault
  <2> QED BY <1>1, <1>3, <1>9, <2>1 DEF AnswerLost
<1>10. CASE ReplicaSweep
  <2>1. UNCHANGED <<mtime, mark, shipping, arrived, faults>>
    BY <1>10 DEF ReplicaSweep, net
  <2>2. disk' \in [Node -> SUBSET Object]
    BY <1>1, <1>10 DEF ReplicaSweep
  <2>3. meta' \in [Node -> [Job -> Metas]]
    <3>1. NoMeta \in Metas
      BY StoreAssumption DEF NoMeta, Metas
    <3>2. PICK E : meta' = [meta EXCEPT !["replica"] = [j \in Job |-> IF j \in E THEN NoMeta ELSE meta["replica"][j]]]
      BY <1>10 DEF ReplicaSweep
    <3>3. [j \in Job |-> IF j \in E THEN NoMeta ELSE meta["replica"][j]] \in [Job -> Metas]
      BY <1>1, <3>1
    <3> QED BY <1>1, <3>2, <3>3
  <2> QED BY <1>1, <1>3, <2>1, <2>2, <2>3
<1> QED BY <1>5, <1>6, <1>7, <1>8, <1>9, <1>10

\* Every variable keeps its type.
LEMMA TypesStep ==
    ASSUME StoreTypes, [StoreNext]_vars
    PROVE  StoreTypes'
<1>1. CASE UNCHANGED vars
  BY <1>1 DEF vars, net, StoreTypes, ProcessTypes, JournalTypes, DiskTypes, OtherTypes
<1>2. CASE StoreNext
  BY <1>2, HandlersTyped, SectionTyped, FailuresTyped, AccidentsTyped, ReplicationTyped DEF StoreNext
<1> QED BY <1>1, <1>2

LEMMA TypesInit ==
    ASSUME StoreInit
    PROVE  StoreTypes
<1>1. /\ journal = <<>> /\ tail = <<>> /\ disk = [n \in Node |-> {}] /\ todo = <<>>
      /\ mark = 0 /\ shipping = FALSE /\ now = 1 /\ faults = 0 /\ gone = {} /\ arrived = {}
      /\ alive = TRUE /\ mix \in Mixes
  BY DEF StoreInit
<1>2. meta \in [Node -> [Job -> Metas]] /\ mtime \in [Node -> [Blob -> 0..MaxNow]]
  <2>1. NoMeta \in Metas /\ 0 \in 0..MaxNow
    BY StoreAssumption DEF NoMeta, Metas
  <2> QED BY <2>1 DEF StoreInit
<1>3. mem \in MemTypes
  <2>1. Cardinality({}) = 0
    BY FS_EmptySet
  <2> QED BY <2>1 DEF StoreInit, Boot, MemTypes
<1>4. upload \in Uploads
  <2>1. (CHOOSE b \in Blob : TRUE) \in Blob
    BY StoreAssumption
  <2> QED BY <2>1 DEF StoreInit, Uploads
<1>5. JournalTypes
  BY <1>1 DEF JournalTypes
<1>6. DiskTypes
  BY <1>1, <1>2 DEF DiskTypes
<1>7. ProcessTypes
  BY <1>1, <1>3, <1>4 DEF ProcessTypes
<1>8. OtherTypes
  <2>1. now \in 1..MaxNow /\ faults \in 0..MaxFaults
    BY <1>1, StoreAssumption
  <2> QED BY <1>1, <2>1 DEF OtherTypes
<1> QED BY <1>5, <1>6, <1>7, <1>8 DEF StoreTypes

-----------------------------------------------------------------------------
(* The sections of the event loop *)

Primary == disk["primary"]
State(o) == ObjectState(journal, o)

Placing == {"rename", "write"}
Closing == {"commit", "register"}
Retaining == {"expire", "collect", "evict", "free"}
Speaking == {"journal", "cancel", "rejournal", "verify", "intent"}

Before(t, i, kinds) == \E k \in 1..(i - 1) : t[k].do \in kinds /\ t[k].of = t[i].of
After(t, i, kind) == \E k \in (i + 1)..Len(t) : t[k].do = kind /\ t[k].of = t[i].of

\* What a step of section t relies on, now or by a step that comes first: an object is
\* placed where there is none and after the pending deletions, recorded when it is in
\* place, unlinked with an intent, and its deletion recorded when it is unlinked.
StepIsSound(t, i) ==
    LET s == t[i]
    IN  /\ s.do = "flush" => i = 1
        /\ s.do \in Placing => /\ s.of \notin Primary
                               /\ mem.pending = {} \/ \E k \in 1..(i - 1) : t[k].do = "flush"
        /\ s.do \in Closing => s.of \in Primary \/ Before(t, i, Placing)
        /\ s.do = "unlink" => /\ s.of \in Primary /\ s.of \notin mem.verifying
                              /\ State(s.of) = "intent" \/ Before(t, i, {"intent"})
        /\ s.do \in {"unmeta", "delete"} => \/ s.of \in mem.pending /\ t[1].do # "flush"
                                            \/ Before(t, i, {"unlink"})
        /\ s.do \in Speaking => s.of \notin mem.pending
        /\ s.do = "commit" => i = 1 \/ Before(t, i, {"rename"})
        /\ s.do = "register" => Before(t, i, {"write"}) \/ \A k \in 1..(i - 1) : t[k].do = "stamp"
        /\ s.do \in {"write", "stamp"} => After(t, i, "register")
        /\ s.do = "rename" => After(t, i, "commit")

\* The order of two steps of a section.
InOrder(t) ==
    \A i, k \in DOMAIN t : i < k =>
        /\ t[i].do = "rename" => t[k].do \in {"commit"} \cup Retaining
        /\ t[i].do = "write" => t[k].do \in {"stamp", "register"} \cup Retaining
        /\ t[i].do = "intent" => t[k].do \in {"unlink", "unmeta", "delete"} \cup Retaining
        /\ t[i].do = "unlink" => t[k].do \in {"unmeta", "delete"} \cup Retaining
        /\ t[i].do \in Closing \cup {"delete"} \cup Retaining => t[k].do \in Retaining
        /\ t[k].do = "unlink" => t[i].do \in {"flush", "intent"}
        /\ t[k].do = "meta" => t[i].do = "flush"

Section(t) == InOrder(t) /\ \A i \in DOMAIN t : StepIsSound(t, i)

Flushes(t) == t # <<>> /\ Head(t).do = "flush" => mem.pending # {}

\* What is due of a section is a section.
LEMMA SectionDue ==
    ASSUME NEW steps \in Seq(TypedSteps), Section(steps)
    PROVE  Section(Due(steps)) /\ Flushes(Due(steps))
<1> DEFINE t == Due(steps)
           due == {i \in DOMAIN steps : ~Idle(steps[i])}
<1>1. t \in Seq(TypedSteps) /\ steps \in Seq(TypedSteps)
  BY DueTyped
<1>2. PICK f : Numbers(f, steps)
  BY DueIsNumbered
<1> HIDE DEF t
<1>3. /\ f \in [DOMAIN t -> due] /\ \A m, n \in DOMAIN t : m < n => f[m] < f[n]
      /\ \A i \in due : \E n \in DOMAIN t : f[n] = i
      /\ \A n \in DOMAIN t : t[n] = steps[f[n]]
  BY <1>2, Zenon DEF Numbers, t
<1>4. /\ DOMAIN t = 1..Len(t) /\ DOMAIN steps = 1..Len(steps) /\ Len(t) \in Nat /\ Len(steps) \in Nat
      /\ due \subseteq 1..Len(steps)
  BY <1>1
<1>5. \A i \in DOMAIN t : f[i] \in 1..Len(steps) /\ ~Idle(steps[f[i]])
  BY <1>3, <1>4
<1>6. \A i, n \in DOMAIN t : f[n] < f[i] => n < i
  <2> SUFFICES ASSUME NEW i \in DOMAIN t, NEW n \in DOMAIN t, f[n] < f[i], ~(n < i) PROVE FALSE
    OBVIOUS
  <2>1. i = n \/ i < n
    BY <1>4
  <2>2. f[i] \in Nat /\ f[n] \in Nat
    BY <1>5
  <2> QED BY <1>3, <2>1, <2>2
<1>7. ASSUME NEW i \in DOMAIN t, NEW k \in 1..(f[i] - 1), ~Idle(steps[k])
      PROVE  \E n \in 1..(i - 1) : t[n] = steps[k]
  <2>1. k \in due /\ k < f[i]
    BY <1>4, <1>5, <1>7
  <2>2. PICK n \in DOMAIN t : f[n] = k
    BY <1>3, <2>1
  <2>3. n < i
    BY <1>6, <2>1, <2>2
  <2>4. t[n] = steps[k] /\ n \in 1..(i - 1)
    BY <1>3, <1>4, <2>2, <2>3
  <2> QED BY <2>4
<1>8. ASSUME NEW i \in DOMAIN t, NEW k \in (f[i] + 1)..Len(steps), ~Idle(steps[k])
      PROVE  \E n \in (i + 1)..Len(t) : t[n] = steps[k]
  <2>1. k \in due /\ f[i] < k
    BY <1>4, <1>5, <1>8
  <2>2. PICK n \in DOMAIN t : f[n] = k
    BY <1>3, <2>1
  <2>3. i < n
    BY <1>6, <2>1, <2>2
  <2> QED BY <1>3, <1>4, <2>2, <2>3
<1>9. ASSUME NEW i \in DOMAIN t, NEW kinds \in SUBSET {"rename", "write", "intent", "unlink"},
             Before(steps, f[i], kinds)
      PROVE  Before(t, i, kinds)
  <2>1. PICK k \in 1..(f[i] - 1) : steps[k].do \in kinds /\ steps[k].of = steps[f[i]].of
    BY <1>9 DEF Before
  <2>2. ~Idle(steps[k])
    BY <2>1 DEF Idle
  <2>3. PICK n \in 1..(i - 1) : t[n] = steps[k]
    BY <1>7, <2>2
  <2> QED BY <1>3, <2>1, <2>3 DEF Before
<1>10. InOrder(t)
  BY <1>3, <1>5 DEF Section, InOrder
<1>11. ASSUME NEW i \in DOMAIN t PROVE StepIsSound(t, i)
  <2> DEFINE s == t[i]
  <2>1. StepIsSound(steps, f[i]) /\ s = steps[f[i]] /\ f[i] \in 1..Len(steps)
    BY <1>3, <1>4, <1>5 DEF Section
  <2> HIDE DEF s
  <2>2. s.do = "flush" => i = 1
    <3> SUFFICES ASSUME s.do = "flush", i # 1 PROVE FALSE
      OBVIOUS
    <3>1. 1 \in DOMAIN t /\ 1 < i
      BY <1>4
    <3>2. f[1] < f[i] /\ f[1] \in 1..Len(steps)
      BY <1>3, <1>5, <3>1
    <3> QED BY <2>1, <3>2 DEF StepIsSound
  <2>3. s.do \in Placing => s.of \notin Primary /\ (mem.pending = {} \/ \E k \in 1..(i - 1) : t[k].do = "flush")
    <3> SUFFICES ASSUME s.do \in Placing, mem.pending # {}
                 PROVE  s.of \notin Primary /\ \E k \in 1..(i - 1) : t[k].do = "flush"
      BY <2>1 DEF StepIsSound
    <3>1. s.of \notin Primary /\ \E k \in 1..(f[i] - 1) : steps[k].do = "flush"
      BY <2>1 DEF StepIsSound
    <3>2. PICK k \in 1..(f[i] - 1) : steps[k].do = "flush"
      BY <3>1
    <3>3. ~Idle(steps[k])
      BY <3>2 DEF Idle
    <3> QED BY <1>7, <3>1, <3>2, <3>3
  <2>4. s.do \in Closing => s.of \in Primary \/ Before(t, i, Placing)
    BY <1>9, <2>1 DEF StepIsSound, Placing
  <2>5. s.do = "unlink" => /\ s.of \in Primary /\ s.of \notin mem.verifying
                           /\ State(s.of) = "intent" \/ Before(t, i, {"intent"})
    BY <1>9, <2>1 DEF StepIsSound
  <2>6. s.do \in {"unmeta", "delete"} => \/ s.of \in mem.pending /\ t[1].do # "flush"
                                         \/ Before(t, i, {"unlink"})
    <3> SUFFICES ASSUME s.do \in {"unmeta", "delete"}, ~Before(steps, f[i], {"unlink"})
                 PROVE  s.of \in mem.pending /\ t[1].do # "flush"
      BY <1>9
    <3>1. s.of \in mem.pending /\ steps[1].do # "flush"
      BY <2>1 DEF StepIsSound
    <3>2. 1 \in DOMAIN t /\ f[1] \in 1..Len(steps) /\ t[1] = steps[f[1]]
      BY <1>3, <1>4, <1>5
    <3>3. t[1].do = "flush" => f[1] = 1
      BY <1>4, <3>2 DEF Section, StepIsSound
    <3> QED BY <3>1, <3>2, <3>3
  <2>7. s.do \in Speaking => s.of \notin mem.pending
    BY <2>1 DEF StepIsSound
  <2>8. s.do = "commit" => i = 1 \/ Before(t, i, {"rename"})
    <3> SUFFICES ASSUME s.do = "commit", i # 1 PROVE Before(t, i, {"rename"})
      OBVIOUS
    <3>1. 1 \in DOMAIN t /\ 1 < i
      BY <1>4
    <3>2. f[1] < f[i] /\ f[1] \in 1..Len(steps)
      BY <1>3, <1>5, <3>1
    <3> QED BY <1>9, <2>1, <3>2 DEF StepIsSound
  <2>9. s.do = "register" => Before(t, i, {"write"}) \/ \A k \in 1..(i - 1) : t[k].do = "stamp"
    <3> SUFFICES ASSUME s.do = "register", ~Before(steps, f[i], {"write"}), NEW k \in 1..(i - 1)
                 PROVE  t[k].do = "stamp"
      BY <1>9
    <3>1. k \in DOMAIN t /\ k < i
      BY <1>4
    <3>2. f[k] \in 1..(f[i] - 1) /\ t[k] = steps[f[k]]
      BY <1>3, <1>5, <3>1
    <3> QED BY <2>1, <3>2 DEF StepIsSound
  <2>10. ASSUME NEW kind \in {"register", "commit"}, After(steps, f[i], kind) PROVE After(t, i, kind)
    <3>1. PICK k \in (f[i] + 1)..Len(steps) : steps[k].do = kind /\ steps[k].of = s.of
      BY <2>1, <2>10 DEF After
    <3>2. ~Idle(steps[k])
      BY <3>1 DEF Idle
    <3>3. PICK n \in (i + 1)..Len(t) : t[n] = steps[k]
      BY <1>8, <3>2
    <3> QED BY <3>1, <3>3 DEF After, s
  <2>11. /\ s.do \in {"write", "stamp"} => After(t, i, "register")
         /\ s.do = "rename" => After(t, i, "commit")
    BY <2>1, <2>10 DEF StepIsSound
  <2> QED BY <2>2, <2>3, <2>4, <2>5, <2>6, <2>7, <2>8, <2>9, <2>11 DEF StepIsSound, s
<1>12. Flushes(t)
  <2> SUFFICES ASSUME t # <<>>, Head(t).do = "flush", mem.pending = {} PROVE FALSE
    BY DEF Flushes
  <2>1. 1 \in DOMAIN t /\ t[1].do = "flush"
    BY <1>1
  <2> QED BY <1>3, <1>5, <2>1 DEF Idle
<1> QED BY <1>10, <1>11, <1>12 DEF Section, t

\* Steps of a retention pass may follow any section.
LEMMA SectionThenRetention ==
    ASSUME NEW a \in Seq(TypedSteps), Section(a), Flushes(a),
           NEW b \in Seq(TypedSteps), \A i \in DOMAIN b : b[i].do \in Retaining
    PROVE  Section(a \o b) /\ Flushes(a \o b)
<1> DEFINE t == a \o b
<1>1. /\ t \in Seq(TypedSteps) /\ Len(a) \in Nat /\ Len(t) = Len(a) + Len(b) /\ Len(b) \in Nat
      /\ DOMAIN a = 1..Len(a) /\ DOMAIN t = 1..Len(t)
      /\ \A i \in 1..Len(a) : t[i] = a[i]
      /\ \A i \in (Len(a) + 1)..Len(t) : t[i].do \in Retaining
  OBVIOUS
<1> HIDE DEF t
<1>2. InOrder(t)
  <2> SUFFICES ASSUME NEW i \in DOMAIN t, NEW k \in DOMAIN t, i < k
               PROVE  /\ t[i].do = "rename" => t[k].do \in {"commit"} \cup Retaining
                      /\ t[i].do = "write" => t[k].do \in {"stamp", "register"} \cup Retaining
                      /\ t[i].do = "intent" => t[k].do \in {"unlink", "unmeta", "delete"} \cup Retaining
                      /\ t[i].do = "unlink" => t[k].do \in {"unmeta", "delete"} \cup Retaining
                      /\ t[i].do \in Closing \cup {"delete"} \cup Retaining => t[k].do \in Retaining
                      /\ t[k].do = "unlink" => t[i].do \in {"flush", "intent"}
                      /\ t[k].do = "meta" => t[i].do = "flush"
    BY DEF InOrder
  <2>1. CASE k \in 1..Len(a)
    <3>1. i \in 1..Len(a) /\ t[i] = a[i] /\ t[k] = a[k]
      BY <1>1, <2>1
    <3> QED BY <1>1, <2>1, <3>1 DEF Section, InOrder
  <2>2. CASE k \notin 1..Len(a)
    <3>1. t[k].do \in Retaining
      BY <1>1, <2>2
    <3> QED BY <3>1 DEF Retaining, Placing
  <2> QED BY <2>1, <2>2
<1>3. ASSUME NEW i \in DOMAIN t PROVE StepIsSound(t, i)
  <2>1. CASE i \in 1..Len(a)
    <3>1. StepIsSound(a, i) /\ t[i] = a[i] /\ t[1] = a[1] /\ \A k \in 1..(i - 1) : t[k] = a[k]
      BY <1>1, <2>1 DEF Section
    <3>2. \A k \in (i + 1)..Len(a) : k \in (i + 1)..Len(t) /\ t[k] = a[k]
      BY <1>1, <2>1
    <3>3. \A kinds : Before(a, i, kinds) => Before(t, i, kinds)
      BY <3>1 DEF Before
    <3>4. \A kind : After(a, i, kind) => After(t, i, kind)
      BY <3>1, <3>2 DEF After
    <3> QED BY <3>1, <3>3, <3>4 DEF StepIsSound
  <2>2. CASE i \notin 1..Len(a)
    <3>1. t[i].do \in Retaining
      BY <1>1, <2>2
    <3> QED BY <3>1 DEF StepIsSound, Retaining, Placing, Closing, Speaking
  <2> QED BY <2>1, <2>2
<1>4. Flushes(t)
  <2> SUFFICES ASSUME t # <<>>, Head(t).do = "flush" PROVE mem.pending # {}
    BY DEF Flushes
  <2>1. 1 \in DOMAIN t /\ t[1].do = "flush"
    BY <1>1
  <2>2. 1 \in 1..Len(a)
    BY <1>1, <2>1 DEF Retaining
  <2>3. a # <<>> /\ Head(a).do = "flush"
    BY <1>1, <2>1, <2>2
  <2> QED BY <2>3 DEF Flushes
<1> QED BY <1>2, <1>3, <1>4 DEF Section, t

\* What a step does to the rest of its section: objects appear only where they are
\* placed, vanish only where they are unlinked, and deletions are pending from the
\* unlink on, until a flush or their own record.
LEMMA SectionGoesOn ==
    ASSUME StoreTypes, todo # <<>>, Section(todo), todo' = Tail(todo),
           \A o \in mem.pending : o \notin Primary,
           LET s == Head(todo)
           IN  /\ \A o : o \in Primary' => o \in Primary \/ (s.do \in Placing /\ o = s.of)
               /\ \A o : o \in Primary => o \in Primary' \/ s.do = "unlink"
               /\ s.do \in Placing => s.of \in Primary'
               /\ \A o : o \in mem'.pending => o \in mem.pending \/ (s.do = "unlink" /\ o = s.of)
               /\ \A o : o \in mem.pending => o \in mem'.pending \/ s.do = "flush" \/ (s.do = "delete" /\ o = s.of)
               /\ s.do = "flush" => mem'.pending = {}
               /\ s.do = "unlink" => s.of \in mem'.pending
               /\ s.do \in {"flush", "intent"} => mem'.verifying = mem.verifying
               /\ s.do \in {"flush", "intent"} => \A o : \/ ObjectState(journal', o) = State(o)
                                                         \/ s.do = "flush" /\ o \in mem.pending
                                                         \/ s.do = "intent" /\ o = s.of
               /\ s.do = "intent" => ObjectState(journal', s.of) = "intent"
    PROVE  Section(todo)' /\ Flushes(todo)'
<1> DEFINE s == Head(todo)  t == Tail(todo)
<1>1. /\ todo \in Seq(TypedSteps) /\ s = todo[1] /\ Len(todo) \in Nat \ {0} /\ DOMAIN todo = 1..Len(todo)
      /\ t \in Seq(TypedSteps) /\ Len(t) = Len(todo) - 1 /\ DOMAIN t = 1..Len(t)
      /\ \A i \in 1..Len(t) : t[i] = todo[i + 1] /\ i + 1 \in 1..Len(todo)
      /\ \A k \in 2..Len(todo) : todo[k] = t[k - 1]
  BY DEF StoreTypes, ProcessTypes
<1>2. todo' = t
  OBVIOUS
<1> HIDE DEF s, t
<1>3. InOrder(t)
  <2> SUFFICES ASSUME NEW i \in DOMAIN t, NEW k \in DOMAIN t, i < k
               PROVE  /\ t[i].do = "rename" => t[k].do \in {"commit"} \cup Retaining
                      /\ t[i].do = "write" => t[k].do \in {"stamp", "register"} \cup Retaining
                      /\ t[i].do = "intent" => t[k].do \in {"unlink", "unmeta", "delete"} \cup Retaining
                      /\ t[i].do = "unlink" => t[k].do \in {"unmeta", "delete"} \cup Retaining
                      /\ t[i].do \in Closing \cup {"delete"} \cup Retaining => t[k].do \in Retaining
                      /\ t[k].do = "unlink" => t[i].do \in {"flush", "intent"}
                      /\ t[k].do = "meta" => t[i].do = "flush"
    BY DEF InOrder
  <2>1. i + 1 \in DOMAIN todo /\ k + 1 \in DOMAIN todo /\ i + 1 < k + 1 /\ t[i] = todo[i + 1] /\ t[k] = todo[k + 1]
    BY <1>1
  <2> QED BY <2>1 DEF Section, InOrder
<1>4. InOrder(todo)'
  BY <1>2, <1>3 DEF InOrder
<1>5. ASSUME NEW i \in 1..Len(t), NEW kinds, Before(todo, i + 1, kinds)
      PROVE  Before(t, i, kinds) \/ (s.do \in kinds /\ s.of = t[i].of)
  <2>1. PICK k \in 1..i : todo[k].do \in kinds /\ todo[k].of = todo[i + 1].of
    BY <1>1, <1>5 DEF Before
  <2>2. CASE k = 1
    BY <1>1, <2>1, <2>2
  <2>3. CASE k # 1
    <3>1. k - 1 \in 1..(i - 1) /\ t[k - 1] = todo[k]
      BY <1>1, <2>3
    <3> QED BY <1>1, <2>1, <3>1 DEF Before
  <2> QED BY <2>2, <2>3
<1>6. ASSUME NEW i \in 1..Len(t), NEW kind, After(todo, i + 1, kind)
      PROVE  After(t, i, kind)
  <2>1. PICK k \in (i + 2)..Len(todo) : todo[k].do = kind /\ todo[k].of = todo[i + 1].of
    BY <1>1, <1>6 DEF After
  <2>2. k - 1 \in (i + 1)..Len(t) /\ t[k - 1] = todo[k]
    BY <1>1, <2>1
  <2> QED BY <1>1, <2>1, <2>2 DEF After
<1>7. ASSUME NEW i \in 1..Len(t)
      PROVE  /\ t[i].do # "flush"
             /\ t[i].do = "unlink" => s.do \in {"flush", "intent"}
             /\ s.do = "unlink" => t[i].do \in {"unmeta", "delete"} \cup Retaining
             /\ s.do \in {"delete"} \cup Retaining => t[i].do \in Retaining
             /\ s.do = "rename" => t[i].do \in {"commit"} \cup Retaining
             /\ s.do = "write" => t[i].do \in {"stamp", "register"} \cup Retaining
  <2>1. i + 1 \in DOMAIN todo /\ 1 \in DOMAIN todo /\ 1 < i + 1 /\ t[i] = todo[i + 1]
    BY <1>1
  <2>2. StepIsSound(todo, i + 1)
    BY <2>1 DEF Section
  <2>3. t[i].do # "flush"
    BY <2>1, <2>2 DEF StepIsSound
  <2> QED BY <1>1, <2>1, <2>3 DEF Section, InOrder, Closing
<1>8. ASSUME NEW i \in 1..Len(t) PROVE StepIsSound(todo, i)'
  <2> DEFINE r == t[i]
  <2>1. StepIsSound(todo, i + 1) /\ r = todo[i + 1]
    BY <1>1 DEF Section
  <2> HIDE DEF r
  <2>2. r.do \in Placing => r.of \notin Primary' /\ mem'.pending = {}
    <3> SUFFICES ASSUME r.do \in Placing PROVE r.of \notin Primary' /\ mem'.pending = {}
      OBVIOUS
    <3>1. r.of \notin Primary /\ (mem.pending = {} \/ \E k \in 1..i : todo[k].do = "flush")
      BY <2>1 DEF StepIsSound
    <3>2. s.do \notin Placing /\ s.do # "unlink"
      BY <1>7, Zenon DEF r, Placing, Retaining
    <3>3. \A k \in 1..i : todo[k].do = "flush" => k = 1
      <4>1. \A k \in 1..i : k \in DOMAIN todo
        BY <1>1
      <4> QED BY <4>1 DEF Section, StepIsSound
    <3> QED BY <1>1, <3>1, <3>2, <3>3 DEF s
  <2>3. r.do \in Closing => r.of \in Primary' \/ Before(t, i, Placing)
    <3> SUFFICES ASSUME r.do \in Closing, ~Before(t, i, Placing) PROVE r.of \in Primary'
      OBVIOUS
    <3>1. r.of \in Primary \/ (s.do \in Placing /\ s.of = r.of)
      BY <1>5, <2>1 DEF StepIsSound, r
    <3>2. s.do # "unlink"
      BY <1>7 DEF r, Closing, Retaining
    <3> QED BY <3>1, <3>2 DEF s
  <2>4. r.do = "unlink" => /\ r.of \in Primary' /\ r.of \notin mem'.verifying
                           /\ ObjectState(journal', r.of) = "intent" \/ Before(t, i, {"intent"})
    <3> SUFFICES ASSUME r.do = "unlink"
                 PROVE  /\ r.of \in Primary' /\ r.of \notin mem'.verifying
                        /\ ObjectState(journal', r.of) = "intent" \/ Before(t, i, {"intent"})
      OBVIOUS
    <3>1. s.do \in {"flush", "intent"}
      BY <1>7 DEF r
    <3>2. r.of \in Primary /\ r.of \notin mem.verifying /\ r.of \notin mem.pending
      BY <2>1 DEF StepIsSound
    <3>3. State(r.of) = "intent" \/ Before(t, i, {"intent"}) \/ (s.do = "intent" /\ s.of = r.of)
      BY <1>5, <2>1 DEF StepIsSound, r
    <3>4. r.of \in Primary' /\ r.of \notin mem'.verifying
      BY <3>1, <3>2 DEF s
    <3>5. CASE s.do = "flush"
      BY <3>2, <3>3, <3>5 DEF s, State
    <3>6. CASE s.do = "intent"
      <4>1. /\ ObjectState(journal', s.of) = "intent"
            /\ ObjectState(journal', r.of) = State(r.of) \/ r.of = s.of
        BY <3>6 DEF s
      <4> QED BY <3>3, <3>4, <4>1
    <3> QED BY <3>1, <3>4, <3>5, <3>6
  <2>5. r.do \in {"unmeta", "delete"} => \/ r.of \in mem'.pending /\ t[1].do # "flush"
                                         \/ Before(t, i, {"unlink"})
    <3> SUFFICES ASSUME r.do \in {"unmeta", "delete"}, ~Before(t, i, {"unlink"})
                 PROVE  r.of \in mem'.pending /\ t[1].do # "flush"
      OBVIOUS
    <3>1. t[1].do # "flush"
      BY <1>1, <1>7
    <3>2. (r.of \in mem.pending /\ s.do # "flush") \/ (s.do = "unlink" /\ s.of = r.of)
      BY <1>1, <1>5, <2>1 DEF StepIsSound, r
    <3>3. s.do # "delete"
      BY <1>7 DEF r, Retaining
    <3> QED BY <3>1, <3>2, <3>3 DEF s
  <2>6. r.do \in Speaking => r.of \notin mem'.pending
    <3> SUFFICES ASSUME r.do \in Speaking PROVE r.of \notin mem'.pending
      OBVIOUS
    <3>1. r.of \notin mem.pending /\ s.do # "unlink"
      BY <1>7, <2>1 DEF StepIsSound, r, Speaking, Retaining
    <3> QED BY <3>1 DEF s
  <2>7. r.do = "commit" => i = 1 \/ Before(t, i, {"rename"})
    <3> SUFFICES ASSUME r.do = "commit", i # 1, ~Before(t, i, {"rename"}) PROVE FALSE
      OBVIOUS
    <3>1. Before(todo, i + 1, {"rename"})
      BY <1>1, <2>1 DEF StepIsSound
    <3>2. s.do = "rename"
      BY <1>5, <3>1
    <3>3. 1 \in DOMAIN t /\ 1 < i /\ t[1].do \in {"commit"} \cup Retaining
      BY <1>1, <1>7, <3>2
    <3>4. r.do \in Retaining
      BY <1>1, <1>3, <3>3 DEF InOrder, Closing, r
    <3> QED BY <3>4 DEF Retaining
  <2>8. r.do = "register" => Before(t, i, {"write"}) \/ \A k \in 1..(i - 1) : t[k].do = "stamp"
    <3> SUFFICES ASSUME r.do = "register", ~Before(t, i, {"write"}), NEW k \in 1..(i - 1)
                 PROVE  t[k].do = "stamp"
      OBVIOUS
    <3>1. Before(todo, i + 1, {"write"}) \/ \A n \in 1..i : todo[n].do = "stamp"
      BY <2>1 DEF StepIsSound
    <3>2. k + 1 \in 1..i /\ t[k] = todo[k + 1] /\ k \in 1..Len(t) /\ k < i
      BY <1>1
    <3>3. CASE \A n \in 1..i : todo[n].do = "stamp"
      BY <3>2, <3>3
    <3>4. CASE s.do = "write"
      <4>1. t[k].do \in {"stamp", "register"} \cup Retaining
        BY <1>7, <3>2, <3>4
      <4>2. t[k].do \in {"register"} \cup Retaining => r.do \in Retaining
        BY <1>1, <1>3, <3>2 DEF InOrder, Closing, r
      <4> QED BY <4>1, <4>2 DEF Retaining
    <3> QED BY <1>5, <3>1, <3>3, <3>4
  <2>9. /\ r.do \in {"write", "stamp"} => After(t, i, "register")
        /\ r.do = "rename" => After(t, i, "commit")
    BY <1>6, <2>1 DEF StepIsSound, r
  <2>10. r.do # "flush"
    BY <1>7 DEF r
  <2> DEFINE q == todo'
  <2>11. q = t /\ r = q[i] /\ q[1] = t[1]
    BY <1>2 DEF r
  <2> HIDE DEF q
  <2>12. /\ r.do \in Placing => r.of \notin Primary' /\ (mem'.pending = {} \/ \E k \in 1..(i - 1) : q[k].do = "flush")
         /\ r.do \in Closing => r.of \in Primary' \/ Before(q, i, Placing)
         /\ r.do = "unlink" => /\ r.of \in Primary' /\ r.of \notin mem'.verifying
                               /\ ObjectState(journal', r.of) = "intent" \/ Before(q, i, {"intent"})
         /\ r.do \in {"unmeta", "delete"} => \/ r.of \in mem'.pending /\ q[1].do # "flush"
                                             \/ Before(q, i, {"unlink"})
    BY <2>2, <2>3, <2>4, <2>5, <2>11
  <2>13. /\ r.do \in Speaking => r.of \notin mem'.pending
         /\ r.do = "commit" => i = 1 \/ Before(q, i, {"rename"})
         /\ r.do = "register" => Before(q, i, {"write"}) \/ \A k \in 1..(i - 1) : q[k].do = "stamp"
         /\ r.do \in {"write", "stamp"} => After(q, i, "register")
         /\ r.do = "rename" => After(q, i, "commit")
    BY <2>6, <2>7, <2>8, <2>9, <2>11
  <2>14. r = q[i]
    BY <2>11
  <2> QED BY <2>10, <2>12, <2>13, <2>14 DEF StepIsSound, State, q
<1>9. (\A i \in DOMAIN todo : StepIsSound(todo, i))'
  <2>1. DOMAIN todo' = 1..Len(t)
    BY <1>1, <1>2
  <2> QED BY <1>8, <2>1
<1>10. Flushes(todo)'
  BY <1>1, <1>2, <1>7 DEF Flushes
<1> QED BY <1>4, <1>9, <1>10 DEF Section

-----------------------------------------------------------------------------
(* The handlers begin sections *)

\* A section stays one when only fewer objects are being verified.
LEMMA SectionTransfers ==
    ASSUME NEW t, Section(t), Flushes(t), todo' = t, UNCHANGED <<journal, disk>>,
           mem'.pending = mem.pending, mem'.verifying \subseteq mem.verifying
    PROVE  Section(todo)' /\ Flushes(todo)'
<1>1. InOrder(todo)'
  BY DEF Section, InOrder
<1>2. ASSUME NEW i \in DOMAIN t PROVE StepIsSound(todo, i)'
  <2>1. StepIsSound(t, i)
    BY DEF Section
  <2> QED BY <2>1 DEF StepIsSound, Primary, State
<1>3. Flushes(todo)'
  BY DEF Flushes
<1> QED BY <1>1, <1>2, <1>3 DEF Section

\* The steps of two sections one after the other.
LEMMA Concatenation ==
    ASSUME NEW S, NEW a \in Seq(S), NEW b \in Seq(S)
    PROVE  /\ a \o b \in Seq(S) /\ Len(a \o b) = Len(a) + Len(b)
           /\ \A i \in 1..Len(a) : (a \o b)[i] = a[i]
           /\ \A i \in 1..Len(b) : (a \o b)[Len(a) + i] = b[i]
  OBVIOUS

\* A deletion of an object that is there and that no repair is hashing.
LEMMA DeletionIsSection ==
    ASSUME NEW o \in Object, o \in Primary, o \notin mem.verifying, o \notin mem.pending
    PROVE  Section(DeleteSteps(o))
<1> DEFINE t == DeleteSteps(o)
<1>1. /\ DOMAIN t = IF o \in Job THEN 1..5 ELSE 1..4
      /\ t[1].do = "flush" /\ t[2].do = "intent" /\ t[3].do = "unlink"
      /\ t[4].do = IF o \in Job THEN "unmeta" ELSE "delete"
      /\ o \in Job => t[5].do = "delete"
      /\ \A i \in DOMAIN t : t[i].of = o
  <2>1. CASE o \in Job
    <3>1. t = <<Do("flush", o), Do("intent", o), Do("unlink", o)>> \o <<Do("unmeta", o)>> \o <<Do("delete", o)>>
      BY <2>1 DEF DeleteSteps
    <3> HIDE DEF t
    <3>2. /\ DOMAIN t = 1..5 /\ t[1] = Do("flush", o) /\ t[2] = Do("intent", o) /\ t[3] = Do("unlink", o)
          /\ t[4] = Do("unmeta", o) /\ t[5] = Do("delete", o)
      BY <3>1
    <3> QED BY <2>1, <3>2 DEF Do
  <2>2. CASE o \notin Job
    <3>1. t = <<Do("flush", o), Do("intent", o), Do("unlink", o)>> \o <<>> \o <<Do("delete", o)>>
      BY <2>2 DEF DeleteSteps
    <3> HIDE DEF t
    <3>2. /\ DOMAIN t = 1..4 /\ t[1] = Do("flush", o) /\ t[2] = Do("intent", o) /\ t[3] = Do("unlink", o)
          /\ t[4] = Do("delete", o)
      BY <3>1
    <3> QED BY <2>2, <3>2 DEF Do
  <2> QED BY <2>1, <2>2
<1> HIDE DEF t
<1>2. InOrder(t)
  <2> SUFFICES ASSUME NEW i \in DOMAIN t, NEW k \in DOMAIN t, i < k
               PROVE  /\ t[i].do = "rename" => t[k].do \in {"commit"} \cup Retaining
                      /\ t[i].do = "write" => t[k].do \in {"stamp", "register"} \cup Retaining
                      /\ t[i].do = "intent" => t[k].do \in {"unlink", "unmeta", "delete"} \cup Retaining
                      /\ t[i].do = "unlink" => t[k].do \in {"unmeta", "delete"} \cup Retaining
                      /\ t[i].do \in Closing \cup {"delete"} \cup Retaining => t[k].do \in Retaining
                      /\ t[k].do = "unlink" => t[i].do \in {"flush", "intent"}
                      /\ t[k].do = "meta" => t[i].do = "flush"
    BY DEF InOrder
  <2>1. i \in {1, 2, 3, 4} /\ k \in {2, 3, 4, 5} /\ (k = 5 => o \in Job)
    BY <1>1
  <2>2. /\ i = 4 => k = 5
        /\ i = 3 => k \in {4, 5}
        /\ i = 2 => k \in {3, 4, 5}
    BY <2>1
  <2>3. t[i].do \in {"flush", "intent", "unlink", "unmeta"}
    BY <1>1, <2>1, <2>2
  <2>4. i # 1 => t[k].do \in {"unlink", "unmeta", "delete"}
    BY <1>1, <2>1, <2>2
  <2>5. i \in {3, 4} => t[k].do \in {"unmeta", "delete"}
    BY <1>1, <2>1, <2>2
  <2>6. t[k].do # "meta"
    BY <1>1, <2>1, <2>2
  <2>7. t[k].do = "unlink" => i \in {1, 2}
    BY <1>1, <2>1, <2>2, <2>5
  <2>8. /\ t[i].do = "intent" => i = 2
        /\ t[i].do = "unlink" => i = 3
    BY <1>1, <2>1
  <2> QED BY <1>1, <2>1, <2>3, <2>4, <2>5, <2>6, <2>7, <2>8 DEF Closing, Retaining
<1>3. ASSUME NEW i \in DOMAIN t PROVE StepIsSound(t, i)
  <2>1. CASE i = 1
    BY <1>1, <2>1 DEF StepIsSound, Placing, Closing, Speaking
  <2>2. CASE i = 2
    BY <1>1, <2>2 DEF StepIsSound, Placing, Closing, Speaking
  <2>3. CASE i = 3
    <3>1. Before(t, i, {"intent"})
      BY <1>1, <2>3 DEF Before
    <3> QED BY <1>1, <2>3, <3>1 DEF StepIsSound, Placing, Closing, Speaking
  <2>4. CASE i \in {4, 5}
    <3>1. 3 \in 1..(i - 1) /\ 3 \in DOMAIN t
      BY <1>1, <2>4
    <3>2. Before(t, i, {"unlink"})
      BY <1>1, <3>1 DEF Before
    <3>3. t[i].do \in {"unmeta", "delete"}
      BY <1>1, <2>4
    <3> QED BY <1>1, <3>2, <3>3 DEF StepIsSound, Placing, Closing, Speaking
  <2> QED BY <1>1, <2>1, <2>2, <2>3, <2>4
<1> QED BY <1>2, <1>3 DEF Section, t

\* A blob that is there is touched and its record and its intent looked after.
LEMMA TouchIsSection ==
    ASSUME NEW b \in Blob, b \notin mem.pending
    PROVE  /\ Section(<<Do("touch", b), Do("journal", b), Do("cancel", b)>>)
           /\ Section(<<Do("touch", b), Do("journal", b)>>)
<1>1. ASSUME NEW t, DOMAIN t = 1..3 \/ DOMAIN t = 1..2,
             \A i \in DOMAIN t : t[i].do \in {"touch", "journal", "cancel"} /\ t[i].of = b
      PROVE  Section(t)
  <2>1. InOrder(t)
    BY <1>1 DEF InOrder, Closing, Retaining
  <2>2. \A i \in DOMAIN t : StepIsSound(t, i)
    BY <1>1 DEF StepIsSound, Placing, Closing, Speaking
  <2> QED BY <2>1, <2>2 DEF Section
<1>2. Section(<<Do("touch", b), Do("journal", b), Do("cancel", b)>>)
  <2> DEFINE t == <<Do("touch", b), Do("journal", b), Do("cancel", b)>>
  <2>1. DOMAIN t = 1..3 /\ \A i \in DOMAIN t : t[i].do \in {"touch", "journal", "cancel"} /\ t[i].of = b
    BY DEF Do
  <2> HIDE DEF t
  <2>2. Section(t)
    BY <1>1, <2>1
  <2> QED BY <2>2 DEF t
<1>3. Section(<<Do("touch", b), Do("journal", b)>>)
  <2> DEFINE t == <<Do("touch", b), Do("journal", b)>>
  <2>1. DOMAIN t = 1..2 /\ \A i \in DOMAIN t : t[i].do \in {"touch", "journal", "cancel"} /\ t[i].of = b
    BY DEF Do
  <2> HIDE DEF t
  <2>2. Section(t)
    BY <1>1, <2>1
  <2> QED BY <2>2 DEF t
<1> QED BY <1>2, <1>3

\* A blob that is not there is placed and recorded.
LEMMA CommitIsSection ==
    ASSUME NEW b \in Blob, b \notin Primary
    PROVE  Section(<<Do("flush", b), Do("rename", b), Do("commit", b)>>)
<1> DEFINE t == <<Do("flush", b), Do("rename", b), Do("commit", b)>>
<1>1. /\ DOMAIN t = 1..3 /\ t[1].do = "flush" /\ t[2].do = "rename" /\ t[3].do = "commit"
      /\ t[1].of = b /\ t[2].of = b /\ t[3].of = b
  BY DEF Do
<1> HIDE DEF t
<1>2. InOrder(t)
  BY <1>1 DEF InOrder, Closing, Retaining
<1>3. StepIsSound(t, 1)
  BY <1>1 DEF StepIsSound, Placing, Closing, Speaking
<1>4. StepIsSound(t, 2)
  <2>1. Len(t) = 3 /\ After(t, 2, "commit")
    BY <1>1 DEF After, t
  <2> QED BY <1>1, <2>1 DEF StepIsSound, Placing, Closing, Speaking
<1>5. StepIsSound(t, 3)
  <2>1. Before(t, 3, Placing) /\ Before(t, 3, {"rename"})
    BY <1>1 DEF Before, Placing
  <2> QED BY <1>1, <2>1 DEF StepIsSound, Placing, Closing, Speaking
<1>6. \A i \in DOMAIN t : i = 1 \/ i = 2 \/ i = 3
  BY <1>1
<1> QED BY <1>2, <1>3, <1>4, <1>5, <1>6 DEF Section, t

\* A registration flushes, looks after the records of the blobs of j, and then places
\* and records the manifest: n is the number of its steps before it does.
Registers(t, j, n) ==
    /\ n \in Nat \ {0} /\ t \in Seq(TypedSteps) /\ Len(t) = n + 3
    /\ t[1] = Do("flush", j)
    /\ \A i \in 2..n : \E b \in Refs[j] : t[i] = Do("journal", b) \/ t[i] = Do("cancel", b)
    /\ \A b \in Refs[j] : \E i \in 2..n : t[i] = Do("journal", b)
    /\ \A b \in Refs[j] : \E i \in 2..n : t[i] = Do("cancel", b)
    /\ t[n + 1] = Do("write", j) /\ t[n + 2] = Do("stamp", j) /\ t[n + 3] = Do("register", j)

LEMMA RegistrationSteps ==
    ASSUME NEW j \in Job
    PROVE  LET each(do) == SetToSeq({Do(do, b) : b \in Refs[j]})
               t == <<Do("flush", j)>> \o each("journal") \o each("cancel")
                      \o <<Do("write", j), Do("stamp", j), Do("register", j)>>
           IN  \E n : Registers(t, j, n)
<1> DEFINE each(do) == SetToSeq({Do(do, b) : b \in Refs[j]})
           t == <<Do("flush", j)>> \o each("journal") \o each("cancel")
                  \o <<Do("write", j), Do("stamp", j), Do("register", j)>>
           A == each("journal")  C == each("cancel")
           n == 1 + Len(A) + Len(C)
<1>1. ASSUME NEW kind \in {"journal", "cancel"}
      PROVE  /\ each(kind) \in Seq(TypedSteps)
             /\ \A i \in DOMAIN each(kind) : \E b \in Refs[j] : each(kind)[i] = Do(kind, b)
             /\ \A b \in Refs[j] : \E i \in DOMAIN each(kind) : each(kind)[i] = Do(kind, b)
  <2> DEFINE S == {Do(kind, b) : b \in Refs[j]}
             f == [b \in Refs[j] |-> Do(kind, b)]
  <2>1. IsFiniteSet(Refs[j])
    <3>1. Refs[j] \in SUBSET Object
      BY StoreAssumption DEF Object
    <3> QED BY <3>1, FS_Subset, StoreAssumption
  <2>2. f \in Surjection(Refs[j], S)
    BY DEF Surjection
  <2>3. IsFiniteSet(S)
    BY <2>1, <2>2, FS_Surjection
  <2>4. /\ \A x \in S : \E b \in Refs[j] : x = Do(kind, b)
        /\ \A b \in Refs[j] : Do(kind, b) \in S
    OBVIOUS
  <2>5. each(kind) \in Seq(TypedSteps)
    BY EachTyped
  <2> HIDE DEF S
  <2>6. /\ SetToSeq(S) \in Seq(S)
        /\ \A x \in S : \E i \in DOMAIN SetToSeq(S) : SetToSeq(S)[i] = x
    BY <2>3, SetToSeqIsBijective
  <2>7. \A i \in DOMAIN SetToSeq(S) : SetToSeq(S)[i] \in S
    BY <2>6
  <2>8. each(kind) = SetToSeq(S)
    BY DEF S
  <2> HIDE DEF each
  <2> QED BY <2>4, <2>5, <2>6, <2>7, <2>8
<1>2. /\ Do("flush", j) \in TypedSteps /\ Do("write", j) \in TypedSteps
      /\ Do("stamp", j) \in TypedSteps /\ Do("register", j) \in TypedSteps
  BY TypedDo DEF StepKinds, OfBlobs, OfJobs, Object
<1>3. /\ A \in Seq(TypedSteps) /\ C \in Seq(TypedSteps)
      /\ \A i \in DOMAIN A : \E b \in Refs[j] : A[i] = Do("journal", b)
      /\ \A b \in Refs[j] : \E i \in DOMAIN A : A[i] = Do("journal", b)
      /\ \A i \in DOMAIN C : \E b \in Refs[j] : C[i] = Do("cancel", b)
      /\ \A b \in Refs[j] : \E i \in DOMAIN C : C[i] = Do("cancel", b)
  BY <1>1
<1>4. t = ((<<Do("flush", j)>> \o A) \o C) \o <<Do("write", j), Do("stamp", j), Do("register", j)>>
  OBVIOUS
<1> HIDE DEF t, A, C, each
<1>5. /\ Len(A) \in Nat /\ Len(C) \in Nat /\ DOMAIN A = 1..Len(A) /\ DOMAIN C = 1..Len(C)
      /\ t \in Seq(TypedSteps) /\ Len(t) = 1 + Len(A) + Len(C) + 3
      /\ t[1] = Do("flush", j)
      /\ \A i \in 1..Len(A) : t[1 + i] = A[i]
      /\ \A i \in 1..Len(C) : t[1 + Len(A) + i] = C[i]
      /\ t[1 + Len(A) + Len(C) + 1] = Do("write", j)
      /\ t[1 + Len(A) + Len(C) + 2] = Do("stamp", j)
      /\ t[1 + Len(A) + Len(C) + 3] = Do("register", j)
  <2> DEFINE H == <<Do("flush", j)>>
             Z == <<Do("write", j), Do("stamp", j), Do("register", j)>>
             HA == H \o A
             HAC == HA \o C
             a == Len(A)
             c == Len(C)
  <2>1. /\ H \in Seq(TypedSteps) /\ Len(H) = 1 /\ H[1] = Do("flush", j)
        /\ Z \in Seq(TypedSteps) /\ Len(Z) = 3 /\ Z[1] = Do("write", j) /\ Z[2] = Do("stamp", j)
        /\ Z[3] = Do("register", j)
    BY <1>2
  <2>2. t = HAC \o Z
    BY <1>4
  <2>3. a \in Nat /\ c \in Nat /\ DOMAIN A = 1..a /\ DOMAIN C = 1..c
    BY <1>3
  <2> HIDE DEF H, Z
  <2>4. /\ HA \in Seq(TypedSteps) /\ Len(HA) = 1 + a
        /\ \A i \in 1..1 : HA[i] = H[i]
        /\ \A i \in 1..a : HA[1 + i] = A[i]
    <3>1. /\ H \o A \in Seq(TypedSteps) /\ Len(H \o A) = Len(H) + Len(A)
          /\ \A i \in 1..Len(H) : (H \o A)[i] = H[i]
          /\ \A i \in 1..Len(A) : (H \o A)[Len(H) + i] = A[i]
      <4>1. H \in Seq(TypedSteps) /\ A \in Seq(TypedSteps)
        BY <1>3, <2>1
      <4> QED BY <4>1, Concatenation
    <3> QED BY <2>1, <3>1, Zenon
  <2> HIDE DEF HA
  <2>5. /\ HAC \in Seq(TypedSteps) /\ Len(HAC) = 1 + a + c
        /\ \A i \in 1..(1 + a) : HAC[i] = HA[i]
        /\ \A i \in 1..c : HAC[1 + a + i] = C[i]
    <3>1. /\ HA \o C \in Seq(TypedSteps) /\ Len(HA \o C) = Len(HA) + Len(C)
          /\ \A i \in 1..Len(HA) : (HA \o C)[i] = HA[i]
          /\ \A i \in 1..Len(C) : (HA \o C)[Len(HA) + i] = C[i]
      <4>1. HA \in Seq(TypedSteps) /\ C \in Seq(TypedSteps)
        BY <1>3, <2>4
      <4> QED BY <4>1, Concatenation
    <3> QED BY <2>4, <3>1, Zenon
  <2> HIDE DEF HAC
  <2>6. /\ t \in Seq(TypedSteps) /\ Len(t) = 1 + a + c + 3
        /\ \A i \in 1..(1 + a + c) : t[i] = HAC[i]
        /\ \A i \in 1..3 : t[1 + a + c + i] = Z[i]
    <3>1. /\ HAC \o Z \in Seq(TypedSteps) /\ Len(HAC \o Z) = Len(HAC) + Len(Z)
          /\ \A i \in 1..Len(HAC) : (HAC \o Z)[i] = HAC[i]
          /\ \A i \in 1..Len(Z) : (HAC \o Z)[Len(HAC) + i] = Z[i]
      <4>1. HAC \in Seq(TypedSteps) /\ Z \in Seq(TypedSteps)
        BY <2>1, <2>5
      <4> QED BY <4>1, Concatenation
    <3> QED BY <2>1, <2>2, <2>5, <3>1, Zenon
  <2> HIDE DEF a, c
  <2>7. t[1] = Do("flush", j)
    <3>1. 1 \in 1..1 /\ 1 \in 1..(1 + a) /\ 1 \in 1..(1 + a + c)
      BY <2>3
    <3> QED BY <2>1, <2>4, <2>5, <2>6, <3>1
  <2>8. \A i \in 1..a : t[1 + i] = A[i]
    <3>1. \A i \in 1..a : 1 + i \in 1..(1 + a) /\ 1 + i \in 1..(1 + a + c)
      BY <2>3
    <3> QED BY <2>4, <2>5, <2>6, <3>1
  <2>9. \A i \in 1..c : t[1 + a + i] = C[i]
    <3>1. \A i \in 1..c : 1 + a + i \in 1..(1 + a + c)
      BY <2>3
    <3> QED BY <2>5, <2>6, <3>1
  <2>10. 1 \in 1..3 /\ 2 \in 1..3 /\ 3 \in 1..3
    OBVIOUS
  <2>11. /\ t[1 + a + c + 1] = Do("write", j) /\ t[1 + a + c + 2] = Do("stamp", j)
         /\ t[1 + a + c + 3] = Do("register", j)
    BY <2>1, <2>6, <2>10
  <2> QED BY <2>3, <2>6, <2>7, <2>8, <2>9, <2>11 DEF a, c
<1>6. \A i \in 2..n : \E b \in Refs[j] : t[i] = Do("journal", b) \/ t[i] = Do("cancel", b)
  <2> SUFFICES ASSUME NEW i \in 2..n PROVE \E b \in Refs[j] : t[i] = Do("journal", b) \/ t[i] = Do("cancel", b)
    OBVIOUS
  <2>1. CASE i - 1 \in 1..Len(A)
    <3> DEFINE k == i - 1
    <3>1. k \in 1..Len(A) /\ i = 1 + k
      BY <2>1
    <3>2. t[i] = A[k] /\ k \in DOMAIN A
      BY <1>5, <3>1
    <3> QED BY <1>3, <3>2
  <2>2. CASE i - 1 - Len(A) \in 1..Len(C)
    <3> DEFINE k == i - 1 - Len(A)
    <3>1. k \in 1..Len(C) /\ i = 1 + Len(A) + k
      BY <1>5, <2>2
    <3>2. t[i] = C[k] /\ k \in DOMAIN C
      BY <1>5, <3>1
    <3> QED BY <1>3, <3>2
  <2> QED BY <1>5, <2>1, <2>2
<1>7. \A b \in Refs[j] : \E i \in 2..n : t[i] = Do("journal", b)
  <2> SUFFICES ASSUME NEW b \in Refs[j] PROVE \E i \in 2..n : t[i] = Do("journal", b)
    OBVIOUS
  <2>1. PICK i \in 1..Len(A) : A[i] = Do("journal", b)
    BY <1>3, <1>5
  <2>2. 1 + i \in 2..n /\ t[1 + i] = A[i]
    BY <1>5
  <2> QED BY <2>1, <2>2
<1>8. \A b \in Refs[j] : \E i \in 2..n : t[i] = Do("cancel", b)
  <2> SUFFICES ASSUME NEW b \in Refs[j] PROVE \E i \in 2..n : t[i] = Do("cancel", b)
    OBVIOUS
  <2>1. PICK i \in 1..Len(C) : C[i] = Do("cancel", b)
    BY <1>3, <1>5
  <2>2. 1 + Len(A) + i \in 2..n /\ t[1 + Len(A) + i] = C[i]
    BY <1>5
  <2> QED BY <2>1, <2>2
<1>9. Registers(t, j, n)
  BY <1>5, <1>6, <1>7, <1>8 DEF Registers
<1> QED BY <1>9 DEF t, each

\* A registration of a job that is not there, with all its blobs there.
LEMMA RegistrationIsSection ==
    ASSUME NEW j \in Job, NEW t, NEW n, Registers(t, j, n), j \notin Primary, Refs[j] \subseteq Primary,
           \A o \in mem.pending : o \notin Primary
    PROVE  Section(t)
<1>1. /\ DOMAIN t = 1..(n + 3) /\ n \in Nat \ {0} /\ Len(t) = n + 3
      /\ t[1].do = "flush" /\ t[1].of = j
      /\ \A i \in 2..n : t[i].do \in {"journal", "cancel"} /\ t[i].of \in Refs[j]
      /\ t[n + 1].do = "write" /\ t[n + 1].of = j
      /\ t[n + 2].do = "stamp" /\ t[n + 2].of = j
      /\ t[n + 3].do = "register" /\ t[n + 3].of = j
  <2>1. \A kind, o : Do(kind, o).do = kind /\ Do(kind, o).of = o
    BY DEF Do
  <2>2. \A i \in 2..n : t[i].do \in {"journal", "cancel"} /\ t[i].of \in Refs[j]
    <3>1. \A i \in 2..n : \E b \in Refs[j] : t[i] = Do("journal", b) \/ t[i] = Do("cancel", b)
      BY Zenon DEF Registers
    <3>2. ASSUME NEW i \in 2..n PROVE t[i].do \in {"journal", "cancel"} /\ t[i].of \in Refs[j]
      <4>1. PICK b \in Refs[j] : t[i] = Do("journal", b) \/ t[i] = Do("cancel", b)
        BY <3>1
      <4>2. t[i].of = b /\ (t[i].do = "journal" \/ t[i].do = "cancel")
        BY <4>1 DEF Do
      <4> QED BY <4>2
    <3> QED BY <3>2
  <2>3. DOMAIN t = 1..(n + 3) /\ n \in Nat \ {0} /\ Len(t) = n + 3
    <3>1. t \in Seq(TypedSteps) /\ Len(t) = n + 3 /\ n \in Nat \ {0}
      BY DEF Registers
    <3> QED BY <3>1
  <2> QED BY <2>1, <2>2, <2>3 DEF Registers
<1>2. InOrder(t)
  <2> SUFFICES ASSUME NEW i \in DOMAIN t, NEW k \in DOMAIN t, i < k
               PROVE  /\ t[i].do = "rename" => t[k].do \in {"commit"} \cup Retaining
                      /\ t[i].do = "write" => t[k].do \in {"stamp", "register"} \cup Retaining
                      /\ t[i].do = "intent" => t[k].do \in {"unlink", "unmeta", "delete"} \cup Retaining
                      /\ t[i].do = "unlink" => t[k].do \in {"unmeta", "delete"} \cup Retaining
                      /\ t[i].do \in Closing \cup {"delete"} \cup Retaining => t[k].do \in Retaining
                      /\ t[k].do = "unlink" => t[i].do \in {"flush", "intent"}
                      /\ t[k].do = "meta" => t[i].do = "flush"
    BY DEF InOrder
  <2>1. /\ i = 1 \/ i \in 2..n \/ i = n + 1 \/ i = n + 2
        /\ k \in 2..n \/ k = n + 1 \/ k = n + 2 \/ k = n + 3
        /\ i = n + 1 => k = n + 2 \/ k = n + 3
    BY <1>1
  <2>2. t[i].do \in {"flush", "journal", "cancel", "write", "stamp"}
    BY <1>1, <2>1
  <2>3. t[k].do \in {"journal", "cancel", "write", "stamp", "register"}
    BY <1>1, <2>1
  <2>4. t[i].do = "write" => t[k].do \in {"stamp", "register"}
    BY <1>1, <2>1
  <2> QED BY <2>2, <2>3, <2>4 DEF Closing, Retaining
<1>3. ASSUME NEW i \in DOMAIN t PROVE StepIsSound(t, i)
  <2>1. CASE i = 1
    BY <1>1, <2>1 DEF StepIsSound, Placing, Closing, Speaking
  <2>2. CASE i \in 2..n
    BY <1>1, <2>2 DEF StepIsSound, Placing, Closing, Speaking
  <2>3. CASE i = n + 1
    <3>1. 1 \in 1..(i - 1) /\ n + 3 \in (i + 1)..Len(t)
      BY <1>1, <2>3
    <3>2. After(t, i, "register")
      BY <1>1, <2>3, <3>1 DEF After
    <3> QED BY <1>1, <2>3, <3>1, <3>2 DEF StepIsSound, Placing, Closing, Speaking
  <2>4. CASE i = n + 2
    <3>1. n + 3 \in (i + 1)..Len(t)
      BY <1>1, <2>4
    <3>2. After(t, i, "register")
      BY <1>1, <2>4, <3>1 DEF After
    <3> QED BY <1>1, <2>4, <3>2 DEF StepIsSound, Placing, Closing, Speaking
  <2>5. CASE i = n + 3
    <3>1. n + 1 \in 1..(i - 1)
      BY <1>1, <2>5
    <3>2. Before(t, i, Placing) /\ Before(t, i, {"write"})
      BY <1>1, <2>5, <3>1 DEF Before, Placing
    <3> QED BY <1>1, <2>5, <3>2 DEF StepIsSound, Placing, Closing, Speaking
  <2> QED BY <1>1, <2>1, <2>2, <2>3, <2>4, <2>5
<1> QED BY <1>2, <1>3 DEF Section

\* A handler may find nothing to do.
LEMMA EmptySection == Section(<<>>)
BY DEF Section, InOrder

\* The sections of one or two steps, and that of a change of a job's state.
LEMMA ShortSections ==
    ASSUME NEW o, o \notin mem.pending
    PROVE  /\ Section(<<Do("rejournal", o)>>)
           /\ Section(<<Do("flush", o), Do("verify", o)>>)
           /\ \A was, as : Section(<<Do("flush", o), [do |-> "meta", of |-> o, was |-> was, as |-> as],
                                     [do |-> "state", of |-> o, was |-> was, as |-> as]>>)
<1> USE DEF Section, InOrder, StepIsSound, Placing, Closing, Speaking, Retaining
<1>1. Section(<<Do("rejournal", o)>>)
  <2> DEFINE t == <<Do("rejournal", o)>>
  <2>1. DOMAIN t = 1..1 /\ t[1].do = "rejournal" /\ t[1].of = o
    BY DEF Do
  <2> HIDE DEF t
  <2>2. Section(t)
    BY <2>1
  <2> QED BY <2>2 DEF t
<1>2. Section(<<Do("flush", o), Do("verify", o)>>)
  <2> DEFINE t == <<Do("flush", o), Do("verify", o)>>
  <2>1. DOMAIN t = 1..2 /\ t[1].do = "flush" /\ t[2].do = "verify" /\ t[2].of = o
    BY DEF Do
  <2> HIDE DEF t
  <2>2. Section(t)
    BY <2>1
  <2> QED BY <2>2 DEF t
<1>3. ASSUME NEW was, NEW as
      PROVE  Section(<<Do("flush", o), [do |-> "meta", of |-> o, was |-> was, as |-> as],
                       [do |-> "state", of |-> o, was |-> was, as |-> as]>>)
  <2> DEFINE t == <<Do("flush", o), [do |-> "meta", of |-> o, was |-> was, as |-> as],
                    [do |-> "state", of |-> o, was |-> was, as |-> as]>>
  <2>1. DOMAIN t = 1..3 /\ t[1].do = "flush" /\ t[2].do = "meta" /\ t[3].do = "state"
    BY DEF Do
  <2> HIDE DEF t
  <2>2. Section(t)
    BY <2>1
  <2> QED BY <2>2 DEF t
<1> QED BY <1>1, <1>2, <1>3

\* A flush on its own, and the loops of a retention pass.
LEMMA PassesAreSections ==
    ASSUME NEW o
    PROVE  /\ Section(<<Do("flush", o)>>)
           /\ Section([i \in 1..3 |-> Do(<<"expire", "collect", "evict">>[i], o)])
<1>1. Section(<<Do("flush", o)>>)
  <2> DEFINE t == <<Do("flush", o)>>
  <2>1. DOMAIN t = 1..1 /\ t[1].do = "flush"
    BY DEF Do
  <2> HIDE DEF t
  <2>2. Section(t)
    BY <2>1 DEF Section, InOrder, StepIsSound, Placing, Closing, Speaking, Retaining
  <2> QED BY <2>2 DEF t
<1>2. Section([i \in 1..3 |-> Do(<<"expire", "collect", "evict">>[i], o)])
  <2> DEFINE t == [i \in 1..3 |-> Do(<<"expire", "collect", "evict">>[i], o)]
  <2>1. DOMAIN t = 1..3 /\ \A i \in DOMAIN t : t[i].do \in Retaining
    BY DEF Do, Retaining
  <2> HIDE DEF t
  <2>2. Section(t)
    BY <2>1 DEF Section, InOrder, StepIsSound, Placing, Closing, Speaking, Retaining
  <2> QED BY <2>2 DEF t
<1> QED BY <1>1, <1>2

-----------------------------------------------------------------------------
(* Tombstones *)

Tombstones(s) ==
    \A i \in DOMAIN s : s[i].kind = "delete" => ObjectState(SubSeq(s, 1, i - 1), s[i].of) = "intent"

\* What precedes a record of s precedes it in every continuation of s.
LEMMA SamePrefix ==
    ASSUME NEW s, NEW t, Begins(s, t), NEW i \in 1..(Len(s) + 1)
    PROVE  SubSeq(t, 1, i - 1) = SubSeq(s, 1, i - 1)
<1>1. /\ Len(s) \in Nat /\ Len(t) \in Nat /\ i - 1 \in 0..Len(s) /\ i - 1 \in 0..Len(t)
      /\ \A k \in 1..Len(s) : t[k] = s[k]
  BY DEF Begins, IsLog
<1>2. SubSeq(t, 1, i - 1) = [k \in 1..(i - 1) |-> t[k]] /\ SubSeq(s, 1, i - 1) = [k \in 1..(i - 1) |-> s[k]]
  BY <1>1 DEF Begins, IsLog
<1>3. \A k \in 1..(i - 1) : t[k] = s[k]
  BY <1>1
<1> QED BY <1>2, <1>3

\* A prefix of a log is a beginning of it.
LEMMA PrefixBegins ==
    ASSUME NEW t, IsLog(t), NEW n \in 0..Len(t)
    PROVE  Begins(SubSeq(t, 1, n), t) /\ Len(SubSeq(t, 1, n)) = n
<1> DEFINE s == SubSeq(t, 1, n)
<1>1. /\ s \in Seq(Range(t)) /\ Len(s) = n /\ Len(t) \in Nat /\ n <= Len(t) /\ n \in Nat
      /\ \A k \in 1..n : s[k] = t[k]
  BY DEF IsLog
<1>2. IsLog(s)
  BY <1>1, SeqOfRange DEF IsLog
<1> HIDE DEF s
<1>3. Begins(s, t) /\ Len(s) = n
  BY <1>1, <1>2 DEF Begins
<1> QED BY <1>3 DEF s

\* A record that is no tombstone, or that ends an intent, can be appended.
LEMMA TombstonesAppend ==
    ASSUME NEW s, IsLog(s), Tombstones(s), NEW r,
           r.kind = "delete" => ObjectState(s, r.of) = "intent"
    PROVE  Tombstones(Append(s, r))
<1> DEFINE t == Append(s, r)
<1>1. Begins(s, t)
  BY LogAppend
<1>2. /\ Len(s) \in Nat /\ Len(t) = Len(s) + 1 /\ t[Len(s) + 1] = r
      /\ DOMAIN t = 1..Len(t) /\ DOMAIN s = 1..Len(s)
      /\ SubSeq(s, 1, Len(s)) = s
  <2>1. s \in Seq(Range(s) \cup {r})
    BY DEF IsLog
  <2>2. Len(s) \in Nat /\ Len(t) = Len(s) + 1 /\ t[Len(s) + 1] = r
        /\ DOMAIN t = 1..Len(t) /\ DOMAIN s = 1..Len(s)
    BY <2>1
  <2>3. SubSeq(s, 1, Len(s)) = s
    BY SubSeqFull DEF IsLog
  <2> QED BY <2>2, <2>3
<1> HIDE DEF t
<1>3. ASSUME NEW i \in DOMAIN t, t[i].kind = "delete"
      PROVE  ObjectState(SubSeq(t, 1, i - 1), t[i].of) = "intent"
  <2>1. SubSeq(t, 1, i - 1) = SubSeq(s, 1, i - 1)
    BY <1>1, <1>2, SamePrefix
  <2>2. CASE i \in DOMAIN s
    <3>1. t[i] = s[i]
      BY <1>1, <1>2, <2>2 DEF Begins
    <3> QED BY <1>3, <2>1, <2>2, <3>1 DEF Tombstones
  <2>3. CASE i \notin DOMAIN s
    <3>1. i = Len(s) + 1 /\ i - 1 = Len(s)
      BY <1>2, <2>3
    <3> QED BY <1>2, <1>3, <2>1, <3>1
  <2> QED BY <2>2, <2>3
<1> QED BY <1>3 DEF Tombstones, t

\* A restart writes tombstones of interrupted deletions only.
LEMMA TombstonesMended ==
    ASSUME NEW s, NEW t, Mends(s, t), Tombstones(s)
    PROVE  Tombstones(t)
<1>1. /\ Begins(s, t) /\ IsLog(s) /\ IsLog(t) /\ Len(s) \in Nat /\ Len(t) \in Nat /\ Len(s) <= Len(t)
      /\ DOMAIN t = 1..Len(t) /\ DOMAIN s = 1..Len(s)
  BY DEF Mends, Begins, IsLog
<1>2. ASSUME NEW i \in DOMAIN t, t[i].kind = "delete"
      PROVE  ObjectState(SubSeq(t, 1, i - 1), t[i].of) = "intent"
  <2>1. CASE i \in DOMAIN s
    <3>1. SubSeq(t, 1, i - 1) = SubSeq(s, 1, i - 1) /\ t[i] = s[i]
      BY <1>1, <2>1, SamePrefix DEF Begins
    <3> QED BY <1>2, <2>1, <3>1 DEF Tombstones
  <2>2. CASE i \notin DOMAIN s
    <3> DEFINE p == SubSeq(t, 1, i - 1)  o == t[i].of
    <3>1. i \in (Len(s) + 1)..Len(t) /\ i - 1 \in 0..Len(t) /\ Len(s) + 1 \in 1..(Len(s) + 1)
      BY <1>1, <2>2
    <3>2. o \in Halfway(s)
      <4>1. Rec("put", o).kind = "put" /\ "put" # "delete"
        BY DEF Rec
      <4>2. \/ t[i] = Rec("put", o)
            \/ o \in Halfway(s)
        BY <3>1 DEF Mends
      <4> QED BY <1>2, <4>1, <4>2, Zenon
    <3>3. Begins(p, t) /\ Len(p) = i - 1
      BY <1>1, <3>1, PrefixBegins
    <3> HIDE DEF p, o
    <3>4. Begins(s, p)
      <4>1. Len(s) <= i - 1
        BY <1>1, <3>1
      <4> QED BY <1>1, <3>3, <4>1 DEF Begins
    <3>5. ASSUME NEW k \in (Len(s) + 1)..Len(p) PROVE ~Names(p, o, k)
      <4>1. k \in (Len(s) + 1)..Len(t) /\ k # i /\ p[k] = t[k]
        BY <1>1, <3>1, <3>3, <3>5 DEF Begins
      <4>2. t[k].of # t[i].of
        BY <3>1, <4>1 DEF Mends
      <4> QED BY <4>1, <4>2 DEF Names, o
    <3>6. ObjectState(p, o) = ObjectState(s, o)
      BY <3>4, <3>5, StateStays
    <3> QED BY <3>2, <3>6 DEF Halfway, p, o
  <2> QED BY <2>1, <2>2
<1> QED BY <1>2 DEF Tombstones

-----------------------------------------------------------------------------
(* Deletions and the sections that make them *)

SectionInv == Section(todo) /\ Flushes(todo) /\ (todo # <<>> => alive)

\* Between its unlink and its record a deletion is pending: its intent is the last word
\* of the journal, and nothing brings its object back.  A torn record is the last write
\* of a process that writes no more, and a torn tombstone ends such an intent too.
DeletionInv ==
    /\ \A o \in mem.pending : State(o) = "intent" /\ o \notin Primary
    /\ mem.verifying \cap mem.pending = {}
    /\ \A i \in DOMAIN tail : tail[i].kind = "delete" => State(tail[i].of) = "intent"
    /\ tail # <<>> => alive /\ mem.broken

TombstoneInv == StoreTypes /\ SectionInv /\ DeletionInv /\ TombstonesAreIntended

\* A section that a handler begins.
LEMMA SectionBegins ==
    ASSUME NEW steps \in Seq(TypedSteps), Section(steps), Begin(steps), UNCHANGED <<journal, disk, alive>>,
           mem'.pending = mem.pending, mem'.verifying \subseteq mem.verifying
    PROVE  SectionInv'
<1>1. Section(Due(steps)) /\ Flushes(Due(steps)) /\ todo' = Due(steps) /\ alive
  BY SectionDue DEF Begin, Free
<1> DEFINE t == Due(steps)
<1> HIDE DEF t
<1>2. Section(t) /\ Flushes(t) /\ todo' = t
  BY <1>1 DEF t
<1>3. Section(todo)' /\ Flushes(todo)'
  BY <1>2, SectionTransfers
<1> QED BY <1>1, <1>3 DEF SectionInv

\* The handlers of the primary leave the deletions alone, and the sections they begin
\* are sound.
LEMMA HandlersDelete ==
    ASSUME TombstoneInv,
           \/ \E u \in Uploader : \/ \E b \in Blob : PutBlob(u, b)
                                  \/ AcknowledgeDuplicate(u) \/ CommitBlob(u) \/ UploadFails(u)
           \/ \E j \in Job : RegisterManifest(j) \/ MarkTerminal(j) \/ SetPinned(j)
           \/ \E o \in Object : DeleteObject(o) \/ Rejournal(o) \/ Rejournaled(o)
           \/ Sweep \/ Maintain
    PROVE  SectionInv' /\ DeletionInv' /\ UNCHANGED <<journal, tail>>
<1> DEFINE Same == UNCHANGED <<journal, tail, disk, alive>>
           Quiet == Same /\ UNCHANGED mem
<1>0. ASSUME Same, mem' = mem \/ mem' = [mem EXCEPT !.verifying = {}] PROVE DeletionInv'
  <2>1. mem \in MemTypes
    BY DEF TombstoneInv, StoreTypes, ProcessTypes
  <2>2. mem'.pending = mem.pending /\ mem'.broken = mem.broken /\ mem'.verifying \subseteq mem.verifying
    BY <1>0, <2>1 DEF MemTypes
  <2>3. \A o : State(o)' = State(o)
    BY <1>0 DEF State
  <2> QED BY <1>0, <2>2, <2>3 DEF TombstoneInv, DeletionInv, Primary
<1>1. /\ Blob \subseteq Object /\ Job \subseteq Object /\ upload \in Uploads /\ mem \in MemTypes
      /\ Primary \subseteq Object /\ \A o \in mem.pending : o \notin Primary
      /\ mem.pending \subseteq Object
  BY DEF Object, TombstoneInv, DeletionInv, StoreTypes, ProcessTypes, DiskTypes, Node, Primary, MemTypes
<1>2. ASSUME NEW u \in Uploader, UploadFails(u) \/ \E b \in Blob : PutBlob(u, b)
      PROVE  Quiet /\ SectionInv'
  <2>1. Quiet /\ UNCHANGED todo
    BY <1>2 DEF UploadFails, PutBlob
  <2>2. Section(todo)' /\ Flushes(todo)'
    BY <2>1, SectionTransfers DEF TombstoneInv, SectionInv
  <2> QED BY <2>1, <2>2 DEF TombstoneInv, SectionInv
<1>3. ASSUME NEW steps \in Seq(TypedSteps), Section(steps), Begin(steps), Quiet PROVE SectionInv'
  BY <1>3, SectionBegins
<1>4. ASSUME NEW u \in Uploader, AcknowledgeDuplicate(u) \/ CommitBlob(u) PROVE Quiet /\ SectionInv'
  <2> DEFINE b == upload[u].of
  <2>1. Quiet
    BY <1>4 DEF AcknowledgeDuplicate, CommitBlob
  <2>2. b \in Blob
    BY <1>1 DEF Uploads
  <2>3. \/ Begin(<<>>)
        \/ b \in Primary /\ Begin(<<Do("touch", b), Do("journal", b), Do("cancel", b)>>)
        \/ b \in Primary /\ Begin(<<Do("touch", b), Do("journal", b)>>)
        \/ b \notin Primary /\ Begin(<<Do("flush", b), Do("rename", b), Do("commit", b)>>)
    <3>1. CASE AcknowledgeDuplicate(u)
      <4>1. Begin(IF Intact(b) THEN <<Do("touch", b), Do("journal", b), Do("cancel", b)>> ELSE <<>>)
        BY <3>1 DEF AcknowledgeDuplicate
      <4> QED BY <4>1 DEF Intact, Primary
    <3>2. CASE CommitBlob(u)
      <4>1. Begin(IF Intact(b) THEN <<Do("touch", b), Do("journal", b)>>
                  ELSE <<Do("flush", b), Do("rename", b), Do("commit", b)>>)
        BY <3>2 DEF CommitBlob
      <4> QED BY <4>1 DEF Intact, Primary
    <3> QED BY <1>4, <3>1, <3>2
  <2> HIDE DEF b
  <2>4. /\ Do("flush", b) \in TypedSteps /\ Do("touch", b) \in TypedSteps /\ Do("journal", b) \in TypedSteps
        /\ Do("cancel", b) \in TypedSteps /\ Do("rename", b) \in TypedSteps /\ Do("commit", b) \in TypedSteps
    BY <1>1, <2>2, TypedDo DEF StepKinds, OfBlobs, OfJobs
  <2>5. /\ <<>> \in Seq(TypedSteps)
        /\ <<Do("touch", b), Do("journal", b), Do("cancel", b)>> \in Seq(TypedSteps)
        /\ <<Do("touch", b), Do("journal", b)>> \in Seq(TypedSteps)
        /\ <<Do("flush", b), Do("rename", b), Do("commit", b)>> \in Seq(TypedSteps)
    BY <2>4
  <2>7. CASE Begin(<<>>)
    BY <1>3, <2>1, <2>5, <2>7, EmptySection
  <2>8. CASE b \in Primary /\ (\/ Begin(<<Do("touch", b), Do("journal", b), Do("cancel", b)>>)
                               \/ Begin(<<Do("touch", b), Do("journal", b)>>))
    <3>1. b \notin mem.pending
      BY <1>1, <2>8
    <3> QED BY <1>3, <2>1, <2>2, <2>5, <2>8, <3>1, TouchIsSection
  <2>9. CASE b \notin Primary /\ Begin(<<Do("flush", b), Do("rename", b), Do("commit", b)>>)
    BY <1>3, <2>1, <2>2, <2>5, <2>9, CommitIsSection
  <2> QED BY <2>1, <2>3, <2>7, <2>8, <2>9
<1>5. ASSUME NEW j \in Job, RegisterManifest(j) PROVE Quiet /\ SectionInv'
  <2> DEFINE each(do) == SetToSeq({Do(do, b) : b \in Refs[j]})
             t == <<Do("flush", j)>> \o each("journal") \o each("cancel")
                    \o <<Do("write", j), Do("stamp", j), Do("register", j)>>
  <2>1. Begin(t) /\ Quiet /\ j \notin Primary /\ Refs[j] \subseteq Primary
    BY <1>5 DEF RegisterManifest, Primary
  <2>2. \E n : Registers(t, j, n)
    BY RegistrationSteps
  <2> HIDE DEF t
  <2>3. PICK n : Registers(t, j, n)
    BY <2>2
  <2>4. Section(t)
    BY <1>1, <2>1, <2>3, RegistrationIsSection
  <2>5. t \in Seq(TypedSteps)
    BY <2>3 DEF Registers
  <2> QED BY <1>3, <2>1, <2>4, <2>5
<1>6. ASSUME NEW j \in Job, MarkTerminal(j) \/ SetPinned(j) PROVE Quiet /\ SectionInv'
  <2>1. PICK m \in Metas : SetJobState(j, m)
    <3>1. meta["primary"][j] \in Metas /\ now \in 0..MaxNow
      BY DEF TombstoneInv, StoreTypes, DiskTypes, OtherTypes, Node
    <3>2. [meta["primary"][j] EXCEPT !.terminal = now] \in Metas
      BY <3>1 DEF Metas
    <3>3. ASSUME NEW y \in BOOLEAN PROVE [meta["primary"][j] EXCEPT !.pinned = y] \in Metas
      BY <3>1 DEF Metas
    <3>4. (~meta["primary"][j].pinned) \in BOOLEAN
      OBVIOUS
    <3>5. [meta["primary"][j] EXCEPT !.pinned = ~meta["primary"][j].pinned] \in Metas
      BY <3>3, <3>4
    <3> QED BY <1>6, <3>2, <3>5 DEF MarkTerminal, SetPinned
  <2> DEFINE old == meta["primary"][j]
             step(do) == [do |-> do, of |-> j, was |-> old, as |-> m]
             t == <<Do("flush", j), step("meta"), step("state")>>
  <2>2. Begin(t) /\ Quiet /\ j \in Primary
    BY <2>1 DEF SetJobState, Primary
  <2>3. old \in Metas
    BY DEF TombstoneInv, StoreTypes, DiskTypes, Node
  <2>4. Do("flush", j) \in TypedSteps
    BY <1>1, TypedDo DEF StepKinds, OfBlobs, OfJobs
  <2>5. step("meta") \in TypedSteps /\ step("state") \in TypedSteps
    BY <1>1, <2>1, <2>3 DEF TypedSteps, Steps, OfBlobs, OfJobs
  <2>6. t \in Seq(TypedSteps)
    <3> HIDE DEF step
    <3> QED BY <2>4, <2>5
  <2>7. Section(t)
    BY <1>1, <2>2, ShortSections
  <2> HIDE DEF t
  <2> QED BY <1>3, <2>2, <2>6, <2>7
<1>7. ASSUME NEW o \in Object, DeleteObject(o) PROVE Quiet /\ SectionInv'
  <2>1. Begin(DeleteSteps(o)) /\ Quiet /\ o \in Primary /\ o \notin mem.verifying
    BY <1>7 DEF DeleteObject, Primary
  <2>2. Section(DeleteSteps(o)) /\ DeleteSteps(o) \in Seq(TypedSteps)
    BY <1>1, <2>1, DeletionIsSection, DeleteTyped
  <2> QED BY <1>3, <2>1, <2>2
<1>8. ASSUME NEW o \in Object, Rejournal(o) PROVE Quiet /\ SectionInv'
  <2>1. Begin(<<Do("flush", o), Do("verify", o)>>) /\ Quiet /\ o \in Primary
    BY <1>8 DEF Rejournal, Primary
  <2>2. Do("flush", o) \in TypedSteps /\ Do("verify", o) \in TypedSteps
    BY TypedDo DEF StepKinds, OfBlobs, OfJobs
  <2>3. <<Do("flush", o), Do("verify", o)>> \in Seq(TypedSteps)
    BY <2>2
  <2>4. Section(<<Do("flush", o), Do("verify", o)>>)
    BY <1>1, <2>1, ShortSections
  <2> QED BY <1>3, <2>1, <2>3, <2>4
<1>9. ASSUME NEW o \in Object, Rejournaled(o)
      PROVE  Same /\ mem' = [mem EXCEPT !.verifying = {}] /\ SectionInv'
  <2>1. Begin(<<Do("rejournal", o)>>) /\ Same /\ mem' = [mem EXCEPT !.verifying = {}] /\ o \in mem.verifying
    BY <1>9 DEF Rejournaled
  <2>2. Do("rejournal", o) \in TypedSteps
    BY TypedDo DEF StepKinds, OfBlobs, OfJobs
  <2>3. <<Do("rejournal", o)>> \in Seq(TypedSteps)
    BY <2>2
  <2>4. o \notin mem.pending
    BY <2>1 DEF TombstoneInv, DeletionInv
  <2>5. Section(<<Do("rejournal", o)>>)
    BY <2>4, ShortSections
  <2>6. mem'.pending = mem.pending /\ mem'.verifying \subseteq mem.verifying
    BY <1>1, <2>1 DEF MemTypes
  <2>7. SectionInv'
    BY <2>1, <2>3, <2>5, <2>6, SectionBegins
  <2> QED BY <2>1, <2>7
<1>10. ASSUME Sweep PROVE Quiet /\ SectionInv'
  <2> DEFINE t == [i \in 1..3 |-> Do(<<"expire", "collect", "evict">>[i], CHOOSE o \in Object : TRUE)]
  <2>1. Begin(t) /\ Quiet
    BY <1>10 DEF Sweep
  <2>2. Section(t)
    <3> DEFINE p == CHOOSE o \in Object : TRUE
    <3>1. t = [i \in 1..3 |-> Do(<<"expire", "collect", "evict">>[i], p)]
      OBVIOUS
    <3> HIDE DEF p, t
    <3>2. Section([i \in 1..3 |-> Do(<<"expire", "collect", "evict">>[i], p)])
      BY PassesAreSections
    <3> QED BY <3>1, <3>2, Zenon
  <2>3. t \in Seq(TypedSteps)
    <3>1. (CHOOSE o \in Object : TRUE) \in Object
      BY StoreAssumption DEF Object
    <3>2. \A i \in 1..3 : <<"expire", "collect", "evict">>[i] \in {"expire", "collect", "evict"}
      OBVIOUS
    <3>3. \A i \in 1..3 : Do(<<"expire", "collect", "evict">>[i], CHOOSE o \in Object : TRUE) \in TypedSteps
      BY <3>1, <3>2, TypedDo DEF StepKinds, OfBlobs, OfJobs
    <3>4. t \in [1..3 -> TypedSteps]
      BY <3>3
    <3> HIDE DEF t
    <3>5. PICK n \in Nat : n = 3
      OBVIOUS
    <3>6. t \in [1..n -> TypedSteps]
      BY <3>4, <3>5
    <3> QED BY <3>6
  <2> HIDE DEF t
  <2>4. SectionInv'
    BY <1>3, <2>1, <2>2, <2>3
  <2> QED BY <2>1, <2>4
<1>11. ASSUME Maintain PROVE Quiet /\ SectionInv'
  <2> DEFINE p == CHOOSE o \in mem.pending : TRUE
  <2>1. p \in Object /\ Quiet /\ Begin(<<Do("flush", p)>>)
    BY <1>1, <1>11 DEF Maintain
  <2> HIDE DEF p
  <2>2. Do("flush", p) \in TypedSteps
    BY <2>1, TypedDo DEF StepKinds, OfBlobs, OfJobs
  <2>3. <<Do("flush", p)>> \in Seq(TypedSteps)
    BY <2>2
  <2>4. Section(<<Do("flush", p)>>)
    BY PassesAreSections
  <2>5. SectionInv'
    BY <1>3, <2>1, <2>3, <2>4
  <2> QED BY <2>1, <2>5
<1>12. \/ Quiet /\ SectionInv'
       \/ Same /\ mem' = [mem EXCEPT !.verifying = {}] /\ SectionInv'
  BY <1>2, <1>4, <1>5, <1>6, <1>7, <1>8, <1>9, <1>10, <1>11
<1> QED BY <1>0, <1>12

\* What the next step of a section relies on holds now.
LEMMA HeadIsSound ==
    ASSUME StoreTypes, todo # <<>>, Section(todo)
    PROVE  LET s == Head(todo)
           IN  /\ s \in TypedSteps
               /\ s.do \in Placing => s.of \notin Primary /\ mem.pending = {}
               /\ s.do \in Closing => s.of \in Primary
               /\ s.do = "unlink" => s.of \in Primary /\ s.of \notin mem.verifying /\ State(s.of) = "intent"
               /\ s.do \in {"unmeta", "delete"} => s.of \in mem.pending
               /\ s.do \in Speaking => s.of \notin mem.pending
               /\ s.do \in Retaining => \A i \in DOMAIN todo : todo[i].do \in Retaining
               /\ s.do \in Placing => \A i \in DOMAIN Tail(todo) : Tail(todo)[i].do \notin Placing
<1> DEFINE s == Head(todo)
<1>1. /\ s = todo[1] /\ DOMAIN todo = 1..Len(todo) /\ Len(todo) \in Nat \ {0} /\ s \in TypedSteps
      /\ Len(Tail(todo)) = Len(todo) - 1 /\ DOMAIN Tail(todo) = 1..(Len(todo) - 1)
      /\ \A i \in 1..(Len(todo) - 1) : Tail(todo)[i] = todo[i + 1]
  BY DEF StoreTypes, ProcessTypes
<1>2. \A kinds : ~Before(todo, 1, kinds)
  BY DEF Before
<1>3. StepIsSound(todo, 1)
  BY <1>1 DEF Section
<1>4. /\ s.do \in Placing => s.of \notin Primary /\ mem.pending = {}
      /\ s.do \in Closing => s.of \in Primary
      /\ s.do = "unlink" => s.of \in Primary /\ s.of \notin mem.verifying /\ State(s.of) = "intent"
      /\ s.do \in {"unmeta", "delete"} => s.of \in mem.pending
      /\ s.do \in Speaking => s.of \notin mem.pending
  BY <1>1, <1>2, <1>3 DEF StepIsSound
<1>5. ASSUME NEW i \in DOMAIN todo, i # 1
      PROVE  /\ s.do \in Retaining => todo[i].do \in Retaining
             /\ s.do = "rename" => todo[i].do \in {"commit"} \cup Retaining
             /\ s.do = "write" => todo[i].do \in {"stamp", "register"} \cup Retaining
  <2>1. 1 \in DOMAIN todo /\ 1 < i
    BY <1>1, <1>5
  <2> QED BY <1>1, <2>1 DEF Section, InOrder
<1>6. s.do \in Retaining => \A i \in DOMAIN todo : todo[i].do \in Retaining
  BY <1>1, <1>5
<1>7. ASSUME s.do \in Placing, NEW i \in DOMAIN Tail(todo) PROVE Tail(todo)[i].do \notin Placing
  <2>1. i + 1 \in DOMAIN todo /\ i + 1 # 1 /\ Tail(todo)[i] = todo[i + 1]
    BY <1>1, <1>7
  <2>2. todo[i + 1].do \in {"commit", "stamp", "register"} \cup Retaining
    BY <1>5, <1>7, <2>1 DEF Placing
  <2> QED BY <2>1, <2>2 DEF Placing, Retaining
<1> QED BY <1>1, <1>4, <1>6, <1>7

\* An append of the next step of a section, or of the flush, keeps every pending deletion
\* the last word about its object.
LEMMA AppendDeletes ==
    ASSUME TombstoneInv, NEW r, journal' = Append(journal, r), UNCHANGED <<disk, tail, alive>>,
           ~mem.broken, mem'.verifying = mem.verifying, mem'.pending \subseteq mem.pending,
           r.of \notin mem'.pending \/ r.kind \in {"terminal", "pin"},
           r.kind = "delete" => r.of \in mem.pending
    PROVE  DeletionInv' /\ TombstonesAreIntended'
<1>1. IsLog(journal)
  BY SeqOfRange DEF TombstoneInv, StoreTypes, JournalTypes, IsLog
<1>2. \A o : ObjectState(journal', o)
               = IF r.of = o /\ r.kind \notin {"terminal", "pin"} THEN Says(r) ELSE State(o)
  BY <1>1, StateAfterAppend DEF State
<1>3. \A o \in mem'.pending : ObjectState(journal', o) = "intent" /\ o \notin Primary'
  BY <1>2 DEF TombstoneInv, DeletionInv, Primary
<1>4. tail = <<>>
  BY DEF TombstoneInv, DeletionInv
<1>5. DeletionInv'
  BY <1>3, <1>4 DEF TombstoneInv, DeletionInv, State
<1>6. Tombstones(journal) /\ (r.kind = "delete" => ObjectState(journal, r.of) = "intent")
  BY DEF TombstoneInv, DeletionInv, TombstonesAreIntended, Tombstones, State
<1>7. Tombstones(journal')
  BY <1>1, <1>6, TombstonesAppend
<1> QED BY <1>5, <1>7 DEF TombstonesAreIntended, Tombstones

\* The steps of a section.
LEMMA StepDeletes ==
    ASSUME TombstoneInv, Step
    PROVE  SectionInv' /\ DeletionInv' /\ TombstonesAreIntended'
<1> DEFINE s == Head(todo)
<1>1. /\ StoreTypes /\ todo # <<>> /\ alive /\ Section(todo) /\ Flushes(todo)
      /\ UNCHANGED <<tail, alive>> /\ mem \in MemTypes /\ IsLog(journal)
      /\ \A o \in mem.pending : o \notin Primary /\ State(o) = "intent"
      /\ disk \in [Node -> SUBSET Object] /\ "primary" \in Node
      /\ todo \in Seq(TypedSteps) /\ Tail(todo) \in Seq(TypedSteps)
  BY SeqOfRange DEF Step, TombstoneInv, SectionInv, DeletionInv, StoreTypes, ProcessTypes, JournalTypes, IsLog, DiskTypes, Node
<1>2. /\ s \in TypedSteps
      /\ s.do \in Placing => s.of \notin Primary /\ mem.pending = {}
      /\ s.do \in Closing => s.of \in Primary
      /\ s.do = "unlink" => s.of \in Primary /\ s.of \notin mem.verifying /\ State(s.of) = "intent"
      /\ s.do \in {"unmeta", "delete"} => s.of \in mem.pending
      /\ s.do \in Speaking => s.of \notin mem.pending
      /\ s.do \in Retaining => \A i \in DOMAIN todo : todo[i].do \in Retaining
  BY <1>1, HeadIsSound
<1>3. ASSUME todo' = Tail(todo),
             /\ \A o : o \in Primary' => o \in Primary \/ (s.do \in Placing /\ o = s.of)
             /\ \A o : o \in Primary => o \in Primary' \/ s.do = "unlink"
             /\ s.do \in Placing => s.of \in Primary'
             /\ \A o : o \in mem'.pending => o \in mem.pending \/ (s.do = "unlink" /\ o = s.of)
             /\ \A o : o \in mem.pending => o \in mem'.pending \/ s.do = "flush" \/ (s.do = "delete" /\ o = s.of)
             /\ s.do = "flush" => mem'.pending = {}
             /\ s.do = "unlink" => s.of \in mem'.pending
             /\ s.do \in {"flush", "intent"} => mem'.verifying = mem.verifying
             /\ s.do \in {"flush", "intent"} => \A o : \/ ObjectState(journal', o) = State(o)
                                                       \/ s.do = "flush" /\ o \in mem.pending
                                                       \/ s.do = "intent" /\ o = s.of
             /\ s.do = "intent" => ObjectState(journal', s.of) = "intent"
      PROVE  SectionInv'
  <2>1. Section(todo)' /\ Flushes(todo)'
    BY <1>1, <1>3, SectionGoesOn
  <2> QED BY <1>1, <2>1 DEF SectionInv
<1>4. ASSUME UNCHANGED <<journal, disk>>, mem'.pending = mem.pending,
             mem'.verifying \cap mem.pending = {}, mem'.broken = mem.broken
      PROVE  DeletionInv' /\ TombstonesAreIntended'
  BY <1>1, <1>4 DEF TombstoneInv, DeletionInv, TombstonesAreIntended, State, Primary
<1> HIDE DEF s
<1>5. CASE AppendRecord(s)
  <2> DEFINE r == Written(s)
  <2>1. /\ s.do \in Appending /\ ~mem.broken /\ journal' = Append(journal, r) /\ mem' = Recorded(s)
        /\ todo' = Tail(todo) /\ UNCHANGED disk
    BY <1>5 DEF AppendRecord, s
  <2>2. /\ mem'.pending = (IF s.do = "delete" THEN mem.pending \ {s.of} ELSE mem.pending)
        /\ mem'.verifying = mem.verifying
    BY <1>1, <2>1 DEF Recorded, MemTypes
  <2>3. /\ r.of = s.of
        /\ r.kind = "delete" => s.do = "delete"
        /\ s.do = "state" => r.kind \in {"terminal", "pin"}
        /\ s.do = "intent" => r.kind = "intent"
    <3>1. CASE s.do = "state"
      BY <3>1 DEF Written
    <3>2. CASE s.do # "state"
      <4>1. r = Rec(IF s.do \in {"commit", "journal", "rejournal", "register"} THEN "put" ELSE s.do, s.of)
        BY <3>2 DEF Written
      <4> HIDE DEF r
      <4> QED BY <3>2, <4>1 DEF Rec
    <3> QED BY <3>1, <3>2
  <2> HIDE DEF r
  <2>4. s.of \notin mem'.pending \/ s.do = "state"
    <3>1. s.do \in Closing \cup Speaking \cup {"delete", "state"}
      BY <2>1 DEF Appending, Closing, Speaking
    <3> QED BY <1>1, <1>2, <2>2, <3>1
  <2>5. DeletionInv' /\ TombstonesAreIntended'
    BY <1>1, <1>2, <2>1, <2>2, <2>3, <2>4, AppendDeletes
  <2>6. \A o : ObjectState(journal', o)
                 = IF r.of = o /\ r.kind \notin {"terminal", "pin"} THEN Says(r) ELSE State(o)
    BY <1>1, <2>1, StateAfterAppend DEF State
  <2>7. /\ \A o : o # s.of => ObjectState(journal', o) = State(o)
        /\ s.do = "intent" => ObjectState(journal', s.of) = "intent"
    BY <2>3, <2>6 DEF Says
  <2>8. s.do \notin Placing \cup {"flush", "unlink"} /\ Primary' = Primary
    BY <2>1 DEF Appending, Placing, Primary
  <2>9. SectionInv'
    BY <1>3, <2>1, <2>2, <2>7, <2>8
  <2> QED BY <2>5, <2>9
<1>6. CASE FlushOne(s)
  <2>1. PICK o \in mem.pending : /\ journal' = Append(journal, Rec("delete", o))
                                 /\ mem' = [mem EXCEPT !.pending = @ \ {o}]
                                 /\ todo' = IF mem.pending = {o} THEN Tail(todo) ELSE todo
    BY <1>6 DEF FlushOne
  <2>2. /\ s.do = "flush" /\ ~mem.broken /\ UNCHANGED disk /\ Primary' = Primary
        /\ mem'.pending = mem.pending \ {o} /\ mem'.verifying = mem.verifying
    BY <1>1, <1>6, <2>1 DEF FlushOne, MemTypes, Primary
  <2> DEFINE r == Rec("delete", o)
  <2>3. r.of = o /\ r.kind = "delete" /\ journal' = Append(journal, r)
    BY <2>1 DEF Rec
  <2> HIDE DEF r
  <2>4. DeletionInv' /\ TombstonesAreIntended'
    BY <1>1, <2>2, <2>3, AppendDeletes
  <2>5. \A x : x # o => ObjectState(journal', x) = State(x)
    BY <1>1, <2>3, StateAfterAppend DEF State
  <2>6. SectionInv'
    <3>1. CASE mem.pending = {o}
      <4>1. todo' = Tail(todo) /\ mem'.pending = {}
        BY <2>1, <2>2, <3>1
      <4> QED BY <1>3, <2>2, <2>5, <3>1, <4>1 DEF Placing
    <3>2. CASE mem.pending # {o}
      <4>1. todo' = todo /\ mem'.pending # {}
        BY <2>1, <2>2, <3>2
      <4>2. ASSUME NEW i \in DOMAIN todo PROVE StepIsSound(todo, i)'
        <5>1. StepIsSound(todo, i) /\ todo[1].do = "flush"
          BY <1>1, <2>2 DEF Section, s
        <5>2. todo[i].do = "unlink" => ObjectState(journal', todo[i].of) = State(todo[i].of)
          BY <1>1, <2>1, <2>5, <5>1 DEF StepIsSound
        <5> QED BY <2>1, <2>2, <4>1, <5>1, <5>2 DEF StepIsSound, State
      <4>3. Section(todo)'
        BY <1>1, <4>1, <4>2 DEF Section, InOrder
      <4>4. Flushes(todo)'
        BY <4>1 DEF Flushes
      <4> QED BY <1>1, <4>3, <4>4 DEF SectionInv
    <3> QED BY <3>1, <3>2
  <2> QED BY <2>4, <2>6
<1>7. CASE StoreObject(s)
  <2>1. /\ s.do \in Placing /\ todo' = Tail(todo) /\ UNCHANGED journal
        /\ disk' = [disk EXCEPT !["primary"] = @ \cup {s.of}] /\ mem' = [mem EXCEPT !.bytes = @ + 1]
    BY <1>7 DEF StoreObject, Placing, s
  <2>2. Primary' = Primary \cup {s.of}
    BY <1>1, <2>1 DEF Primary
  <2>3. mem'.pending = {} /\ mem.pending = {} /\ mem'.verifying = mem.verifying /\ mem'.broken = mem.broken
    BY <1>1, <1>2, <2>1 DEF MemTypes
  <2>4. s.do \notin {"unlink", "delete", "flush", "intent"}
    BY <2>1 DEF Placing
  <2>5. SectionInv'
    BY <1>3, <2>1, <2>2, <2>3, <2>4
  <2>6. DeletionInv' /\ TombstonesAreIntended'
    BY <1>1, <2>1, <2>3 DEF TombstoneInv, DeletionInv, TombstonesAreIntended, State
  <2> QED BY <2>5, <2>6
<1>8. CASE UpdateMeta(s)
  <2>1. s.do \in {"stamp", "meta", "unmeta"} /\ todo' = Tail(todo) /\ UNCHANGED <<journal, disk, mem>>
    BY <1>8 DEF UpdateMeta, s
  <2>2. DeletionInv' /\ TombstonesAreIntended'
    BY <1>4, <2>1 DEF TombstoneInv, DeletionInv
  <2>3. SectionInv'
    BY <1>3, <2>1 DEF Primary, Placing
  <2> QED BY <2>2, <2>3
<1>9. CASE Touch(s)
  <2>1. /\ s.do \in {"touch", "verify"} /\ todo' = Tail(todo) /\ UNCHANGED <<journal, disk>>
        /\ mem' = IF s.do = "verify" THEN [mem EXCEPT !.verifying = {s.of}] ELSE mem
    BY <1>9 DEF Touch, s
  <2>2. /\ mem'.pending = mem.pending /\ mem'.broken = mem.broken
        /\ mem'.verifying = IF s.do = "verify" THEN {s.of} ELSE mem.verifying
    BY <1>1, <2>1 DEF MemTypes
  <2>3. DeletionInv' /\ TombstonesAreIntended'
    BY <1>2, <1>4, <2>1, <2>2 DEF TombstoneInv, DeletionInv, Speaking
  <2>4. SectionInv'
    BY <1>3, <2>1, <2>2 DEF Primary, Placing
  <2> QED BY <2>3, <2>4
<1>10. CASE Unlink(s)
  <2>1. /\ s.do = "unlink" /\ todo' = Tail(todo) /\ UNCHANGED journal
        /\ disk' = [disk EXCEPT !["primary"] = @ \ {s.of}]
        /\ mem' = [mem EXCEPT !.bytes = @ - 1, !.pending = @ \cup {s.of}]
    BY <1>10 DEF Unlink, s
  <2>2. Primary' = Primary \ {s.of}
    BY <1>1, <2>1 DEF Primary
  <2>3. /\ mem'.pending = mem.pending \cup {s.of} /\ mem'.verifying = mem.verifying
        /\ mem'.broken = mem.broken
    BY <1>1, <2>1 DEF MemTypes
  <2>4. SectionInv'
    BY <1>3, <2>1, <2>2, <2>3 DEF Placing
  <2>5. DeletionInv' /\ TombstonesAreIntended'
    BY <1>1, <1>2, <2>1, <2>2, <2>3 DEF TombstoneInv, DeletionInv, TombstonesAreIntended, State
  <2> QED BY <2>4, <2>5
<1>11. CASE Retain(s)
  <2>1. s.do \in Retaining /\ UNCHANGED <<journal, disk, mem>>
    BY <1>11 DEF Retain, Retaining
  <2>2. DeletionInv' /\ TombstonesAreIntended'
    BY <1>4, <2>1 DEF TombstoneInv, DeletionInv
  <2>3. CASE Victims(s) = {} /\ todo' = Tail(todo)
    <3>1. s.do \notin Placing \cup {"unlink", "delete", "flush", "intent"}
      BY <2>1 DEF Retaining, Placing
    <3>2. SectionInv'
      BY <1>3, <2>1, <2>3, <3>1 DEF Primary
    <3> QED BY <2>2, <3>2
  <2>4. CASE \E o \in Victims(s) :
                todo' = Due(DeleteSteps(o)) \o (IF s.do = "evict" THEN <<Do("free", o)>> ELSE <<>>) \o todo
    <3>1. PICK o \in Victims(s) :
             todo' = Due(DeleteSteps(o)) \o (IF s.do = "evict" THEN <<Do("free", o)>> ELSE <<>>) \o todo
      BY <2>4
    <3>2. o \in Primary /\ o \notin mem.verifying /\ o \notin mem.pending /\ o \in Object
      <4>1. o \in Primary /\ o \notin mem.verifying
        BY <3>1 DEF Victims, Expired, Unreferenced, Terminal, Primary
      <4>2. Primary \subseteq Object
        BY <1>1 DEF Primary
      <4> QED BY <1>1, <4>1, <4>2
    <3> DEFINE d == Due(DeleteSteps(o))
               f == IF s.do = "evict" THEN <<Do("free", o)>> ELSE <<>>
    <3>3. DeleteSteps(o) \in Seq(TypedSteps) /\ Section(DeleteSteps(o))
      BY <3>2, DeleteTyped, DeletionIsSection
    <3>4. d \in Seq(TypedSteps) /\ Section(d) /\ Flushes(d)
      BY <3>3, DueTyped, SectionDue
    <3>5. f \in Seq(TypedSteps) /\ \A i \in DOMAIN f : f[i].do \in Retaining
      <4>1. Do("free", o) \in TypedSteps
        BY <3>2, TypedDo DEF StepKinds, OfBlobs, OfJobs
      <4>2. Do("free", o).do = "free"
        BY DEF Do
      <4> QED BY <4>1, <4>2 DEF Retaining
    <3> HIDE DEF d, f
    <3>6. d \o f \in Seq(TypedSteps) /\ Section(d \o f) /\ Flushes(d \o f)
      BY <3>4, <3>5, SectionThenRetention
    <3> DEFINE df == d \o f
    <3> HIDE DEF df
    <3>7. Section(df \o todo) /\ Flushes(df \o todo)
      BY <1>1, <1>2, <2>1, <3>6, SectionThenRetention DEF df
    <3>8. todo' = df \o todo
      BY <3>1 DEF df, d, f
    <3> DEFINE t == df \o todo
    <3> HIDE DEF t
    <3>9. Section(t) /\ Flushes(t) /\ todo' = t
      BY <3>7, <3>8 DEF t
    <3>10. Section(todo)' /\ Flushes(todo)'
      BY <2>1, <3>9, SectionTransfers
    <3> QED BY <1>1, <2>2, <3>10 DEF SectionInv
  <2> QED BY <1>11, <2>3, <2>4 DEF Retain, s
<1> QED BY <1>5, <1>6, <1>7, <1>8, <1>9, <1>10, <1>11 DEF Step, s

\* Failed writes and unlinks.
LEMMA FailureDeletes ==
    ASSUME TombstoneInv, AppendFails \/ UnlinkFails
    PROVE  SectionInv' /\ DeletionInv' /\ TombstonesAreIntended'
<1> DEFINE s == Head(todo)
<1>1. /\ StoreTypes /\ todo # <<>> /\ alive /\ Section(todo) /\ Flushes(todo) /\ todo' = <<>>
      /\ UNCHANGED <<journal, alive>> /\ mem \in MemTypes
      /\ \A o \in mem.pending : o \notin Primary /\ State(o) = "intent"
      /\ disk \in [Node -> SUBSET Object] /\ "primary" \in Node
  BY DEF AppendFails, UnlinkFails, TombstoneInv, SectionInv, DeletionInv, StoreTypes, ProcessTypes, DiskTypes, Node
<1>2. s.do = "delete" => s.of \in mem.pending
  BY <1>1, HeadIsSound
<1>3. SectionInv'
  <2>1. Section(todo)'
    BY <1>1 DEF Section, InOrder
  <2> QED BY <1>1, <2>1 DEF SectionInv, Flushes
<1>4. TombstonesAreIntended'
  BY <1>1 DEF TombstoneInv, TombstonesAreIntended
<1>5. CASE UnlinkFails
  BY <1>1, <1>3, <1>4, <1>5 DEF UnlinkFails, TombstoneInv, DeletionInv, State, Primary
<1>6. CASE AppendFails
  <2> HIDE DEF s
  <2> DEFINE broken == [mem EXCEPT !.broken = TRUE]
  <2>1. ASSUME NEW after \in MemTypes, Undo(s, after)
        PROVE  /\ Primary' \subseteq Primary /\ mem'.pending = after.pending
               /\ mem'.verifying = after.verifying /\ mem'.broken = after.broken
    <3>1. Primary' \subseteq Primary
      BY <1>1, <2>1 DEF Undo, Primary
    <3>2. mem'.pending = after.pending /\ mem'.verifying = after.verifying /\ mem'.broken = after.broken
      BY <2>1 DEF Undo, MemTypes
    <3> QED BY <3>1, <3>2
  <2>2. /\ broken \in MemTypes /\ broken.pending = mem.pending /\ broken.verifying = mem.verifying
        /\ broken.broken = TRUE
    BY <1>1 DEF MemTypes
  <2>3. \/ UNCHANGED tail /\ Undo(s, mem)
        \/ /\ tail' = <<>> \/ \E r \in Unfinished(s) : tail' = <<r>>
           /\ Undo(s, broken)
    BY <1>6 DEF AppendFails, s
  <2>4. \A r \in Unfinished(s) : r.kind = "delete" => State(r.of) = "intent"
    <3> TAKE r \in Unfinished(s)
    <3>1. CASE s.do = "flush"
      <4>1. PICK o \in mem.pending : r = Rec("delete", o)
        BY <3>1 DEF Unfinished
      <4>2. r.of = o
        BY <4>1 DEF Rec
      <4> QED BY <1>1, <4>2
    <3>2. CASE s.do = "state"
      BY <3>2 DEF Unfinished, Written
    <3>3. CASE s.do \notin {"flush", "state"}
      <4>1. r = Rec(IF s.do \in {"commit", "journal", "rejournal", "register"} THEN "put" ELSE s.do, s.of)
        BY <3>3 DEF Unfinished, Written
      <4>2. r.kind = "delete" => s.do = "delete"
        BY <4>1 DEF Rec
      <4>3. r.of = s.of
        BY <4>1 DEF Rec
      <4> QED BY <1>1, <1>2, <4>2, <4>3
    <3> QED BY <3>1, <3>2, <3>3
  <2>5. CASE UNCHANGED tail /\ Undo(s, mem)
    BY <1>1, <1>3, <1>4, <2>1, <2>5 DEF TombstoneInv, DeletionInv, State
  <2>6. CASE (tail' = <<>> \/ \E r \in Unfinished(s) : tail' = <<r>>) /\ Undo(s, broken)
    <3> HIDE DEF broken
    <3>1. /\ Primary' \subseteq Primary /\ mem'.pending = mem.pending
          /\ mem'.verifying = mem.verifying /\ mem'.broken = TRUE
      BY <2>1, <2>2, <2>6
    <3>2. \A i \in DOMAIN tail' : tail'[i].kind = "delete" => State(tail'[i].of) = "intent"
      BY <2>4, <2>6
    <3> QED BY <1>1, <1>3, <1>4, <3>1, <3>2 DEF TombstoneInv, DeletionInv, State
  <2> QED BY <2>3, <2>5, <2>6
<1> QED BY <1>5, <1>6

\* Crashes, restarts, accidents and the passing of time.
LEMMA AccidentDeletes ==
    ASSUME TombstoneInv, Crash \/ Restart \/ (\E o \in Object : Loss(o)) \/ Tick
    PROVE  SectionInv' /\ DeletionInv' /\ TombstonesAreIntended'
<1>1. /\ mem \in MemTypes /\ IsLog(journal) /\ Tombstones(journal)
      /\ disk \in [Node -> SUBSET Object] /\ "primary" \in Node
      /\ tail = <<>> \/ \E r \in Records : tail = <<r>>
      /\ \A o \in mem.pending : o \notin Primary /\ State(o) = "intent"
      /\ \A i \in DOMAIN tail : tail[i].kind = "delete" => State(tail[i].of) = "intent"
  BY SeqOfRange DEF TombstoneInv, SectionInv, DeletionInv, StoreTypes, ProcessTypes, DiskTypes, Node,
     JournalTypes, IsLog, TombstonesAreIntended, Tombstones
<1>2. todo' = <<>> => SectionInv'
  BY EmptySection DEF SectionInv, Section, InOrder, Flushes
<1>3. ASSUME NEW s, NEW d
      PROVE  Boot(s, d).pending = {} /\ Boot(s, d).verifying = {} /\ Boot(s, d).broken = FALSE
  BY DEF Boot
<1>4. CASE Crash
  <2>1. /\ todo' = <<>> /\ UNCHANGED <<journal, tail, disk>> /\ mem' = Boot(<<>>, {}) /\ ~mem.broken
    BY <1>4 DEF Crash
  <2>2. tail = <<>>
    BY <2>1 DEF TombstoneInv, DeletionInv
  <2>3. mem'.pending = {} /\ mem'.verifying = {} /\ tail' = <<>>
    BY <1>3, <2>1, <2>2, Zenon
  <2>4. DeletionInv'
    BY <2>3 DEF DeletionInv
  <2> QED BY <1>2, <2>1, <2>4 DEF TombstoneInv, TombstonesAreIntended
<1>5. CASE Restart
  <2> DEFINE found == journal \o tail
  <2>1. /\ todo' = <<>> /\ tail' = <<>> /\ journal' = Reconciled(found) /\ mem' = Boot(found, disk["primary"])
    BY <1>5 DEF Restart
  <2>2. IsLog(found) /\ Tombstones(found)
    <3>1. journal \in Seq(Records)
      BY DEF TombstoneInv, StoreTypes, JournalTypes
    <3>2. CASE tail = <<>>
      <4>1. found = journal
        BY <3>1, <3>2
      <4> QED BY <1>1, <4>1
    <3>3. CASE \E r \in Records : tail = <<r>>
      <4>1. PICK r \in Records : tail = <<r>>
        BY <3>3
      <4>2. found = Append(journal, r)
        BY <3>1, <4>1
      <4>3. r.kind = "delete" => ObjectState(journal, r.of) = "intent"
        BY <1>1, <4>1 DEF State
      <4>4. IsLog(Append(journal, r))
        BY <1>1, LogAppend DEF Begins
      <4> QED BY <1>1, <4>2, <4>3, <4>4, TombstonesAppend
    <3> QED BY <1>1, <3>2, <3>3
  <2> HIDE DEF found
  <2>3. disk["primary"] \subseteq Object
    BY <1>1
  <2>4. Mends(found, journal')
    BY <2>1, <2>2, <2>3, RestartMends
  <2>5. Tombstones(journal')
    BY <2>2, <2>4, TombstonesMended
  <2>6. mem'.pending = {} /\ mem'.verifying = {} /\ tail' = <<>>
    BY <1>3, <2>1, Zenon
  <2>7. DeletionInv'
    BY <2>6 DEF DeletionInv
  <2> QED BY <1>2, <2>1, <2>5, <2>7 DEF TombstonesAreIntended, Tombstones
<1>6. ASSUME NEW o \in Object, Loss(o) PROVE SectionInv' /\ DeletionInv' /\ TombstonesAreIntended'
  <2>1. /\ todo' = <<>> /\ UNCHANGED <<journal, tail, mem, alive>> /\ Primary' \subseteq Primary
    BY <1>1, <1>6 DEF Loss, Primary
  <2>2. DeletionInv'
    BY <1>1, <2>1 DEF TombstoneInv, DeletionInv, State
  <2> QED BY <1>2, <2>1, <2>2 DEF TombstoneInv, TombstonesAreIntended
<1>7. CASE Tick
  <2>1. todo' = <<>> /\ UNCHANGED <<journal, tail, mem, alive, disk>>
    BY <1>7 DEF Tick
  <2>2. DeletionInv'
    BY <2>1 DEF TombstoneInv, DeletionInv, State, Primary
  <2> QED BY <1>2, <2>1, <2>2 DEF TombstoneInv, TombstonesAreIntended
<1> QED BY <1>4, <1>5, <1>6, <1>7

\* The replicator and the replica do not touch the primary.
LEMMA ReplicationKeepsPrimary ==
    ASSUME StoreTypes, SkipRecord \/ ShipObject \/ ShipState \/ VerifyShipped \/ AnswerLost \/ ReplicaSweep
    PROVE  UNCHANGED <<journal, tail, alive, mem, todo, upload>> /\ Primary' = Primary
<1>1. disk \in [Node -> SUBSET Object] /\ "primary" \in Node /\ "primary" # "replica"
  BY DEF StoreTypes, DiskTypes, Node
<1>2. UNCHANGED <<journal, tail, alive, mem, todo, upload>>
  BY DEF SkipRecord, ShipObject, ShipState, VerifyShipped, AnswerLost, ReplicaSweep, primary
<1>3. UNCHANGED disk \/ \E X : disk' = [disk EXCEPT !["replica"] = X]
  BY DEF SkipRecord, ShipObject, ShipState, VerifyShipped, AnswerLost, ReplicaSweep
<1>4. Primary' = Primary
  BY <1>1, <1>3 DEF Primary
<1> QED BY <1>2, <1>4

\* What is sound stays sound while the primary does nothing.
LEMMA QuietDeletes ==
    ASSUME TombstoneInv, UNCHANGED <<journal, tail, alive, mem, todo>>, Primary' = Primary
    PROVE  SectionInv' /\ DeletionInv' /\ TombstonesAreIntended'
<1>1. \A i \in DOMAIN todo : StepIsSound(todo, i)'
  BY DEF TombstoneInv, SectionInv, Section, StepIsSound, State
<1>2. Section(todo)'
  BY <1>1 DEF TombstoneInv, SectionInv, Section, InOrder
<1>3. SectionInv'
  BY <1>2 DEF TombstoneInv, SectionInv, Flushes
<1> QED BY <1>3 DEF TombstoneInv, DeletionInv, TombstonesAreIntended, State

LEMMA TombstoneStep ==
    ASSUME TombstoneInv, [StoreNext]_vars
    PROVE  TombstoneInv'
<1>1. StoreTypes'
  BY TypesStep DEF TombstoneInv
<1>2. CASE UNCHANGED vars
  <2>1. UNCHANGED <<journal, tail, alive, mem, todo>> /\ Primary' = Primary
    BY <1>2 DEF vars, Primary
  <2> QED BY <1>1, <2>1, QuietDeletes DEF TombstoneInv
<1>3. CASE SkipRecord \/ ShipObject \/ ShipState \/ VerifyShipped \/ AnswerLost \/ ReplicaSweep
  BY <1>1, <1>3, ReplicationKeepsPrimary, QuietDeletes DEF TombstoneInv
<1>4. CASE \/ \E u \in Uploader : \/ \E b \in Blob : PutBlob(u, b)
                                  \/ AcknowledgeDuplicate(u) \/ CommitBlob(u) \/ UploadFails(u)
           \/ \E j \in Job : RegisterManifest(j) \/ MarkTerminal(j) \/ SetPinned(j)
           \/ \E o \in Object : DeleteObject(o) \/ Rejournal(o) \/ Rejournaled(o)
           \/ Sweep \/ Maintain
  <2>1. SectionInv' /\ DeletionInv' /\ UNCHANGED <<journal, tail>>
    BY <1>4, HandlersDelete
  <2> QED BY <1>1, <2>1 DEF TombstoneInv, TombstonesAreIntended
<1>5. CASE Step
  BY <1>1, <1>5, StepDeletes DEF TombstoneInv
<1>6. CASE AppendFails \/ UnlinkFails
  BY <1>1, <1>6, FailureDeletes DEF TombstoneInv
<1>7. CASE Crash \/ Restart \/ (\E o \in Object : Loss(o)) \/ Tick
  BY <1>1, <1>7, AccidentDeletes DEF TombstoneInv
<1> QED BY <1>2, <1>3, <1>4, <1>5, <1>6, <1>7 DEF StoreNext

LEMMA TombstoneInit ==
    ASSUME StoreInit
    PROVE  TombstoneInv
<1>1. /\ journal = <<>> /\ tail = <<>> /\ todo = <<>> /\ mem = Boot(<<>>, {})
  BY DEF StoreInit
<1>2. SectionInv
  BY <1>1, EmptySection DEF SectionInv, Flushes
<1>3. mem.pending = {} /\ mem.verifying = {}
  BY <1>1 DEF Boot
<1> QED BY <1>1, <1>2, <1>3, TypesInit DEF TombstoneInv, DeletionInv, TombstonesAreIntended

\* A tombstone in the primary's journal ends an intent that nothing has voided since,
\* whatever failed, tore or crashed between the intent, the unlink and the record.
THEOREM OnlyIntendedTombstones == StoreSpec => []TombstonesAreIntended
<1>1. StoreInit => TombstoneInv
  BY TombstoneInit
<1>2. TombstoneInv /\ [StoreNext]_vars => TombstoneInv'
  BY TombstoneStep
<1>3. TombstoneInv => TombstonesAreIntended
  BY DEF TombstoneInv
<1> QED BY <1>1, <1>2, <1>3, PTL DEF StoreSpec

-----------------------------------------------------------------------------
(* Capacity *)

Streaming == {u \in Uploader : upload[u].pc = "stream"}
Places(t) == \E i \in DOMAIN t : t[i].do \in Placing

\* Room for an object is set aside until a section has placed it.
CapacityInv ==
    /\ TombstoneInv /\ WithinLimit /\ mem.bytes >= 0
    /\ Places(todo) => Cardinality(Primary) + Reserved + 1 <= Limit

LEMMA Counts ==
    ASSUME StoreTypes
    PROVE  /\ IsFiniteSet(Primary) /\ Cardinality(Primary) \in Nat
           /\ IsFiniteSet(Streaming) /\ Reserved = Cardinality(Streaming) /\ Reserved \in Nat
           /\ mem.bytes \in Int /\ Limit \in Nat
<1>1. Primary \in SUBSET Object /\ Streaming \in SUBSET Uploader
  BY DEF StoreTypes, DiskTypes, Node, Primary, Streaming
<1>2. IsFiniteSet(Primary) /\ IsFiniteSet(Streaming)
  BY <1>1, FS_Subset, StoreAssumption
<1>3. Reserved = Cardinality(Streaming)
  BY DEF Reserved, Streaming
<1>4. mem.bytes \in Int /\ Limit \in Nat
  BY StoreAssumption DEF StoreTypes, ProcessTypes, MemTypes
<1> QED BY <1>2, <1>3, <1>4, FS_CardinalityType

\* How the number of uploads in flight changes.
LEMMA ReservedChanges ==
    ASSUME StoreTypes
    PROVE  /\ Streaming' \subseteq Streaming => Reserved' \in Nat /\ Reserved' <= Reserved
           /\ \A u : Streaming' = Streaming \cup {u} => Reserved' \in Nat /\ Reserved' <= Reserved + 1
           /\ \A u \in Streaming : Streaming' = Streaming \ {u} => Reserved' \in Nat /\ Reserved' + 1 = Reserved
<1>1. /\ IsFiniteSet(Streaming) /\ Reserved = Cardinality(Streaming) /\ Reserved \in Nat
  BY Counts
<1>2. Reserved' = Cardinality(Streaming')
  BY DEF Reserved, Streaming
<1>3. Streaming' \subseteq Streaming => Reserved' \in Nat /\ Reserved' <= Reserved
  BY <1>1, <1>2, FS_Subset, FS_CardinalityType
<1>4. ASSUME NEW u, Streaming' = Streaming \cup {u} PROVE Reserved' \in Nat /\ Reserved' <= Reserved + 1
  BY <1>1, <1>2, <1>4, FS_AddElement, FS_CardinalityType
<1>5. ASSUME NEW u \in Streaming, Streaming' = Streaming \ {u} PROVE Reserved' \in Nat /\ Reserved' + 1 = Reserved
  <2>1. Cardinality(Streaming \ {u}) = Cardinality(Streaming) - 1
    BY <1>1, FS_RemoveElement
  <2>2. IsFiniteSet(Streaming') /\ Cardinality(Streaming') \in Nat
    BY <1>1, <1>5, FS_RemoveElement, FS_CardinalityType
  <2> QED BY <1>1, <1>2, <1>5, <2>1, <2>2
<1> QED BY <1>3, <1>4, <1>5

\* How the number of stored objects changes.
LEMMA StoredChanges ==
    ASSUME StoreTypes
    PROVE  LET c == Cardinality(Primary)  d == Cardinality(Primary')
           IN  /\ Primary' \subseteq Primary => d \in Nat /\ d <= c
               /\ \A o : Primary' = Primary \cup {o} => d \in Nat /\ d <= c + 1
               /\ \A o \in Primary : Primary' = Primary \ {o} => d \in Nat /\ d + 1 = c
<1>1. IsFiniteSet(Primary) /\ Cardinality(Primary) \in Nat
  BY Counts
<1>2. ASSUME Primary' \subseteq Primary
      PROVE  Cardinality(Primary') \in Nat /\ Cardinality(Primary') <= Cardinality(Primary)
  BY <1>1, <1>2, FS_Subset, FS_CardinalityType
<1>3. ASSUME NEW o, Primary' = Primary \cup {o}
      PROVE  Cardinality(Primary') \in Nat /\ Cardinality(Primary') <= Cardinality(Primary) + 1
  <2> DEFINE P == Primary
  <2>1. /\ IsFiniteSet(P \cup {o})
        /\ Cardinality(P \cup {o}) = Cardinality(P) \/ Cardinality(P \cup {o}) = Cardinality(P) + 1
    <3> HIDE DEF P
    <3>1. IsFiniteSet(P)
      BY <1>1 DEF P
    <3> QED BY <3>1, FS_AddElement
  <2>2. Primary' = P \cup {o}
    BY <1>3
  <2>3. Cardinality(P) \in Nat
    BY <1>1
  <2> QED BY <2>1, <2>2, <2>3
<1>4. ASSUME NEW o \in Primary, Primary' = Primary \ {o}
      PROVE  Cardinality(Primary') \in Nat /\ Cardinality(Primary') + 1 = Cardinality(Primary)
  <2> DEFINE P == Primary
  <2>1. Cardinality(P \ {o}) = Cardinality(P) - 1 /\ IsFiniteSet(P \ {o})
    <3>1. IsFiniteSet(P) /\ o \in P
      BY <1>1
    <3> HIDE DEF P
    <3> QED BY <3>1, FS_RemoveElement
  <2>2. Cardinality(P \ {o}) \in Nat
    BY <2>1, FS_CardinalityType
  <2>3. Primary' = P \ {o} /\ Cardinality(P) \in Nat
    BY <1>1, <1>4
  <2> QED BY <2>1, <2>2, <2>3
<1> QED BY <1>2, <1>3, <1>4

\* The capacity is kept when no more is stored and no more is in flight, and whatever
\* has been set aside is.
LEMMA CapacityStays ==
    ASSUME CapacityInv, TombstoneInv', Primary' \subseteq Primary, Streaming' \subseteq Streaming,
           mem'.bytes >= 0, alive' => mem'.bytes >= Cardinality(Primary'), Places(todo') => Places(todo)
    PROVE  CapacityInv'
<1>1. StoreTypes
  BY DEF CapacityInv, TombstoneInv
<1>2. Reserved' \in Nat /\ Reserved' <= Reserved
  BY <1>1, ReservedChanges
<1>3. Cardinality(Primary') \in Nat /\ Cardinality(Primary') <= Cardinality(Primary)
  BY <1>1, StoredChanges
<1>4. Cardinality(Primary) \in Nat /\ Reserved \in Nat /\ Limit \in Nat
  BY <1>1, Counts
<1>5. Cardinality(Primary) + Reserved <= Limit
  BY DEF CapacityInv, WithinLimit, Primary
<1>6. WithinLimit'
  BY <1>2, <1>3, <1>4, <1>5 DEF WithinLimit, Primary
<1>7. Places(todo') => Cardinality(Primary') + Reserved' + 1 <= Limit
  BY <1>2, <1>3, <1>4 DEF CapacityInv
<1> QED BY <1>6, <1>7 DEF CapacityInv, Places

\* What is due of steps that place nothing places nothing.
LEMMA DuePlaces ==
    ASSUME NEW steps \in Seq(TypedSteps), ~Places(steps)
    PROVE  ~Places(Due(steps))
<1>1. PICK f : Numbers(f, steps)
  BY DueIsNumbered
<1>2. \A n \in DOMAIN Due(steps) : f[n] \in DOMAIN steps /\ Due(steps)[n] = steps[f[n]]
  BY <1>1 DEF Numbers
<1> QED BY <1>2 DEF Places

\* A deletion places nothing.
LEMMA DeletionPlaces ==
    ASSUME NEW o \in Object
    PROVE  ~Places(DeleteSteps(o))
<1> DEFINE a == Do("flush", o)  b == Do("intent", o)  c == Do("unlink", o)
           d == Do("unmeta", o)  e == Do("delete", o)
<1>1. a.do = "flush" /\ b.do = "intent" /\ c.do = "unlink" /\ d.do = "unmeta" /\ e.do = "delete"
  BY DEF Do
<1>2. DeleteSteps(o) = <<a, b, c>> \o (IF o \in Job THEN <<d>> ELSE <<>>) \o <<e>>
  BY DEF DeleteSteps
<1> HIDE DEF a, b, c, d, e
<1>3. CASE o \in Job
  <2> DEFINE t == <<a, b, c>> \o <<d>> \o <<e>>
  <2>1. DOMAIN t = 1..5 /\ t[1] = a /\ t[2] = b /\ t[3] = c /\ t[4] = d /\ t[5] = e
    OBVIOUS
  <2>2. DeleteSteps(o) = t
    BY <1>2, <1>3
  <2> HIDE DEF t
  <2>3. \A i \in DOMAIN t : t[i].do \in {"flush", "intent", "unlink", "unmeta", "delete"}
    BY <1>1, <2>1
  <2> QED BY <2>2, <2>3 DEF Places, Placing
<1>4. CASE o \notin Job
  <2> DEFINE t == <<a, b, c>> \o <<>> \o <<e>>
  <2>1. DOMAIN t = 1..4 /\ t[1] = a /\ t[2] = b /\ t[3] = c /\ t[4] = e
    OBVIOUS
  <2>2. DeleteSteps(o) = t
    BY <1>2, <1>4
  <2> HIDE DEF t
  <2>3. \A i \in DOMAIN t : t[i].do \in {"flush", "intent", "unlink", "delete"}
    BY <1>1, <2>1
  <2> QED BY <2>2, <2>3 DEF Places, Placing
<1> QED BY <1>3, <1>4

\* The handlers.
LEMMA HandlersFit ==
    ASSUME CapacityInv, TombstoneInv',
           \/ \E u \in Uploader : \/ \E b \in Blob : PutBlob(u, b)
                                  \/ AcknowledgeDuplicate(u) \/ CommitBlob(u) \/ UploadFails(u)
           \/ \E j \in Job : RegisterManifest(j) \/ MarkTerminal(j) \/ SetPinned(j)
           \/ \E o \in Object : DeleteObject(o) \/ Rejournal(o) \/ Rejournaled(o)
           \/ Sweep \/ Maintain
    PROVE  CapacityInv'
<1>1. /\ StoreTypes /\ upload \in Uploads /\ mem \in MemTypes /\ todo \in Seq(TypedSteps)
      /\ Primary \subseteq Object /\ mem.pending \subseteq Object
      /\ Cardinality(Primary) \in Nat /\ Reserved \in Nat /\ Limit \in Nat /\ mem.bytes \in Int
      /\ Cardinality(Primary) + Reserved <= Limit /\ mem.bytes >= 0
      /\ alive => mem.bytes >= Cardinality(Primary)
      /\ Blob \subseteq Object /\ Job \subseteq Object
  BY Counts DEF CapacityInv, TombstoneInv, StoreTypes, ProcessTypes, DiskTypes, MemTypes, Node, Primary, WithinLimit, Object
<1> DEFINE Same == UNCHANGED <<disk, alive>> /\ mem'.bytes = mem.bytes
<1>2. ASSUME Same, Streaming' \subseteq Streaming, Places(todo') => Places(todo) PROVE CapacityInv'
  <2>1. Primary' = Primary
    BY <1>2 DEF Primary
  <2> QED BY <1>1, <1>2, <2>1, CapacityStays
<1>3. ASSUME Same, Reserved' \in Nat, Cardinality(Primary) + Reserved' + 1 <= Limit PROVE CapacityInv'
  <2>1. Primary' = Primary
    BY <1>3 DEF Primary
  <2>2. WithinLimit'
    BY <1>1, <1>3, <2>1 DEF WithinLimit, Primary
  <2> QED BY <1>1, <1>3, <2>1, <2>2 DEF CapacityInv
<1>4. ASSUME NEW u \in Uploader, NEW b \in Blob, PutBlob(u, b) PROVE CapacityInv'
  <2>1. Same /\ alive /\ todo = <<>> /\ UNCHANGED todo /\ upload[u].pc = "idle"
    BY <1>4 DEF PutBlob, Free
  <2>2. ~Places(todo')
    BY <2>1 DEF Places
  <2>3. CASE upload' = [upload EXCEPT ![u] = [pc |-> "duplicate", of |-> b]]
    <3>1. Streaming' \subseteq Streaming
      BY <1>1, <2>3 DEF Streaming, Uploads
    <3> QED BY <1>2, <2>1, <2>2, <3>1
  <2>4. CASE mem.bytes + Reserved + 1 <= Limit /\ upload' = [upload EXCEPT ![u] = [pc |-> "stream", of |-> b]]
    <3>1. Streaming' = Streaming \cup {u}
      BY <1>1, <2>4 DEF Streaming, Uploads
    <3>2. Reserved' \in Nat /\ Reserved' <= Reserved + 1
      BY <1>1, <3>1, ReservedChanges
    <3>3. Cardinality(Primary) + Reserved' <= Limit
      BY <1>1, <2>1, <2>4, <3>2
    <3>4. Primary' = Primary
      BY <2>1 DEF Primary
    <3>5. WithinLimit'
      BY <1>1, <2>1, <3>3, <3>4 DEF WithinLimit, Primary
    <3>6. mem'.bytes >= 0
      BY <1>1, <2>1
    <3> QED BY <2>2, <3>5, <3>6 DEF CapacityInv, Places
  <2> QED BY <1>4, <2>3, <2>4 DEF PutBlob
<1>5. ASSUME NEW u \in Uploader, UploadFails(u) PROVE CapacityInv'
  <2>1. Same /\ UNCHANGED todo /\ upload' = [upload EXCEPT ![u].pc = "idle"]
    BY <1>5 DEF UploadFails
  <2>2. Streaming' \subseteq Streaming
    BY <1>1, <2>1 DEF Streaming, Uploads
  <2> QED BY <1>2, <2>1, <2>2 DEF Places
<1>6. ASSUME NEW u \in Uploader, CommitBlob(u) PROVE CapacityInv'
  <2>1. Same /\ upload' = [upload EXCEPT ![u].pc = "idle"] /\ upload[u].pc = "stream"
    BY <1>6 DEF CommitBlob
  <2>2. u \in Streaming /\ Streaming' = Streaming \ {u}
    BY <1>1, <2>1 DEF Streaming, Uploads
  <2>3. Reserved' \in Nat /\ Reserved' + 1 = Reserved
    BY <1>1, <2>2, ReservedChanges
  <2> QED BY <1>1, <1>3, <2>1, <2>3
<1>7. ASSUME NEW j \in Job, RegisterManifest(j) PROVE CapacityInv'
  <2>1. Same /\ UNCHANGED upload /\ mem.bytes + Reserved + 1 <= Limit /\ alive
    BY <1>7 DEF RegisterManifest, Begin, Free
  <2>2. Reserved' = Reserved
    BY <2>1 DEF Reserved
  <2> QED BY <1>1, <1>3, <2>1, <2>2
<1>8. ASSUME NEW steps \in Seq(TypedSteps), ~Places(steps), Begin(steps), Same, Streaming' \subseteq Streaming
      PROVE  CapacityInv'
  <2>1. ~Places(todo')
    BY <1>8, DuePlaces DEF Begin
  <2> QED BY <1>2, <1>8, <2>1
<1>9. UNCHANGED upload => Streaming' \subseteq Streaming
  BY DEF Streaming
<1>10. \A kind, o : Do(kind, o).do = kind
  BY DEF Do
<1>11. ASSUME NEW u \in Uploader, AcknowledgeDuplicate(u) PROVE CapacityInv'
  <2> DEFINE b == upload[u].of
             t == IF Intact(b) THEN <<Do("touch", b), Do("journal", b), Do("cancel", b)>> ELSE <<>>
  <2>1. Same /\ upload' = [upload EXCEPT ![u].pc = "idle"] /\ Begin(t)
    BY <1>11 DEF AcknowledgeDuplicate
  <2>2. Streaming' \subseteq Streaming
    BY <1>1, <2>1 DEF Streaming, Uploads
  <2>3. b \in Blob
    BY <1>1 DEF Uploads
  <2> HIDE DEF b
  <2>4. Do("touch", b) \in TypedSteps /\ Do("journal", b) \in TypedSteps /\ Do("cancel", b) \in TypedSteps
    BY <1>1, <2>3, TypedDo DEF StepKinds, OfBlobs, OfJobs
  <2>5. t \in Seq(TypedSteps)
    <3>1. <<Do("touch", b), Do("journal", b), Do("cancel", b)>> \in Seq(TypedSteps) /\ <<>> \in Seq(TypedSteps)
      BY <2>4
    <3> QED BY <3>1
  <2>6. ~Places(t)
    BY DEF Places, Placing, Do
  <2> HIDE DEF t
  <2> QED BY <1>8, <2>1, <2>2, <2>5, <2>6
<1>12. ASSUME NEW j \in Job, MarkTerminal(j) \/ SetPinned(j) PROVE CapacityInv'
  <2>1. PICK m \in Metas : SetJobState(j, m)
    <3>1. meta["primary"][j] \in Metas /\ now \in 0..MaxNow
      BY <1>1 DEF StoreTypes, DiskTypes, OtherTypes, Node
    <3>2. [meta["primary"][j] EXCEPT !.terminal = now] \in Metas
      BY <3>1 DEF Metas
    <3>3. ASSUME NEW y \in BOOLEAN PROVE [meta["primary"][j] EXCEPT !.pinned = y] \in Metas
      BY <3>1 DEF Metas
    <3>4. (~meta["primary"][j].pinned) \in BOOLEAN
      OBVIOUS
    <3>5. [meta["primary"][j] EXCEPT !.pinned = ~meta["primary"][j].pinned] \in Metas
      BY <3>3, <3>4
    <3> QED BY <1>12, <3>2, <3>5 DEF MarkTerminal, SetPinned
  <2> DEFINE old == meta["primary"][j]
             step(do) == [do |-> do, of |-> j, was |-> old, as |-> m]
             t == <<Do("flush", j), step("meta"), step("state")>>
  <2>2. Begin(t) /\ Same /\ UNCHANGED upload
    BY <2>1 DEF SetJobState
  <2>3. old \in Metas
    BY <1>1 DEF StoreTypes, DiskTypes, Node
  <2>4. Do("flush", j) \in TypedSteps
    BY <1>1, TypedDo DEF StepKinds, OfBlobs, OfJobs
  <2>5. step("meta") \in TypedSteps /\ step("state") \in TypedSteps
    BY <1>1, <2>1, <2>3 DEF TypedSteps, Steps, OfBlobs, OfJobs
  <2>6. t \in Seq(TypedSteps)
    <3> HIDE DEF step
    <3> QED BY <2>4, <2>5
  <2>7. ~Places(t)
    <3>1. DOMAIN t = 1..3 /\ t[1].do = "flush" /\ t[2].do = "meta" /\ t[3].do = "state"
      BY DEF Do
    <3> HIDE DEF t
    <3> QED BY <3>1 DEF Places, Placing
  <2> HIDE DEF t
  <2> QED BY <1>8, <1>9, <2>2, <2>6, <2>7
<1>13. ASSUME NEW o \in Object, DeleteObject(o) PROVE CapacityInv'
  <2>1. Begin(DeleteSteps(o)) /\ Same /\ UNCHANGED upload
    BY <1>13 DEF DeleteObject
  <2>2. DeleteSteps(o) \in Seq(TypedSteps) /\ ~Places(DeleteSteps(o))
    BY DeleteTyped, DeletionPlaces
  <2> QED BY <1>8, <1>9, <2>1, <2>2
<1>14. ASSUME NEW o \in Object, Rejournal(o) PROVE CapacityInv'
  <2> DEFINE t == <<Do("flush", o), Do("verify", o)>>
  <2>1. Begin(t) /\ Same /\ UNCHANGED upload
    BY <1>14 DEF Rejournal
  <2>2. Do("flush", o) \in TypedSteps /\ Do("verify", o) \in TypedSteps
    BY TypedDo DEF StepKinds, OfBlobs, OfJobs
  <2>3. t \in Seq(TypedSteps)
    BY <2>2
  <2>4. ~Places(t)
    BY DEF Places, Placing, Do
  <2> HIDE DEF t
  <2> QED BY <1>8, <1>9, <2>1, <2>3, <2>4
<1>15. ASSUME NEW o \in Object, Rejournaled(o) PROVE CapacityInv'
  <2> DEFINE t == <<Do("rejournal", o)>>
  <2>1. Begin(t) /\ Same /\ UNCHANGED upload
    BY <1>1, <1>15 DEF Rejournaled, MemTypes
  <2>2. Do("rejournal", o) \in TypedSteps
    BY TypedDo DEF StepKinds, OfBlobs, OfJobs
  <2>3. t \in Seq(TypedSteps)
    BY <2>2
  <2>4. ~Places(t)
    BY DEF Places, Placing, Do
  <2> HIDE DEF t
  <2> QED BY <1>8, <1>9, <2>1, <2>3, <2>4
<1>16. CASE Sweep
  <2> DEFINE p == CHOOSE o \in Object : TRUE
             t == [i \in 1..3 |-> Do(<<"expire", "collect", "evict">>[i], p)]
  <2>1. Begin(t) /\ Same /\ UNCHANGED upload
    BY <1>16 DEF Sweep
  <2>2. p \in Object
    BY StoreAssumption DEF Object
  <2> HIDE DEF p
  <2>3. \A i \in 1..3 : <<"expire", "collect", "evict">>[i] \in {"expire", "collect", "evict"}
    OBVIOUS
  <2>4. \A i \in 1..3 : Do(<<"expire", "collect", "evict">>[i], p) \in TypedSteps
    BY <2>2, <2>3, TypedDo DEF StepKinds, OfBlobs, OfJobs
  <2>5. t \in [1..3 -> TypedSteps] /\ \A i \in 1..3 : t[i].do \in {"expire", "collect", "evict"}
    BY <2>3, <2>4 DEF Do
  <2> HIDE DEF t
  <2>6. PICK n \in Nat : n = 3
    OBVIOUS
  <2>7. t \in [1..n -> TypedSteps]
    BY <2>5, <2>6
  <2>8. t \in Seq(TypedSteps)
    BY <2>7
  <2>9. ~Places(t)
    BY <2>5 DEF Places, Placing
  <2> QED BY <1>8, <1>9, <2>1, <2>8, <2>9
<1>17. CASE Maintain
  <2> DEFINE p == CHOOSE o \in mem.pending : TRUE
             t == <<Do("flush", p)>>
  <2>1. p \in Object /\ Same /\ Begin(t) /\ UNCHANGED upload
    BY <1>1, <1>17 DEF Maintain
  <2> HIDE DEF p
  <2>2. Do("flush", p) \in TypedSteps
    BY <2>1, TypedDo DEF StepKinds, OfBlobs, OfJobs
  <2>3. t \in Seq(TypedSteps)
    BY <2>2
  <2>4. ~Places(t)
    BY DEF Places, Placing, Do
  <2> HIDE DEF t
  <2> QED BY <1>8, <1>9, <2>1, <2>3, <2>4
<1> QED BY <1>4, <1>5, <1>6, <1>7, <1>11, <1>12, <1>13, <1>14, <1>15, <1>16, <1>17

\* The steps of a section.
LEMMA StepFits ==
    ASSUME CapacityInv, TombstoneInv', Step
    PROVE  CapacityInv'
<1> DEFINE s == Head(todo)
<1>1. /\ StoreTypes /\ todo # <<>> /\ alive /\ Section(todo) /\ mem \in MemTypes
      /\ todo \in Seq(TypedSteps) /\ disk \in [Node -> SUBSET Object] /\ "primary" \in Node
      /\ Cardinality(Primary) \in Nat /\ Reserved \in Nat /\ Limit \in Nat /\ mem.bytes \in Int
      /\ mem.bytes >= Cardinality(Primary) /\ UNCHANGED <<upload, alive>>
      /\ Places(todo) => Cardinality(Primary) + Reserved + 1 <= Limit
      /\ s = todo[1] /\ 1 \in DOMAIN todo /\ DOMAIN todo = 1..Len(todo) /\ Len(todo) \in Nat
      /\ DOMAIN Tail(todo) = 1..(Len(todo) - 1) /\ \A i \in 1..(Len(todo) - 1) : Tail(todo)[i] = todo[i + 1]
  BY Counts DEF Step, CapacityInv, TombstoneInv, SectionInv, StoreTypes, ProcessTypes, DiskTypes, Node, WithinLimit, Primary
<1>2. /\ s \in TypedSteps
      /\ s.do = "unlink" => s.of \in Primary
      /\ s.do \in Retaining => \A i \in DOMAIN todo : todo[i].do \in Retaining
      /\ s.do \in Placing => \A i \in DOMAIN Tail(todo) : Tail(todo)[i].do \notin Placing
  BY <1>1, HeadIsSound
<1>3. Places(Tail(todo)) => Places(todo)
  <2> SUFFICES ASSUME NEW i \in DOMAIN Tail(todo), Tail(todo)[i].do \in Placing PROVE Places(todo)
    BY DEF Places
  <2>1. i + 1 \in DOMAIN todo /\ todo[i + 1] = Tail(todo)[i]
    BY <1>1
  <2> QED BY <2>1 DEF Places
<1>4. Streaming' \subseteq Streaming
  BY <1>1 DEF Streaming
<1>5. ASSUME UNCHANGED disk, mem'.bytes = mem.bytes, Places(todo') => Places(todo) PROVE CapacityInv'
  <2>1. Primary' = Primary /\ mem'.bytes >= 0
    BY <1>1, <1>5 DEF Primary
  <2> QED BY <1>1, <1>4, <1>5, <2>1, CapacityStays
<1> HIDE DEF s
<1>6. CASE AppendRecord(s)
  <2>1. todo' = Tail(todo) /\ UNCHANGED disk /\ mem' = Recorded(s)
    BY <1>6 DEF AppendRecord
  <2>2. mem'.bytes = mem.bytes
    BY <1>1, <2>1 DEF Recorded, MemTypes
  <2> QED BY <1>3, <1>5, <2>1, <2>2
<1>7. CASE FlushOne(s)
  <2>1. (todo' = Tail(todo) \/ todo' = todo) /\ UNCHANGED disk /\ \E S : mem' = [mem EXCEPT !.pending = S]
    BY <1>7 DEF FlushOne
  <2>2. mem'.bytes = mem.bytes
    BY <1>1, <2>1 DEF MemTypes
  <2> QED BY <1>3, <1>5, <2>1, <2>2
<1>8. CASE StoreObject(s)
  <2>1. /\ s.do \in Placing /\ todo' = Tail(todo) /\ mem' = [mem EXCEPT !.bytes = mem.bytes + 1]
        /\ disk' = [disk EXCEPT !["primary"] = @ \cup {s.of}]
    BY <1>8 DEF StoreObject, Placing
  <2>2. Primary' = Primary \cup {s.of}
    BY <1>1, <2>1 DEF Primary
  <2>3. Cardinality(Primary') \in Nat /\ Cardinality(Primary') <= Cardinality(Primary) + 1
    BY <1>1, <2>2, StoredChanges
  <2>4. Cardinality(Primary) + Reserved + 1 <= Limit
    BY <1>1, <2>1 DEF Places, s
  <2>5. mem'.bytes = mem.bytes + 1
    BY <1>1, <2>1 DEF MemTypes
  <2>6. Reserved' = Reserved
    BY <1>1 DEF Reserved
  <2>7. ~Places(todo')
    BY <1>2, <2>1 DEF Places
  <2>8. WithinLimit'
    BY <1>1, <2>3, <2>4, <2>5, <2>6 DEF WithinLimit, Primary
  <2>9. mem'.bytes >= 0
    BY <1>1, <2>5
  <2> QED BY <2>7, <2>8, <2>9 DEF CapacityInv, Places
<1>9. CASE UpdateMeta(s)
  BY <1>3, <1>5, <1>9 DEF UpdateMeta
<1>10. CASE Touch(s)
  <2>1. todo' = Tail(todo) /\ UNCHANGED disk /\ (mem' = mem \/ \E S : mem' = [mem EXCEPT !.verifying = S])
    BY <1>10 DEF Touch
  <2>2. mem'.bytes = mem.bytes
    BY <1>1, <2>1 DEF MemTypes
  <2> QED BY <1>3, <1>5, <2>1, <2>2
<1>11. CASE Unlink(s)
  <2>1. /\ s.do = "unlink" /\ todo' = Tail(todo) /\ disk' = [disk EXCEPT !["primary"] = @ \ {s.of}]
        /\ \E S : mem' = [mem EXCEPT !.bytes = mem.bytes - 1, !.pending = S]
    BY <1>11 DEF Unlink
  <2>2. Primary' = Primary \ {s.of} /\ s.of \in Primary
    BY <1>1, <1>2, <2>1 DEF Primary
  <2>3. Cardinality(Primary') \in Nat /\ Cardinality(Primary') + 1 = Cardinality(Primary)
    BY <1>1, <2>2, StoredChanges
  <2>4. mem'.bytes = mem.bytes - 1
    BY <1>1, <2>1 DEF MemTypes
  <2>5. mem'.bytes >= Cardinality(Primary') /\ mem'.bytes >= 0
    BY <1>1, <2>3, <2>4
  <2>6. Places(todo') => Places(todo)
    BY <1>3, <2>1
  <2> QED BY <1>4, <2>2, <2>5, <2>6, CapacityStays
<1>12. CASE Retain(s)
  <2>1. UNCHANGED <<disk, mem>> /\ s.do \in Retaining
    BY <1>12 DEF Retain, Retaining
  <2>2. CASE todo' = Tail(todo)
    BY <1>3, <1>5, <2>1, <2>2
  <2>3. CASE \E o \in Victims(s) :
                todo' = Due(DeleteSteps(o)) \o (IF s.do = "evict" THEN <<Do("free", o)>> ELSE <<>>) \o todo
    <3>1. PICK o \in Victims(s) :
             todo' = Due(DeleteSteps(o)) \o (IF s.do = "evict" THEN <<Do("free", o)>> ELSE <<>>) \o todo
      BY <2>3
    <3>2. o \in Object
      <4>1. o \in disk["primary"]
        BY <3>1 DEF Victims, Expired, Unreferenced, Terminal
      <4> QED BY <1>1, <4>1
    <3> DEFINE d == Due(DeleteSteps(o))
               f == IF s.do = "evict" THEN <<Do("free", o)>> ELSE <<>>
    <3>3. d \in Seq(TypedSteps) /\ ~Places(d)
      <4>1. DeleteSteps(o) \in Seq(TypedSteps) /\ ~Places(DeleteSteps(o))
        BY <3>2, DeleteTyped, DeletionPlaces
      <4> QED BY <4>1, DueTyped, DuePlaces
    <3>4. f \in Seq(TypedSteps) /\ ~Places(f)
      <4>1. Do("free", o) \in TypedSteps
        BY <3>2, TypedDo DEF StepKinds, OfBlobs, OfJobs
      <4>2. Do("free", o).do = "free"
        BY DEF Do
      <4> QED BY <4>1, <4>2 DEF Places, Placing
    <3>5. ~Places(todo)
      BY <1>2, <2>1 DEF Places, Placing, Retaining
    <3> HIDE DEF d, f
    <3>6. ASSUME NEW a \in Seq(TypedSteps), NEW b \in Seq(TypedSteps), ~Places(a), ~Places(b)
          PROVE  a \o b \in Seq(TypedSteps) /\ ~Places(a \o b)
      <4>1. /\ a \o b \in Seq(TypedSteps) /\ Len(a \o b) = Len(a) + Len(b)
            /\ \A i \in 1..Len(a) : (a \o b)[i] = a[i]
            /\ \A i \in 1..Len(b) : (a \o b)[Len(a) + i] = b[i]
        BY Concatenation
      <4> DEFINE c == a \o b
      <4> HIDE DEF c
      <4>2. ASSUME NEW i \in DOMAIN c PROVE c[i].do \notin Placing
        <5>1. i \in 1..Len(a) \/ i - Len(a) \in 1..Len(b)
          BY <4>1 DEF c
        <5>2. CASE i \in 1..Len(a)
          BY <3>6, <4>1, <5>2 DEF Places, c
        <5>3. CASE i - Len(a) \in 1..Len(b)
          <6> DEFINE k == i - Len(a)
          <6>1. i = Len(a) + k
            BY <4>1 DEF c
          <6>2. c[i] = b[k] /\ k \in DOMAIN b
            BY <4>1, <5>3, <6>1 DEF c
          <6> QED BY <3>6, <6>2 DEF Places
        <5> QED BY <5>1, <5>2, <5>3
      <4> QED BY <4>1, <4>2 DEF Places, c
    <3>7. d \o f \in Seq(TypedSteps) /\ ~Places(d \o f)
      BY <3>3, <3>4, <3>6
    <3>8. ~Places(d \o f \o todo)
      BY <1>1, <3>5, <3>6, <3>7
    <3>9. ~Places(todo')
      BY <3>1, <3>8 DEF d, f
    <3> QED BY <1>5, <2>1, <3>9
  <2> QED BY <1>12, <2>2, <2>3 DEF Retain
<1> QED BY <1>6, <1>7, <1>8, <1>9, <1>10, <1>11, <1>12 DEF Step, s

\* Failed writes and unlinks.
LEMMA FailureFits ==
    ASSUME CapacityInv, TombstoneInv', AppendFails \/ UnlinkFails
    PROVE  CapacityInv'
<1> DEFINE s == Head(todo)
<1>1. /\ StoreTypes /\ todo # <<>> /\ alive /\ Section(todo) /\ mem \in MemTypes
      /\ disk \in [Node -> SUBSET Object] /\ "primary" \in Node
      /\ Cardinality(Primary) \in Nat /\ mem.bytes \in Int
      /\ mem.bytes >= Cardinality(Primary) /\ UNCHANGED <<upload, alive>> /\ todo' = <<>>
  BY Counts DEF AppendFails, UnlinkFails, CapacityInv, TombstoneInv, SectionInv, StoreTypes, ProcessTypes, DiskTypes, Node, WithinLimit, Primary
<1>2. s.do \in Closing => s.of \in Primary
  BY <1>1, HeadIsSound
<1>3. Streaming' \subseteq Streaming /\ ~Places(todo')
  BY <1>1 DEF Streaming, Places
<1>4. ASSUME Primary' = Primary, mem'.bytes = mem.bytes PROVE CapacityInv'
  <2>1. mem'.bytes >= Cardinality(Primary') /\ mem'.bytes >= 0
    BY <1>1, <1>4
  <2> QED BY <1>3, <1>4, <2>1, CapacityStays
<1>5. CASE UnlinkFails
  BY <1>4, <1>5 DEF UnlinkFails, Primary
<1>6. CASE AppendFails
  <2> HIDE DEF s
  <2>1. PICK after \in MemTypes : Undo(s, after) /\ after.bytes = mem.bytes
    <3>1. [mem EXCEPT !.broken = TRUE] \in MemTypes /\ [mem EXCEPT !.broken = TRUE].bytes = mem.bytes
      BY <1>1 DEF MemTypes
    <3>2. Undo(s, mem) \/ Undo(s, [mem EXCEPT !.broken = TRUE])
      BY <1>6 DEF AppendFails, s
    <3> QED BY <1>1, <3>1, <3>2
  <2>2. CASE /\ s.do \in {"commit", "register"}
             /\ disk' = [disk EXCEPT !["primary"] = @ \ {s.of}]
             /\ mem' = [after EXCEPT !.bytes = @ - 1]
    <3>1. Primary' = Primary \ {s.of} /\ s.of \in Primary
      BY <1>1, <1>2, <2>2 DEF Closing, Primary
    <3>2. Cardinality(Primary') \in Nat /\ Cardinality(Primary') + 1 = Cardinality(Primary)
      BY <1>1, <3>1, StoredChanges
    <3>3. mem'.bytes = mem.bytes - 1
      BY <2>1, <2>2 DEF MemTypes
    <3>4. mem'.bytes >= Cardinality(Primary') /\ mem'.bytes >= 0
      BY <1>1, <3>2, <3>3
    <3> QED BY <1>3, <3>1, <3>4, CapacityStays
  <2>3. CASE UNCHANGED disk /\ (mem' = after \/ \E S : mem' = [after EXCEPT !.unjournaled = S])
    <3>1. mem'.bytes = mem.bytes
      BY <2>1, <2>3 DEF MemTypes
    <3> QED BY <1>4, <2>3, <3>1 DEF Primary
  <2> QED BY <2>1, <2>2, <2>3 DEF Undo
<1> QED BY <1>5, <1>6

\* Crashes, restarts, accidents and the passing of time.
LEMMA AccidentFits ==
    ASSUME CapacityInv, TombstoneInv', Crash \/ Restart \/ (\E o \in Object : Loss(o)) \/ Tick
    PROVE  CapacityInv'
<1>1. /\ StoreTypes /\ disk \in [Node -> SUBSET Object] /\ "primary" \in Node
      /\ Cardinality(Primary) \in Nat /\ mem.bytes \in Int /\ mem.bytes >= 0
      /\ alive => mem.bytes >= Cardinality(Primary)
  BY Counts DEF CapacityInv, TombstoneInv, StoreTypes, DiskTypes, Node, WithinLimit, Primary
<1>2. ASSUME upload' = [u \in Uploader |-> [upload[u] EXCEPT !.pc = "idle"]] PROVE Streaming' \subseteq Streaming
  <2>1. \A u \in Uploader : upload'[u].pc = "idle"
    BY <1>1, <1>2 DEF StoreTypes, ProcessTypes, Uploads
  <2> QED BY <2>1 DEF Streaming
<1>3. todo' = <<>> => ~Places(todo')
  BY DEF Places
<1>4. ASSUME NEW t, NEW d PROVE Boot(t, d).bytes = Cardinality(d)
  BY DEF Boot
<1>5. CASE Crash
  <2>1. todo' = <<>> /\ UNCHANGED disk /\ mem' = Boot(<<>>, {}) /\ alive' = FALSE
        /\ upload' = [u \in Uploader |-> [upload[u] EXCEPT !.pc = "idle"]]
    BY <1>5 DEF Crash
  <2>2. mem'.bytes = 0
    BY <1>4, <2>1, FS_EmptySet
  <2>3. Primary' = Primary
    BY <2>1 DEF Primary
  <2> QED BY <1>2, <1>3, <2>1, <2>2, <2>3, CapacityStays
<1>6. CASE Restart
  <2>1. /\ UNCHANGED <<todo, disk>> /\ todo = <<>> /\ mem' = Boot(journal \o tail, disk["primary"])
        /\ upload' = [u \in Uploader |-> [upload[u] EXCEPT !.pc = "idle"]]
    BY <1>6 DEF Restart
  <2>2. Primary' = Primary
    BY <2>1 DEF Primary
  <2>3. mem'.bytes = Cardinality(Primary')
    BY <1>4, <2>1, <2>2, Zenon DEF Primary
  <2>4. mem'.bytes >= Cardinality(Primary') /\ mem'.bytes >= 0
    BY <1>1, <2>2, <2>3
  <2> QED BY <1>2, <1>3, <2>1, <2>2, <2>4, CapacityStays
<1>7. ASSUME NEW o \in Object, Loss(o) PROVE CapacityInv'
  <2>1. /\ UNCHANGED <<todo, mem, upload, alive>> /\ disk' = [disk EXCEPT !["primary"] = @ \ {o}]
        /\ o \in disk["primary"]
    BY <1>7 DEF Loss
  <2>2. Primary' = Primary \ {o} /\ o \in Primary
    BY <1>1, <2>1 DEF Primary
  <2>3. Cardinality(Primary') \in Nat /\ Cardinality(Primary') + 1 = Cardinality(Primary)
    BY <1>1, <2>2, StoredChanges
  <2>4. (alive' => mem'.bytes >= Cardinality(Primary')) /\ mem'.bytes >= 0
    BY <1>1, <2>1, <2>3
  <2>5. Streaming' \subseteq Streaming /\ (Places(todo') => Places(todo))
    BY <2>1 DEF Streaming
  <2> QED BY <2>2, <2>4, <2>5, CapacityStays
<1>8. CASE Tick
  <2>1. UNCHANGED <<todo, mem, upload, alive, disk>>
    BY <1>8 DEF Tick
  <2>2. Primary' = Primary /\ Streaming' = Streaming /\ (Places(todo') => Places(todo))
    BY <2>1 DEF Primary, Streaming
  <2> QED BY <1>1, <2>1, <2>2, CapacityStays
<1> QED BY <1>5, <1>6, <1>7, <1>8

LEMMA CapacityStep ==
    ASSUME CapacityInv, [StoreNext]_vars
    PROVE  CapacityInv'
<1>1. TombstoneInv'
  BY TombstoneStep DEF CapacityInv
<1>2. ASSUME UNCHANGED <<alive, mem, todo, upload>>, Primary' = Primary PROVE CapacityInv'
  <2>1. Streaming' = Streaming /\ (Places(todo') => Places(todo))
    BY <1>2 DEF Streaming
  <2>2. mem'.bytes >= 0 /\ (alive' => mem'.bytes >= Cardinality(Primary'))
    BY <1>2 DEF CapacityInv, WithinLimit, Primary
  <2> QED BY <1>1, <1>2, <2>1, <2>2, CapacityStays
<1>3. CASE UNCHANGED vars
  BY <1>2, <1>3 DEF vars, Primary
<1>4. CASE SkipRecord \/ ShipObject \/ ShipState \/ VerifyShipped \/ AnswerLost \/ ReplicaSweep
  BY <1>2, <1>4, ReplicationKeepsPrimary DEF CapacityInv, TombstoneInv
<1>5. CASE \/ \E u \in Uploader : \/ \E b \in Blob : PutBlob(u, b)
                                  \/ AcknowledgeDuplicate(u) \/ CommitBlob(u) \/ UploadFails(u)
           \/ \E j \in Job : RegisterManifest(j) \/ MarkTerminal(j) \/ SetPinned(j)
           \/ \E o \in Object : DeleteObject(o) \/ Rejournal(o) \/ Rejournaled(o)
           \/ Sweep \/ Maintain
  BY <1>1, <1>5, HandlersFit
<1>6. CASE Step
  BY <1>1, <1>6, StepFits
<1>7. CASE AppendFails \/ UnlinkFails
  BY <1>1, <1>7, FailureFits
<1>8. CASE Crash \/ Restart \/ (\E o \in Object : Loss(o)) \/ Tick
  BY <1>1, <1>8, AccidentFits
<1> QED BY <1>3, <1>4, <1>5, <1>6, <1>7, <1>8 DEF StoreNext

LEMMA CapacityInit ==
    ASSUME StoreInit
    PROVE  CapacityInv
<1>1. /\ disk = [n \in Node |-> {}] /\ todo = <<>> /\ mem = Boot(<<>>, {})
      /\ upload = [u \in Uploader |-> [pc |-> "idle", of |-> CHOOSE b \in Blob : TRUE]]
  BY DEF StoreInit
<1>2. Primary = {} /\ Streaming = {} /\ ~Places(todo)
  BY <1>1 DEF Primary, Node, Streaming, Places
<1>3. Cardinality({}) = 0
  BY FS_EmptySet
<1>4. mem.bytes = 0 /\ Cardinality(Primary) = 0 /\ Reserved = 0 /\ Limit \in Nat
  BY <1>1, <1>2, <1>3, StoreAssumption DEF Boot, Reserved, Streaming
<1>5. WithinLimit
  BY <1>4 DEF WithinLimit, Primary
<1> QED BY <1>2, <1>4, <1>5, TombstoneInit DEF CapacityInv

\* What is stored and what is being uploaded stays below the admission threshold, and the
\* primary's count never falls short of what it stores, whatever is raced, undone or lost.
THEOREM StoreKeepsWithinLimit == StoreSpec => []WithinLimit
<1>1. StoreInit => CapacityInv
  BY CapacityInit
<1>2. CapacityInv /\ [StoreNext]_vars => CapacityInv'
  BY CapacityStep
<1>3. CapacityInv => WithinLimit
  BY DEF CapacityInv
<1> QED BY <1>1, <1>2, <1>3, PTL DEF StoreSpec

\* Every variable keeps its type: the count of stored objects, which commits, deletions
\* and undone writes move, never drops below zero.
THEOREM StoreKeepsTypes == StoreSpec => []StoreTypeOK
<1>1. StoreInit => CapacityInv
  BY CapacityInit
<1>2. CapacityInv /\ [StoreNext]_vars => CapacityInv'
  BY CapacityStep
<1>3. CapacityInv => StoreTypeOK
  <2> SUFFICES ASSUME CapacityInv PROVE StoreTypeOK
    OBVIOUS
  <2>1. StoreTypes /\ mem.bytes >= 0
    BY DEF CapacityInv, TombstoneInv
  <2>2. mem \in [intents : SUBSET Object, pending : SUBSET Object, unjournaled : SUBSET Blob,
                 verifying : SUBSET Object, bytes : Nat, broken : BOOLEAN]
    BY <2>1 DEF StoreTypes, ProcessTypes, MemTypes
  <2>3. todo \in Seq(Steps)
    <3>1. TypedSteps \subseteq Steps
      BY DEF TypedSteps
    <3> QED BY <2>1, <3>1 DEF StoreTypes, ProcessTypes
  <2> QED BY <2>1, <2>2, <2>3 DEF StoreTypes, JournalTypes, DiskTypes, ProcessTypes, OtherTypes, Uploads, StoreTypeOK
<1> QED BY <1>1, <1>2, <1>3, PTL DEF StoreSpec

-----------------------------------------------------------------------------
(* What the replica holds *)

Replica == disk["replica"]
Ended(j) == \E i \in DOMAIN journal : journal[i].kind = "terminal" /\ journal[i].of = j
Confirmed(j) == \E i \in 1..mark : journal[i] = Rec("put", j) /\ ~CommittedDeletion(j, i)

\* The replica takes a manifest after its blobs and lets go of them after it, and of a
\* manifest only when the journal has told it that the job has ended.
ReplicaInv ==
    /\ StoreTypes
    /\ \A j \in Replica \cap Job : Refs[j] \subseteq Replica
    /\ \A j \in Job : meta["replica"][j].terminal # 0 => Ended(j)
    /\ \A j \in Job : Confirmed(j) => j \in Replica \/ Ended(j)

\* A longer journal only says more: of deletions, and of jobs that have ended.
LEMMA MoreIsSaid ==
    ASSUME Begins(journal, journal'), mark \in 0..Len(journal), NEW j
    PROVE  /\ Ended(j) => Ended(j)'
           /\ mark' = mark /\ Confirmed(j)' => Confirmed(j)
<1>1. /\ DOMAIN journal = 1..Len(journal) /\ DOMAIN journal' = 1..Len(journal') /\ Len(journal) \in Nat
      /\ Len(journal') \in Nat /\ Len(journal) <= Len(journal')
      /\ \A i \in 1..Len(journal) : journal'[i] = journal[i]
  BY DEF Begins, IsLog
<1>2. Ended(j) => Ended(j)'
  BY <1>1 DEF Ended
<1>3. ASSUME mark' = mark, Confirmed(j)' PROVE Confirmed(j)
  <2>1. PICK i \in 1..mark : journal'[i] = Rec("put", j) /\ ~CommittedDeletion(j, i)'
    BY <1>3 DEF Confirmed
  <2>2. journal[i] = Rec("put", j)
    BY <1>1, <2>1
  <2>3. CommittedDeletion(j, i) => CommittedDeletion(j, i)'
    BY <1>1 DEF CommittedDeletion
  <2> QED BY <2>1, <2>2, <2>3 DEF Confirmed
<1> QED BY <1>2, <1>3

\* The primary, its crashes and restarts do not touch the replica, and its journal grows.
LEMMA PrimaryKeepsReplica ==
    ASSUME StoreTypes,
           \/ \E u \in Uploader : \/ \E b \in Blob : PutBlob(u, b)
                                  \/ AcknowledgeDuplicate(u) \/ CommitBlob(u) \/ UploadFails(u)
           \/ \E j \in Job : RegisterManifest(j) \/ MarkTerminal(j) \/ SetPinned(j)
           \/ \E o \in Object : DeleteObject(o) \/ Rejournal(o) \/ Rejournaled(o) \/ Loss(o)
           \/ Sweep \/ Maintain \/ Step \/ AppendFails \/ UnlinkFails
           \/ Crash \/ Restart \/ Tick \/ AnswerLost
    PROVE  /\ Begins(journal, journal') /\ mark' = mark
           /\ disk'["replica"] = disk["replica"] /\ meta'["replica"] = meta["replica"]
<1>1. /\ disk \in [Node -> SUBSET Object] /\ meta \in [Node -> [Job -> Metas]]
      /\ "primary" \in Node /\ "replica" \in Node /\ "primary" # "replica"
      /\ IsLog(journal) /\ tail \in {<<>>} \cup {<<r>> : r \in Records} /\ journal \in Seq(Records)
  BY SeqOfRange DEF StoreTypes, DiskTypes, JournalTypes, Node, IsLog
<1>2. Begins(journal, journal)
  BY <1>1 DEF Begins, IsLog
<1> DEFINE Same == UNCHANGED <<journal, mark, disk, meta>>
           Goal == /\ Begins(journal, journal') /\ mark' = mark
                   /\ disk'["replica"] = disk["replica"] /\ meta'["replica"] = meta["replica"]
<1>3. Same => Goal
  BY <1>2
<1>4. ASSUME NEW u \in Uploader,
             AcknowledgeDuplicate(u) \/ CommitBlob(u) \/ UploadFails(u) \/ \E b \in Blob : PutBlob(u, b)
      PROVE  Same
  BY <1>4 DEF AcknowledgeDuplicate, CommitBlob, UploadFails, PutBlob, net
<1>5. ASSUME NEW j \in Job, RegisterManifest(j) \/ MarkTerminal(j) \/ SetPinned(j) PROVE Same
  BY <1>5 DEF RegisterManifest, MarkTerminal, SetPinned, SetJobState, net
<1>6. ASSUME NEW o \in Object, DeleteObject(o) \/ Rejournal(o) \/ Rejournaled(o) PROVE Same
  BY <1>6 DEF DeleteObject, Rejournal, Rejournaled, net
<1>7. Sweep \/ Maintain \/ UnlinkFails \/ Crash \/ Tick \/ AnswerLost => Same
  BY DEF Sweep, Maintain, UnlinkFails, Crash, Tick, AnswerLost, net, primary
<1>8. ASSUME NEW o \in Object, Loss(o) PROVE Goal
  <2>1. UNCHANGED <<journal, mark, meta>> /\ disk' = [disk EXCEPT !["primary"] = @ \ {o}]
    BY <1>8 DEF Loss, net
  <2> QED BY <1>1, <1>2, <2>1
<1>9. CASE Step
  <2>1. mark' = mark
    BY <1>9 DEF Step, net
  <2>2. UNCHANGED journal \/ \E r : journal' = Append(journal, r)
    BY <1>9 DEF Step, AppendRecord, FlushOne, StoreObject, UpdateMeta, Touch, Unlink, Retain
  <2>3. UNCHANGED disk \/ \E X : disk' = [disk EXCEPT !["primary"] = X]
    BY <1>9 DEF Step, AppendRecord, FlushOne, StoreObject, UpdateMeta, Touch, Unlink, Retain
  <2>4. UNCHANGED meta \/ \E o, m : meta' = [meta EXCEPT !["primary"][o] = m]
    BY <1>9 DEF Step, AppendRecord, FlushOne, StoreObject, UpdateMeta, Touch, Unlink, Retain
  <2>5. Begins(journal, journal')
    BY <1>1, <1>2, <2>2, LogAppend
  <2>6. disk'["replica"] = disk["replica"] /\ meta'["replica"] = meta["replica"]
    BY <1>1, <2>3, <2>4
  <2> QED BY <2>1, <2>5, <2>6
<1>10. CASE AppendFails
  <2>1. UNCHANGED <<journal, mark>>
    BY <1>10 DEF AppendFails, net
  <2>2. \E s, after : Undo(s, after)
    BY <1>10 DEF AppendFails
  <2>3. /\ UNCHANGED disk \/ \E X : disk' = [disk EXCEPT !["primary"] = X]
        /\ UNCHANGED meta \/ \E o, m : meta' = [meta EXCEPT !["primary"][o] = m]
    BY <2>2 DEF Undo
  <2> QED BY <1>1, <1>2, <2>1, <2>3
<1>11. CASE Restart
  <2> DEFINE found == journal \o tail
  <2>1. UNCHANGED <<mark, disk, meta>> /\ journal' = Reconciled(found)
    BY <1>11 DEF Restart, net
  <2>2. IsLog(tail)
    <3>1. ASSUME NEW r PROVE IsLog(<<r>>)
      <4>1. <<r>> \in Seq({r})
        OBVIOUS
      <4> QED BY <4>1, SeqOfRange DEF IsLog
    <3>2. IsLog(<<>>)
      BY DEF IsLog
    <3> QED BY <1>1, <3>1, <3>2
  <2>3. Begins(journal, found)
    BY <1>1, <2>2, LogConcat
  <2>4. IsLog(found) /\ disk["primary"] \subseteq Object
    BY <1>1, <2>3 DEF Begins
  <2> HIDE DEF found
  <2>5. Begins(found, journal')
    BY <2>1, <2>4, RestartMends DEF Mends
  <2> QED BY <2>1, <2>3, <2>5, BeginsTransitive
<1> HIDE DEF Same
<1> QED BY <1>3, <1>4, <1>5, <1>6, <1>7, <1>8, <1>9, <1>10, <1>11

LEMMA ReplicaStep ==
    ASSUME ReplicaInv, [StoreNext]_vars
    PROVE  ReplicaInv'
<1>1. StoreTypes'
  BY TypesStep DEF ReplicaInv
<1>2. /\ disk \in [Node -> SUBSET Object] /\ meta \in [Node -> [Job -> Metas]]
      /\ "primary" \in Node /\ "replica" \in Node /\ "primary" # "replica"
      /\ IsLog(journal) /\ journal \in Seq(Records) /\ mark \in 0..Len(journal)
      /\ Begins(journal, journal) /\ Refs \in [Job -> SUBSET Blob] /\ Blob \cap Job = {}
  BY SeqOfRange, StoreAssumption DEF ReplicaInv, StoreTypes, DiskTypes, JournalTypes, Node, IsLog, Begins
<1>3. ASSUME Begins(journal, journal'), mark' = mark,
             disk'["replica"] = disk["replica"], meta'["replica"] = meta["replica"]
      PROVE  ReplicaInv'
  <2>1. \A j : (Ended(j) => Ended(j)') /\ (Confirmed(j)' => Confirmed(j))
    BY <1>2, <1>3, MoreIsSaid
  <2> QED BY <1>1, <1>3, <2>1 DEF ReplicaInv, Replica
<1>4. CASE UNCHANGED vars
  <2>1. UNCHANGED <<journal, mark, disk, meta>>
    BY <1>4 DEF vars, net
  <2> QED BY <1>2, <1>3, <2>1
<1>5. ASSUME UNCHANGED journal PROVE \A j : Ended(j)' <=> Ended(j)
  BY <1>5 DEF Ended
<1>6. ASSUME UNCHANGED <<journal, disk, meta>>, Round, mark' = mark + 1,
             \A j \in Job : Next1 = Rec("put", j) => j \in Replica \/ CommittedDeletion(j, mark + 1)
      PROVE  ReplicaInv'
  <2>1. ASSUME NEW j \in Job, Confirmed(j)' PROVE j \in Replica \/ Ended(j)
    <3>1. PICK i \in 1..(mark + 1) : journal[i] = Rec("put", j) /\ ~CommittedDeletion(j, i)
      BY <1>6, <2>1 DEF Confirmed, CommittedDeletion
    <3>2. CASE i \in 1..mark
      BY <3>1, <3>2 DEF ReplicaInv, Confirmed
    <3>3. CASE i = mark + 1
      BY <1>6, <3>1, <3>3 DEF Next1
    <3> QED BY <1>2, <3>2, <3>3
  <2> QED BY <1>1, <1>5, <1>6, <2>1 DEF ReplicaInv, Replica
<1>7. ASSUME UNCHANGED <<journal, mark>> PROVE \A j : Confirmed(j)' <=> Confirmed(j)
  BY <1>7 DEF Confirmed, CommittedDeletion
<1>8. \A j : Rec("put", j).of = j /\ Rec("put", j).kind = "put"
  BY DEF Rec
<1>9. CASE SkipRecord
  <2>1. Round /\ mark' = mark + 1 /\ UNCHANGED <<journal, disk, meta>>
    BY <1>9 DEF SkipRecord, Advance, primary
  <2>2. Next1.kind = "put" => CommittedDeletion(Next1.of, mark + 1)
    BY <1>9 DEF SkipRecord
  <2>3. \A j \in Job : Next1 = Rec("put", j) => CommittedDeletion(j, mark + 1)
    BY <1>8, <2>2
  <2> QED BY <1>6, <2>1, <2>3
<1>10. CASE VerifyShipped
  <2>1. Round /\ UNCHANGED <<journal, disk, meta>>
    BY <1>10 DEF VerifyShipped, primary
  <2>2. mark' = mark \/ (mark' = mark + 1 /\ Next1.of \in Replica)
    BY <1>10 DEF VerifyShipped, Advance, Replica
  <2>3. CASE mark' = mark
    BY <1>2, <1>3, <2>1, <2>3
  <2>4. CASE mark' = mark + 1 /\ Next1.of \in Replica
    BY <1>6, <1>8, <2>1, <2>4
  <2> QED BY <2>2, <2>3, <2>4
<1>11. CASE ShipObject
  <2> DEFINE missing == IF Next1.of \in Job \ disk["replica"] THEN Refs[Next1.of] \ disk["replica"] ELSE {}
  <2>1. UNCHANGED <<journal, mark>>
    BY <1>11 DEF ShipObject, primary
  <2>2. PICK o \in (IF missing = {} THEN {Next1.of} ELSE missing \cap disk["primary"]) :
               /\ disk' = [disk EXCEPT !["replica"] = @ \cup {o}]
               /\ meta' = IF o \in Job \ disk["replica"] THEN [meta EXCEPT !["replica"][o] = NoMeta] ELSE meta
    BY <1>11 DEF ShipObject
  <2>3. Replica' = Replica \cup {o}
    BY <1>2, <2>2 DEF Replica
  <2>4. o \in Job => o \in Replica \/ Refs[o] \subseteq Replica
    <3>1. CASE missing = {}
      BY <2>2, <3>1 DEF Replica
    <3>2. CASE missing # {}
      <4>1. o \in Refs[Next1.of] /\ Next1.of \in Job
        BY <2>2, <3>2
      <4>2. o \in Blob
        BY <1>2, <4>1
      <4> QED BY <1>2, <4>2
    <3> QED BY <3>1, <3>2
  <2>5. \A j \in Replica' \cap Job : Refs[j] \subseteq Replica'
    BY <2>3, <2>4 DEF ReplicaInv
  <2>6. \A j \in Job : meta'["replica"][j].terminal # 0 => Ended(j)
    <3>1. \A j \in Job : meta'["replica"][j] = meta["replica"][j] \/ meta'["replica"][j] = NoMeta
      BY <1>2, <2>2
    <3>2. NoMeta.terminal = 0
      BY DEF NoMeta
    <3> QED BY <3>1, <3>2 DEF ReplicaInv
  <2> QED BY <1>1, <1>5, <1>7, <2>1, <2>3, <2>5, <2>6 DEF ReplicaInv
<1>12. CASE ShipState
  <2>1. /\ UNCHANGED <<journal, mark, disk>> /\ Round
        /\ Next1.kind \in {"terminal", "pin"}
        /\ meta' = [meta EXCEPT !["replica"][Next1.of] = MetaWith(@, Next1)]
    BY <1>12 DEF ShipState, primary
  <2>2. mark + 1 \in DOMAIN journal
    BY <1>2, <2>1 DEF Round
  <2>3. ASSUME NEW j \in Job, meta'["replica"][j].terminal # 0 PROVE Ended(j)
    <3>1. CASE j # Next1.of
      <4>1. meta'["replica"][j] = meta["replica"][j]
        BY <1>2, <2>1, <3>1
      <4> QED BY <2>3, <4>1 DEF ReplicaInv
    <3>2. CASE j = Next1.of
      <4>1. meta'["replica"][j] = MetaWith(meta["replica"][j], Next1)
        BY <1>2, <2>1, <3>2
      <4>2. CASE Next1.kind = "pin"
        <5>1. meta["replica"][j] \in Metas
          BY <1>2
        <5>2. meta'["replica"][j].terminal = meta["replica"][j].terminal
          BY <4>1, <4>2, <5>1 DEF MetaWith, Metas
        <5> QED BY <2>3, <5>2 DEF ReplicaInv
      <4>3. CASE Next1.kind = "terminal"
        BY <2>2, <3>2, <4>3 DEF Ended, Next1
      <4> QED BY <2>1, <4>2, <4>3
    <3> QED BY <3>1, <3>2
  <2> QED BY <1>1, <1>5, <1>7, <2>1, <2>3 DEF ReplicaInv, Replica
<1>13. CASE ReplicaSweep
  <2> DEFINE expired == Expired("replica", ReplicaGrace)
             kept == disk["replica"] \ expired
             loose == {b \in kept \cap Blob : /\ \A j \in kept \cap Job : b \notin Refs[j]
                                              /\ now - mtime["replica"][b] >= ReplicaGrace}
  <2>1. /\ UNCHANGED <<journal, mark>>
        /\ disk' = [disk EXCEPT !["replica"] = kept \ loose]
        /\ meta' = [meta EXCEPT !["replica"] = [j \in Job |-> IF j \in expired THEN NoMeta ELSE @[j]]]
    BY <1>13 DEF ReplicaSweep, primary, net
  <2>2. \A j \in expired : j \in Job /\ Ended(j)
    BY DEF Expired, Terminal, Live, ReplicaInv
  <2>3. \A b \in loose : b \in Blob /\ \A j \in kept \cap Job : b \notin Refs[j]
    OBVIOUS
  <2> HIDE DEF expired, loose
  <2>4. Replica' = (Replica \ expired) \ loose
    BY <1>2, <2>1 DEF Replica
  <2>5. \A j \in Replica' \cap Job : Refs[j] \subseteq Replica'
    <3> SUFFICES ASSUME NEW j \in Replica' \cap Job, NEW b \in Refs[j] PROVE b \in Replica'
      OBVIOUS
    <3>1. j \in kept \cap Job /\ j \in Replica
      BY <2>4 DEF Replica
    <3>2. b \in Replica /\ b \in Blob
      BY <1>2, <3>1 DEF ReplicaInv
    <3>3. b \notin expired /\ b \notin loose
      BY <1>2, <2>2, <2>3, <3>1, <3>2
    <3> QED BY <2>4, <3>2, <3>3
  <2>6. \A j \in Job : meta'["replica"][j].terminal # 0 => Ended(j)
    <3>1. \A j \in Job : meta'["replica"][j] = meta["replica"][j] \/ meta'["replica"][j] = NoMeta
      BY <1>2, <2>1
    <3>2. NoMeta.terminal = 0
      BY DEF NoMeta
    <3> QED BY <3>1, <3>2 DEF ReplicaInv
  <2>7. \A j \in Job : Confirmed(j) => j \in Replica' \/ Ended(j)
    <3> SUFFICES ASSUME NEW j \in Job, Confirmed(j), ~Ended(j) PROVE j \in Replica'
      OBVIOUS
    <3>1. j \in Replica /\ j \notin expired /\ j \notin loose
      BY <1>2, <2>2, <2>3 DEF ReplicaInv
    <3> QED BY <2>4, <3>1
  <2> QED BY <1>1, <1>5, <1>7, <2>1, <2>5, <2>6, <2>7 DEF ReplicaInv
<1>14. CASE \/ \E u \in Uploader : \/ \E b \in Blob : PutBlob(u, b)
                                   \/ AcknowledgeDuplicate(u) \/ CommitBlob(u) \/ UploadFails(u)
            \/ \E j \in Job : RegisterManifest(j) \/ MarkTerminal(j) \/ SetPinned(j)
            \/ \E o \in Object : DeleteObject(o) \/ Rejournal(o) \/ Rejournaled(o) \/ Loss(o)
            \/ Sweep \/ Maintain \/ Step \/ AppendFails \/ UnlinkFails
            \/ Crash \/ Restart \/ Tick \/ AnswerLost
  BY <1>3, <1>14, PrimaryKeepsReplica DEF ReplicaInv
<1> QED BY <1>4, <1>9, <1>10, <1>11, <1>12, <1>13, <1>14 DEF StoreNext

\* Behind the watermark every job that the journal neither deletes nor ends is complete
\* at the replica, in whatever order it was shipped, swept and verified.
THEOREM ReplicaKeepsJobs == StoreSpec => []ReplicaKeepsLiveJobs
<1>1. StoreInit => ReplicaInv
  <2> SUFFICES ASSUME StoreInit PROVE ReplicaInv
    OBVIOUS
  <2>1. /\ disk["replica"] = {} /\ mark = 0 /\ \A j \in Job : meta["replica"][j].terminal = 0
    BY DEF StoreInit, Node, NoMeta
  <2> QED BY <2>1, TypesInit DEF ReplicaInv, Replica, Confirmed
<1>2. ReplicaInv /\ [StoreNext]_vars => ReplicaInv'
  BY ReplicaStep
<1>3. ReplicaInv => ReplicaKeepsLiveJobs
  BY DEF ReplicaInv, ReplicaKeepsLiveJobs, Confirmed, Ended, Replica
<1> QED BY <1>1, <1>2, <1>3, PTL DEF StoreSpec

-----------------------------------------------------------------------------
(* The watermark *)

\* Behind the watermark, which lies within the journal, every object is accounted for.
WatermarkInv == StoreTypes /\ WatermarkIsEarned

\* A longer journal, and a replica that confirmed more, takes nothing back.
LEMMA WatermarkStays ==
    ASSUME WatermarkInv, Begins(journal, journal'), mark' = mark, arrived \subseteq arrived'
    PROVE  WatermarkIsEarned'
<1>1. Len(journal) \in Nat /\ Len(journal') \in Nat /\ mark \in 0..Len(journal)
      /\ DOMAIN journal = 1..Len(journal) /\ DOMAIN journal' = 1..Len(journal')
  BY DEF Begins, IsLog, WatermarkInv, StoreTypes, JournalTypes
<1>2. \A i \in 1..mark : journal'[i] = journal[i]
  BY <1>1 DEF Begins
<1>3. ASSUME NEW o, NEW i, CommittedDeletion(o, i) PROVE CommittedDeletion(o, i)'
  BY <1>1, <1>3 DEF CommittedDeletion, Begins
<1>4. QED
  BY <1>2, <1>3 DEF WatermarkIsEarned, WatermarkInv

\* A round of the replicator moves the watermark by one record: past a put only when a
\* committed deletion follows, or when the replica confirmed that it holds the object.
LEMMA WatermarkAdvances ==
    ASSUME WatermarkInv, mark' = mark + 1, UNCHANGED journal, arrived \subseteq arrived',
           Next1.kind = "put" => Next1.of \in arrived' \/ CommittedDeletion(Next1.of, mark + 1)
    PROVE  WatermarkIsEarned'
<1>1. mark \in Nat
  BY SeqOfRange DEF WatermarkInv, StoreTypes, JournalTypes, IsLog
<1>2. ASSUME NEW i \in 1..(mark + 1), journal[i].kind = "put"
      PROVE  journal[i].of \in arrived' \/ CommittedDeletion(journal[i].of, i)
  <2>1. CASE i \in 1..mark
    BY <1>2, <2>1 DEF WatermarkIsEarned, WatermarkInv
  <2>2. CASE i = mark + 1
    BY <1>2, <2>2 DEF Next1
  <2>3. QED
    BY <1>1, <2>1, <2>2
<1>3. QED
  BY <1>2 DEF WatermarkIsEarned, CommittedDeletion

\* WatermarkInv is preserved by every step of the primary, the replicator and the replica,
\* by crashes, failed writes, accidents and restarts.
LEMMA WatermarkStep ==
    ASSUME WatermarkInv, [StoreNext]_vars
    PROVE  WatermarkInv'
<1>1. StoreTypes'
  BY TypesStep DEF WatermarkInv
<1>2. IsLog(journal) /\ Begins(journal, journal)
  BY SeqOfRange DEF WatermarkInv, StoreTypes, JournalTypes, IsLog, Begins
<1> DEFINE AtPrimary ==
        \/ \E u \in Uploader : \/ \E b \in Blob : PutBlob(u, b)
                               \/ AcknowledgeDuplicate(u) \/ CommitBlob(u) \/ UploadFails(u)
        \/ \E j \in Job : RegisterManifest(j) \/ MarkTerminal(j) \/ SetPinned(j)
        \/ \E o \in Object : DeleteObject(o) \/ Rejournal(o) \/ Rejournaled(o) \/ Loss(o)
        \/ Sweep \/ Maintain \/ Step \/ AppendFails \/ UnlinkFails
        \/ Crash \/ Restart \/ Tick \/ AnswerLost
<1>3. CASE AtPrimary
  <2>1. Begins(journal, journal') /\ mark' = mark
    BY <1>3, PrimaryKeepsReplica DEF WatermarkInv
  <2>2. UNCHANGED arrived
    <3>1. ASSUME NEW u \in Uploader,
                 AcknowledgeDuplicate(u) \/ CommitBlob(u) \/ UploadFails(u) \/ \E b \in Blob : PutBlob(u, b)
          PROVE  UNCHANGED arrived
      BY <3>1 DEF AcknowledgeDuplicate, CommitBlob, UploadFails, PutBlob, net
    <3>2. ASSUME NEW j \in Job, RegisterManifest(j) \/ MarkTerminal(j) \/ SetPinned(j)
          PROVE  UNCHANGED arrived
      BY <3>2 DEF RegisterManifest, MarkTerminal, SetPinned, SetJobState, net
    <3>3. ASSUME NEW o \in Object, DeleteObject(o) \/ Rejournal(o) \/ Rejournaled(o) \/ Loss(o)
          PROVE  UNCHANGED arrived
      BY <3>3 DEF DeleteObject, Rejournal, Rejournaled, Loss, net
    <3>4. Sweep \/ Maintain \/ UnlinkFails \/ Crash \/ Tick \/ AnswerLost \/ Restart => UNCHANGED arrived
      BY DEF Sweep, Maintain, UnlinkFails, Crash, Tick, AnswerLost, Restart, net, primary
    <3>5. Step \/ AppendFails => UNCHANGED arrived
      BY DEF Step, AppendFails, net
    <3>6. QED
      BY <1>3, <3>1, <3>2, <3>3, <3>4, <3>5
  <2>3. QED
    BY <1>1, <2>1, <2>2, WatermarkStays DEF WatermarkInv
<1>4. CASE UNCHANGED vars \/ ShipObject \/ ShipState \/ ReplicaSweep
  <2>1. UNCHANGED <<journal, mark, arrived>>
    BY <1>4 DEF ShipObject, ShipState, ReplicaSweep, vars, net, primary
  <2>2. QED
    BY <1>1, <1>2, <2>1, WatermarkStays DEF WatermarkInv
<1>5. CASE SkipRecord
  <2>1. mark' = mark + 1 /\ UNCHANGED <<journal, arrived>>
    BY <1>5 DEF SkipRecord, Advance, primary
  <2>2. Next1.kind = "put" => CommittedDeletion(Next1.of, mark + 1)
    BY <1>5 DEF SkipRecord
  <2>3. QED
    BY <1>1, <2>1, <2>2, WatermarkAdvances DEF WatermarkInv
<1>6. CASE VerifyShipped
  <2>1. UNCHANGED journal
    BY <1>6 DEF VerifyShipped, primary
  <2>2. \/ UNCHANGED <<mark, arrived>>
        \/ mark' = mark + 1 /\ arrived' = IF Next1.kind = "put" THEN arrived \cup {Next1.of} ELSE arrived
    BY <1>6 DEF VerifyShipped, Advance
  <2>3. CASE UNCHANGED <<mark, arrived>>
    BY <1>1, <1>2, <2>1, <2>3, WatermarkStays DEF WatermarkInv
  <2>4. QED
    BY <1>1, <2>1, <2>2, <2>3, WatermarkAdvances DEF WatermarkInv
<1> HIDE DEF AtPrimary
<1>7. AtPrimary \/ UNCHANGED vars \/ ShipObject \/ ShipState \/ ReplicaSweep \/ SkipRecord \/ VerifyShipped
  BY DEF StoreNext, AtPrimary
<1>8. QED
  BY <1>3, <1>4, <1>5, <1>6, <1>7

\* The watermark passes an object that the replica never confirmed only when a committed
\* deletion explains its absence, whatever the primary appends, loses or recovers meanwhile.
THEOREM WatermarkEarned == StoreSpec => []WatermarkIsEarned
<1>1. StoreInit => WatermarkInv
  <2>1. StoreInit => mark = 0
    BY DEF StoreInit
  <2>2. mark = 0 => WatermarkIsEarned
    BY DEF WatermarkIsEarned
  <2>3. QED
    BY <2>1, <2>2, TypesInit DEF WatermarkInv
<1>2. WatermarkInv /\ [StoreNext]_vars => WatermarkInv'
  BY WatermarkStep
<1>3. WatermarkInv => WatermarkIsEarned
  BY DEF WatermarkInv
<1>4. QED
  BY <1>1, <1>2, <1>3, PTL DEF StoreSpec

-----------------------------------------------------------------------------
(* What the steps of a section are about *)

\* A step that is due comes after those that are due before it.
LEMMA DueInOrder ==
    ASSUME NEW steps \in Seq(TypedSteps)
    PROVE  \A i \in DOMAIN Due(steps) : \E m \in DOMAIN steps :
              /\ Due(steps)[i] = steps[m]
              /\ \A k \in 1..(m - 1) : Idle(steps[k]) \/ \E n \in 1..(i - 1) : Due(steps)[n] = steps[k]
<1> DEFINE t == Due(steps)
           due == {i \in DOMAIN steps : ~Idle(steps[i])}
<1>1. t \in Seq(TypedSteps)
  BY DueTyped
<1>2. PICK f : Numbers(f, steps)
  BY DueIsNumbered
<1> HIDE DEF t
<1>3. /\ f \in [DOMAIN t -> due] /\ \A m, n \in DOMAIN t : m < n => f[m] < f[n]
      /\ \A i \in due : \E n \in DOMAIN t : f[n] = i
      /\ \A n \in DOMAIN t : t[n] = steps[f[n]]
  BY <1>2, Zenon DEF Numbers, t
<1>4. DOMAIN t = 1..Len(t) /\ DOMAIN steps = 1..Len(steps) /\ Len(t) \in Nat /\ Len(steps) \in Nat
  BY <1>1
<1> SUFFICES ASSUME NEW i \in DOMAIN t
             PROVE  /\ f[i] \in DOMAIN steps /\ t[i] = steps[f[i]]
                    /\ \A k \in 1..(f[i] - 1) : Idle(steps[k]) \/ \E n \in 1..(i - 1) : t[n] = steps[k]
  BY DEF t
<1>5. f[i] \in DOMAIN steps /\ t[i] = steps[f[i]]
  BY <1>3
<1>6. ASSUME NEW k \in 1..(f[i] - 1), ~Idle(steps[k]) PROVE \E n \in 1..(i - 1) : t[n] = steps[k]
  <2>1. k \in due /\ k < f[i]
    BY <1>4, <1>5, <1>6
  <2>2. PICK n \in DOMAIN t : f[n] = k
    BY <1>3, <2>1
  <2>3. n < i
    <3>1. ~(i = n) /\ ~(i < n)
      <4>1. f[i] \in Nat /\ f[n] \in Nat
        BY <1>3, <1>4
      <4> QED BY <1>3, <2>1, <2>2, <4>1
    <3> QED BY <1>4, <3>1
  <2>4. t[n] = steps[k] /\ n \in 1..(i - 1)
    BY <1>3, <1>4, <2>2, <2>3
  <2> QED BY <2>4
<1> QED BY <1>5, <1>6

\* The steps of a deletion, all about its object.
Deleting == {"flush", "intent", "unlink", "unmeta", "delete"}
LEMMA DeletionIsAbout ==
    ASSUME NEW o \in Object
    PROVE  \A i \in DOMAIN DeleteSteps(o) : DeleteSteps(o)[i].do \in Deleting /\ DeleteSteps(o)[i].of = o
<1> DEFINE t == DeleteSteps(o)
<1>1. CASE o \in Job
  <2>1. t = <<Do("flush", o), Do("intent", o), Do("unlink", o)>> \o <<Do("unmeta", o)>> \o <<Do("delete", o)>>
    BY <1>1 DEF DeleteSteps
  <2> HIDE DEF t
  <2>2. /\ DOMAIN t = 1..5 /\ t[1] = Do("flush", o) /\ t[2] = Do("intent", o) /\ t[3] = Do("unlink", o)
        /\ t[4] = Do("unmeta", o) /\ t[5] = Do("delete", o)
    BY <2>1
  <2>3. \A i \in DOMAIN t : t[i].do \in Deleting /\ t[i].of = o
    BY <2>2 DEF Do, Deleting
  <2> QED BY <2>3 DEF t
<1>2. CASE o \notin Job
  <2>1. t = <<Do("flush", o), Do("intent", o), Do("unlink", o)>> \o <<>> \o <<Do("delete", o)>>
    BY <1>2 DEF DeleteSteps
  <2> HIDE DEF t
  <2>2. /\ DOMAIN t = 1..4 /\ t[1] = Do("flush", o) /\ t[2] = Do("intent", o) /\ t[3] = Do("unlink", o)
        /\ t[4] = Do("delete", o)
    BY <2>1
  <2>3. \A i \in DOMAIN t : t[i].do \in Deleting /\ t[i].of = o
    BY <2>2 DEF Do, Deleting
  <2> QED BY <2>3 DEF t
<1> QED BY <1>1, <1>2

\* What a handler makes sure of before it begins step i of section t.
Harmless == {"flush", "touch", "journal", "cancel", "expire", "collect", "evict"}
Registering == {"write", "stamp", "register"}
Prepared(t, i) ==
    LET s == t[i]
    IN  \/ s.do \in Harmless
        \/ s.do \in {"rename", "commit"} /\ s.of \notin Primary
        \/ /\ s.do \in Registering
           /\ \A b \in Refs[s.of] : /\ b \in Primary
                                    /\ b \in mem.intents \cup mem.unjournaled =>
                                          \E k \in 1..(i - 1) : t[k].do \in {"journal", "cancel"} /\ t[k].of = b
        \/ /\ s.do \in {"meta", "state"} /\ s.was = meta["primary"][s.of]
           /\ s.as.terminal = 0 => s.was.terminal = 0
        \/ /\ s.do \in Deleting /\ s.of \in Primary \cap Object
           /\ s.of \in Blob => ~Protected(s.of)
        \/ s.do = "verify" /\ s.of \in Primary
        \/ s.do = "rejournal" /\ s.of \in mem.verifying

\* A step that does not depend on those before it is prepared when it is due.
LEMMA DuePrepared ==
    ASSUME NEW steps \in Seq(TypedSteps), \A i \in DOMAIN steps : Prepared(steps, i) /\ steps[i].do \notin Registering
    PROVE  \A i \in DOMAIN Due(steps) : Prepared(Due(steps), i)
<1> SUFFICES ASSUME NEW i \in DOMAIN Due(steps) PROVE Prepared(Due(steps), i)
  OBVIOUS
<1>1. PICK m \in DOMAIN steps : Due(steps)[i] = steps[m]
  BY DueInOrder
<1>2. Prepared(steps, m) /\ steps[m].do \notin Registering
  OBVIOUS
<1> QED BY <1>1, <1>2 DEF Prepared

\* A registration looks after the records of every blob before it writes the manifest.
LEMMA RegistrationPrepared ==
    ASSUME NEW j \in Job, NEW t, NEW n, Registers(t, j, n), Refs[j] \subseteq Primary
    PROVE  \A i \in DOMAIN Due(t) : Prepared(Due(t), i)
<1> SUFFICES ASSUME NEW i \in DOMAIN Due(t) PROVE Prepared(Due(t), i)
  OBVIOUS
<1>1. t \in Seq(TypedSteps) /\ DOMAIN t = 1..(n + 3) /\ n \in Nat \ {0}
  <2>1. t \in Seq(TypedSteps) /\ Len(t) = n + 3 /\ n \in Nat \ {0}
    BY DEF Registers
  <2> QED BY <2>1
<1>2. PICK m \in DOMAIN t :
        /\ Due(t)[i] = t[m]
        /\ \A k \in 1..(m - 1) : Idle(t[k]) \/ \E l \in 1..(i - 1) : Due(t)[l] = t[k]
  BY <1>1, DueInOrder
<1>3. \A kind, o : Do(kind, o).do = kind /\ Do(kind, o).of = o
  BY DEF Do
<1>4. CASE m \in 1..n
  <2>1. t[m].do \in {"flush", "journal", "cancel"}
    <3>1. CASE m = 1
      BY <1>3, <3>1 DEF Registers
    <3>2. CASE m # 1
      <4>1. m \in 2..n
        BY <1>1, <1>4, <3>2
      <4>2. \E b \in Refs[j] : t[m] = Do("journal", b) \/ t[m] = Do("cancel", b)
        BY <4>1, Zenon DEF Registers
      <4> QED BY <1>3, <4>2
    <3> QED BY <3>1, <3>2
  <2> QED BY <1>2, <2>1 DEF Prepared, Harmless
<1>5. CASE m \notin 1..n
  <2>1. m \in (n + 1)..(n + 3)
    BY <1>1, <1>5
  <2>2. t[m].do \in Registering /\ t[m].of = j
    <3>1. m = n + 1 \/ m = n + 2 \/ m = n + 3
      BY <1>1, <2>1
    <3>2. t[n + 1] = Do("write", j) /\ t[n + 2] = Do("stamp", j) /\ t[n + 3] = Do("register", j)
      BY Zenon DEF Registers
    <3> QED BY <1>3, <3>1, <3>2 DEF Registering
  <2>3. ASSUME NEW b \in Refs[j], b \in mem.intents \cup mem.unjournaled
        PROVE  \E k \in 1..(i - 1) : Due(t)[k].do \in {"journal", "cancel"} /\ Due(t)[k].of = b
    <3>1. PICK k \in 2..n : t[k] = Do(IF b \in mem.intents THEN "cancel" ELSE "journal", b)
      <4>1. (\E k \in 2..n : t[k] = Do("journal", b)) /\ (\E k \in 2..n : t[k] = Do("cancel", b))
        BY Zenon DEF Registers
      <4> QED BY <4>1
    <3>2. k \in 1..(m - 1)
      BY <1>1, <2>1
    <3>3. ~Idle(t[k])
      BY <1>3, <2>3, <3>1 DEF Idle
    <3>4. PICK l \in 1..(i - 1) : Due(t)[l] = t[k]
      BY <1>2, <3>2, <3>3
    <3> QED BY <1>3, <3>1, <3>4
  <2>4. Refs[j] \subseteq Primary
    OBVIOUS
  <2> QED BY <1>2, <2>2, <2>3, <2>4 DEF Prepared
<1> QED BY <1>4, <1>5

\* The handlers of the primary only begin sections that are prepared.
LEMMA HandlersPrepare ==
    ASSUME StoreTypes,
           \/ \E u \in Uploader : \/ \E b \in Blob : PutBlob(u, b)
                                  \/ AcknowledgeDuplicate(u) \/ CommitBlob(u) \/ UploadFails(u)
           \/ \E j \in Job : RegisterManifest(j) \/ MarkTerminal(j) \/ SetPinned(j)
           \/ \E o \in Object : DeleteObject(o) \/ Rejournal(o) \/ Rejournaled(o)
           \/ Sweep \/ Maintain
    PROVE  /\ UNCHANGED <<journal, tail, disk, meta, alive, gone>> /\ alive /\ todo = <<>>
           /\ mem' = mem \/ mem' = [mem EXCEPT !.verifying = {}]
           /\ \A i \in DOMAIN todo' : Prepared(todo', i)
<1> DEFINE Same == UNCHANGED <<journal, tail, disk, meta, alive, gone>> /\ alive /\ todo = <<>>
           Goal == /\ Same /\ (mem' = mem \/ mem' = [mem EXCEPT !.verifying = {}])
                   /\ \A i \in DOMAIN todo' : Prepared(todo', i)
<1>1. /\ Blob \subseteq Object /\ Job \subseteq Object /\ upload \in Uploads /\ mem \in MemTypes
      /\ Primary \subseteq Object /\ mem.pending \subseteq Object
  BY DEF Object, StoreTypes, ProcessTypes, DiskTypes, Node, Primary, MemTypes
<1>2. \A kind, o : Do(kind, o).do = kind /\ Do(kind, o).of = o
  BY DEF Do
<1>3. ASSUME NEW steps \in Seq(TypedSteps), Begin(steps), UNCHANGED <<journal, tail, disk, meta, alive, gone>>,
             mem' = mem \/ mem' = [mem EXCEPT !.verifying = {}],
             \A i \in DOMAIN steps : Prepared(steps, i) /\ steps[i].do \notin Registering
      PROVE  Goal
  <2>1. \A i \in DOMAIN Due(steps) : Prepared(Due(steps), i)
    BY <1>3, DuePrepared
  <2> QED BY <1>3, <2>1 DEF Begin, Free
<1>4. ASSUME NEW u \in Uploader, UploadFails(u) \/ \E b \in Blob : PutBlob(u, b)
      PROVE  Goal
  <2>1. Same /\ mem' = mem /\ todo' = <<>>
    BY <1>4 DEF UploadFails, PutBlob, Free
  <2> QED BY <2>1
<1>5. ASSUME NEW u \in Uploader, AcknowledgeDuplicate(u) \/ CommitBlob(u) PROVE Goal
  <2> DEFINE b == upload[u].of
  <2>1. UNCHANGED <<journal, tail, disk, meta, alive, gone, mem>>
    BY <1>5 DEF AcknowledgeDuplicate, CommitBlob
  <2>2. b \in Blob
    BY <1>1 DEF Uploads
  <2>3. \/ Begin(<<>>)
        \/ Begin(<<Do("touch", b), Do("journal", b), Do("cancel", b)>>)
        \/ Begin(<<Do("touch", b), Do("journal", b)>>)
        \/ b \notin Primary /\ Begin(<<Do("flush", b), Do("rename", b), Do("commit", b)>>)
    <3>1. CASE AcknowledgeDuplicate(u)
      <4>1. Begin(IF Intact(b) THEN <<Do("touch", b), Do("journal", b), Do("cancel", b)>> ELSE <<>>)
        BY <3>1 DEF AcknowledgeDuplicate
      <4> QED BY <4>1
    <3>2. CASE CommitBlob(u)
      <4>1. Begin(IF Intact(b) THEN <<Do("touch", b), Do("journal", b)>>
                  ELSE <<Do("flush", b), Do("rename", b), Do("commit", b)>>)
        BY <3>2 DEF CommitBlob
      <4> QED BY <4>1 DEF Intact, Primary
    <3> QED BY <1>5, <3>1, <3>2
  <2> HIDE DEF b
  <2>4. /\ Do("flush", b) \in TypedSteps /\ Do("touch", b) \in TypedSteps /\ Do("journal", b) \in TypedSteps
        /\ Do("cancel", b) \in TypedSteps /\ Do("rename", b) \in TypedSteps /\ Do("commit", b) \in TypedSteps
    BY <1>1, <2>2, TypedDo DEF StepKinds, OfBlobs, OfJobs
  <2>5. CASE Begin(<<>>)
    <3> DEFINE t == <<>>
    <3>1. t \in Seq(TypedSteps) /\ DOMAIN t = {}
      OBVIOUS
    <3>2. Begin(t)
      BY <2>5
    <3> HIDE DEF t
    <3> QED BY <1>3, <2>1, <3>1, <3>2
  <2>6. CASE Begin(<<Do("touch", b), Do("journal", b), Do("cancel", b)>>)
    <3> DEFINE t == <<Do("touch", b), Do("journal", b), Do("cancel", b)>>
    <3>1. t \in Seq(TypedSteps) /\ \A i \in DOMAIN t : t[i].do \in {"touch", "journal", "cancel"}
      BY <1>2, <2>4
    <3> HIDE DEF t
    <3>2. \A i \in DOMAIN t : Prepared(t, i) /\ t[i].do \notin Registering
      BY <3>1 DEF Prepared, Harmless, Registering
    <3>3. Begin(t)
      BY <2>6 DEF t
    <3> QED BY <1>3, <2>1, <3>1, <3>2, <3>3
  <2>7. CASE Begin(<<Do("touch", b), Do("journal", b)>>)
    <3> DEFINE t == <<Do("touch", b), Do("journal", b)>>
    <3>1. t \in Seq(TypedSteps) /\ \A i \in DOMAIN t : t[i].do \in {"touch", "journal"}
      BY <1>2, <2>4
    <3> HIDE DEF t
    <3>2. \A i \in DOMAIN t : Prepared(t, i) /\ t[i].do \notin Registering
      BY <3>1 DEF Prepared, Harmless, Registering
    <3>3. Begin(t)
      BY <2>7 DEF t
    <3> QED BY <1>3, <2>1, <3>1, <3>2, <3>3
  <2>8. CASE b \notin Primary /\ Begin(<<Do("flush", b), Do("rename", b), Do("commit", b)>>)
    <3> DEFINE t == <<Do("flush", b), Do("rename", b), Do("commit", b)>>
    <3>1. t \in Seq(TypedSteps) /\ \A i \in DOMAIN t : t[i].do \in {"flush", "rename", "commit"} /\ t[i].of = b
      BY <1>2, <2>4
    <3> HIDE DEF t
    <3>2. \A i \in DOMAIN t : Prepared(t, i) /\ t[i].do \notin Registering
      BY <2>8, <3>1 DEF Prepared, Harmless, Registering
    <3>3. Begin(t)
      BY <2>8 DEF t
    <3> QED BY <1>3, <2>1, <3>1, <3>2, <3>3
  <2> QED BY <2>3, <2>5, <2>6, <2>7, <2>8
<1>6. ASSUME NEW j \in Job, RegisterManifest(j) PROVE Goal
  <2> DEFINE each(do) == SetToSeq({Do(do, b) : b \in Refs[j]})
             t == <<Do("flush", j)>> \o each("journal") \o each("cancel")
                    \o <<Do("write", j), Do("stamp", j), Do("register", j)>>
  <2>1. Begin(t) /\ UNCHANGED <<journal, tail, disk, meta, alive, gone, mem>> /\ Refs[j] \subseteq Primary
    BY <1>6 DEF RegisterManifest, Primary
  <2>2. \E n : Registers(t, j, n)
    BY RegistrationSteps
  <2> HIDE DEF t
  <2>3. \A i \in DOMAIN Due(t) : Prepared(Due(t), i)
    BY <2>1, <2>2, RegistrationPrepared
  <2> QED BY <2>1, <2>3 DEF Begin, Free
<1>7. ASSUME NEW j \in Job, MarkTerminal(j) \/ SetPinned(j) PROVE Goal
  <2> DEFINE old == meta["primary"][j]
  <2>1. old \in Metas /\ now \in 1..MaxNow /\ MaxNow \in Nat
    BY StoreAssumption DEF StoreTypes, DiskTypes, OtherTypes, Node
  <2>2. PICK m \in Metas : SetJobState(j, m) /\ (m.terminal = 0 => old.terminal = 0)
    <3>1. CASE MarkTerminal(j)
      <4> DEFINE m == [old EXCEPT !.terminal = now]
      <4>1. m \in Metas /\ m.terminal = now
        BY <2>1 DEF Metas
      <4>2. SetJobState(j, m)
        BY <3>1 DEF MarkTerminal
      <4> HIDE DEF m
      <4>3. m.terminal = 0 => old.terminal = 0
        BY <2>1, <4>1
      <4> QED BY <4>1, <4>2, <4>3
    <3>2. CASE SetPinned(j)
      <4> DEFINE m == [old EXCEPT !.pinned = ~@]
      <4>1. PICK y \in BOOLEAN : y = ~old.pinned
        OBVIOUS
      <4>2. m = [old EXCEPT !.pinned = y]
        BY <4>1
      <4>3. m \in Metas /\ m.terminal = old.terminal
        BY <2>1, <4>2 DEF Metas
      <4>4. SetJobState(j, m)
        BY <3>2 DEF SetPinned
      <4> QED BY <4>3, <4>4
    <3> QED BY <1>7, <3>1, <3>2
  <2> DEFINE step(do) == [do |-> do, of |-> j, was |-> old, as |-> m]
             t == <<Do("flush", j), step("meta"), step("state")>>
  <2>3. Begin(t) /\ UNCHANGED <<journal, tail, disk, meta, alive, gone, mem>>
    BY <2>2 DEF SetJobState
  <2>4. Do("flush", j) \in TypedSteps
    BY <1>1, TypedDo DEF StepKinds, OfBlobs, OfJobs
  <2>5. /\ step("meta") \in TypedSteps /\ step("state") \in TypedSteps
        /\ \A kind \in {"meta", "state"} : /\ step(kind).do = kind /\ step(kind).of = j
                                           /\ step(kind).was = old /\ step(kind).as = m
    BY <1>1, <2>1, <2>2 DEF TypedSteps, Steps, OfBlobs, OfJobs
  <2>6. /\ t \in Seq(TypedSteps)
        /\ \A i \in DOMAIN t : \/ t[i].do = "flush"
                               \/ /\ t[i].do \in {"meta", "state"} /\ t[i].of = j
                                  /\ t[i].was = old /\ t[i].as = m
    <3> HIDE DEF step
    <3>1. t \in Seq(TypedSteps) /\ DOMAIN t = 1..3
          /\ t[1] = Do("flush", j) /\ t[2] = step("meta") /\ t[3] = step("state")
      BY <2>4, <2>5
    <3> HIDE DEF t
    <3> QED BY <1>2, <2>5, <3>1
  <2> HIDE DEF t, step
  <2>7. \A i \in DOMAIN t : Prepared(t, i) /\ t[i].do \notin Registering
    BY <2>2, <2>6 DEF Prepared, Harmless, Registering
  <2> QED BY <1>3, <2>3, <2>6, <2>7
<1>8. ASSUME NEW o \in Object, DeleteObject(o) PROVE Goal
  <2> DEFINE t == DeleteSteps(o)
  <2>1. /\ Begin(t) /\ UNCHANGED <<journal, tail, disk, meta, alive, gone, mem>>
        /\ o \in Primary /\ (o \in Blob => ~Protected(o))
    BY <1>8 DEF DeleteObject, Primary
  <2>2. t \in Seq(TypedSteps) /\ \A i \in DOMAIN t : t[i].do \in Deleting /\ t[i].of = o
    BY DeleteTyped, DeletionIsAbout
  <2> HIDE DEF t
  <2>3. \A i \in DOMAIN t : Prepared(t, i) /\ t[i].do \notin Registering
    BY <2>1, <2>2 DEF Prepared, Deleting, Registering
  <2> QED BY <1>3, <2>1, <2>2, <2>3
<1>9. ASSUME NEW o \in Object, Rejournal(o) PROVE Goal
  <2> DEFINE t == <<Do("flush", o), Do("verify", o)>>
  <2>1. Begin(t) /\ UNCHANGED <<journal, tail, disk, meta, alive, gone, mem>> /\ o \in Primary
    BY <1>9 DEF Rejournal, Primary
  <2>2. Do("flush", o) \in TypedSteps /\ Do("verify", o) \in TypedSteps
    BY TypedDo DEF StepKinds, OfBlobs, OfJobs
  <2>3. t \in Seq(TypedSteps) /\ \A i \in DOMAIN t : t[i].do \in {"flush", "verify"} /\ t[i].of = o
    BY <1>2, <2>2
  <2> HIDE DEF t
  <2>4. \A i \in DOMAIN t : Prepared(t, i) /\ t[i].do \notin Registering
    BY <2>1, <2>3 DEF Prepared, Harmless, Registering
  <2> QED BY <1>3, <2>1, <2>3, <2>4
<1>10. ASSUME NEW o \in Object, Rejournaled(o) PROVE Goal
  <2> DEFINE t == <<Do("rejournal", o)>>
  <2>1. /\ Begin(t) /\ UNCHANGED <<journal, tail, disk, meta, alive, gone>>
        /\ mem' = [mem EXCEPT !.verifying = {}] /\ o \in mem.verifying
    BY <1>10 DEF Rejournaled
  <2>2. Do("rejournal", o) \in TypedSteps
    BY TypedDo DEF StepKinds, OfBlobs, OfJobs
  <2>3. t \in Seq(TypedSteps) /\ \A i \in DOMAIN t : t[i].do = "rejournal" /\ t[i].of = o
    BY <1>2, <2>2
  <2> HIDE DEF t
  <2>4. \A i \in DOMAIN t : Prepared(t, i) /\ t[i].do \notin Registering
    BY <2>1, <2>3 DEF Prepared, Registering
  <2> QED BY <1>3, <2>1, <2>3, <2>4
<1>11. ASSUME Sweep PROVE Goal
  <2> DEFINE p == CHOOSE o \in Object : TRUE
             t == [i \in 1..3 |-> Do(<<"expire", "collect", "evict">>[i], p)]
  <2>1. Begin(t) /\ UNCHANGED <<journal, tail, disk, meta, alive, gone, mem>>
    BY <1>11 DEF Sweep
  <2>2. p \in Object
    BY StoreAssumption DEF Object
  <2> HIDE DEF p
  <2>3. \A i \in 1..3 : <<"expire", "collect", "evict">>[i] \in {"expire", "collect", "evict"}
    OBVIOUS
  <2>4. \A i \in 1..3 : Do(<<"expire", "collect", "evict">>[i], p) \in TypedSteps
    BY <2>2, <2>3, TypedDo DEF StepKinds, OfBlobs, OfJobs
  <2>5. t \in [1..3 -> TypedSteps] /\ \A i \in 1..3 : t[i].do \in {"expire", "collect", "evict"}
    BY <1>2, <2>3, <2>4
  <2> HIDE DEF t
  <2>6. PICK n \in Nat : n = 3
    OBVIOUS
  <2>7. t \in [1..n -> TypedSteps]
    BY <2>5, <2>6
  <2>8. t \in Seq(TypedSteps)
    BY <2>7
  <2>9. \A i \in DOMAIN t : Prepared(t, i) /\ t[i].do \notin Registering
    BY <2>5 DEF Prepared, Harmless, Registering
  <2> QED BY <1>3, <2>1, <2>8, <2>9
<1>12. ASSUME Maintain PROVE Goal
  <2> DEFINE p == CHOOSE o \in mem.pending : TRUE
             t == <<Do("flush", p)>>
  <2>1. p \in Object /\ UNCHANGED <<journal, tail, disk, meta, alive, gone, mem>> /\ Begin(t)
    BY <1>1, <1>12 DEF Maintain
  <2> HIDE DEF p
  <2>2. Do("flush", p) \in TypedSteps
    BY <2>1, TypedDo DEF StepKinds, OfBlobs, OfJobs
  <2>3. t \in Seq(TypedSteps) /\ \A i \in DOMAIN t : t[i].do = "flush"
    BY <1>2, <2>2
  <2> HIDE DEF t
  <2>4. \A i \in DOMAIN t : Prepared(t, i) /\ t[i].do \notin Registering
    BY <2>3 DEF Prepared, Harmless, Registering
  <2> QED BY <1>3, <2>1, <2>3, <2>4
<1> HIDE DEF Goal
<1>13. Goal
  BY <1>4, <1>5, <1>6, <1>7, <1>8, <1>9, <1>10, <1>11, <1>12
<1> QED BY <1>13 DEF Goal, Same

\* A loop of a retention pass deletes what no job on the disk references.
LEMMA RetentionPrepares ==
    ASSUME StoreTypes, todo # <<>>, Section(todo), Retain(Head(todo))
    PROVE  /\ \A i \in DOMAIN todo : todo[i].do \in Retaining
           /\ \A i \in DOMAIN todo' :
                 \/ todo'[i].do \in Retaining
                 \/ /\ todo'[i].do \in Deleting /\ todo'[i].of \in Primary \cap Object
                    /\ todo'[i].of \in Blob => todo'[i].of \notin Referenced("primary")
<1> DEFINE s == Head(todo)
<1>1. s.do \in Retaining /\ todo \in Seq(TypedSteps)
  BY DEF Retain, Retaining, StoreTypes, ProcessTypes
<1>2. \A i \in DOMAIN todo : todo[i].do \in Retaining
  BY <1>1, HeadIsSound
<1>3. CASE Victims(s) = {} /\ todo' = Tail(todo)
  <2>1. DOMAIN todo' = 1..(Len(todo) - 1) /\ \A i \in DOMAIN todo' : todo'[i] = todo[i + 1] /\ i + 1 \in DOMAIN todo
    BY <1>1, <1>3
  <2> QED BY <1>2, <2>1
<1>4. CASE \E o \in Victims(s) :
              todo' = Due(DeleteSteps(o)) \o (IF s.do = "evict" THEN <<Do("free", o)>> ELSE <<>>) \o todo
  <2>1. PICK o \in Victims(s) :
           todo' = Due(DeleteSteps(o)) \o (IF s.do = "evict" THEN <<Do("free", o)>> ELSE <<>>) \o todo
    BY <1>4
  <2>2. o \in Primary \cap Object /\ (o \in Blob => o \notin Referenced("primary"))
    <3>1. Primary \subseteq Object /\ Blob \cap Job = {}
      BY StoreAssumption DEF StoreTypes, DiskTypes, Node, Primary
    <3> QED BY <2>1, <3>1 DEF Victims, Expired, Unreferenced, Terminal, Primary
  <2> DEFINE d == Due(DeleteSteps(o))
             f == IF s.do = "evict" THEN <<Do("free", o)>> ELSE <<>>
  <2>3. d \in Seq(TypedSteps) /\ \A i \in DOMAIN d : d[i].do \in Deleting /\ d[i].of = o
    <3>1. DeleteSteps(o) \in Seq(TypedSteps)
      BY <2>2, DeleteTyped
    <3>2. \A i \in DOMAIN d : \E m \in DOMAIN DeleteSteps(o) : d[i] = DeleteSteps(o)[m]
      BY <3>1, DueInOrder
    <3> QED BY <2>2, <3>1, <3>2, DueTyped, DeletionIsAbout
  <2>4. f \in Seq(TypedSteps) /\ \A i \in DOMAIN f : f[i].do \in Retaining
    <3>1. Do("free", o) \in TypedSteps
      BY <2>2, TypedDo DEF StepKinds, OfBlobs, OfJobs
    <3>2. Do("free", o).do = "free"
      BY DEF Do
    <3> QED BY <3>1, <3>2 DEF Retaining
  <2>5. todo' = d \o f \o todo
    BY <2>1
  <2> HIDE DEF d, f
  <2>6. \A i \in DOMAIN todo' : \/ \E k \in DOMAIN d : todo'[i] = d[k]
                                \/ \E k \in DOMAIN f : todo'[i] = f[k]
                                \/ \E k \in DOMAIN todo : todo'[i] = todo[k]
    <3>1. /\ d \o f \in Seq(TypedSteps) /\ Len(d \o f) = Len(d) + Len(f)
          /\ \A i \in 1..Len(d) : (d \o f)[i] = d[i] /\ i \in DOMAIN d
          /\ \A i \in (Len(d) + 1)..(Len(d) + Len(f)) : (d \o f)[i] = f[i - Len(d)] /\ i - Len(d) \in DOMAIN f
      BY <2>3, <2>4
    <3> DEFINE df == d \o f
    <3>2. Len(d) \in Nat /\ Len(f) \in Nat
      BY <2>3, <2>4
    <3>3. df \in Seq(TypedSteps) /\ todo' = df \o todo
          /\ \A i \in 1..Len(df) : (\E k \in DOMAIN d : df[i] = d[k]) \/ (\E k \in DOMAIN f : df[i] = f[k])
      BY <2>5, <3>1, <3>2
    <3> HIDE DEF df
    <3>4. /\ DOMAIN todo' = 1..(Len(df) + Len(todo)) /\ Len(df) \in Nat /\ Len(todo) \in Nat
          /\ \A i \in 1..Len(df) : todo'[i] = df[i]
          /\ \A i \in (Len(df) + 1)..(Len(df) + Len(todo)) : todo'[i] = todo[i - Len(df)] /\ i - Len(df) \in DOMAIN todo
      BY <1>1, <3>3
    <3> QED BY <3>3, <3>4
  <2> QED BY <1>2, <2>2, <2>3, <2>4, <2>6
<1> QED BY <1>2, <1>3, <1>4 DEF Retain

-----------------------------------------------------------------------------
(* What the primary's memory and its journal know of what is on the disk *)

Put(o) == \E i \in DOMAIN journal : journal[i] = Rec("put", o)
ToDo(kind, o) == \E i \in DOMAIN todo : todo[i].do = kind /\ todo[i].of = o

\* The process knows every intent, and every object on the disk has its record, is known
\* to miss it, or gets it in this section.
Known == \A o \in Object : State(o) = "intent" => o \in mem.intents
Accounted ==
    /\ \A b \in Primary \cap Blob : \/ State(b) \in {"put", "intent"}
                                    \/ b \in mem.unjournaled \/ ToDo("commit", b)
    /\ \A j \in Primary \cap Job : Put(j) \/ ToDo("register", j)

\* Only what has been put is ever verified, put again or deleted.
Sensible(r) == /\ r.kind = "put" => r = Rec("put", r.of)
               /\ r.kind \in {"intent", "cancel"} /\ r.of \in Job => Put(r.of)
Announced ==
    /\ \A i \in DOMAIN journal : Sensible(journal[i])
    /\ \A i \in DOMAIN tail : Sensible(tail[i])
    /\ \A j \in mem.verifying \cap Job : Put(j)
    /\ \A i \in DOMAIN todo : todo[i].do \in {"verify", "rejournal", "intent"} /\ todo[i].of \in Job
                                => Put(todo[i].of)

MemoryInv == (alive => Known /\ Accounted) /\ Announced

\* What was put stays put.
LEMMA PutStays ==
    ASSUME Begins(journal, journal')
    PROVE  /\ \A o : Put(o) => Put(o)'
           /\ \A r : Sensible(r) => Sensible(r)'
<1>1. ASSUME NEW o, Put(o) PROVE Put(o)'
  <2>1. PICK i \in DOMAIN journal : journal[i] = Rec("put", o)
    BY <1>1 DEF Put
  <2>2. i \in DOMAIN journal' /\ journal'[i] = journal[i]
    BY DEF Begins, IsLog
  <2> QED BY <2>1, <2>2 DEF Put, Rec
<1>2. ASSUME NEW r, Sensible(r) PROVE Sensible(r)'
  BY <1>1, <1>2 DEF Sensible, Rec
<1> QED BY <1>1, <1>2

\* The rest of a section.
LEMMA RestOfSection ==
    ASSUME todo \in Seq(TypedSteps), todo # <<>>, todo' = Tail(todo)
    PROVE  /\ \A i \in DOMAIN todo' : i + 1 \in DOMAIN todo /\ todo'[i] = todo[i + 1]
           /\ \A i \in 2..Len(todo) : i - 1 \in DOMAIN todo' /\ todo'[i - 1] = todo[i]
           /\ \A kind, o : ToDo(kind, o) => ToDo(kind, o)' \/ (Head(todo).do = kind /\ Head(todo).of = o)
<1>1. /\ \A i \in DOMAIN todo' : i + 1 \in DOMAIN todo /\ todo'[i] = todo[i + 1]
      /\ \A i \in 2..Len(todo) : i - 1 \in DOMAIN todo' /\ todo'[i - 1] = todo[i]
  OBVIOUS
<1>2. ASSUME NEW kind, NEW o, ToDo(kind, o), ~ToDo(kind, o)'
      PROVE  Head(todo).do = kind /\ Head(todo).of = o
  <2>1. PICK i \in DOMAIN todo : todo[i].do = kind /\ todo[i].of = o
    BY <1>2 DEF ToDo
  <2>2. i \notin 2..Len(todo)
    BY <1>1, <1>2, <2>1 DEF ToDo
  <2>3. i = 1
    BY <2>2
  <2> QED BY <2>1, <2>3
<1> QED BY <1>1, <1>2

\* An object on the disk that a section is still to record is recorded next.
LEMMA ClosingIsNext ==
    ASSUME StoreTypes, Section(todo), NEW o \in Primary
    PROVE  /\ ToDo("commit", o) => todo # <<>> /\ Head(todo).do = "commit" /\ Head(todo).of = o
           /\ ToDo("register", o) =>
                 todo # <<>> /\ (Head(todo).do = "stamp" \/ (Head(todo).do = "register" /\ Head(todo).of = o))
<1>1. todo \in Seq(TypedSteps) /\ DOMAIN todo = 1..Len(todo) /\ Len(todo) \in Nat
  BY DEF StoreTypes, ProcessTypes
<1>2. ASSUME NEW i \in DOMAIN todo, todo[i].of = o PROVE ~Before(todo, i, {"rename"}) /\ ~Before(todo, i, {"write"})
  <2>1. \A k \in 1..(i - 1) : k \in DOMAIN todo /\ StepIsSound(todo, k)
    BY <1>1 DEF Section
  <2>2. \A k \in 1..(i - 1) : todo[k].do \in Placing => todo[k].of # o
    BY <2>1 DEF StepIsSound
  <2> QED BY <1>2, <2>2 DEF Before, Placing
<1>3. ASSUME ToDo("commit", o) PROVE todo # <<>> /\ Head(todo).do = "commit" /\ Head(todo).of = o
  <2>1. PICK i \in DOMAIN todo : todo[i].do = "commit" /\ todo[i].of = o
    BY <1>3 DEF ToDo
  <2>2. StepIsSound(todo, i)
    BY DEF Section
  <2>3. i = 1
    BY <1>2, <2>1, <2>2 DEF StepIsSound
  <2> QED BY <1>1, <2>1, <2>3
<1>4. ASSUME ToDo("register", o)
      PROVE  todo # <<>> /\ (Head(todo).do = "stamp" \/ (Head(todo).do = "register" /\ Head(todo).of = o))
  <2>1. PICK i \in DOMAIN todo : todo[i].do = "register" /\ todo[i].of = o
    BY <1>4 DEF ToDo
  <2>2. StepIsSound(todo, i)
    BY DEF Section
  <2>3. \A k \in 1..(i - 1) : todo[k].do = "stamp"
    BY <1>2, <2>1, <2>2 DEF StepIsSound
  <2>4. todo # <<>> /\ Head(todo) = todo[1] /\ (i = 1 \/ 1 \in 1..(i - 1))
    BY <1>1
  <2> QED BY <2>1, <2>3, <2>4
<1> QED BY <1>3, <1>4

\* What the next step of a section writes is sensible, finished or not.
LEMMA WritesSense ==
    ASSUME StoreTypes, Announced, todo # <<>>,
           NEW r, LET s == Head(todo) IN s.do \in Appending \cup {"flush"} /\ r \in Unfinished(s)
    PROVE  Sensible(r)
<1> DEFINE s == Head(todo)
<1>1. s \in TypedSteps /\ s = todo[1] /\ 1 \in DOMAIN todo /\ Blob \cap Job = {}
  BY StoreAssumption DEF StoreTypes, ProcessTypes
<1>2. CASE s.do = "flush"
  BY <1>2 DEF Unfinished, Rec, Sensible
<1>3. CASE s.do = "state"
  BY <1>3 DEF Unfinished, Written, Sensible
<1>4. CASE s.do \in Appending \ {"state"}
  <2>1. r = Rec(IF s.do \in {"commit", "journal", "rejournal", "register"} THEN "put" ELSE s.do, s.of)
    BY <1>4 DEF Unfinished, Written, Appending
  <2>2. s.do = "intent" /\ s.of \in Job => Put(s.of)
    BY <1>1 DEF Announced
  <2>3. s.do = "cancel" => s.of \notin Job
    BY <1>1 DEF TypedSteps, OfBlobs
  <2> QED BY <1>4, <2>1, <2>2, <2>3 DEF Sensible, Rec, Appending
<1> QED BY <1>2, <1>3, <1>4 DEF Appending

\* The memory stays right while nothing but the disk changes, which loses objects.
LEMMA QuietMemory ==
    ASSUME StoreTypes, MemoryInv, UNCHANGED <<journal, tail, alive, todo>>, Primary' \subseteq Primary,
           UNCHANGED mem
    PROVE  MemoryInv'
<1>1. \A o : /\ State(o)' = State(o) /\ Put(o)' = Put(o)
             /\ \A kind : ToDo(kind, o)' = ToDo(kind, o)
  BY DEF State, Put, ToDo
<1>2. \A r : Sensible(r)' = Sensible(r)
  BY <1>1 DEF Sensible
<1>3. Announced'
  BY <1>1, <1>2 DEF MemoryInv, Announced
<1>4. alive' => Known' /\ Accounted'
  BY <1>1 DEF MemoryInv, Known, Accounted
<1> QED BY <1>3, <1>4 DEF MemoryInv

\* A handler begins a section with every object on the disk recorded.
LEMMA HandlersRemember ==
    ASSUME StoreTypes, MemoryInv, UNCHANGED <<journal, tail, disk, alive>>, todo = <<>>, alive,
           mem' = mem \/ mem' = [mem EXCEPT !.verifying = {}],
           \A i \in DOMAIN todo' : Prepared(todo', i)
    PROVE  MemoryInv'
<1>1. \A o : /\ State(o)' = State(o) /\ Put(o)' = Put(o) /\ \A kind : ~ToDo(kind, o)
  BY DEF State, Put, ToDo
<1>2. \A r : Sensible(r)' = Sensible(r)
  BY <1>1 DEF Sensible
<1>3. mem.intents = mem'.intents /\ mem.unjournaled = mem'.unjournaled /\ mem'.verifying \subseteq mem.verifying
  BY DEF StoreTypes, ProcessTypes, MemTypes
<1>4. Primary' = Primary
  BY DEF Primary
<1>5. Known' /\ Accounted'
  BY <1>1, <1>3, <1>4 DEF MemoryInv, Known, Accounted
<1>6. ASSUME NEW i \in DOMAIN todo', todo'[i].do \in {"verify", "rejournal", "intent"}, todo'[i].of \in Job
      PROVE  Put(todo'[i].of)
  <2>1. todo'[i].of \in Primary \/ todo'[i].of \in mem.verifying
    BY <1>6 DEF Prepared, Harmless, Registering, Deleting
  <2> QED BY <1>1, <1>6, <2>1 DEF MemoryInv, Accounted, Announced
<1>7. Announced'
  BY <1>1, <1>2, <1>3, <1>6 DEF MemoryInv, Announced
<1> QED BY <1>5, <1>7 DEF MemoryInv

\* A longer journal of sensible records.
LEMMA AnnouncedGoesOn ==
    ASSUME Begins(journal, journal'), Announced,
           \A i \in (Len(journal) + 1)..Len(journal') : Sensible(journal'[i]),
           \A i \in DOMAIN tail' : Sensible(tail'[i]),
           \A j \in mem'.verifying \cap Job : Put(j),
           \A i \in DOMAIN todo' : todo'[i].do \in {"verify", "rejournal", "intent"} /\ todo'[i].of \in Job
                                      => Put(todo'[i].of)
    PROVE  Announced'
<1>1. (\A o : Put(o) => Put(o)') /\ (\A r : Sensible(r) => Sensible(r)')
  BY PutStays
<1>2. \A i \in DOMAIN journal' : Sensible(journal'[i])
  <2>1. \A i \in DOMAIN journal' : i \in DOMAIN journal \/ i \in (Len(journal) + 1)..Len(journal')
    BY DEF Begins, IsLog
  <2>2. \A i \in DOMAIN journal : journal'[i] = journal[i]
    BY DEF Begins, IsLog
  <2> QED BY <2>1, <2>2 DEF Announced
<1> QED BY <1>1, <1>2 DEF Announced

\* The records of a section.
LEMMA AppendRemembers ==
    ASSUME TombstoneInv, MemoryInv, alive, todo # <<>>, UNCHANGED <<tail, alive>>,
           AppendRecord(Head(todo))
    PROVE  MemoryInv'
<1> DEFINE s == Head(todo)
           r == Written(s)
<1>1. /\ s \in TypedSteps /\ s.do \in Appending /\ todo' = Tail(todo)
      /\ journal' = Append(journal, r) /\ mem' = Recorded(s) /\ Primary' = Primary
  BY HeadIsSound DEF AppendRecord, TombstoneInv, SectionInv, Primary
<1>2. IsLog(journal) /\ Begins(journal, journal')
  <2>1. journal \in Seq(Records)
    BY DEF TombstoneInv, StoreTypes, JournalTypes
  <2>2. IsLog(journal)
    BY <2>1, SeqOfRange DEF IsLog
  <2> QED BY <1>1, <2>2, LogAppend
<1>3. r.of = s.of /\ s.of \in Object
  BY <1>1 DEF Written, Rec, TypedSteps, Steps
<1>4. \A o : State(o)' = IF s.of = o /\ s.do # "state" THEN Says(r) ELSE State(o)
  <2>1. \A o : State(o)' = IF r.of = o /\ r.kind \notin {"terminal", "pin"} THEN Says(r) ELSE State(o)
    BY <1>1, <1>2, StateAfterAppend DEF State
  <2>2. r.kind \in {"terminal", "pin"} <=> s.do = "state"
    BY <1>1 DEF Written, Rec, Appending
  <2> QED BY <1>3, <2>1, <2>2
<1>5. s.do # "state" => Says(r) = IF s.do \in {"intent", "delete"} THEN s.do ELSE "put"
  BY <1>1 DEF Written, Rec, Says, Appending
<1>6. ASSUME s.do = "register", NEW o, s.of = o PROVE Put(o)'
  <2>1. r = Rec("put", o)
    BY <1>6 DEF Written
  <2>2. Len(journal) + 1 \in DOMAIN journal' /\ journal'[Len(journal) + 1] = r
    BY <1>1 DEF TombstoneInv, StoreTypes, JournalTypes
  <2> QED BY <2>1, <2>2 DEF Put, Rec
<1>7. \A o : Put(o) => Put(o)'
  BY <1>2, PutStays
<1>8. mem \in MemTypes /\ todo \in Seq(TypedSteps)
  BY DEF TombstoneInv, StoreTypes, ProcessTypes
<1>9. /\ mem'.intents = IF s.do = "intent" THEN mem.intents \cup {s.of}
                        ELSE IF s.do \in {"commit", "cancel", "delete"} THEN mem.intents \ {s.of} ELSE mem.intents
      /\ mem'.unjournaled = IF s.do \in {"commit", "journal"} THEN mem.unjournaled \ {s.of} ELSE mem.unjournaled
      /\ mem'.verifying = mem.verifying
  BY <1>1, <1>8 DEF Recorded, MemTypes
<1>10. Known'
  <2> SUFFICES ASSUME NEW o \in Object, State(o)' = "intent" PROVE o \in mem'.intents
    BY DEF Known
  <2>1. CASE s.of = o /\ s.do # "state"
    BY <1>4, <1>5, <1>9, <2>1
  <2>2. CASE ~(s.of = o /\ s.do # "state")
    <3>1. State(o) = "intent"
      BY <1>4, <2>2
    <3>2. o \in mem.intents
      BY <3>1 DEF MemoryInv, Known
    <3> QED BY <1>9, <2>2, <3>2
  <2> QED BY <2>1, <2>2
<1>11. s.do = "delete" => s.of \notin Primary
  BY HeadIsSound DEF TombstoneInv, SectionInv, DeletionInv
<1>12. \A kind, o : ToDo(kind, o) => ToDo(kind, o)' \/ (s.do = kind /\ s.of = o)
  BY <1>1, <1>8, RestOfSection
<1>13. ASSUME NEW b \in Primary' \cap Blob
       PROVE  State(b)' \in {"put", "intent"} \/ b \in mem'.unjournaled \/ ToDo("commit", b)'
  <2>1. State(b) \in {"put", "intent"} \/ b \in mem.unjournaled \/ ToDo("commit", b)
    BY <1>1, <1>13 DEF MemoryInv, Accounted
  <2>2. CASE s.of = b /\ s.do # "state"
    BY <1>1, <1>4, <1>5, <1>11, <1>13, <2>2
  <2>3. CASE ~(s.of = b /\ s.do # "state")
    BY <1>4, <1>9, <1>12, <2>1, <2>3
  <2> QED BY <2>2, <2>3
<1>14. ASSUME NEW j \in Primary' \cap Job PROVE Put(j)' \/ ToDo("register", j)'
  BY <1>1, <1>6, <1>7, <1>12, <1>14 DEF MemoryInv, Accounted
<1>15. Accounted'
  BY <1>13, <1>14 DEF Accounted
<1>16. Sensible(r)
  <2>1. r \in Unfinished(s)
    BY <1>1 DEF Unfinished, Appending
  <2> QED BY <1>1, <2>1, WritesSense DEF MemoryInv, TombstoneInv
<1>17. Announced'
  <2>1. \A i \in (Len(journal) + 1)..Len(journal') : Sensible(journal'[i])
    <3>1. Len(journal') = Len(journal) + 1 /\ Len(journal) \in Nat /\ journal'[Len(journal) + 1] = r
      BY <1>1 DEF TombstoneInv, StoreTypes, JournalTypes
    <3> QED BY <1>16, <3>1
  <2>2. \A i \in DOMAIN todo' : todo'[i].do \in {"verify", "rejournal", "intent"} /\ todo'[i].of \in Job
                                  => Put(todo'[i].of)
    BY <1>1, <1>8, RestOfSection DEF MemoryInv, Announced
  <2> QED BY <1>2, <1>9, <2>1, <2>2, AnnouncedGoesOn DEF MemoryInv, Announced
<1> QED BY <1>10, <1>15, <1>17 DEF MemoryInv

\* The steps of a section that leave the journal alone: what they place is recorded next.
LEMMA RestRemembers ==
    ASSUME TombstoneInv, MemoryInv, alive, todo # <<>>, UNCHANGED <<tail, alive>>,
           LET s == Head(todo) IN StoreObject(s) \/ UpdateMeta(s) \/ Touch(s) \/ Unlink(s)
    PROVE  MemoryInv'
<1> DEFINE s == Head(todo)
<1>1. /\ s \in TypedSteps /\ s = todo[1] /\ 1 \in DOMAIN todo /\ todo \in Seq(TypedSteps) /\ mem \in MemTypes
      /\ disk \in [Node -> SUBSET Object] /\ "primary" \in Node
  BY DEF TombstoneInv, StoreTypes, ProcessTypes, DiskTypes, Node
<1>2. /\ todo' = Tail(todo) /\ UNCHANGED journal
      /\ s.do \in {"rename", "write", "stamp", "meta", "unmeta", "touch", "verify", "unlink"}
  BY DEF StoreObject, UpdateMeta, Touch, Unlink
<1>3. /\ mem'.intents = mem.intents /\ mem'.unjournaled = mem.unjournaled
      /\ mem'.verifying = IF s.do = "verify" THEN {s.of} ELSE mem.verifying
  BY <1>1, <1>2 DEF StoreObject, UpdateMeta, Touch, Unlink, MemTypes
<1>4. Primary' \subseteq Primary \/ (s.do \in Placing /\ Primary' = Primary \cup {s.of})
  BY <1>1 DEF StoreObject, UpdateMeta, Touch, Unlink, Primary, Placing
<1>5. \A o : State(o)' = State(o) /\ Put(o)' = Put(o)
  BY <1>2 DEF State, Put
<1>6. \A kind \in {"commit", "register"} : \A o : ToDo(kind, o) => ToDo(kind, o)'
  BY <1>1, <1>2, RestOfSection
<1>7. /\ \A o : s.do = "rename" /\ s.of = o => ToDo("commit", o)'
      /\ \A o : s.do = "write" /\ s.of = o => ToDo("register", o)'
  <2>1. ASSUME NEW kind, After(todo, 1, kind), NEW o, s.of = o PROVE ToDo(kind, o)'
    <3>1. PICK k \in 2..Len(todo) : todo[k].do = kind /\ todo[k].of = s.of
      BY <1>1, <2>1 DEF After
    <3>2. k - 1 \in DOMAIN todo' /\ todo'[k - 1] = todo[k]
      BY <1>1, <1>2, RestOfSection
    <3> QED BY <2>1, <3>1, <3>2 DEF ToDo
  <2>2. StepIsSound(todo, 1)
    BY <1>1 DEF TombstoneInv, SectionInv, Section
  <2> QED BY <1>1, <2>1, <2>2 DEF StepIsSound
<1>8. s.do = "rename" => s.of \in Blob \ Job
  BY <1>1, StoreAssumption DEF TypedSteps, OfBlobs
<1>9. s.do = "write" => s.of \in Job \ Blob
  BY <1>1, StoreAssumption DEF TypedSteps, OfJobs
<1>10. Known'
  BY <1>3, <1>5 DEF MemoryInv, Known
<1>11. Accounted'
  <2>1. ASSUME NEW b \in Primary' \cap Blob
        PROVE  State(b)' \in {"put", "intent"} \/ b \in mem'.unjournaled \/ ToDo("commit", b)'
    <3>1. CASE b \in Primary
      BY <1>3, <1>5, <1>6, <2>1, <3>1 DEF MemoryInv, Accounted
    <3>2. CASE b \notin Primary
      BY <1>4, <1>7, <1>9, <2>1, <3>2 DEF Placing
    <3> QED BY <3>1, <3>2
  <2>2. ASSUME NEW j \in Primary' \cap Job PROVE Put(j)' \/ ToDo("register", j)'
    <3>1. CASE j \in Primary
      BY <1>5, <1>6, <2>2, <3>1 DEF MemoryInv, Accounted
    <3>2. CASE j \notin Primary
      BY <1>4, <1>7, <1>8, <2>2, <3>2 DEF Placing
    <3> QED BY <3>1, <3>2
  <2> QED BY <2>1, <2>2 DEF Accounted
<1>12. \A r : Sensible(r)' = Sensible(r)
  BY <1>5 DEF Sensible
<1>13. Announced'
  <2>1. \A j \in mem'.verifying \cap Job : Put(j)
    BY <1>1, <1>3 DEF MemoryInv, Announced
  <2>2. \A i \in DOMAIN todo' : todo'[i].do \in {"verify", "rejournal", "intent"} /\ todo'[i].of \in Job
                                  => Put(todo'[i].of)
    BY <1>1, <1>2, RestOfSection DEF MemoryInv, Announced
  <2> QED BY <1>2, <1>5, <1>12, <2>1, <2>2 DEF MemoryInv, Announced
<1> QED BY <1>10, <1>11, <1>13 DEF MemoryInv

\* The flush of a pending deletion.
LEMMA FlushRemembers ==
    ASSUME TombstoneInv, MemoryInv, alive, todo # <<>>, UNCHANGED <<tail, alive>>,
           FlushOne(Head(todo))
    PROVE  MemoryInv'
<1> DEFINE s == Head(todo)
<1>1. PICK d \in mem.pending : /\ journal' = Append(journal, Rec("delete", d))
                               /\ mem' = [mem EXCEPT !.pending = @ \ {d}]
                               /\ todo' = IF mem.pending = {d} THEN Tail(todo) ELSE todo
  BY DEF FlushOne
<1>2. /\ s.do = "flush" /\ Primary' = Primary /\ todo \in Seq(TypedSteps) /\ mem \in MemTypes
      /\ journal \in Seq(Records)
  BY DEF FlushOne, Primary, TombstoneInv, StoreTypes, ProcessTypes, JournalTypes
<1>3. IsLog(journal) /\ Begins(journal, journal')
  <2>1. IsLog(journal)
    BY <1>2, SeqOfRange DEF IsLog
  <2> QED BY <1>1, <2>1, LogAppend
<1>4. \A o : State(o)' = IF d = o THEN "delete" ELSE State(o)
  <2>1. Rec("delete", d).of = d /\ Rec("delete", d).kind = "delete" /\ Says(Rec("delete", d)) = "delete"
    BY DEF Rec, Says
  <2>2. \A o : State(o)' = IF Rec("delete", d).of = o /\ Rec("delete", d).kind \notin {"terminal", "pin"}
                           THEN Says(Rec("delete", d)) ELSE State(o)
    BY <1>1, <1>3, StateAfterAppend DEF State
  <2> QED BY <2>1, <2>2
<1>5. d \notin Primary
  BY DEF TombstoneInv, DeletionInv
<1>6. mem'.intents = mem.intents /\ mem'.unjournaled = mem.unjournaled /\ mem'.verifying = mem.verifying
  BY <1>1, <1>2 DEF MemTypes
<1>7. \A kind \in {"commit", "register"} : \A o : ToDo(kind, o) => ToDo(kind, o)'
  <2>1. CASE todo' = todo
    BY <2>1 DEF ToDo
  <2>2. CASE todo' = Tail(todo)
    BY <1>2, <2>2, RestOfSection
  <2> QED BY <1>1, <2>1, <2>2
<1>8. \A o : Put(o) => Put(o)'
  BY <1>3, PutStays
<1>9. Known'
  BY <1>4, <1>6 DEF MemoryInv, Known
<1>10. Accounted'
  BY <1>2, <1>4, <1>5, <1>6, <1>7, <1>8 DEF MemoryInv, Accounted
<1>11. Announced'
  <2>1. \A i \in (Len(journal) + 1)..Len(journal') : Sensible(journal'[i])
    <3>1. Len(journal') = Len(journal) + 1 /\ Len(journal) \in Nat /\ journal'[Len(journal) + 1] = Rec("delete", d)
      BY <1>1, <1>2
    <3>2. Sensible(Rec("delete", d))
      BY DEF Sensible, Rec
    <3> QED BY <3>1, <3>2
  <2>2. \A i \in DOMAIN todo' : todo'[i].do \in {"verify", "rejournal", "intent"} /\ todo'[i].of \in Job
                                  => Put(todo'[i].of)
    <3>1. CASE todo' = todo
      BY <3>1 DEF MemoryInv, Announced
    <3>2. CASE todo' = Tail(todo)
      BY <1>2, <3>2, RestOfSection DEF MemoryInv, Announced
    <3> QED BY <1>1, <3>1, <3>2
  <2> QED BY <1>3, <1>6, <2>1, <2>2, AnnouncedGoesOn DEF MemoryInv, Announced
<1> QED BY <1>9, <1>10, <1>11 DEF MemoryInv

\* The loops of a retention pass delete what is recorded.
LEMMA RetentionRemembers ==
    ASSUME TombstoneInv, MemoryInv, alive, todo # <<>>, UNCHANGED <<tail, alive>>,
           Retain(Head(todo))
    PROVE  MemoryInv'
<1>1. /\ \A i \in DOMAIN todo : todo[i].do \in Retaining
      /\ \A i \in DOMAIN todo' : todo'[i].do \in Retaining \/ todo'[i].of \in Primary
  BY RetentionPrepares DEF TombstoneInv, SectionInv
<1>2. UNCHANGED <<journal, disk, mem>>
  BY DEF Retain
<1>3. \A o : /\ State(o)' = State(o) /\ Put(o)' = Put(o)
             /\ ~ToDo("commit", o) /\ ~ToDo("register", o)
  BY <1>1, <1>2 DEF State, Put, ToDo, Retaining
<1>4. \A r : Sensible(r)' = Sensible(r)
  BY <1>3 DEF Sensible
<1>5. Known' /\ Accounted'
  BY <1>2, <1>3 DEF MemoryInv, Known, Accounted, Primary
<1>6. \A i \in DOMAIN todo' : todo'[i].do \in {"verify", "rejournal", "intent"} /\ todo'[i].of \in Job
                                => Put(todo'[i].of)
  BY <1>1, <1>3 DEF MemoryInv, Accounted, Retaining
<1>7. Announced'
  BY <1>2, <1>3, <1>4, <1>6 DEF MemoryInv, Announced
<1> QED BY <1>5, <1>7 DEF MemoryInv

LEMMA StepRemembers ==
    ASSUME TombstoneInv, MemoryInv, Step
    PROVE  MemoryInv'
<1> DEFINE s == Head(todo)
<1>1. alive /\ todo # <<>> /\ UNCHANGED <<tail, alive>>
  BY DEF Step
<1>2. \/ AppendRecord(s) \/ FlushOne(s) \/ Retain(s)
      \/ StoreObject(s) \/ UpdateMeta(s) \/ Touch(s) \/ Unlink(s)
  BY DEF Step
<1> QED BY <1>1, <1>2, AppendRemembers, FlushRemembers, RetentionRemembers, RestRemembers

\* What a failed append undoes.
LEMMA UndoneMemory ==
    ASSUME StoreTypes, NEW s \in TypedSteps, Undo(s, mem) \/ Undo(s, [mem EXCEPT !.broken = TRUE])
    PROVE  /\ mem'.intents = mem.intents /\ mem'.verifying = mem.verifying
           /\ mem.unjournaled \subseteq mem'.unjournaled /\ Primary' \subseteq Primary
           /\ s.do \in Closing => s.of \notin Primary' \/ (s.do = "commit" /\ s.of \in mem'.unjournaled)
<1>1. mem \in MemTypes /\ disk \in [Node -> SUBSET Object] /\ "primary" \in Node
  BY DEF StoreTypes, ProcessTypes, DiskTypes, Node
<1>2. PICK after \in {mem, [mem EXCEPT !.broken = TRUE]} : Undo(s, after)
  OBVIOUS
<1>3. /\ after.intents = mem.intents /\ after.verifying = mem.verifying
      /\ after.unjournaled = mem.unjournaled
      /\ DOMAIN after = {"intents", "pending", "unjournaled", "verifying", "bytes", "broken"}
  BY <1>1, <1>2 DEF MemTypes
<1>4. CASE /\ s.do \in {"commit", "register"}
           /\ disk' = [disk EXCEPT !["primary"] = @ \ {s.of}]
           /\ mem' = [after EXCEPT !.bytes = @ - 1]
  BY <1>1, <1>3, <1>4 DEF Primary, Closing
<1>5. CASE /\ s.do = "commit"
           /\ mem' = [after EXCEPT !.unjournaled = @ \cup {s.of}]
           /\ UNCHANGED disk
  BY <1>1, <1>3, <1>5 DEF Primary, Closing
<1>6. CASE s.do \notin {"commit", "register"} /\ mem' = after /\ UNCHANGED disk
  BY <1>3, <1>6 DEF Primary, Closing
<1> QED BY <1>2, <1>4, <1>5, <1>6 DEF Undo

\* A failed write or unlink ends the section: the object whose record failed is taken
\* back, or known to miss it.
LEMMA FailureRemembers ==
    ASSUME TombstoneInv, MemoryInv, AppendFails \/ UnlinkFails
    PROVE  MemoryInv'
<1> DEFINE s == Head(todo)
<1>1. /\ s \in TypedSteps /\ mem \in MemTypes /\ alive /\ alive' /\ todo # <<>>
      /\ UNCHANGED journal /\ todo' = <<>>
  BY DEF AppendFails, UnlinkFails, TombstoneInv, StoreTypes, ProcessTypes
<1>2. /\ mem'.intents = mem.intents /\ mem'.verifying = mem.verifying
      /\ mem.unjournaled \subseteq mem'.unjournaled /\ Primary' \subseteq Primary
      /\ s.do \in Closing => s.of \notin Primary' \/ (s.do = "commit" /\ s.of \in mem'.unjournaled)
      /\ s.do # "stamp"
  <2>1. CASE AppendFails
    <3>1. Undo(s, mem) \/ Undo(s, [mem EXCEPT !.broken = TRUE])
      BY <2>1 DEF AppendFails
    <3>2. s.do # "stamp"
      BY <2>1 DEF AppendFails, Appending
    <3> QED BY <1>1, <3>1, <3>2, UndoneMemory DEF TombstoneInv
  <2>2. CASE UnlinkFails
    <3>1. s.do = "unlink" /\ UNCHANGED <<mem, disk>>
      BY <2>2 DEF UnlinkFails
    <3> QED BY <3>1 DEF Primary, Closing
  <2> QED BY <2>1, <2>2
<1>3. \A i \in DOMAIN tail' : Sensible(tail'[i])
  <2>1. tail' \in {tail, <<>>} \/ (s.do \in Appending \cup {"flush"} /\ \E r \in Unfinished(s) : tail' = <<r>>)
    <3>1. CASE AppendFails
      <4>1. s.do \in Appending \cup {"flush"}
        BY <3>1 DEF AppendFails
      <4>2. tail' = tail \/ tail' \in {<<>>} \cup {<<r>> : r \in IF "torn" \in mix THEN Unfinished(s) ELSE {}}
        BY <3>1 DEF AppendFails
      <4> QED BY <4>1, <4>2
    <3>2. CASE UnlinkFails
      BY <3>2 DEF UnlinkFails
    <3> QED BY <3>1, <3>2
  <2>2. CASE tail' \in {tail, <<>>}
    BY <2>2 DEF MemoryInv, Announced
  <2>3. ASSUME s.do \in Appending \cup {"flush"}, NEW r \in Unfinished(s), tail' = <<r>>
        PROVE  \A i \in DOMAIN tail' : Sensible(tail'[i])
    <3>1. Sensible(r)
      BY <1>1, <2>3, WritesSense DEF TombstoneInv, MemoryInv
    <3> QED BY <2>3, <3>1
  <2> QED BY <2>1, <2>2, <2>3
<1>4. \A o : State(o)' = State(o) /\ Put(o)' = Put(o)
  BY <1>1 DEF State, Put
<1>5. \A r : Sensible(r)' = Sensible(r)
  BY <1>4 DEF Sensible
<1>6. Known'
  BY <1>1, <1>2, <1>4 DEF MemoryInv, Known
<1>7. \A o \in Primary : /\ ToDo("commit", o) => s.do = "commit" /\ s.of = o
                         /\ ToDo("register", o) => s.do = "register" /\ s.of = o
  BY <1>2, ClosingIsNext DEF TombstoneInv, SectionInv
<1>8. Accounted'
  <2>1. ASSUME NEW b \in Primary' \cap Blob PROVE State(b)' \in {"put", "intent"} \/ b \in mem'.unjournaled
    BY <1>1, <1>2, <1>4, <1>7, <2>1 DEF MemoryInv, Accounted, Closing
  <2>2. ASSUME NEW j \in Primary' \cap Job PROVE Put(j)'
    BY <1>1, <1>2, <1>4, <1>7, <2>2 DEF MemoryInv, Accounted, Closing
  <2> QED BY <2>1, <2>2 DEF Accounted
<1>9. Announced'
  BY <1>1, <1>2, <1>3, <1>4, <1>5 DEF MemoryInv, Announced
<1> QED BY <1>6, <1>8, <1>9 DEF MemoryInv

\* What a restart finds, the tail included, is sensible, and what it makes of it mended.
LEMMA RestartFinds ==
    ASSUME StoreTypes, Announced, Restart
    PROVE  LET found == journal \o tail
           IN  /\ IsLog(found) /\ Begins(journal, found) /\ Begins(journal, journal')
               /\ Mends(found, journal') /\ mem' = Boot(found, Primary)
               /\ \A i \in DOMAIN found : /\ Sensible(found[i]) /\ found[i] \in Records
                                          /\ \/ i \in DOMAIN journal
                                             \/ \E k \in DOMAIN tail : found[i] = tail[k]
<1> DEFINE found == journal \o tail
<1>1. journal \in Seq(Records) /\ tail \in Seq(Records) /\ Primary \subseteq Object
  <2>1. journal \in Seq(Records) /\ Primary \subseteq Object
    BY DEF StoreTypes, JournalTypes, DiskTypes, Node, Primary
  <2>2. tail = <<>> \/ \E r \in Records : tail = <<r>>
    BY DEF StoreTypes, JournalTypes
  <2>3. <<>> \in Seq(Records) /\ \A r \in Records : <<r>> \in Seq(Records)
    OBVIOUS
  <2>4. tail \in Seq(Records)
    BY <2>2, <2>3, Zenon
  <2> QED BY <2>1, <2>4
<1>2. IsLog(journal) /\ IsLog(tail) /\ IsLog(found)
  <2>1. found \in Seq(Records)
    BY <1>1
  <2> QED BY <1>1, <2>1, SeqOfRange DEF IsLog
<1>3. Begins(journal, found)
  BY <1>2, LogConcat
<1>4. Mends(found, journal') /\ mem' = Boot(found, Primary)
  BY <1>1, <1>2, RestartMends DEF Restart, Primary
<1>5. Begins(journal, journal')
  BY <1>3, <1>4, BeginsTransitive DEF Mends
<1>6. ASSUME NEW i \in DOMAIN found
      PROVE  /\ Sensible(found[i]) /\ found[i] \in Records
             /\ i \in DOMAIN journal \/ \E k \in DOMAIN tail : found[i] = tail[k]
  <2>1. \/ i \in DOMAIN journal /\ found[i] = journal[i]
        \/ \E k \in DOMAIN tail : found[i] = tail[k]
    <3>1. CASE i <= Len(journal)
      BY <1>1, <3>1
    <3>2. CASE ~(i <= Len(journal))
      <4>1. i - Len(journal) \in DOMAIN tail /\ found[i] = tail[i - Len(journal)]
        BY <1>1, <3>2
      <4> QED BY <4>1
    <3> QED BY <3>1, <3>2
  <2> QED BY <1>1, <2>1 DEF Announced
<1> QED BY <1>2, <1>3, <1>4, <1>5, <1>6

\* A restart gives every object on the disk its record.
LEMMA RestartRemembers ==
    ASSUME StoreTypes, MemoryInv, Restart
    PROVE  MemoryInv'
<1> DEFINE found == journal \o tail
<1>1. /\ IsLog(found) /\ Begins(journal, found) /\ Begins(journal, journal')
      /\ Mends(found, journal') /\ mem' = Boot(found, Primary)
      /\ \A i \in DOMAIN found : Sensible(found[i])
  BY RestartFinds DEF MemoryInv
<1> HIDE DEF found
<1>2. UNCHANGED <<todo, disk>> /\ todo = <<>> /\ tail' = <<>> /\ Primary' = Primary
  BY DEF Restart, Primary
<1>3. \A o : State(o)' = IF o \in Orphans(found) THEN "put"
                         ELSE IF o \in Halfway(found) THEN "delete" ELSE ObjectState(found, o)
  BY <1>1, MendedState DEF State
<1>4. mem'.intents = {o \in Object : ObjectState(found, o) = "intent"} /\ mem'.verifying = {}
  BY <1>1 DEF Boot
<1>5. Known'
  BY <1>3, <1>4 DEF Known
<1>6. ASSUME NEW o \in Primary PROVE State(o)' \in {"put", "intent"}
  BY <1>3 DEF Orphans, Halfway, Primary
<1>7. ASSUME NEW j \in Primary \cap Job PROVE Put(j)'
  <2>1. CASE j \in Orphans(found)
    <3>1. PICK i \in (Len(found) + 1)..Len(journal') : journal'[i] = Rec("put", j)
      BY <1>1, <2>1 DEF Mends
    <3>2. i \in DOMAIN journal'
      BY <1>1 DEF Mends, Begins, IsLog
    <3> QED BY <3>1, <3>2 DEF Put, Rec
  <2>2. CASE j \notin Orphans(found)
    <3>1. ObjectState(found, j) \in {"put", "intent"}
      BY <2>2 DEF Orphans, Primary
    <3>2. PICK i : Names(found, j, i) /\ ObjectState(found, j) = Says(found[i])
      BY <1>1, <3>1, LastDecides
    <3>3. i \in DOMAIN found /\ found[i].of = j /\ found[i].kind \in {"put", "intent", "cancel"} /\ Sensible(found[i])
      BY <1>1, <3>1, <3>2 DEF Names, Says
    <3>4. CASE found[i].kind = "put"
      <4>1. found[i] = Rec("put", j)
        BY <3>3, <3>4 DEF Sensible
      <4>2. i \in DOMAIN journal' /\ journal'[i] = found[i]
        BY <1>1, <3>3 DEF Mends, Begins, IsLog
      <4> QED BY <4>1, <4>2 DEF Put, Rec
    <3>5. CASE found[i].kind \in {"intent", "cancel"}
      <4>1. Put(j)
        BY <3>3, <3>5 DEF Sensible
      <4> QED BY <1>1, <4>1, PutStays
    <3> QED BY <3>3, <3>4, <3>5
  <2> QED BY <2>1, <2>2
<1>8. Accounted'
  BY <1>2, <1>6, <1>7 DEF Accounted
<1>9. Announced'
  <2>1. \A i \in (Len(journal) + 1)..Len(journal') : Sensible(journal'[i])
    <3> SUFFICES ASSUME NEW i \in (Len(journal) + 1)..Len(journal') PROVE Sensible(journal'[i])
      OBVIOUS
    <3>1. i \in DOMAIN found \/ i \in (Len(found) + 1)..Len(journal')
      BY <1>1 DEF Begins, IsLog, Mends
    <3>2. CASE i \in DOMAIN found
      <4>1. journal'[i] = found[i]
        BY <1>1, <3>2 DEF Mends, Begins, IsLog
      <4> QED BY <1>1, <3>2, <4>1
    <3>3. CASE i \in (Len(found) + 1)..Len(journal')
      <4>1. journal'[i] = Rec("put", journal'[i].of) \/ journal'[i] = Rec("delete", journal'[i].of)
        BY <1>1, <3>3 DEF Mends
      <4>2. \A kind, o : Rec(kind, o).kind = kind /\ Rec(kind, o).of = o
        BY DEF Rec
      <4> QED BY <4>1, <4>2 DEF Sensible
    <3> QED BY <3>1, <3>2, <3>3
  <2>2. \A i \in DOMAIN todo' : FALSE
    BY <1>2
  <2>3. \A i \in DOMAIN tail' : Sensible(tail'[i])
    BY <1>2
  <2> QED BY <1>1, <1>4, <2>1, <2>2, <2>3, AnnouncedGoesOn DEF MemoryInv
<1> QED BY <1>5, <1>8, <1>9 DEF MemoryInv

\* Crashes, accidents and the passing of time.
LEMMA AccidentRemembers ==
    ASSUME StoreTypes, MemoryInv, Crash \/ Restart \/ (\E o \in Object : Loss(o)) \/ Tick
    PROVE  MemoryInv'
<1>1. CASE Crash
  <2>1. ~alive' /\ UNCHANGED <<journal, tail>> /\ todo' = <<>> /\ mem'.verifying = {}
    BY <1>1 DEF Crash, Boot
  <2>2. \A o : Put(o)' = Put(o)
    BY <2>1 DEF Put
  <2>3. \A r : Sensible(r)' = Sensible(r)
    BY <2>2 DEF Sensible
  <2>4. Announced'
    BY <2>1, <2>2, <2>3 DEF MemoryInv, Announced
  <2> QED BY <2>1, <2>4 DEF MemoryInv
<1>2. CASE Restart
  BY <1>2, RestartRemembers
<1>3. CASE (\E o \in Object : Loss(o)) \/ Tick
  <2>1. UNCHANGED <<journal, tail, alive, todo, mem>> /\ Primary' \subseteq Primary
    BY <1>3 DEF Loss, Tick, Primary, StoreTypes, DiskTypes, Node
  <2> QED BY <2>1, QuietMemory
<1> QED BY <1>1, <1>2, <1>3

LEMMA MemoryStep ==
    ASSUME TombstoneInv, MemoryInv, [StoreNext]_vars
    PROVE  MemoryInv'
<1>1. StoreTypes
  BY DEF TombstoneInv
<1>2. CASE \/ \E u \in Uploader : \/ \E b \in Blob : PutBlob(u, b)
                                  \/ AcknowledgeDuplicate(u) \/ CommitBlob(u) \/ UploadFails(u)
           \/ \E j \in Job : RegisterManifest(j) \/ MarkTerminal(j) \/ SetPinned(j)
           \/ \E o \in Object : DeleteObject(o) \/ Rejournal(o) \/ Rejournaled(o)
           \/ Sweep \/ Maintain
  BY <1>1, <1>2, HandlersPrepare, HandlersRemember
<1>3. CASE Step
  BY <1>3, StepRemembers
<1>4. CASE AppendFails \/ UnlinkFails
  BY <1>4, FailureRemembers
<1>5. CASE Crash \/ Restart \/ (\E o \in Object : Loss(o)) \/ Tick
  BY <1>1, <1>5, AccidentRemembers
<1>6. CASE SkipRecord \/ ShipObject \/ ShipState \/ VerifyShipped \/ AnswerLost \/ ReplicaSweep
  <2>1. UNCHANGED <<journal, tail, alive, mem, todo>> /\ Primary' = Primary
    BY <1>1, <1>6, ReplicationKeepsPrimary
  <2> QED BY <1>1, <2>1, QuietMemory
<1>7. CASE UNCHANGED vars
  BY <1>1, <1>7, QuietMemory DEF vars, Primary
<1> QED BY <1>2, <1>3, <1>4, <1>5, <1>6, <1>7 DEF StoreNext

LEMMA MemoryInit ==
    ASSUME StoreInit
    PROVE  MemoryInv
<1>1. journal = <<>> /\ tail = <<>> /\ todo = <<>> /\ Primary = {} /\ mem = Boot(<<>>, {})
  BY DEF StoreInit, Primary, Node
<1>2. Known
  BY <1>1 DEF Known, Boot, State
<1>3. Accounted /\ Announced
  BY <1>1 DEF Accounted, Announced, Boot
<1> QED BY <1>2, <1>3 DEF MemoryInv

-----------------------------------------------------------------------------
(* The blobs of the jobs that have not ended *)

\* The job is on the disk and not terminal, or will not be when a failed record has been undone.
Reverts(t, j) == \E i \in DOMAIN t : t[i].do = "state" /\ t[i].of = j /\ t[i].was.terminal = 0
Running(j) == j \in Primary /\ (meta["primary"][j].terminal = 0 \/ Reverts(todo, j))
Needed(b) == \E j \in Job : Running(j) /\ b \in Refs[j]

\* A step that takes no blob away that a job needs, and ends no job's end.
Spares(s) ==
    /\ s.do \in {"intent", "unlink"} => ~Needed(s.of)
    /\ s.do \in {"rename", "commit"} /\ Needed(s.of) => s.of \in gone
    /\ s.do = "meta" /\ s.as.terminal = 0 => meta["primary"][s.of].terminal = 0

\* A manifest is written when its blobs are there and their last records are puts.
Whole(t, i) ==
    t[i].do \in Registering =>
        \A b \in Refs[t[i].of] :
            /\ b \in Primary
            /\ State(b) = "put" \/ \E k \in 1..(i - 1) : t[k].do \in {"journal", "cancel"} /\ t[k].of = b

\* What a job needs is on the disk and is not being deleted, neither by the section nor
\* by a torn record that a restart may find, but for a job whose registration is failing.
KeepInv ==
    /\ \A b \in Blob : Needed(b) => b \in Primary \cup gone /\ State(b) \notin {"intent", "delete"}
    /\ \A i \in DOMAIN todo : Spares(todo[i]) /\ Whole(todo, i)
    /\ \A i \in DOMAIN tail : tail[i].kind \in {"intent", "delete"} =>
          \A j \in Job : Running(j) /\ tail[i].of \in Refs[j] => ToDo("register", j)

\* Nothing a job needs is pending deletion, and what the section is to write next deletes
\* nothing that a job needs.
LEMMA NothingNeededGoes ==
    ASSUME TombstoneInv, KeepInv
    PROVE  /\ \A o \in mem.pending : ~Needed(o)
           /\ \A o : Needed(o) => o \in Blob
           /\ todo # <<>> => LET s == Head(todo)
                             IN  s.do \in Appending \cup {"flush"} =>
                                    \A r \in Unfinished(s) : r.kind \in {"intent", "delete"} => ~Needed(r.of)
<1>1. \A o : Needed(o) => o \in Blob
  BY StoreAssumption DEF Needed
<1>2. \A o \in mem.pending : ~Needed(o)
  BY <1>1 DEF TombstoneInv, DeletionInv, KeepInv
<1>3. ASSUME todo # <<>>, Head(todo).do \in Appending \cup {"flush"}, NEW r \in Unfinished(Head(todo)),
             r.kind \in {"intent", "delete"}
      PROVE  ~Needed(r.of)
  <2> DEFINE s == Head(todo)
  <2>1. 1 \in DOMAIN todo /\ s = todo[1]
    BY <1>3 DEF TombstoneInv, StoreTypes, ProcessTypes
  <2>2. CASE s.do = "flush"
    BY <1>2, <1>3, <2>2 DEF Unfinished, Rec
  <2>3. CASE s.do # "flush"
    <3>1. r = Written(s)
      BY <1>3, <2>3 DEF Unfinished
    <3>2. s.do \in {"intent", "delete"} /\ r.of = s.of
      BY <1>3, <2>3, <3>1 DEF Written, Rec, Appending
    <3>3. s.do = "delete" => s.of \in mem.pending
      BY <1>3, HeadIsSound DEF TombstoneInv, SectionInv
    <3>4. s.do = "intent" => ~Needed(s.of)
      BY <2>1 DEF KeepInv, Spares
    <3> QED BY <1>2, <3>2, <3>3, <3>4
  <2> QED BY <2>2, <2>3
<1> QED BY <1>1, <1>2, <1>3

\* No other job is needed than before.
LEMMA NeededBefore ==
    ASSUME \A j \in Job : Running(j)' => Running(j)
    PROVE  \A b : Needed(b)' => Needed(b)
  BY DEF Needed

\* Nothing of what jobs need changes.
LEMMA QuietKeeps ==
    ASSUME KeepInv, UNCHANGED <<journal, tail, todo>>, Primary' = Primary, meta'["primary"] = meta["primary"],
           UNCHANGED gone
    PROVE  KeepInv'
<1>1. \A o : State(o)' = State(o) /\ Running(o)' = Running(o) /\ \A kind : ToDo(kind, o)' = ToDo(kind, o)
  BY DEF State, Running, Reverts, ToDo
<1>2. \A o : Needed(o)' = Needed(o)
  BY <1>1 DEF Needed
<1>3. \A i \in DOMAIN todo : Spares(todo[i])' = Spares(todo[i]) /\ Whole(todo, i)' = Whole(todo, i)
  BY <1>1, <1>2 DEF Spares, Whole
<1> QED BY <1>1, <1>2, <1>3 DEF KeepInv

\* A handler begins a section that spares what jobs need.
LEMMA HandlersKeep ==
    ASSUME StoreTypes, MemoryInv, KeepInv, UNCHANGED <<journal, tail, disk, meta, gone>>, todo = <<>>, alive,
           todo' \in Seq(TypedSteps), \A i \in DOMAIN todo' : Prepared(todo', i)
    PROVE  KeepInv'
<1> PICK t : t = todo'
  OBVIOUS
<1>1. /\ \A o : State(o)' = State(o) /\ \A kind : ~ToDo(kind, o)
      /\ Primary' = Primary /\ meta'["primary"] = meta["primary"]
      /\ \A j : ~Reverts(todo, j)
  BY DEF State, ToDo, Primary, Reverts
<1>2. ASSUME NEW j \in Job, Running(j)' PROVE Running(j)
  <2>1. CASE Reverts(todo, j)'
    <3>1. PICK i \in DOMAIN todo' : todo'[i].do = "state" /\ todo'[i].of = j /\ todo'[i].was.terminal = 0
      BY <2>1 DEF Reverts
    <3>2. todo'[i].was = meta["primary"][j]
      BY <3>1 DEF Prepared, Harmless, Registering, Deleting
    <3> QED BY <1>1, <1>2, <3>1, <3>2 DEF Running
  <2>2. CASE ~Reverts(todo, j)'
    BY <1>1, <1>2, <2>2 DEF Running
  <2> QED BY <2>1, <2>2
<1>3. \A b : Needed(b)' => Needed(b)
  BY <1>2, NeededBefore
<1>4. \A b : Needed(b) => b \in Blob /\ Protected(b)
  BY <1>1, StoreAssumption DEF Needed, Running, Protected, Live, Primary
<1>5. ASSUME NEW i \in DOMAIN t PROVE Spares(t[i])' /\ Whole(t, i)'
  <2> DEFINE s == t[i]
  <2>1. Prepared(t, i) /\ s \in TypedSteps
    OBVIOUS
  <2>2. s.do \in {"intent", "unlink"} => ~Needed(s.of)
    BY <1>4, <2>1 DEF Prepared, Harmless, Registering, Deleting
  <2>3. s.do \in {"rename", "commit"} /\ Needed(s.of) => s.of \in gone
    <3>1. s.do \in {"rename", "commit"} => s.of \notin Primary
      BY <2>1 DEF Prepared, Harmless, Registering, Deleting
    <3> QED BY <1>4, <3>1 DEF KeepInv
  <2>4. s.do = "meta" /\ s.as.terminal = 0 => meta["primary"][s.of].terminal = 0
    BY <2>1 DEF Prepared, Harmless, Registering, Deleting
  <2>5. ASSUME s.do \in Registering, NEW b \in Refs[s.of]
        PROVE  b \in Primary /\ (State(b) = "put" \/
                  \E k \in 1..(i - 1) : t[k].do \in {"journal", "cancel"} /\ t[k].of = b)
    <3>1. b \in Primary /\ (b \in mem.intents \cup mem.unjournaled =>
                              \E k \in 1..(i - 1) : t[k].do \in {"journal", "cancel"} /\ t[k].of = b)
      BY <2>1, <2>5 DEF Prepared, Harmless, Registering, Deleting
    <3>2. b \in Primary \cap Blob => State(b) \in {"put", "intent"} \/ b \in mem.unjournaled
      BY <1>1 DEF MemoryInv, Accounted
    <3>3. s.of \in Job => b \in Blob /\ b \in Object
      BY <2>5, StoreAssumption DEF Object
    <3>4. s.of \in Job => State(b) = "put" \/ b \in mem.intents \cup mem.unjournaled
      BY <3>1, <3>2, <3>3 DEF MemoryInv, Known
    <3>5. s.of \in Job
      BY <2>1, <2>5 DEF Registering, TypedSteps, OfJobs
    <3> QED BY <3>1, <3>4, <3>5
  <2>6. \A o : (Needed(o)' => Needed(o)) /\ State(o)' = State(o)
    BY <1>1, <1>3
  <2> QED BY <1>1, <2>2, <2>3, <2>4, <2>5, <2>6 DEF Spares, Whole
<1>6. \A b \in Blob : Needed(b)' => b \in Primary' \cup gone' /\ State(b)' \notin {"intent", "delete"}
  BY <1>1, <1>3 DEF KeepInv
<1>7. \A i \in DOMAIN tail : tail[i].kind \in {"intent", "delete"} =>
          \A j \in Job : ~(Running(j)' /\ tail[i].of \in Refs[j])
  BY <1>1, <1>2 DEF KeepInv
<1> QED BY <1>5, <1>6, <1>7 DEF KeepInv

\* What the record of a step says.
LEMMA RecordSays ==
    ASSUME NEW s, s.do \in Appending \cup {"flush"}, NEW r \in Unfinished(s)
    PROVE  /\ s.do = "flush" => r.kind = "delete" /\ r.of \in mem.pending
           /\ s.do # "flush" => r.of = s.of
           /\ s.do = "state" <=> r.kind \in {"terminal", "pin"}
           /\ s.do \in {"intent", "delete"} => r.kind = s.do
           /\ s.do \notin {"intent", "delete", "state", "flush"} => Says(r) = "put"
           /\ Says(r) = "delete" <=> r.kind = "delete"
           /\ Says(r) = "intent" <=> r.kind = "intent"
<1>1. CASE s.do = "flush"
  BY <1>1 DEF Unfinished, Rec, Says
<1>2. CASE s.do # "flush"
  <2>1. r = Written(s)
    BY <1>2 DEF Unfinished
  <2> QED BY <1>2, <2>1 DEF Written, Rec, Says, Appending
<1> QED BY <1>1, <1>2

\* A record deletes nothing that is needed, and follows the section's own order.
LEMMA AppendKeeps ==
    ASSUME TombstoneInv, KeepInv, todo # <<>>, UNCHANGED tail,
           AppendRecord(Head(todo)) \/ FlushOne(Head(todo))
    PROVE  KeepInv'
<1> DEFINE s == Head(todo)
<1>1. /\ s \in TypedSteps /\ s = todo[1] /\ todo \in Seq(TypedSteps) /\ journal \in Seq(Records) /\ Section(todo)
      /\ DOMAIN todo = 1..Len(todo) /\ Len(todo) \in Nat \ {0}
  BY DEF TombstoneInv, SectionInv, StoreTypes, ProcessTypes, JournalTypes
<1>2. PICK r \in Unfinished(s) : journal' = Append(journal, r)
  <2>1. CASE AppendRecord(s)
    BY <2>1 DEF AppendRecord, Unfinished, Appending
  <2>2. CASE FlushOne(s)
    BY <2>2 DEF FlushOne, Unfinished
  <2> QED BY <2>1, <2>2
<1>3. /\ UNCHANGED <<disk, meta>> /\ ~mem.broken /\ s.do \in Appending \cup {"flush"}
      /\ todo' = Tail(todo) \/ (s.do = "flush" /\ todo' = todo)
      /\ gone' = gone \/ (s.do \in Closing /\ gone' = gone \ {s.of})
  BY DEF AppendRecord, FlushOne, Closing
<1>4. tail' = <<>>
  BY <1>3 DEF TombstoneInv, DeletionInv
<1>5. r.kind \in {"intent", "delete"} => ~Needed(r.of)
  BY <1>3, NothingNeededGoes
<1>6. \A o : State(o)' = IF r.of = o /\ r.kind \notin {"terminal", "pin"} THEN Says(r) ELSE State(o)
  <2>1. IsLog(journal)
    BY <1>1, SeqOfRange DEF IsLog
  <2> QED BY <1>2, <2>1, StateAfterAppend DEF State
<1>7. /\ s.do = "flush" => r.kind = "delete" /\ r.of \in mem.pending
      /\ s.do # "flush" => r.of = s.of
      /\ s.do = "state" <=> r.kind \in {"terminal", "pin"}
      /\ s.do \in {"intent", "delete"} => r.kind = s.do
      /\ s.do \notin {"intent", "delete", "state", "flush"} => Says(r) = "put"
      /\ Says(r) = "delete" <=> r.kind = "delete"
      /\ Says(r) = "intent" <=> r.kind = "intent"
  BY <1>3, RecordSays
<1> PICK t : t = todo'
  OBVIOUS
<1> DEFINE Shift(d) == /\ d = 0 => s.do = "flush"
                       /\ \A i \in DOMAIN t : i \in Nat \ {0} /\ i + d \in DOMAIN todo /\ t[i] = todo[i + d]
                       /\ \A m \in DOMAIN todo : m - d \in DOMAIN t \/ (m = 1 /\ d = 1)
<1>8. PICK d \in {0, 1} : Shift(d)
  <2>1. CASE todo' = Tail(todo)
    <3>1. t = Tail(todo)
      BY <2>1
    <3>2. Shift(1)
      BY <1>1, <3>1
    <3> QED BY <3>2
  <2>2. CASE s.do = "flush" /\ todo' = todo
    <3>1. t = todo
      BY <2>2
    <3>2. Shift(0)
      BY <1>1, <2>2, <3>1
    <3> QED BY <3>2
  <2> HIDE DEF Shift
  <2> QED BY <1>3, <2>1, <2>2
<1>9. Primary' = Primary /\ meta'["primary"] = meta["primary"]
  BY <1>3 DEF Primary
<1>10. ASSUME NEW j \in Job, Running(j)' PROVE Running(j)
  <2>1. Reverts(t, j) => Reverts(todo, j)
    BY <1>8 DEF Reverts
  <2>2. Reverts(todo, j)' => Reverts(t, j)
    BY <1>8 DEF Reverts
  <2> QED BY <1>9, <1>10, <2>1, <2>2 DEF Running
<1>11. \A b : Needed(b)' => Needed(b)
  BY <1>10, NeededBefore
<1>12. s.do \in Closing => s.of \in Primary
  BY <1>1, HeadIsSound DEF TombstoneInv
<1>13. ASSUME NEW b \in Blob, Needed(b)' PROVE b \in Primary' \cup gone' /\ State(b)' \notin {"intent", "delete"}
  <2>1. b \in Primary \cup gone /\ State(b) \notin {"intent", "delete"}
    BY <1>11, <1>13 DEF KeepInv
  <2>2. State(b)' \notin {"intent", "delete"}
    BY <1>5, <1>6, <1>7, <1>11, <1>13, <2>1
  <2> QED BY <1>3, <1>9, <1>12, <2>1, <2>2
<1>14. \A m \in 2..Len(todo) : /\ s.do \in Closing \cup {"delete"} => todo[m].do \in Retaining
                               /\ s.do = "intent" => todo[m].do \in {"unlink", "unmeta", "delete"} \cup Retaining
  BY <1>1 DEF Section, InOrder
<1>15. ASSUME NEW i \in DOMAIN t PROVE Spares(t[i])'
  <2>1. Spares(t[i])
    BY <1>8 DEF KeepInv
  <2>2. gone' = gone \/ t[i].do \in Retaining
    <3>1. CASE s.do \in Closing
      <4>1. d = 1
        BY <1>8, <3>1 DEF Closing
      <4>2. i + 1 \in 2..Len(todo) /\ t[i] = todo[i + 1]
        BY <1>1, <1>8, <4>1
      <4> QED BY <1>14, <3>1, <4>2
    <3> QED BY <1>3, <3>1
  <2> QED BY <1>9, <1>11, <2>1, <2>2 DEF Spares, Retaining
<1>16. ASSUME NEW i \in DOMAIN t PROVE Whole(t, i)'
  <2> SUFFICES ASSUME t[i].do \in Registering, NEW b \in Refs[t[i].of]
               PROVE  /\ b \in Primary'
                      /\ State(b)' = "put" \/ \E k \in 1..(i - 1) : t[k].do \in {"journal", "cancel"} /\ t[k].of = b
    BY DEF Whole
  <2>1. PICK m \in DOMAIN todo : m = i + d /\ t[i] = todo[m]
    BY <1>8
  <2>2. /\ b \in Primary
        /\ State(b) = "put" \/ \E k \in 1..(m - 1) : todo[k].do \in {"journal", "cancel"} /\ todo[k].of = b
    BY <2>1 DEF KeepInv, Whole
  <2>3. s.do \notin {"intent", "delete"}
    <3>1. CASE s.do \in {"intent", "delete"}
      <4>1. d = 1
        BY <1>8, <3>1
      <4>2. m \in 2..Len(todo)
        BY <1>1, <1>8, <2>1, <4>1
      <4> QED BY <1>14, <2>1, <3>1, <4>2 DEF Retaining, Registering
    <3> QED BY <3>1
  <2>4. CASE State(b) = "put"
    <3>1. s.do = "flush" => r.of # b
      BY <1>7, <2>4 DEF TombstoneInv, DeletionInv
    <3>2. State(b)' = "put"
      BY <1>3, <1>6, <1>7, <2>3, <2>4, <3>1
    <3> QED BY <1>9, <2>2, <3>2
  <2>5. ASSUME NEW k \in 1..(m - 1), todo[k].do \in {"journal", "cancel"}, todo[k].of = b
        PROVE  State(b)' = "put" \/ \E l \in 1..(i - 1) : t[l].do \in {"journal", "cancel"} /\ t[l].of = b
    <3>1. k \in DOMAIN todo
      BY <1>1
    <3>2. CASE k = 1 /\ d = 1
      <4>1. s.do \in {"journal", "cancel"} /\ s.of = b
        BY <1>1, <2>5, <3>2
      <4> QED BY <1>6, <1>7, <4>1
    <3>3. CASE k - d \in DOMAIN t
      <4>1. k - d \in 1..(i - 1) /\ t[k - d] = todo[k]
        <5>1. i \in Nat /\ k - d \in Nat \ {0}
          BY <1>8, <3>3
        <5>2. (k - d) + d = k
          BY <3>1
        <5> QED BY <1>8, <2>1, <3>3, <5>1, <5>2
      <4> QED BY <2>5, <4>1
    <3> QED BY <1>8, <3>1, <3>2, <3>3
  <2> QED BY <1>9, <2>2, <2>4, <2>5
<1>17. \A i \in DOMAIN tail' : FALSE
  BY <1>4
<1> QED BY <1>8, <1>13, <1>15, <1>16, <1>17 DEF KeepInv

\* The steps that leave the journal alone: a manifest makes a job of blobs that are whole.
LEMMA RestKeeps ==
    ASSUME TombstoneInv, KeepInv, todo # <<>>, UNCHANGED tail,
           LET s == Head(todo) IN StoreObject(s) \/ UpdateMeta(s) \/ Touch(s) \/ Unlink(s)
    PROVE  KeepInv'
<1> DEFINE s == Head(todo)
<1>1. /\ s \in TypedSteps /\ s = todo[1] /\ todo \in Seq(TypedSteps) /\ Section(todo)
      /\ DOMAIN todo = 1..Len(todo) /\ Len(todo) \in Nat \ {0}
      /\ disk \in [Node -> SUBSET Object] /\ meta \in [Node -> [Job -> Metas]] /\ "primary" \in Node
  BY DEF TombstoneInv, SectionInv, StoreTypes, ProcessTypes, DiskTypes, Node
<1>2. /\ todo' = Tail(todo) /\ UNCHANGED <<journal, gone>>
      /\ s.do \in {"rename", "write", "stamp", "meta", "unmeta", "touch", "verify", "unlink"}
  BY DEF StoreObject, UpdateMeta, Touch, Unlink
<1>3. PICK t : t = todo'
  OBVIOUS
<1>4. /\ \A i \in DOMAIN t : i \in Nat \ {0} /\ i + 1 \in 2..Len(todo) /\ t[i] = todo[i + 1]
      /\ \A m \in 2..Len(todo) : m - 1 \in DOMAIN t /\ t[m - 1] = todo[m]
  BY <1>1, <1>2, <1>3
<1>5. \A o : State(o)' = State(o)
  BY <1>2 DEF State
<1>6. StepIsSound(todo, 1)
  BY <1>1 DEF Section
<1>7. \A m \in 2..Len(todo) :
         /\ todo[m].do # "meta"
         /\ s.do \in {"write", "stamp"} => todo[m].do \notin {"intent", "unlink", "rename", "commit"}
         /\ s.do = "unlink" => todo[m].do \notin Registering
  <2> SUFFICES ASSUME NEW m \in 2..Len(todo)
               PROVE  /\ todo[m].do # "meta"
                      /\ s.do \in {"write", "stamp"} => todo[m].do \notin {"intent", "unlink", "rename", "commit"}
                      /\ s.do = "unlink" => todo[m].do \notin Registering
    OBVIOUS
  <2>1. InOrder(todo) /\ 1 \in DOMAIN todo /\ m \in DOMAIN todo /\ 1 < m
    BY <1>1 DEF Section
  <2>2. todo[m].do = "meta" => s.do = "flush"
    BY <1>1, <2>1 DEF InOrder
  <2>3. s.do = "unlink" => todo[m].do \in {"unmeta", "delete"} \cup Retaining
    BY <1>1, <2>1 DEF InOrder
  <2>4. ASSUME s.do \in {"write", "stamp"}, todo[m].do \in {"intent", "unlink", "rename", "commit"} PROVE FALSE
    <3>1. PICK k \in 2..Len(todo) : todo[k].do = "register"
      BY <1>1, <1>6, <2>4 DEF StepIsSound, After
    <3>2. k \in DOMAIN todo /\ 1 < k /\ m # k
      BY <1>1, <2>4, <3>1
    <3>3. CASE m < k
      BY <2>1, <2>4, <3>1, <3>2, <3>3 DEF InOrder, Closing, Retaining
    <3>4. CASE k < m
      BY <2>1, <2>4, <3>1, <3>2, <3>4 DEF InOrder, Closing, Retaining
    <3> QED BY <2>1, <3>2, <3>3, <3>4, <1>1
  <2> QED BY <1>2, <2>2, <2>3, <2>4 DEF Registering, Retaining
<1>8. s.do \in {"write", "stamp"} => \A b \in Refs[s.of] : b \in Primary /\ State(b) = "put"
  <2>1. Whole(todo, 1)
    BY <1>1 DEF KeepInv
  <2> QED BY <1>1, <2>1 DEF Whole, Registering
<1>9. /\ \A o \in Primary' : o \in Primary \/ (s.do \in {"rename", "write"} /\ o = s.of)
      /\ \A o \in Primary : o \in Primary' \/ (s.do = "unlink" /\ o = s.of)
  BY <1>1 DEF StoreObject, UpdateMeta, Touch, Unlink, Primary
<1>10. \A j \in Job : \/ meta'["primary"][j] = meta["primary"][j]
                      \/ s.do \in {"stamp", "meta", "unmeta"} /\ j = s.of /\ meta'["primary"][j] = s.as
  BY <1>1 DEF StoreObject, UpdateMeta, Touch, Unlink
<1>11. ASSUME NEW j \in Job, Running(j)' PROVE Running(j) \/ (s.do \in {"write", "stamp"} /\ s.of = j)
  <2>1. Reverts(todo, j)' => Reverts(todo, j)
    <3>1. Reverts(t, j) => Reverts(todo, j)
      <4>1. \A i \in DOMAIN t : i + 1 \in DOMAIN todo /\ t[i] = todo[i + 1]
        BY <1>1, <1>4
      <4> QED BY <4>1 DEF Reverts
    <3>2. Reverts(todo, j)' => Reverts(t, j)
      BY <1>3 DEF Reverts
    <3> QED BY <3>1, <3>2
  <2>2. j \in Primary'
    BY <1>11 DEF Running
  <2>3. s.do = "rename" => s.of # j
    BY <1>1, StoreAssumption DEF TypedSteps, OfBlobs
  <2>4. s.do = "unmeta" => s.of \notin Primary
    BY <1>1, HeadIsSound DEF TombstoneInv, DeletionInv
  <2>5. s.do = "meta" /\ s.as.terminal = 0 => meta["primary"][s.of].terminal = 0
    BY <1>1 DEF KeepInv, Spares
  <2>6. Reverts(todo, j)' \/ meta'["primary"][j].terminal = 0
    BY <1>11 DEF Running
  <2> QED BY <1>9, <1>10, <2>1, <2>2, <2>3, <2>4, <2>5, <2>6 DEF Running
<1>12. \A b : Needed(b)' => Needed(b) \/ (s.do \in {"write", "stamp"} /\ b \in Refs[s.of])
  BY <1>11 DEF Needed
<1>13. s.do = "unlink" => ~Needed(s.of)
  BY <1>1 DEF KeepInv, Spares
<1>14. ASSUME NEW b \in Blob, Needed(b)' PROVE b \in Primary' \cup gone' /\ State(b)' \notin {"intent", "delete"}
  <2>1. CASE Needed(b)
    BY <1>2, <1>5, <1>9, <1>13, <2>1 DEF KeepInv
  <2>2. CASE s.do \in {"write", "stamp"} /\ b \in Refs[s.of]
    BY <1>5, <1>8, <1>9, <2>2
  <2> QED BY <1>12, <1>14, <2>1, <2>2
<1>15. ASSUME NEW i \in DOMAIN t PROVE Spares(t[i])'
  <2>1. Spares(t[i])
    BY <1>1, <1>4 DEF KeepInv
  <2>2. /\ t[i].do # "meta"
        /\ s.do \in {"write", "stamp"} => t[i].do \notin {"intent", "unlink", "rename", "commit"}
    BY <1>4, <1>7
  <2> QED BY <1>2, <1>12, <2>1, <2>2 DEF Spares
<1>16. ASSUME NEW i \in DOMAIN t PROVE Whole(t, i)'
  <2> SUFFICES ASSUME t[i].do \in Registering, NEW b \in Refs[t[i].of]
               PROVE  /\ b \in Primary'
                      /\ State(b)' = "put" \/ \E k \in 1..(i - 1) : t[k].do \in {"journal", "cancel"} /\ t[k].of = b
    BY DEF Whole
  <2>1. PICK m \in 2..Len(todo) : m = i + 1 /\ t[i] = todo[m] /\ i \in Nat
    BY <1>4
  <2>2. /\ b \in Primary
        /\ State(b) = "put" \/ \E k \in 1..(m - 1) : todo[k].do \in {"journal", "cancel"} /\ todo[k].of = b
    BY <1>1, <2>1 DEF KeepInv, Whole
  <2>3. s.do # "unlink"
    BY <1>7, <2>1
  <2>4. ASSUME NEW k \in 1..(m - 1), todo[k].do \in {"journal", "cancel"}, todo[k].of = b
        PROVE  \E l \in 1..(i - 1) : t[l].do \in {"journal", "cancel"} /\ t[l].of = b
    <3>1. k # 1
      BY <1>1, <1>2, <2>4
    <3>2. k \in 2..Len(todo) /\ k - 1 \in 1..(i - 1)
      BY <1>1, <2>1, <3>1
    <3> QED BY <1>4, <2>4, <3>2
  <2> QED BY <1>5, <1>9, <2>2, <2>3, <2>4
<1>17. ASSUME NEW i \in DOMAIN tail, tail[i].kind \in {"intent", "delete"},
              NEW j \in Job, Running(j)', tail[i].of \in Refs[j]
       PROVE  ToDo("register", j)'
  <2>1. CASE Running(j)
    <3>1. ToDo("register", j)
      BY <1>17, <2>1 DEF KeepInv
    <3> QED BY <1>1, <1>2, <3>1, RestOfSection
  <2>2. CASE s.do \in {"write", "stamp"} /\ s.of = j
    <3>1. PICK k \in 2..Len(todo) : todo[k].do = "register" /\ todo[k].of = j
      BY <1>1, <1>6, <2>2 DEF StepIsSound, After
    <3>2. k - 1 \in DOMAIN todo' /\ todo'[k - 1] = todo[k]
      BY <1>3, <1>4
    <3> QED BY <3>1, <3>2 DEF ToDo
  <2> QED BY <1>11, <1>17, <2>1, <2>2
<1> QED BY <1>3, <1>14, <1>15, <1>16, <1>17 DEF KeepInv

\* A retention pass deletes what no job on the disk references.
LEMMA RetentionKeeps ==
    ASSUME TombstoneInv, KeepInv, todo # <<>>, UNCHANGED tail, Retain(Head(todo))
    PROVE  KeepInv'
<1> PICK t : t = todo'
  OBVIOUS
<1>1. /\ \A i \in DOMAIN todo : todo[i].do \in Retaining
      /\ \A i \in DOMAIN t : \/ t[i].do \in Retaining
                             \/ /\ t[i].do \in Deleting
                                /\ t[i].of \in Blob => t[i].of \notin Referenced("primary")
  BY RetentionPrepares DEF TombstoneInv, SectionInv
<1>2. UNCHANGED <<journal, disk, meta, gone>>
  BY DEF Retain
<1>3. /\ \A o : State(o)' = State(o) /\ ~ToDo("register", o) /\ ~Reverts(todo, o) /\ ~Reverts(t, o)
      /\ Primary' = Primary /\ meta'["primary"] = meta["primary"]
  BY <1>1, <1>2 DEF State, ToDo, Reverts, Retaining, Deleting, Primary
<1>4. \A j : Reverts(todo, j)' = Reverts(t, j)
  BY DEF Reverts
<1>5. \A j \in Job : Running(j)' => Running(j)
  BY <1>3, <1>4 DEF Running
<1>6. \A b : Needed(b)' => Needed(b)
  BY <1>5, NeededBefore
<1>7. \A b : Needed(b) => b \in Blob /\ b \in Referenced("primary")
  BY StoreAssumption DEF Needed, Running, Referenced, Primary
<1>8. \A b \in Blob : Needed(b)' => b \in Primary' \cup gone' /\ State(b)' \notin {"intent", "delete"}
  BY <1>2, <1>3, <1>6 DEF KeepInv
<1>9. ASSUME NEW i \in DOMAIN t PROVE Spares(t[i])' /\ Whole(t, i)'
  BY <1>1, <1>6, <1>7 DEF Spares, Whole, Retaining, Deleting, Registering
<1>10. \A i \in DOMAIN tail : tail[i].kind \in {"intent", "delete"} =>
          \A j \in Job : ~(Running(j)' /\ tail[i].of \in Refs[j])
  BY <1>3, <1>5 DEF KeepInv
<1> QED BY <1>8, <1>9, <1>10 DEF KeepInv

LEMMA StepKeeps ==
    ASSUME TombstoneInv, KeepInv, Step
    PROVE  KeepInv'
<1> DEFINE s == Head(todo)
<1>1. todo # <<>> /\ UNCHANGED tail
  BY DEF Step
<1>2. \/ AppendRecord(s) \/ FlushOne(s) \/ Retain(s)
      \/ StoreObject(s) \/ UpdateMeta(s) \/ Touch(s) \/ Unlink(s)
  BY DEF Step
<1> QED BY <1>1, <1>2, AppendKeeps, RetentionKeeps, RestKeeps

\* A failed write or unlink undoes what would need more than there is.
LEMMA FailureKeeps ==
    ASSUME TombstoneInv, KeepInv, AppendFails \/ UnlinkFails
    PROVE  KeepInv'
<1> DEFINE s == Head(todo)
<1>1. /\ s \in TypedSteps /\ s = todo[1] /\ 1 \in DOMAIN todo /\ todo # <<>> /\ mem \in MemTypes
      /\ disk \in [Node -> SUBSET Object] /\ meta \in [Node -> [Job -> Metas]] /\ "primary" \in Node
      /\ UNCHANGED <<journal, gone>> /\ todo' = <<>>
  BY DEF AppendFails, UnlinkFails, TombstoneInv, StoreTypes, ProcessTypes, DiskTypes, Node
<1>2. /\ Primary' \subseteq Primary
      /\ \A o \in Primary : o \in Primary' \/ (s.do \in Closing /\ o = s.of)
      /\ s.do = "register" => s.of \notin Primary'
      /\ \A j \in Job : \/ meta'["primary"][j] = meta["primary"][j]
                        \/ s.do = "register" /\ s.of = j
                        \/ s.do = "state" /\ s.of = j /\ meta'["primary"][j] = s.was
      /\ s.do # "stamp"
  <2>1. CASE AppendFails
    <3>1. Undo(s, mem) \/ Undo(s, [mem EXCEPT !.broken = TRUE])
      BY <2>1 DEF AppendFails
    <3>2. s.do # "stamp"
      BY <2>1 DEF AppendFails, Appending
    <3> QED BY <1>1, <3>1, <3>2 DEF Undo, Primary, Closing
  <2>2. CASE UnlinkFails
    <3>1. s.do = "unlink" /\ UNCHANGED <<meta, disk>>
      BY <2>2 DEF UnlinkFails
    <3> QED BY <3>1 DEF Primary
  <2> QED BY <2>1, <2>2
<1>3. \A o : State(o)' = State(o) /\ ~Reverts(todo, o)'
  BY <1>1 DEF State, Reverts
<1>4. ASSUME NEW j \in Job, Running(j)' PROVE Running(j)
  <2>1. j \in Primary' /\ j \in Primary /\ meta'["primary"][j].terminal = 0
    BY <1>2, <1>3, <1>4 DEF Running
  <2>2. CASE s.do = "state" /\ s.of = j /\ meta'["primary"][j] = s.was
    BY <1>1, <2>1, <2>2 DEF Running, Reverts
  <2> QED BY <1>2, <2>1, <2>2 DEF Running
<1>5. \A b : Needed(b)' => Needed(b)
  BY <1>4, NeededBefore
<1>6. ASSUME NEW b \in Blob, Needed(b)' PROVE b \in Primary' \cup gone' /\ State(b)' \notin {"intent", "delete"}
  <2>1. b \in Primary \cup gone /\ State(b) \notin {"intent", "delete"}
    BY <1>5, <1>6 DEF KeepInv
  <2>2. s.do \in Closing /\ s.of = b => b \in gone
    <3>1. s.do = "register" => s.of # b
      BY <1>1, StoreAssumption DEF TypedSteps, OfJobs
    <3>2. s.do = "commit" /\ Needed(s.of) => s.of \in gone
      BY <1>1 DEF KeepInv, Spares
    <3> QED BY <1>5, <1>6, <3>1, <3>2 DEF Closing
  <2> QED BY <1>1, <1>2, <1>3, <2>1, <2>2
<1>7. \A j \in Primary : ToDo("register", j) => s.do = "register" /\ s.of = j
  BY <1>2, ClosingIsNext DEF TombstoneInv, SectionInv
<1>8. ASSUME NEW i \in DOMAIN tail', tail'[i].kind \in {"intent", "delete"},
             NEW j \in Job, Running(j)', tail'[i].of \in Refs[j]
      PROVE  FALSE
  <2>1. j \in Primary' /\ j \in Primary /\ Running(j) /\ Needed(tail'[i].of)
    BY <1>2, <1>4, <1>8 DEF Running, Needed
  <2>2. CASE tail' = tail
    <3>1. ToDo("register", j)
      BY <1>8, <2>1, <2>2 DEF KeepInv
    <3> QED BY <1>2, <1>7, <2>1, <3>1
  <2>3. CASE tail' # tail
    <3>1. CASE AppendFails
      <4>1. s.do \in Appending \cup {"flush"}
        BY <3>1 DEF AppendFails
      <4>2. tail' = tail \/ tail' \in {<<>>} \cup {<<r>> : r \in IF "torn" \in mix THEN Unfinished(s) ELSE {}}
        BY <3>1 DEF AppendFails
      <4>3. PICK r \in Unfinished(s) : tail' = <<r>>
        BY <1>8, <2>3, <4>2
      <4>4. tail'[i] = r
        BY <1>8, <4>3
      <4> QED BY <1>1, <1>8, <2>1, <4>1, <4>4, NothingNeededGoes
    <3>2. CASE UnlinkFails
      BY <2>3, <3>2 DEF UnlinkFails
    <3> QED BY <3>1, <3>2
  <2> QED BY <2>2, <2>3
<1>9. \A i \in DOMAIN todo' : FALSE
  BY <1>1
<1> QED BY <1>6, <1>8, <1>9 DEF KeepInv

\* What a restart finds deletes nothing that is needed.
LEMMA RestartKeeps ==
    ASSUME TombstoneInv, MemoryInv, KeepInv, Restart
    PROVE  KeepInv'
<1> DEFINE found == journal \o tail
<1>1. /\ Mends(found, journal') /\ todo = <<>> /\ todo' = <<>> /\ tail' = <<>> /\ gone' = gone
      /\ Primary' = Primary /\ meta'["primary"] = meta["primary"]
  BY RestartFinds DEF Restart, Primary, TombstoneInv, MemoryInv
<1>2. \A o : ~Reverts(todo, o) /\ ~Reverts(todo, o)' /\ ~ToDo("register", o)
  BY <1>1 DEF Reverts, ToDo
<1>3. \A j \in Job : Running(j)' => Running(j)
  BY <1>1, <1>2 DEF Running
<1>4. \A b : Needed(b)' => Needed(b)
  BY <1>3, NeededBefore
<1>5. ASSUME NEW b \in Blob, Needed(b) PROVE ObjectState(found, b) \notin {"intent", "delete"}
  <2>1. State(b) \notin {"intent", "delete"}
    BY <1>5 DEF KeepInv
  <2>2. journal \in Seq(Records) /\ IsLog(journal)
    <3>1. journal \in Seq(Records)
      BY DEF TombstoneInv, StoreTypes, JournalTypes
    <3> QED BY <3>1, SeqOfRange DEF IsLog
  <2>3. CASE tail = <<>>
    <3>1. found = journal
      BY <2>2, <2>3
    <3> QED BY <2>1, <3>1 DEF State
  <2>4. ASSUME NEW r \in Records, tail = <<r>> PROVE ObjectState(found, b) \notin {"intent", "delete"}
    <3>1. found = Append(journal, r)
      BY <2>2, <2>4
    <3> HIDE DEF found
    <3>2. ObjectState(found, b) = IF r.of = b /\ r.kind \notin {"terminal", "pin"} THEN Says(r) ELSE State(b)
      BY <2>2, <3>1, StateAfterAppend DEF State
    <3>3. r.kind \in {"intent", "delete"} => r.of # b
      <4>1. 1 \in DOMAIN tail /\ tail[1] = r
        BY <2>4
      <4> QED BY <1>2, <1>5, <4>1 DEF KeepInv, Needed
    <3> QED BY <2>1, <3>2, <3>3 DEF Says
  <2>5. tail = <<>> \/ \E r \in Records : tail = <<r>>
    BY DEF TombstoneInv, StoreTypes, JournalTypes
  <2> QED BY <2>3, <2>4, <2>5
<1>6. \A o : State(o)' = IF o \in Orphans(found) THEN "put"
                         ELSE IF o \in Halfway(found) THEN "delete" ELSE ObjectState(found, o)
  BY <1>1, MendedState DEF State
<1> HIDE DEF found
<1>7. \A b \in Blob : Needed(b)' => b \in Primary' \cup gone' /\ State(b)' \notin {"intent", "delete"}
  BY <1>1, <1>4, <1>5, <1>6 DEF KeepInv, Halfway
<1>8. (\A i \in DOMAIN todo' : FALSE) /\ (\A i \in DOMAIN tail' : FALSE)
  BY <1>1
<1> QED BY <1>7, <1>8 DEF KeepInv

\* Crashes, restarts, accidents and the passing of time.
LEMMA AccidentKeeps ==
    ASSUME TombstoneInv, MemoryInv, KeepInv, Crash \/ Restart \/ (\E o \in Object : Loss(o)) \/ Tick
    PROVE  KeepInv'
<1>1. CASE Crash
  <2>1. UNCHANGED <<journal, tail, disk, meta, gone>> /\ todo' = <<>> /\ ~mem.broken
    BY <1>1 DEF Crash
  <2>2. tail' = <<>>
    BY <2>1 DEF TombstoneInv, DeletionInv
  <2>3. \A o : State(o)' = State(o) /\ ~Reverts(todo, o)'
    BY <2>1 DEF State, Reverts
  <2>4. Primary' = Primary /\ \A j \in Job : Running(j)' => Running(j)
    BY <2>1, <2>3 DEF Running, Primary
  <2>5. \A b : Needed(b)' => Needed(b)
    BY <2>4, NeededBefore
  <2>6. (\A i \in DOMAIN todo' : FALSE) /\ (\A i \in DOMAIN tail' : FALSE)
    BY <2>1, <2>2
  <2> QED BY <2>1, <2>3, <2>4, <2>5, <2>6 DEF KeepInv
<1>2. CASE Restart
  BY <1>2, RestartKeeps
<1>3. ASSUME NEW o \in Object, Loss(o) PROVE KeepInv'
  <2>1. /\ UNCHANGED <<journal, tail, meta, todo>> /\ todo = <<>> /\ gone' = gone \cup {o}
        /\ Primary' = Primary \ {o}
    BY <1>3 DEF Loss, Primary, TombstoneInv, StoreTypes, DiskTypes, Node
  <2>2. \A p : State(p)' = State(p) /\ ~Reverts(todo, p)' /\ ~ToDo("register", p)
    BY <2>1 DEF State, Reverts, ToDo
  <2>3. \A j \in Job : Running(j)' => Running(j)
    BY <2>1, <2>2 DEF Running
  <2>4. \A b : Needed(b)' => Needed(b)
    BY <2>3, NeededBefore
  <2>5. \A b \in Blob : Needed(b)' => b \in Primary' \cup gone' /\ State(b)' \notin {"intent", "delete"}
    BY <2>1, <2>2, <2>4 DEF KeepInv
  <2>6. \A i \in DOMAIN tail : tail[i].kind \in {"intent", "delete"} =>
            \A j \in Job : ~(Running(j)' /\ tail[i].of \in Refs[j])
    BY <2>2, <2>3 DEF KeepInv
  <2>7. \A i \in DOMAIN todo' : FALSE
    BY <2>1
  <2> QED BY <2>1, <2>5, <2>6, <2>7 DEF KeepInv
<1>4. CASE Tick
  <2>1. UNCHANGED <<journal, tail, disk, meta, todo, gone>>
    BY <1>4 DEF Tick
  <2> QED BY <2>1, QuietKeeps DEF Primary
<1> QED BY <1>1, <1>2, <1>3, <1>4

LEMMA KeepStep ==
    ASSUME TombstoneInv, MemoryInv, KeepInv, [StoreNext]_vars
    PROVE  KeepInv'
<1>1. StoreTypes
  BY DEF TombstoneInv
<1>2. CASE \/ \E u \in Uploader : \/ \E b \in Blob : PutBlob(u, b)
                                  \/ AcknowledgeDuplicate(u) \/ CommitBlob(u) \/ UploadFails(u)
           \/ \E j \in Job : RegisterManifest(j) \/ MarkTerminal(j) \/ SetPinned(j)
           \/ \E o \in Object : DeleteObject(o) \/ Rejournal(o) \/ Rejournaled(o)
           \/ Sweep \/ Maintain
  <2>1. todo' \in Seq(TypedSteps)
    BY <1>1, <1>2, HandlersTyped DEF StoreTypes, ProcessTypes
  <2>2. /\ UNCHANGED <<journal, tail, disk, meta, gone>> /\ alive /\ todo = <<>>
        /\ \A i \in DOMAIN todo' : Prepared(todo', i)
    BY <1>1, <1>2, HandlersPrepare
  <2> QED BY <1>1, <2>1, <2>2, HandlersKeep
<1>3. CASE Step
  BY <1>3, StepKeeps
<1>4. CASE AppendFails \/ UnlinkFails
  BY <1>4, FailureKeeps
<1>5. CASE Crash \/ Restart \/ (\E o \in Object : Loss(o)) \/ Tick
  BY <1>5, AccidentKeeps
<1>6. CASE SkipRecord \/ ShipObject \/ ShipState \/ VerifyShipped \/ AnswerLost \/ ReplicaSweep
  <2>1. UNCHANGED <<journal, tail, todo>> /\ Primary' = Primary
    BY <1>1, <1>6, ReplicationKeepsPrimary
  <2>2. meta'["primary"] = meta["primary"] /\ UNCHANGED gone
    <3>1. meta \in [Node -> [Job -> Metas]] /\ Node = {"primary", "replica"}
      BY <1>1 DEF StoreTypes, DiskTypes, Node
    <3> QED BY <1>6, <3>1 DEF SkipRecord, ShipObject, ShipState, VerifyShipped, AnswerLost, ReplicaSweep
  <2> QED BY <2>1, <2>2, QuietKeeps
<1>7. CASE UNCHANGED vars
  BY <1>7, QuietKeeps DEF vars, Primary
<1> QED BY <1>2, <1>3, <1>4, <1>5, <1>6, <1>7 DEF StoreNext

LEMMA KeepInit ==
    ASSUME StoreInit
    PROVE  KeepInv
<1>1. journal = <<>> /\ tail = <<>> /\ todo = <<>> /\ Primary = {}
  BY DEF StoreInit, Primary, Node
<1>2. \A b : ~Needed(b)
  BY <1>1 DEF Needed, Running
<1>3. (\A i \in DOMAIN todo : FALSE) /\ (\A i \in DOMAIN tail : FALSE)
  BY <1>1
<1> QED BY <1>2, <1>3 DEF KeepInv

-----------------------------------------------------------------------------
(* The journal never holds a manifest without the blobs it needs *)

\* The first record of every manifest of s follows records of its blobs.
Manifest(s, i) == s[i].kind = "put" /\ s[i].of \in Job /\ s[i] \notin Range(SubSeq(s, 1, i - 1))
Follows(s, i) == \A b \in Refs[s[i].of] : ObjectState(SubSeq(s, 1, i), b) \in {"put", "intent"}
Followed(s) == \A i \in DOMAIN s : Manifest(s, i) => Follows(s, i)

\* A torn manifest follows its blobs too, and so does the one that a restart will write of
\* a job that a crash left without a record.
ManifestInv ==
    /\ ManifestsFollowBlobs
    /\ \A i \in DOMAIN tail : tail[i].kind = "put" /\ tail[i].of \in Job /\ ~Put(tail[i].of) =>
          \A b \in Refs[tail[i].of] : State(b) \in {"put", "intent"}
    /\ ~alive => \A j \in Primary \cap Job : Put(j) \/ \A b \in Refs[j] : State(b) = "put"

LEMMA FollowedIs == ManifestsFollowBlobs <=> Followed(journal)
  BY DEF ManifestsFollowBlobs, Followed, Manifest, Follows

\* What was a manifest in s is one in every continuation of s, and its blobs were recorded.
LEMMA FollowedBefore ==
    ASSUME NEW s, NEW t, Begins(s, t), Followed(s), NEW i \in DOMAIN s, Manifest(t, i)
    PROVE  Follows(t, i)
<1>1. Len(s) \in Nat /\ DOMAIN s = 1..Len(s) /\ t[i] = s[i]
  BY DEF Begins, IsLog
<1>2. i \in 1..(Len(s) + 1) /\ i + 1 \in 1..(Len(s) + 1) /\ (i + 1) - 1 = i
  BY <1>1
<1>3. SubSeq(t, 1, i - 1) = SubSeq(s, 1, i - 1)
  BY <1>2, SamePrefix
<1>4. SubSeq(t, 1, (i + 1) - 1) = SubSeq(s, 1, (i + 1) - 1)
  BY <1>2, SamePrefix
<1>5. Manifest(s, i)
  BY <1>1, <1>3 DEF Manifest
<1> QED BY <1>1, <1>2, <1>4, <1>5 DEF Followed, Follows

\* A record that is no manifest, or one that is there already, or one whose blobs are
\* recorded, can be appended.
LEMMA FollowedAppend ==
    ASSUME NEW s, IsLog(s), Followed(s), NEW r,
           r.kind = "put" /\ r.of \in Job =>
              r \in Range(s) \/ \A b \in Refs[r.of] : ObjectState(s, b) \in {"put", "intent"}
    PROVE  Followed(Append(s, r))
<1> DEFINE t == Append(s, r)
<1>1. Begins(s, t)
  BY LogAppend
<1>2. /\ Len(s) \in Nat /\ Len(t) = Len(s) + 1 /\ t[Len(s) + 1] = r
      /\ DOMAIN t = 1..Len(t) /\ DOMAIN s = 1..Len(s)
      /\ SubSeq(s, 1, Len(s)) = s
  <2>1. s \in Seq(Range(s) \cup {r})
    BY DEF IsLog
  <2>2. /\ Len(s) \in Nat /\ Len(t) = Len(s) + 1 /\ t[Len(s) + 1] = r
        /\ DOMAIN t = 1..Len(t) /\ DOMAIN s = 1..Len(s)
    BY <2>1
  <2>3. SubSeq(s, 1, Len(s)) = s
    BY SubSeqFull DEF IsLog
  <2> QED BY <2>2, <2>3
<1>3. SubSeq(t, 1, Len(t)) = t
  BY <1>1, SubSeqFull DEF Begins, IsLog
<1>4. \A b : ~(r.of = b) => ObjectState(t, b) = ObjectState(s, b)
  BY StateAfterAppend
<1> HIDE DEF t
<1>5. ASSUME NEW i \in DOMAIN t, Manifest(t, i) PROVE Follows(t, i)
  <2>1. CASE i \in DOMAIN s
    BY <1>1, <1>5, <2>1, FollowedBefore
  <2>2. CASE i \notin DOMAIN s
    <3>1. i = Len(t) /\ t[i] = r /\ i - 1 = Len(s) /\ i \in 1..(Len(s) + 1)
      BY <1>2, <2>2
    <3>2. SubSeq(t, 1, i - 1) = s /\ SubSeq(t, 1, i) = t
      BY <1>1, <1>2, <1>3, <3>1, SamePrefix
    <3>3. r.of \in Job /\ \A b \in Refs[r.of] : ObjectState(s, b) \in {"put", "intent"}
      BY <1>5, <3>1, <3>2 DEF Manifest
    <3>4. \A b \in Refs[r.of] : b # r.of
      BY <3>3, StoreAssumption
    <3> QED BY <1>4, <3>1, <3>2, <3>3, <3>4 DEF Follows
  <2> QED BY <2>1, <2>2
<1> QED BY <1>5 DEF Followed, t

\* A restart writes the manifests it finds on the disk after their blobs' records.
LEMMA FollowedMended ==
    ASSUME NEW s, NEW t, Mends(s, t), Followed(s),
           \A j \in Orphans(s) \cap Job :
              Rec("put", j) \in Range(s) \/ \A b \in Refs[j] : ObjectState(s, b) = "put"
    PROVE  Followed(t)
<1>1. /\ Begins(s, t) /\ IsLog(s) /\ IsLog(t) /\ Len(s) \in Nat /\ Len(t) \in Nat /\ Len(s) <= Len(t)
      /\ DOMAIN t = 1..Len(t) /\ DOMAIN s = 1..Len(s)
  BY DEF Mends, Begins, IsLog
<1>2. ASSUME NEW i \in DOMAIN t, Manifest(t, i) PROVE Follows(t, i)
  <2>1. CASE i \in DOMAIN s
    BY <1>1, <1>2, <2>1, FollowedBefore
  <2>2. CASE i \notin DOMAIN s
    <3> DEFINE p == SubSeq(t, 1, i)  q == SubSeq(t, 1, i - 1)  j == t[i].of
    <3>1. i \in (Len(s) + 1)..Len(t) /\ i \in 0..Len(t) /\ i - 1 \in 0..Len(t) /\ Len(s) <= i - 1
      BY <1>1, <2>2
    <3>2. t[i] = Rec("put", j) /\ j \in Orphans(s) \cap Job
      <4>1. Rec("delete", j).kind # "put" /\ t[i].kind = "put" /\ j \in Job
        BY <1>2 DEF Rec, Manifest
      <4>2. \/ t[i] = Rec("put", j) /\ j \in Orphans(s)
            \/ t[i] = Rec("delete", j)
        BY <3>1 DEF Mends
      <4> QED BY <4>1, <4>2
    <3>3. Begins(p, t) /\ Len(p) = i /\ Begins(q, t) /\ Len(q) = i - 1
      BY <1>1, <3>1, PrefixBegins
    <3>4. t[i] \notin Range(q)
      BY <1>2 DEF Manifest
    <3> HIDE DEF p, q, j
    <3>5. Rec("put", j) \notin Range(s)
      <4>1. ASSUME NEW k \in DOMAIN s, s[k] = Rec("put", j) PROVE FALSE
        <5>1. k \in DOMAIN q /\ q[k] = s[k]
          BY <1>1, <3>1, <3>3 DEF Begins, IsLog
        <5> QED BY <3>2, <3>4, <4>1, <5>1 DEF Range
      <4> QED BY <4>1 DEF Range
    <3>6. \A b \in Refs[j] : ObjectState(s, b) = "put"
      BY <3>2, <3>5
    <3>7. Begins(s, p)
      BY <1>1, <3>1, <3>3 DEF Begins
    <3>8. ASSUME NEW b \in Refs[j] PROVE ObjectState(p, b) = "put"
      <4>1. ASSUME NEW k \in (Len(s) + 1)..Len(p) PROVE ~Names(p, b, k)
        <5>1. k \in (Len(s) + 1)..Len(t) /\ p[k] = t[k]
          BY <1>1, <3>1, <3>3, <4>1 DEF Begins
        <5>2. t[k].of \in Orphans(s) \/ t[k].of \in Halfway(s)
          BY <5>1 DEF Mends
        <5>3. b \notin Orphans(s) /\ b \notin Halfway(s)
          BY <3>6, <3>8 DEF Orphans, Halfway
        <5> QED BY <5>1, <5>2, <5>3 DEF Names
      <4>2. ObjectState(p, b) = ObjectState(s, b)
        BY <3>7, <4>1, StateStays
      <4> QED BY <3>6, <3>8, <4>2
    <3> QED BY <3>8 DEF Follows, p, j
  <2> QED BY <2>1, <2>2
<1> QED BY <1>2 DEF Followed

\* While the journal is not written, only what is on the disk of a dead primary matters.
LEMMA QuietManifests ==
    ASSUME ManifestInv, UNCHANGED <<journal, tail>>, alive' \/ (~alive /\ Primary' \subseteq Primary)
    PROVE  ManifestInv'
<1>1. \A o : State(o)' = State(o) /\ Put(o)' = Put(o)
  BY DEF State, Put
<1>2. ManifestsFollowBlobs'
  BY DEF ManifestInv, ManifestsFollowBlobs
<1> QED BY <1>1, <1>2 DEF ManifestInv

\* A manifest is written, finished or not, after its blobs.
LEMMA WritesFollow ==
    ASSUME StoreTypes, Announced, KeepInv, todo # <<>>,
           NEW r, LET s == Head(todo) IN s.do \in Appending \cup {"flush"} /\ r \in Unfinished(s),
           r.kind = "put", r.of \in Job
    PROVE  r = Rec("put", r.of) /\ (Put(r.of) \/ \A b \in Refs[r.of] : State(b) = "put")
<1> DEFINE s == Head(todo)
<1>1. s \in TypedSteps /\ s = todo[1] /\ 1 \in DOMAIN todo /\ Blob \cap Job = {}
  BY StoreAssumption DEF StoreTypes, ProcessTypes
<1>2. s.do # "flush"
  BY DEF Unfinished, Rec
<1>3. r = Written(s)
  BY <1>2 DEF Unfinished
<1>4. s.do \in {"commit", "journal", "rejournal", "register"} /\ r = Rec("put", s.of) /\ s.of = r.of
  BY <1>2, <1>3 DEF Written, Rec, Appending
<1>5. s.do \in {"rejournal", "register"}
  BY <1>1, <1>4 DEF TypedSteps, OfBlobs
<1>6. s.do = "rejournal" => Put(r.of)
  BY <1>1, <1>4 DEF Announced
<1>7. s.do = "register" => \A b \in Refs[r.of] : State(b) = "put"
  <2>1. Whole(todo, 1)
    BY <1>1 DEF KeepInv
  <2> QED BY <1>1, <1>4, <2>1 DEF Whole, Registering
<1> QED BY <1>4, <1>5, <1>6, <1>7

\* The steps of a section.
LEMMA StepFollows ==
    ASSUME TombstoneInv, MemoryInv, KeepInv, ManifestInv, Step
    PROVE  ManifestInv'
<1> DEFINE s == Head(todo)
<1>1. alive /\ alive' /\ todo # <<>> /\ UNCHANGED tail
  BY DEF Step
<1>2. CASE AppendRecord(s) \/ FlushOne(s)
  <2>1. PICK r \in Unfinished(s) : journal' = Append(journal, r)
    <3>1. CASE AppendRecord(s)
      BY <3>1 DEF AppendRecord, Unfinished, Appending
    <3>2. CASE FlushOne(s)
      BY <3>2 DEF FlushOne, Unfinished
    <3> QED BY <1>2, <3>1, <3>2
  <2>2. ~mem.broken /\ s.do \in Appending \cup {"flush"}
    BY <1>2 DEF AppendRecord, FlushOne
  <2>3. tail' = <<>>
    BY <1>1, <2>2 DEF TombstoneInv, DeletionInv
  <2>4. IsLog(journal)
    <3>1. journal \in Seq(Records)
      BY DEF TombstoneInv, StoreTypes, JournalTypes
    <3> QED BY <3>1, SeqOfRange DEF IsLog
  <2>5. r.kind = "put" /\ r.of \in Job =>
           r \in Range(journal) \/ \A b \in Refs[r.of] : State(b) \in {"put", "intent"}
    <3> SUFFICES ASSUME r.kind = "put", r.of \in Job
                 PROVE  r \in Range(journal) \/ \A b \in Refs[r.of] : State(b) \in {"put", "intent"}
      OBVIOUS
    <3>1. r = Rec("put", r.of) /\ (Put(r.of) \/ \A b \in Refs[r.of] : State(b) = "put")
      BY <1>1, <2>2, WritesFollow DEF TombstoneInv, MemoryInv
    <3>2. Put(r.of) => r \in Range(journal)
      BY <3>1 DEF Put, Range
    <3> QED BY <3>1, <3>2
  <2>6. Followed(Append(journal, r))
    BY <2>4, <2>5, FollowedIs, FollowedAppend DEF ManifestInv, State
  <2>7. ManifestsFollowBlobs'
    BY <2>1, <2>6 DEF ManifestsFollowBlobs, Followed, Manifest, Follows
  <2>8. \A i \in DOMAIN tail' : FALSE
    BY <2>3
  <2> QED BY <1>1, <2>7, <2>8 DEF ManifestInv
<1>3. CASE Retain(s) \/ StoreObject(s) \/ UpdateMeta(s) \/ Touch(s) \/ Unlink(s)
  <2>1. UNCHANGED journal
    BY <1>3 DEF Retain, StoreObject, UpdateMeta, Touch, Unlink
  <2> QED BY <1>1, <2>1, QuietManifests
<1> QED BY <1>2, <1>3 DEF Step

\* Failed writes and unlinks.
LEMMA FailureFollows ==
    ASSUME StoreTypes, MemoryInv, KeepInv, ManifestInv, AppendFails \/ UnlinkFails
    PROVE  ManifestInv'
<1> DEFINE s == Head(todo)
<1>1. alive' /\ todo # <<>> /\ UNCHANGED journal
  BY DEF AppendFails, UnlinkFails
<1>2. CASE tail' = tail
  BY <1>1, <1>2, QuietManifests
<1>3. CASE tail' = <<>>
  <2>1. \A i \in DOMAIN tail' : FALSE
    BY <1>3
  <2>2. ManifestsFollowBlobs'
    BY <1>1 DEF ManifestInv, ManifestsFollowBlobs
  <2> QED BY <1>1, <2>1, <2>2 DEF ManifestInv
<1>4. CASE AppendFails /\ tail' # tail /\ tail' # <<>>
  <2>1. s.do \in Appending \cup {"flush"}
    BY <1>4 DEF AppendFails
  <2>2. tail' = tail \/ tail' \in {<<>>} \cup {<<r>> : r \in IF "torn" \in mix THEN Unfinished(s) ELSE {}}
    BY <1>4 DEF AppendFails
  <2>3. PICK r \in Unfinished(s) : tail' = <<r>>
    BY <1>4, <2>2
  <2>4. \A o : State(o)' = State(o) /\ Put(o)' = Put(o)
    BY <1>1 DEF State, Put
  <2>5. ASSUME NEW i \in DOMAIN tail', tail'[i].kind = "put", tail'[i].of \in Job, ~Put(tail'[i].of)
        PROVE  \A b \in Refs[tail'[i].of] : State(b) \in {"put", "intent"}
    <3>1. tail'[i] = r
      BY <2>3, <2>5
    <3> QED BY <1>1, <2>1, <2>5, <3>1, WritesFollow DEF MemoryInv
  <2>6. ManifestsFollowBlobs'
    BY <1>1 DEF ManifestInv, ManifestsFollowBlobs
  <2> QED BY <1>1, <2>4, <2>5, <2>6 DEF ManifestInv
<1> QED BY <1>2, <1>3, <1>4 DEF UnlinkFails

\* What a crash leaves on the disk without a record has its blobs recorded.
LEMMA CrashFollows ==
    ASSUME TombstoneInv, MemoryInv, KeepInv, ManifestInv, Crash
    PROVE  ManifestInv'
<1>1. alive /\ ~alive' /\ UNCHANGED <<journal, tail, disk>>
  BY DEF Crash
<1>2. \A o : State(o)' = State(o) /\ Put(o)' = Put(o)
  BY <1>1 DEF State, Put
<1>3. ASSUME NEW j \in Primary \cap Job, ~Put(j), NEW b \in Refs[j] PROVE State(b) = "put"
  <2>1. ToDo("register", j)
    BY <1>1, <1>3 DEF MemoryInv, Accounted
  <2>2. PICK i \in DOMAIN todo : todo[i].do = "register" /\ todo[i].of = j
    BY <2>1 DEF ToDo
  <2>3. \A k \in 1..i : k \in DOMAIN todo /\ StepIsSound(todo, k)
    <3>1. todo \in Seq(TypedSteps)
      BY DEF TombstoneInv, StoreTypes, ProcessTypes
    <3> QED BY <3>1 DEF TombstoneInv, SectionInv, Section
  <2>4. i \in Nat
    BY DEF TombstoneInv, StoreTypes, ProcessTypes
  <2>5. ~Before(todo, i, {"write"})
    <3>1. \A k \in 1..(i - 1) : todo[k].do = "write" => todo[k].of # j
      BY <1>3, <2>3, <2>4 DEF StepIsSound, Placing
    <3> QED BY <2>2, <3>1 DEF Before
  <2>6. \A k \in 1..(i - 1) : todo[k].do = "stamp"
    BY <2>2, <2>3, <2>4, <2>5 DEF StepIsSound
  <2>7. Whole(todo, i)
    BY DEF KeepInv
  <2> QED BY <1>3, <2>2, <2>6, <2>7 DEF Whole, Registering
<1>4. ManifestsFollowBlobs'
  BY <1>1 DEF ManifestInv, ManifestsFollowBlobs
<1>5. Primary' = Primary
  BY <1>1 DEF Primary
<1> QED BY <1>1, <1>2, <1>3, <1>4, <1>5 DEF ManifestInv

\* A restart finds a torn manifest after its blobs, and writes the others after theirs.
LEMMA RestartFollows ==
    ASSUME TombstoneInv, MemoryInv, ManifestInv, Restart
    PROVE  ManifestInv'
<1> DEFINE found == journal \o tail
<1>1. /\ Mends(found, journal') /\ Begins(journal, found) /\ todo = <<>> /\ tail' = <<>> /\ alive'
  BY RestartFinds DEF Restart, TombstoneInv, MemoryInv
<1>2. journal \in Seq(Records) /\ IsLog(journal) /\ (tail = <<>> \/ \E r \in Records : tail = <<r>>)
  <2>1. journal \in Seq(Records) /\ (tail = <<>> \/ \E r \in Records : tail = <<r>>)
    BY DEF TombstoneInv, StoreTypes, JournalTypes
  <2> QED BY <2>1, SeqOfRange DEF IsLog
<1>3. tail = <<>> => found = journal
  BY <1>2
<1>4. Followed(found)
  <2>1. CASE tail = <<>>
    BY <1>3, <2>1, FollowedIs DEF ManifestInv
  <2>2. ASSUME NEW r \in Records, tail = <<r>> PROVE Followed(found)
    <3>1. found = Append(journal, r)
      BY <1>2, <2>2
    <3>2. 1 \in DOMAIN tail /\ tail[1] = r
      BY <2>2
    <3>3. r.kind = "put" /\ r.of \in Job =>
             r \in Range(journal) \/ \A b \in Refs[r.of] : ObjectState(journal, b) \in {"put", "intent"}
      <4>1. r.kind = "put" /\ Put(r.of) => r \in Range(journal)
        <5>1. Sensible(r)
          BY <3>2 DEF MemoryInv, Announced
        <5> QED BY <5>1 DEF Sensible, Put, Range
      <4> QED BY <3>2, <4>1 DEF ManifestInv, State
    <3> QED BY <1>2, <3>1, <3>3, FollowedIs, FollowedAppend DEF ManifestInv
  <2> QED BY <1>2, <2>1, <2>2
<1> HIDE DEF found
<1>5. ASSUME NEW j \in Orphans(found) \cap Job
      PROVE  Rec("put", j) \in Range(found) \/ \A b \in Refs[j] : ObjectState(found, b) = "put"
  <2>1. j \in Primary \cap Job
    BY <1>5 DEF Orphans, Primary
  <2>2. CASE Put(j)
    <3>1. PICK i \in DOMAIN journal : journal[i] = Rec("put", j)
      BY <2>2 DEF Put
    <3>2. i \in DOMAIN found /\ found[i] = Rec("put", j)
      BY <1>1, <3>1 DEF Begins, IsLog
    <3> QED BY <3>2 DEF Range
  <2>3. CASE ~Put(j)
    <3>1. ~ToDo("register", j)
      BY <1>1 DEF ToDo
    <3>2. ~alive
      BY <2>1, <2>3, <3>1 DEF MemoryInv, Accounted
    <3>3. found = journal
      BY <1>3, <3>2 DEF TombstoneInv, DeletionInv
    <3> QED BY <2>1, <2>3, <3>2, <3>3 DEF ManifestInv, State
  <2> QED BY <2>2, <2>3
<1>6. Followed(journal')
  BY <1>1, <1>4, <1>5, FollowedMended
<1>7. ManifestsFollowBlobs'
  BY <1>6 DEF ManifestsFollowBlobs, Followed, Manifest, Follows
<1>8. \A i \in DOMAIN tail' : FALSE
  BY <1>1
<1> QED BY <1>1, <1>7, <1>8 DEF ManifestInv

-----------------------------------------------------------------------------
(* A registered snapshot is kept *)

SnapInv == TombstoneInv /\ MemoryInv /\ KeepInv /\ ManifestInv

LEMMA SnapStep ==
    ASSUME SnapInv, [StoreNext]_vars
    PROVE  SnapInv'
<1>1. TombstoneInv /\ MemoryInv /\ KeepInv /\ ManifestInv /\ StoreTypes
  BY DEF SnapInv, TombstoneInv
<1>2. TombstoneInv' /\ MemoryInv' /\ KeepInv'
  BY <1>1, TombstoneStep, MemoryStep, KeepStep
<1> SUFFICES ManifestInv'
  BY <1>2 DEF SnapInv
<1>3. CASE \/ \E u \in Uploader : \/ \E b \in Blob : PutBlob(u, b)
                                  \/ AcknowledgeDuplicate(u) \/ CommitBlob(u) \/ UploadFails(u)
           \/ \E j \in Job : RegisterManifest(j) \/ MarkTerminal(j) \/ SetPinned(j)
           \/ \E o \in Object : DeleteObject(o) \/ Rejournal(o) \/ Rejournaled(o)
           \/ Sweep \/ Maintain
  <2>1. UNCHANGED <<journal, tail, alive>> /\ alive
    BY <1>1, <1>3, HandlersPrepare
  <2> QED BY <1>1, <2>1, QuietManifests
<1>4. CASE Step
  BY <1>1, <1>4, StepFollows
<1>5. CASE AppendFails \/ UnlinkFails
  BY <1>1, <1>5, FailureFollows
<1>6. CASE Crash \/ Restart
  BY <1>1, <1>6, CrashFollows, RestartFollows
<1>7. CASE (\E o \in Object : Loss(o)) \/ Tick
  <2>1. UNCHANGED <<journal, tail, alive>> /\ Primary' \subseteq Primary
    BY <1>1, <1>7 DEF Loss, Tick, Primary, StoreTypes, DiskTypes, Node
  <2> QED BY <1>1, <2>1, QuietManifests
<1>8. CASE SkipRecord \/ ShipObject \/ ShipState \/ VerifyShipped \/ AnswerLost \/ ReplicaSweep
  <2>1. UNCHANGED <<journal, tail, alive>> /\ Primary' = Primary
    BY <1>1, <1>8, ReplicationKeepsPrimary
  <2> QED BY <1>1, <2>1, QuietManifests
<1>9. CASE UNCHANGED vars
  BY <1>1, <1>9, QuietManifests DEF vars, Primary
<1> QED
  BY <1>3, <1>4, <1>5, <1>6, <1>7, <1>8, <1>9 DEF StoreNext

LEMMA SnapInit ==
    ASSUME StoreInit
    PROVE  SnapInv
<1>1. journal = <<>> /\ tail = <<>> /\ alive
  BY DEF StoreInit
<1>2. (\A i \in DOMAIN journal : FALSE) /\ (\A i \in DOMAIN tail : FALSE)
  BY <1>1
<1>3. ManifestInv
  BY <1>1, <1>2 DEF ManifestInv, ManifestsFollowBlobs
<1> QED BY <1>3, TombstoneInit, MemoryInit, KeepInit DEF SnapInv

\* A registered snapshot stays whole at the primary until its job has ended, but for
\* accidents, and the journal that restarts and replication go by never names a manifest
\* before its blobs nor deletes a blob that a job still needs: whatever is uploaded,
\* registered, evicted, torn, undone, crashed or restarted in between.
THEOREM SnapshotsKept == StoreSpec => []SnapshotsAreKept
<1>1. StoreInit => SnapInv
  BY SnapInit
<1>2. SnapInv /\ [StoreNext]_vars => SnapInv'
  BY SnapStep
<1>3. SnapInv => ManifestsFollowBlobs /\ LiveJobsKeepBlobs
  <2> SUFFICES ASSUME SnapInv PROVE ManifestsFollowBlobs /\ LiveJobsKeepBlobs
    OBVIOUS
  <2>1. ManifestsFollowBlobs
    BY DEF SnapInv, ManifestInv
  <2>2. ASSUME NEW j \in Primary \cap Job, meta["primary"][j].terminal = 0, NEW b \in Refs[j]
        PROVE  b \in Primary \cup gone /\ State(b) \notin {"intent", "delete"}
    <3>1. Needed(b) /\ b \in Blob
      BY <2>2, StoreAssumption DEF Needed, Running
    <3> QED BY <3>1 DEF SnapInv, KeepInv
  <2>3. LiveJobsKeepBlobs
    BY <2>2 DEF LiveJobsKeepBlobs, Primary, State
  <2> QED BY <2>1, <2>3
<1>4. StoreTypeOK /\ ManifestsFollowBlobs /\ LiveJobsKeepBlobs => SnapshotsAreKept
  BY DEF SnapshotsAreKept
<1> QED BY <1>1, <1>2, <1>3, <1>4, StoreKeepsTypes, PTL DEF StoreSpec
=============================================================================
