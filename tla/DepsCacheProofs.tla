---------------------------- MODULE DepsCacheProofs ----------------------------
(*****************************************************************************)
(* Theorems about DepsCache, for any runs, workloads, packages and bounds:   *)
(* a tree from the store is the tree of an install of one's own, what is     *)
(* published is complete, and eviction takes nothing that is being read.     *)
(*                                                                           *)
(* The invariant has two halves.  BuiltInv: every entry is the copy of the   *)
(* tree that an install in some dir with its key would leave, and a run on   *)
(* its way from copy to hit, or from install to publication, has a tree of   *)
(* that kind.  LeaseInv: who holds the leases in the store.                  *)
(*****************************************************************************)
EXTENDS DepsCache, FiniteSetTheorems, FunctionTheorems, SequenceTheorems, WellFoundedInduction, TLAPS

-----------------------------------------------------------------------------
(* What npm leaves out, and what the check of a tree finds missing.          *)

\* The packages that npm reaches without those in out.
Through(d, out) ==
    {p \in Locked(d) : \A S \in SUBSET (Locked(d) \ out) :
        (\A q \in Locked(d) \ out : d.lock[q].wanted \cap (S \cup {"root"}) # {} => q \in S) => p \in S}

\* What this platform leaves out.
Platform(d) == {p \in Locked(d) : d.lock[p].skipped}

\* What npm reaches when some packages fail: it goes through neither them nor those that it skips.
LEMMA ReachedThrough == \A d, failed : Reached(d, failed) = Through(d, failed \cup Platform(d))
  BY DEF Reached, Through, Platform

\* npm goes on to whatever a package that it has reached wants.
LEMMA ThroughCloses ==
    ASSUME NEW d, NEW out, NEW p \in Locked(d) \ out,
           d.lock[p].wanted \cap (Through(d, out) \cup {"root"}) # {}
    PROVE  p \in Through(d, out)
<1> SUFFICES ASSUME NEW S \in SUBSET (Locked(d) \ out),
                    \A q \in Locked(d) \ out : d.lock[q].wanted \cap (S \cup {"root"}) # {} => q \in S
             PROVE  p \in S
  BY DEF Through
<1>1. Through(d, out) \subseteq S
  BY DEF Through
<1>2. d.lock[p].wanted \cap (S \cup {"root"}) # {}
  BY <1>1
<1> QED BY <1>2

\* npm reaches no package that is left out.
LEMMA ThroughWithin == \A d, out : Through(d, out) \subseteq Locked(d) \ out
  BY DEF Through

\* With fewer packages left out, npm reaches as many or more.
LEMMA ThroughGrows ==
    ASSUME NEW d, NEW out, NEW more, out \subseteq more
    PROVE  Through(d, more) \subseteq Through(d, out)
<1> SUFFICES ASSUME NEW p \in Through(d, more), NEW S \in SUBSET (Locked(d) \ out),
                    \A q \in Locked(d) \ out : d.lock[q].wanted \cap (S \cup {"root"}) # {} => q \in S
             PROVE  p \in S
  BY DEF Through
<1> DEFINE T == S \ more
<1>1. T \in SUBSET (Locked(d) \ more)
  OBVIOUS
<1>2. \A q \in Locked(d) \ more : d.lock[q].wanted \cap (T \cup {"root"}) # {} => q \in T
  OBVIOUS
<1>3. p \in T
  BY <1>1, <1>2 DEF Through
<1> QED BY <1>3

\* A package that nothing reached wants is not reached.
LEMMA ThroughWanted ==
    ASSUME NEW d, NEW out, NEW p \in Through(d, out)
    PROVE  d.lock[p].wanted \cap (Through(d, out) \cup {"root"}) # {}
<1> SUFFICES ASSUME d.lock[p].wanted \cap (Through(d, out) \cup {"root"}) = {} PROVE FALSE
  OBVIOUS
<1> DEFINE T == Through(d, out) \ {p}
<1>1. T \in SUBSET (Locked(d) \ out)
  BY ThroughWithin
<1>2. \A q \in Locked(d) \ out : d.lock[q].wanted \cap (T \cup {"root"}) # {} => q \in T
  BY ThroughCloses
<1>3. p \in T
  <2> HIDE DEF T
  <2> QED BY <1>1, <1>2 DEF Through
<1> QED BY <1>3

\* Whatever npm could not fetch: a tree that the check finds complete has the
\* packages that it would have with nothing missing.
LEMMA CompleteIsFresh ==
    ASSUME NEW d \in Dirs, NEW failed, Missing(d, Reached(d, failed)) = {}
    PROVE  Reached(d, failed) = Reached(d, {})
<1> DEFINE full == Through(d, Platform(d))
           some == Through(d, failed \cup Platform(d))
           absent == Locked(d) \ (Platform(d) \cup some)
           Grown(S) == \A p \in absent : d.lock[p].optional /\ d.lock[p].wanted # {}
                                           /\ d.lock[p].wanted \subseteq S => p \in S
           gone == {p \in Locked(d) : \A S \in SUBSET Locked(d) : Platform(d) \subseteq S /\ Grown(S) => p \in S}
<1>1. Reached(d, failed) = some /\ Reached(d, {}) = full
  BY ReachedThrough
<1>2. some \subseteq full
  BY ThroughGrows
<1>3. absent \subseteq gone
  <2>1. Missing(d, some) = absent \ gone
    BY DEF Missing, Platform
  <2> QED BY <1>1, <2>1
<1>4. gone \cap full = {}
  <2> DEFINE S == Locked(d) \ full
  <2>1. Platform(d) \subseteq S
    BY ThroughWithin DEF Platform
  <2>2. Grown(S)
    <3> SUFFICES ASSUME NEW p \in absent, d.lock[p].wanted \subseteq S PROVE p \in S
      OBVIOUS
    <3>1. "root" \notin Locked(d)
      BY DepsAssumption DEF Locked, Dirs
    <3>2. d.lock[p].wanted \cap (full \cup {"root"}) = {}
      BY <3>1
    <3> QED BY <3>2, ThroughWanted
  <2>3. \A p \in gone : p \in S
    <3> HIDE DEF S, absent
    <3> QED BY <2>1, <2>2 DEF S
  <2> QED BY <2>3
<1>5. full \subseteq some
  BY <1>3, <1>4, ThroughWithin
<1> QED BY <1>1, <1>2, <1>5

-----------------------------------------------------------------------------
(* What the key of a dir decides.                                            *)

\* The sources that scripts read are in the key, or none of them is read.
LEMMA ReadsKeyed ==
    ASSUME NEW d \in Dirs, Key(d) # None
    PROVE  Reads(d) = IF (d.workspaces # "none" /\ HasScript(d)) \/ d.root # "none" THEN SourcePart(d)
                      ELSE [named |-> 0, rest |-> 0]
<1>1. d.src = [named |-> d.src.named, rest |-> d.src.rest] /\ [d.src EXCEPT !.rest = 0] = [named |-> d.src.named, rest |-> 0]
  BY DEF Dirs
<1>2. CASE d.workspaces # "none" /\ HasScript(d)
  BY <1>1, <1>2 DEF Reads, SourcePart
<1>3. CASE ~(d.workspaces # "none" /\ HasScript(d)) /\ d.root = "none"
  BY <1>3 DEF Reads
<1>4. CASE ~(d.workspaces # "none" /\ HasScript(d)) /\ d.root # "none"
  BY <1>1, <1>4 DEF Reads, SourcePart
<1> QED BY <1>2, <1>3, <1>4

\* Two dirs with one key: npm installs the same packages from the same inputs.
LEMMA KeyDecides ==
    ASSUME NEW d \in Dirs, NEW e \in Dirs, NEW r, NEW q, Key(d) = Key(e), Key(d) # None
    PROVE  Fresh(r, d).packages = Fresh(q, e).packages /\ Fresh(r, d).built = Fresh(q, e).built
<1> DEFINE K(x) == [lock |-> x.lock, root |-> x.root, tempFs |-> TempFs(x), workspaces |-> x.workspaces,
                    cc |-> Toolchain(x), src |-> SourcePart(x),
                    tool |-> DepsEnv(x.env).tool, locale |-> DepsEnv(x.env).locale]
<1>1. K(d) = K(e)
  BY DEF Key
<1>2. /\ d.lock = e.lock /\ d.root = e.root /\ TempFs(d) = TempFs(e) /\ d.workspaces = e.workspaces
      /\ Toolchain(d) = Toolchain(e) /\ SourcePart(d) = SourcePart(e)
      /\ DepsEnv(d.env).tool = DepsEnv(e.env).tool /\ DepsEnv(d.env).locale = DepsEnv(e.env).locale
  <2> DEFINE k == K(d)  l == K(e)
  <2>1. /\ k.lock = d.lock /\ k.root = d.root /\ k.tempFs = TempFs(d) /\ k.workspaces = d.workspaces
        /\ k.cc = Toolchain(d) /\ k.src = SourcePart(d)
        /\ k.tool = DepsEnv(d.env).tool /\ k.locale = DepsEnv(d.env).locale
    OBVIOUS
  <2>2. /\ l.lock = e.lock /\ l.root = e.root /\ l.tempFs = TempFs(e) /\ l.workspaces = e.workspaces
        /\ l.cc = Toolchain(e) /\ l.src = SourcePart(e)
        /\ l.tool = DepsEnv(e.env).tool /\ l.locale = DepsEnv(e.env).locale
    OBVIOUS
  <2>3. k = l
    BY <1>1
  <2> HIDE DEF k, l
  <2> QED BY <2>1, <2>2, <2>3
<1>3. Locked(d) = Locked(e) /\ (HasScript(d) <=> HasScript(e))
  BY <1>2 DEF Locked, HasScript
<1>4. Reached(d, {}) = Reached(e, {})
  BY <1>2, <1>3 DEF Reached
<1>5. [DepsEnv(d.env) EXCEPT !.auth = 0] = [DepsEnv(e.env) EXCEPT !.auth = 0]
  <2>1. d.env \in [tool : Nat, locale : Nat, ticket : Nat, auth : Nat]
        /\ e.env \in [tool : Nat, locale : Nat, ticket : Nat, auth : Nat]
    BY DEF Dirs
  <2>2. DepsEnv(d.env).tool = d.env.tool /\ DepsEnv(e.env).tool = e.env.tool
    BY <2>1 DEF DepsEnv
  <2>3. d.env.tool = e.env.tool
    BY <1>2, <2>2
  <2>4. \A v \in [tool : Nat, locale : Nat, ticket : Nat, auth : Nat] :
           [DepsEnv(v) EXCEPT !.auth = 0] = [tool |-> v.tool, locale |-> 0, ticket |-> 0, auth |-> 0]
    <3> TAKE v \in [tool : Nat, locale : Nat, ticket : Nat, auth : Nat]
    <3> DEFINE w == DepsEnv(v)  x == [w EXCEPT !.auth = 0]
               y == [tool |-> v.tool, locale |-> 0, ticket |-> 0, auth |-> 0]
    <3>1. w \in [tool : Nat, locale : Nat, ticket : Nat, auth : Nat]
          /\ w.tool = v.tool /\ w.locale = 0 /\ w.ticket = 0
      BY DEF DepsEnv
    <3> HIDE DEF w
    <3>2. x \in [tool : Nat, locale : Nat, ticket : Nat, auth : Nat]
          /\ x.tool = v.tool /\ x.locale = 0 /\ x.ticket = 0 /\ x.auth = 0
      BY <3>1
    <3>3. y \in [tool : Nat, locale : Nat, ticket : Nat, auth : Nat]
          /\ y.tool = v.tool /\ y.locale = 0 /\ y.ticket = 0 /\ y.auth = 0
      OBVIOUS
    <3> HIDE DEF x, y
    <3>4. x = y
      BY <3>2, <3>3
    <3> QED BY <3>4 DEF w, x, y
  <2> QED BY <2>1, <2>3, <2>4
<1>6. Reads(d) = Reads(e)
  BY <1>2, <1>3, ReadsKeyed
<1>7. d.tempFs = e.tempFs
  BY <1>2 DEF TempFs
<1>8. (IF HasScript(d) THEN d.cc ELSE 0) = (IF HasScript(e) THEN e.cc ELSE 0)
  BY <1>2 DEF Toolchain
<1>9. Fresh(r, d).packages = Reached(d, {}) /\ Fresh(q, e).packages = Reached(e, {})
  BY DEF Fresh, Installed
<1>10. Fresh(r, d).built = [env |-> [DepsEnv(d.env) EXCEPT !.auth = 0], cc |-> IF HasScript(d) THEN d.cc ELSE 0,
                            src |-> Reads(d), tempFs |-> d.tempFs]
  BY DEF Fresh, Installed
<1>11. Fresh(q, e).built = [env |-> [DepsEnv(e.env) EXCEPT !.auth = 0], cc |-> IF HasScript(e) THEN e.cc ELSE 0,
                            src |-> Reads(e), tempFs |-> e.tempFs]
  BY DEF Fresh, Installed
<1> QED BY <1>4, <1>5, <1>6, <1>7, <1>8, <1>9, <1>10, <1>11

-----------------------------------------------------------------------------
(* What relocation makes of a stored tree.                                   *)

\* Trees, with their recorded paths in Q.
Trees(Q) == [packages : SUBSET Package, built : {Fresh(r, d).built : r \in Run, d \in Dirs}, paths : Q,
             hooks : BOOLEAN, stray : BOOLEAN]

\* A tree is what its five parts say.
LEMMA TreesEqual ==
    ASSUME NEW Q, NEW x \in Trees(Q), NEW y \in Trees(Q),
           x.packages = y.packages, x.built = y.built, x.paths = y.paths, x.hooks = y.hooks, x.stray = y.stray
    PROVE  x = y
  BY DEF Trees

\* Whether the root hooks ran is a part of its own.
LEMMA TreesHooks ==
    ASSUME NEW Q, NEW x \in Trees(Q), NEW h \in BOOLEAN
    PROVE  [x EXCEPT !.hooks = h] \in Trees(Q)
<1> DEFINE built == {Fresh(r, d).built : r \in Run, d \in Dirs}
<1> HIDE DEF built
<1>1. Trees(Q) = [packages : SUBSET Package, built : built, paths : Q, hooks : BOOLEAN, stray : BOOLEAN]
  BY DEF Trees, built
<1> QED BY <1>1

\* The roles whose paths npm writes into the tree of d.
Named(r, d) == {m \in d.names : PathsOf[r][m] # None}

\* The parts of the tree that an install leaves.
LEMMA FreshParts ==
    ASSUME NEW r \in Run, NEW d \in Dirs
    PROVE  LET t == Fresh(r, d)
           IN  /\ t \in Trees({[n \in Named(r, d) |-> PathsOf[r][n]]})
               /\ t.packages = Reached(d, {}) /\ t.paths = [n \in Named(r, d) |-> PathsOf[r][n]]
               /\ t.hooks = Allowlisted(d) /\ t.stray = FALSE
<1>1. Reached(d, {}) \in SUBSET Package
  BY DEF Reached, Locked, Dirs
<1>2. Allowlisted(d) \in BOOLEAN
  BY DEF Allowlisted
<1>3. Fresh(r, d).built \in {Fresh(x, e).built : x \in Run, e \in Dirs}
  OBVIOUS
<1> DEFINE env == [DepsEnv(d.env) EXCEPT !.auth = 0]
           built == [env |-> env, cc |-> IF HasScript(d) THEN d.cc ELSE 0, src |-> Reads(d), tempFs |-> d.tempFs]
           paths == [n \in Named(r, d) |-> PathsOf[r][n]]
           t == [packages |-> Reached(d, {}), built |-> built, paths |-> paths,
                 hooks |-> Allowlisted(d), stray |-> FALSE]
<1>4. Fresh(r, d) = t
  BY DEF Fresh, Installed, Named
<1>5. t.built = built /\ t.packages = Reached(d, {}) /\ t.paths = paths /\ t.hooks = Allowlisted(d) /\ t.stray = FALSE
  <2> HIDE DEF built, paths
  <2> QED OBVIOUS
<1>6. built \in {Fresh(x, e).built : x \in Run, e \in Dirs}
  <2> HIDE DEF t, built
  <2> QED BY <1>3, <1>4, <1>5
<1>7. t \in Trees({paths})
  <2> HIDE DEF built, paths
  <2> QED BY <1>1, <1>2, <1>6 DEF Trees
<1> HIDE DEF t, built
<1> QED BY <1>4, <1>5, <1>7

\* The places that the token of a path stands for in r's copy.
Token(r, n) == {m \in Roles : PathsOf[r][m] = PathsOf[r][n]}

\* The parts of the copy that is published of it.
LEMMA TemplateParts ==
    ASSUME NEW r \in Run, NEW d \in Dirs
    PROVE  LET t == Template(r, Fresh(r, d))
           IN  /\ t \in Trees({[n \in Named(r, d) |-> Token(r, n)]})
               /\ t.packages = Reached(d, {}) /\ t.paths = [n \in Named(r, d) |-> Token(r, n)]
               /\ t.built = Fresh(r, d).built
               /\ t.hooks = FALSE /\ t.stray = FALSE
<1> DEFINE f == Fresh(r, d)
           from == [n \in Named(r, d) |-> PathsOf[r][n]]
           to == [n \in Named(r, d) |-> Token(r, n)]
<1>1. f \in Trees({from}) /\ f.packages = Reached(d, {}) /\ f.paths = from /\ f.stray = FALSE
  BY FreshParts
<1>2. [n \in DOMAIN f.paths |-> {m \in Roles : PathsOf[r][m] = f.paths[n]}] = to
  BY <1>1 DEF Token
<1> HIDE DEF from, to, f
<1>3. [f EXCEPT !.hooks = FALSE, !.paths = to] \in Trees({to})
  <2> DEFINE w == [f EXCEPT !.hooks = FALSE]
  <2>1. w \in Trees({from})
    BY <1>1, TreesHooks
  <2> HIDE DEF w
  <2>2. [w EXCEPT !.paths = to] \in Trees({to})
    BY <2>1 DEF Trees
  <2> QED BY <2>2 DEF w
<1>4. Template(r, f) = [f EXCEPT !.hooks = FALSE, !.paths = to]
  BY <1>1, <1>2 DEF Template, Trees
<1>5. Template(r, f).hooks = FALSE /\ Template(r, f).paths = to /\ Template(r, f).built = f.built
      /\ Template(r, f).packages = f.packages /\ Template(r, f).stray = f.stray
  BY <1>1, <1>4 DEF Trees
<1>6. Template(r, f) \in Trees({to}) /\ Template(r, f).packages = Reached(d, {}) /\ Template(r, f).stray = FALSE
  BY <1>1, <1>3, <1>4, <1>5
<1> QED BY <1>5, <1>6 DEF f, to

\* Two dirs with one key: if the copy of one can be relocated into the other, then it becomes,
\* with the hooks replayed, the tree that an install there would have left.
LEMMA RestoredIsFresh ==
    ASSUME NEW b \in Run, NEW r \in Run, NEW d \in Dirs, NEW e \in Dirs, Key(d) = Key(e), Key(d) # None,
           d.names = e.names, \A m \in Roles : PathsOf[b][m] = None <=> PathsOf[r][m] = None,
           Relocatable(r, Template(b, Fresh(b, d)))
    PROVE  [Relocated(r, Template(b, Fresh(b, d))) EXCEPT !.hooks = Allowlisted(e)] = Fresh(r, e)
<1> DEFINE s == Template(b, Fresh(b, d))  f == Fresh(r, e)
           from == [n \in Named(b, d) |-> Token(b, n)]
           to == [n \in Named(r, e) |-> PathsOf[r][n]]
<1>1. /\ s \in Trees({from}) /\ s.packages = Reached(d, {}) /\ s.paths = from
      /\ s.built = Fresh(b, d).built /\ s.hooks = FALSE /\ s.stray = FALSE
  BY TemplateParts
<1>2. f \in Trees({to}) /\ f.packages = Reached(e, {}) /\ f.paths = to /\ f.hooks = Allowlisted(e) /\ f.stray = FALSE
  BY FreshParts
<1>3. Reached(d, {}) = Reached(e, {}) /\ Fresh(b, d).built = f.built
  <2>1. Fresh(b, d).packages = f.packages /\ Fresh(b, d).built = f.built
    BY KeyDecides
  <2>2. Fresh(b, d).packages = Reached(d, {})
    BY FreshParts
  <2> QED BY <1>2, <2>1, <2>2
<1>4. Named(b, d) = Named(r, e) /\ Named(b, d) \subseteq Roles
  BY DEF Named, Dirs
<1>5. \A n \in Named(b, d) : n \in Token(b, n)
  BY <1>4 DEF Token
<1>6. \A n \in Named(b, d) : PathsOf[r][CHOOSE m \in Token(b, n) : PathsOf[r][m] # None] = PathsOf[r][n]
  <2> SUFFICES ASSUME NEW n \in Named(b, d)
               PROVE  PathsOf[r][CHOOSE m \in Token(b, n) : PathsOf[r][m] # None] = PathsOf[r][n]
    OBVIOUS
  <2>1. /\ \A m \in from[n] : PathsOf[r][m] # None
        /\ \A m, o \in from[n] : PathsOf[r][m] = PathsOf[r][o]
    <3> HIDE DEF from
    <3>1. Relocatable(r, s) /\ n \in DOMAIN s.paths
      BY <1>1 DEF from
    <3> QED BY <1>1, <3>1 DEF Relocatable
  <2>2. from[n] = Token(b, n)
    OBVIOUS
  <2>3. (CHOOSE m \in Token(b, n) : PathsOf[r][m] # None) \in Token(b, n)
    BY <1>5, <2>1, <2>2
  <2> QED BY <1>5, <2>1, <2>2, <2>3
<1>7. [n \in DOMAIN s.paths |-> PathsOf[r][CHOOSE m \in s.paths[n] : PathsOf[r][m] # None]] = to
  <2>1. DOMAIN s.paths = Named(r, e) /\ \A n \in Named(r, e) : s.paths[n] = Token(b, n)
    BY <1>1, <1>4
  <2> QED BY <1>4, <1>6, <2>1
<1> HIDE DEF s, f, from, to
<1>8. Relocated(r, s) = [s EXCEPT !.paths = to]
  BY <1>1, <1>7 DEF Relocated, Trees
<1> DEFINE t == Relocated(r, s)
<1>9. t \in Trees({to}) /\ t.hooks = FALSE /\ t.stray = FALSE /\ t.packages = s.packages /\ t.built = s.built /\ t.paths = to
  BY <1>1, <1>8 DEF Trees
<1> HIDE DEF t
<1> DEFINE u == [t EXCEPT !.hooks = Allowlisted(e)]
<1>10. /\ u \in Trees({to}) /\ u.hooks = Allowlisted(e) /\ u.stray = FALSE
       /\ u.packages = s.packages /\ u.built = s.built /\ u.paths = to
  <2>1. Allowlisted(e) \in BOOLEAN
    BY DEF Allowlisted
  <2> QED BY <1>9, <2>1 DEF Trees
<1> HIDE DEF u
<1>11. u = f
  <2>1. u.packages = f.packages /\ u.built = f.built /\ u.paths = f.paths /\ u.hooks = f.hooks /\ u.stray = f.stray
    BY <1>1, <1>2, <1>3, <1>10
  <2> QED BY <1>2, <1>10, <2>1, TreesEqual
<1> QED BY <1>2, <1>9, <1>11 DEF t, u, s, f

-----------------------------------------------------------------------------
(* Trimming.                                                                 *)

\* The order that induction over the numbers needs.
LEMMA LessThan == \A x, y \in Nat : <<y, x>> \in OpToRel(<, Nat) <=> y < x
  BY DEF OpToRel

\* A set of numbers has a least element.
LEMMA LeastIn ==
    ASSUME NEW N \in SUBSET Nat, N # {}
    PROVE  \E n \in N : \A m \in N : n <= m
<1>1. PICK n \in N : \A m \in N : ~(<<m, n>> \in OpToRel(<, Nat))
  BY WFMin, NatLessThanWellFounded
<1>2. \A m \in N : ~(m < n)
  BY <1>1, LessThan
<1> QED BY <1>2

\* The elements of K up to i.
UpTo(K, i) == {j \in K : j <= i}

\* The elements of a finite set of numbers are numbered by how many there are up
\* to each.
LEMMA RanksAreBijective ==
    ASSUME NEW K \in SUBSET Nat, IsFiniteSet(K)
    PROVE  /\ Cardinality(K) \in Nat
           /\ \A i \in K : Cardinality(UpTo(K, i)) \in 1..Cardinality(K)
           /\ \A i, j \in K : Cardinality(UpTo(K, i)) = Cardinality(UpTo(K, j)) => i = j
           /\ \A n \in 1..Cardinality(K) : \E i \in K : Cardinality(UpTo(K, i)) = n
<1> DEFINE N == Cardinality(K)  rank == [i \in K |-> Cardinality(UpTo(K, i))]
<1>1. N \in Nat
  BY FS_CardinalityType
<1>2. \A i \in K : UpTo(K, i) \in SUBSET K /\ IsFiniteSet(UpTo(K, i)) /\ Cardinality(UpTo(K, i)) \in Nat
                   /\ Cardinality(UpTo(K, i)) <= N
  <2> TAKE i \in K
  <2>1. UpTo(K, i) \in SUBSET K
    BY DEF UpTo
  <2> QED BY <2>1, FS_Subset, FS_CardinalityType
<1>3. \A i \in K : Cardinality(UpTo(K, i)) # 0
  <2> TAKE i \in K
  <2>1. i \in UpTo(K, i)
    BY DEF UpTo
  <2> QED BY <1>2, <2>1, FS_EmptySet
<1>4. \A i, j \in K : i < j => Cardinality(UpTo(K, i)) # Cardinality(UpTo(K, j))
  <2> SUFFICES ASSUME NEW i \in K, NEW j \in K, i < j,
                      Cardinality(UpTo(K, i)) = Cardinality(UpTo(K, j)) PROVE FALSE
    OBVIOUS
  <2>0. \A x \in K : x <= i => x <= j
    OBVIOUS
  <2>1. UpTo(K, i) \in SUBSET UpTo(K, j)
    BY <2>0, Zenon DEF UpTo
  <2>2. UpTo(K, j) = UpTo(K, i)
    BY <1>2, <2>1, FS_Subset
  <2>3. j \in UpTo(K, j) /\ j \notin UpTo(K, i)
    BY DEF UpTo
  <2> QED BY <2>2, <2>3
<1>5. \A i, j \in K : Cardinality(UpTo(K, i)) = Cardinality(UpTo(K, j)) => i = j
  BY <1>4
<1>6. \A i \in K : Cardinality(UpTo(K, i)) \in 1..N
  BY <1>1, <1>2, <1>3
<1>7. rank \in Injection(K, 1..N)
  <2>1. rank \in [K -> 1..N]
    BY <1>6
  <2>2. \A i, j \in K : rank[i] = rank[j] => i = j
    BY <1>5
  <2> HIDE DEF rank, N
  <2> QED BY <2>1, <2>2, Fun_IsInj
<1>8. IsFiniteSet(1..N) /\ Cardinality(1..N) = N
  BY <1>1, FS_Interval
<1>9. rank \in Surjection(K, 1..N)
  BY <1>7, <1>8, FS_Injection
<1>10. \A n \in 1..N : \E i \in K : rank[i] = n
  <2> HIDE DEF rank, N
  <2> QED BY <1>9, Fun_SurjectionProperties
<1> QED BY <1>1, <1>5, <1>6, <1>10

\* What trimming keeps, and in what order: f[n] is the n-th of what is kept.
LEMMA TrimmedParts ==
    ASSUME NEW S, NEW s \in Seq(S)
    PROVE  LET kept == DOMAIN s \ Victims(s)
           IN  \E f \in [1..Cardinality(kept) -> kept] :
                  /\ Cardinality(kept) \in Nat
                  /\ \A m, n \in DOMAIN f : f[m] = f[n] => m = n
                  /\ \A i \in kept : \E n \in DOMAIN f : f[n] = i
                  /\ Trimmed(s) = [n \in 1..Cardinality(kept) |-> s[f[n]]]
                  /\ Trimmed(s) \in Seq(S) /\ DOMAIN Trimmed(s) = DOMAIN f
<1> DEFINE kept == DOMAIN s \ Victims(s)
           Nth(n) == CHOOSE i \in kept : Cardinality(UpTo(kept, i)) = n
           f == [n \in 1..Cardinality(kept) |-> Nth(n)]
<1>1. kept \in SUBSET Nat /\ IsFiniteSet(kept)
  <2>1. DOMAIN s = 1..Len(s) /\ Len(s) \in Nat
    OBVIOUS
  <2>2. IsFiniteSet(DOMAIN s)
    BY <2>1, FS_Interval
  <2> QED BY <2>1, <2>2, FS_Subset
<1>2. Trimmed(s) = [n \in 1..Cardinality(kept) |-> s[Nth(n)]]
  BY DEF Trimmed, UpTo
<1>3. \A i \in kept : s[i] \in S
  OBVIOUS
<1> HIDE DEF kept
<1>4. /\ Cardinality(kept) \in Nat
      /\ \A i \in kept : Cardinality(UpTo(kept, i)) \in 1..Cardinality(kept)
      /\ \A i, j \in kept : Cardinality(UpTo(kept, i)) = Cardinality(UpTo(kept, j)) => i = j
      /\ \A n \in 1..Cardinality(kept) : \E i \in kept : Cardinality(UpTo(kept, i)) = n
  BY <1>1, RanksAreBijective
<1>5. \A n \in 1..Cardinality(kept) : Nth(n) \in kept /\ Cardinality(UpTo(kept, Nth(n))) = n
  BY <1>4
<1>6. f \in [1..Cardinality(kept) -> kept] /\ \A m, n \in DOMAIN f : f[m] = f[n] => m = n
  BY <1>5
<1>7. \A i \in kept : \E n \in DOMAIN f : f[n] = i
  <2> SUFFICES ASSUME NEW i \in kept PROVE \E n \in DOMAIN f : f[n] = i
    OBVIOUS
  <2> DEFINE n == Cardinality(UpTo(kept, i))
  <2>1. n \in 1..Cardinality(kept)
    BY <1>4
  <2>2. Nth(n) = i
    BY <1>4, <1>5, <2>1
  <2> QED BY <2>1, <2>2
<1>8. Trimmed(s) = [n \in 1..Cardinality(kept) |-> s[f[n]]]
  BY <1>2
<1> HIDE DEF f
<1>9. Trimmed(s) \in [1..Cardinality(kept) -> S]
  BY <1>3, <1>6, <1>8
<1>10. Trimmed(s) \in Seq(S) /\ DOMAIN Trimmed(s) = DOMAIN f
  BY <1>4, <1>6, <1>9
<1> QED BY <1>4, <1>6, <1>7, <1>8, <1>10 DEF kept

\* The entries that count for the bound.
Sound(s) == {i \in DOMAIN s : ~s[i].damaged}

\* When the entries that stay are too many, some live run holds one of them.
LEMMA TrimmedFits ==
    ASSUME NEW S, NEW s \in Seq(S), Cardinality(Sound(Trimmed(s))) > MaxBytes
    PROVE  \E i \in DOMAIN Trimmed(s) : LiveLeases(Trimmed(s)[i]) # {}
<1> DEFINE V == Victims(s)  kept == DOMAIN s \ V  K == Sound(s) \ V  t == Trimmed(s)
           E == Sound(s) \cap Evictable(s)
<1>1. PICK f \in [1..Cardinality(kept) -> kept] :
          /\ Cardinality(kept) \in Nat
          /\ \A m, n \in DOMAIN f : f[m] = f[n] => m = n
          /\ \A i \in kept : \E n \in DOMAIN f : f[n] = i
          /\ t = [n \in 1..Cardinality(kept) |-> s[f[n]]]
          /\ t \in Seq(S) /\ DOMAIN t = DOMAIN f
  BY TrimmedParts
<1>2. IsFiniteSet(DOMAIN s) /\ DOMAIN s \in SUBSET Nat
  <2>1. DOMAIN s = 1..Len(s) /\ Len(s) \in Nat
    OBVIOUS
  <2> QED BY <2>1, FS_Interval
<1>3. IsFiniteSet(Sound(s)) /\ IsFiniteSet(K) /\ Sound(s) \in SUBSET DOMAIN s
      /\ Cardinality(Sound(s)) \in Nat /\ Cardinality(K) \in Nat
  <2>1. Sound(s) \in SUBSET DOMAIN s
    BY DEF Sound
  <2>2. IsFiniteSet(Sound(s))
    BY <1>2, <2>1, FS_Subset
  <2>3. K \in SUBSET Sound(s)
    OBVIOUS
  <2>4. IsFiniteSet(K)
    BY <2>2, <2>3, FS_Subset
  <2> QED BY <2>1, <2>2, <2>4, FS_CardinalityType
<1>4. Cardinality(Sound(t)) = Cardinality(K)
  <2> DEFINE g == [n \in Sound(t) |-> f[n]]
  <2>1. \A n \in DOMAIN t : t[n] = s[f[n]] /\ f[n] \in kept
    BY <1>1
  <2>2. g \in [Sound(t) -> K]
    <3>1. \A n \in Sound(t) : f[n] \in K
      BY <2>1 DEF Sound
    <3> QED BY <3>1
  <2>3. \A m, n \in Sound(t) : g[m] = g[n] => m = n
    BY <1>1 DEF Sound
  <2>4. \A i \in K : \E n \in Sound(t) : g[n] = i
    <3> SUFFICES ASSUME NEW i \in K PROVE \E n \in Sound(t) : g[n] = i
      OBVIOUS
    <3>1. i \in kept /\ ~s[i].damaged
      BY <1>3 DEF Sound
    <3>2. PICK n \in DOMAIN f : f[n] = i
      BY <1>1, <3>1
    <3>3. n \in Sound(t)
      BY <1>1, <2>1, <3>1, <3>2 DEF Sound
    <3> QED BY <3>2, <3>3
  <2> HIDE DEF g, K, t
  <2>5. g \in Bijection(Sound(t), K)
    BY <2>2, <2>3, <2>4, Fun_IsBij
  <2>6. IsFiniteSet(Sound(t))
    <3>1. g \in Injection(Sound(t), K)
      BY <2>5, Fun_BijectionProperties
    <3> QED BY <1>3, <3>1, FS_Injection
  <2> QED BY <2>5, <2>6, FS_Bijection DEF ExistsBijection
<1>5. E \subseteq V
  <2> SUFFICES ASSUME E \ V # {} PROVE FALSE
    OBVIOUS
  <2>1. E \ V \in SUBSET Nat
    BY <1>2, <1>3
  <2>2. PICK i \in E \ V : \A j \in E \ V : i <= j
    BY <2>1, LeastIn
  <2> DEFINE B == {j \in E : j < i}
  <2>3. B \subseteq V
    <3> SUFFICES ASSUME NEW j \in E, j < i, j \notin V PROVE FALSE
      OBVIOUS
    <3>1. i <= j /\ i \in Nat /\ j \in Nat
      BY <2>1, <2>2
    <3> QED BY <3>1
  <2>4. ~(Cardinality(Sound(s)) - Cardinality(B) > MaxBytes)
    <3>1. i \in Evictable(s) /\ i \in Sound(s)
      OBVIOUS
    <3> QED BY <3>1 DEF Victims, Sound
  <2>5. B \in SUBSET Sound(s) /\ IsFiniteSet(B) /\ Cardinality(B) \in Nat
    <3>1. B \in SUBSET Sound(s)
      OBVIOUS
    <3> HIDE DEF B
    <3> QED BY <1>3, <3>1, FS_Subset, FS_CardinalityType
  <2>6. K \in SUBSET (Sound(s) \ B)
    BY <2>3
  <2> HIDE DEF B, K
  <2>7. Cardinality(Sound(s) \ B) = Cardinality(Sound(s)) - Cardinality(B) /\ IsFiniteSet(Sound(s) \ B)
    <3>1. IsFiniteSet(Sound(s) \ B)
      BY <1>3, FS_Subset
    <3>2. Cardinality((Sound(s) \ B) \cup B)
            = Cardinality(Sound(s) \ B) + Cardinality(B) - Cardinality((Sound(s) \ B) \cap B)
      BY <2>5, <3>1, FS_Union
    <3>3. (Sound(s) \ B) \cup B = Sound(s) /\ (Sound(s) \ B) \cap B = {}
      BY <2>5
    <3>4. Cardinality(Sound(s) \ B) \in Nat
      BY <3>1, FS_CardinalityType
    <3>5. Cardinality((Sound(s) \ B) \cap B) = 0
      BY <3>3, FS_EmptySet
    <3> DEFINE x == Cardinality(Sound(s) \ B)  y == Cardinality(B)  z == Cardinality(Sound(s))
    <3>6. x \in Nat /\ y \in Nat /\ z \in Nat /\ z = x + y - 0
      BY <1>3, <2>5, <3>2, <3>3, <3>4, <3>5
    <3> HIDE DEF x, y, z
    <3>7. x = z - y
      BY <3>6
    <3> QED BY <3>1, <3>7 DEF x, y, z
  <2>8. Cardinality(K) <= Cardinality(Sound(s) \ B)
    BY <2>6, <2>7, FS_Subset
  <2> QED BY <1>3, <1>4, <2>4, <2>5, <2>7, <2>8, DepsAssumption
<1>6. K # {}
  BY <1>3, <1>4, FS_EmptySet, DepsAssumption
<1>7. PICK i \in K : i \in Sound(s) /\ i \in kept /\ i \notin Evictable(s)
  BY <1>3, <1>5, <1>6
<1>8. LiveLeases(s[i]) # {}
  BY <1>7 DEF Evictable
<1>9. PICK n \in DOMAIN f : f[n] = i
  BY <1>1, <1>7
<1>10. t[n] = s[i] /\ n \in DOMAIN t
  BY <1>1, <1>9
<1> QED BY <1>8, <1>10

\* t has the elements of s, the n-th of t where f has n.
Rearranged(f, s, t) ==
    /\ f \in [DOMAIN s -> DOMAIN s] /\ DOMAIN t = DOMAIN s
    /\ \A m, n \in DOMAIN s : f[m] = f[n] => m = n
    /\ \A j \in DOMAIN s : \E n \in DOMAIN s : f[n] = j
    /\ \A n \in DOMAIN s : t[n] = s[f[n]]

\* Moving an entry to the end of the list.
LEMMA TouchedParts ==
    ASSUME NEW S, NEW s \in Seq(S), NEW i \in DOMAIN s
    PROVE  Touched(s, i) \in Seq(S) /\ \E f : Rearranged(f, s, Touched(s, i))
<1> DEFINE L == Len(s)
           f == [n \in 1..L |-> IF n < i THEN n ELSE IF n < L THEN n + 1 ELSE i]
           r == RemoveAt(s, i)
<1>1. L \in Nat /\ DOMAIN s = 1..L /\ i \in 1..L
  OBVIOUS
<1>2. r \in Seq(S) /\ Len(r) = L - 1 /\ \A n \in 1..(L - 1) : r[n] = (IF n < i THEN s[n] ELSE s[n + 1])
  <2> DEFINE a == SubSeq(s, 1, i - 1)  b == SubSeq(s, i + 1, L)
  <2>1. a \in Seq(S) /\ Len(a) = i - 1 /\ \A n \in 1..(i - 1) : a[n] = s[n]
    OBVIOUS
  <2>2. b \in Seq(S) /\ Len(b) = L - i /\ \A n \in 1..(L - i) : b[n] = s[i + n]
    OBVIOUS
  <2>3. r = a \o b
    BY DEF RemoveAt
  <2> HIDE DEF a, b, r
  <2>4. r \in Seq(S) /\ Len(r) = L - 1
    <3>1. r \in Seq(S) /\ Len(r) = Len(a) + Len(b)
      <4> HIDE DEF L
      <4> QED BY <2>1, <2>2, <2>3, ConcatProperties
    <3> HIDE DEF L
    <3>2. (i - 1) + (L - i) = L - 1
      BY <1>1
    <3> QED BY <2>1, <2>2, <3>1, <3>2
  <2>5. ASSUME NEW n \in 1..(L - 1) PROVE r[n] = (IF n < i THEN s[n] ELSE s[n + 1])
    <3>1. CASE n < i
      <4>1. n \in 1..Len(a) /\ r[n] = a[n]
        BY <1>1, <2>1, <2>2, <2>3, <3>1
      <4> QED BY <2>1, <3>1, <4>1
    <3>2. CASE ~(n < i)
      <4>1. n - (i - 1) \in 1..(L - i) /\ i + (n - (i - 1)) = n + 1
        BY <1>1, <3>2
      <4>2. r[n] = b[n - (i - 1)]
        BY <1>1, <2>1, <2>2, <2>3, <3>2
      <4> QED BY <2>2, <3>2, <4>1, <4>2
    <3> QED BY <3>1, <3>2
  <2> QED BY <2>4, <2>5
<1> HIDE DEF r
<1>3. Touched(s, i) = Append(r, s[i])
  BY DEF Touched, r
<1>4. s[i] \in S
  BY <1>1
<1>5. Touched(s, i) \in Seq(S) /\ DOMAIN Touched(s, i) = 1..L
  <2> HIDE DEF L
  <2>1. Append(r, s[i]) \in Seq(S) /\ Len(Append(r, s[i])) = (L - 1) + 1
    BY <1>2, <1>4, AppendProperties
  <2>2. (L - 1) + 1 = L
    BY <1>1
  <2> QED BY <1>3, <2>1, <2>2
<1>0. \A n \in 1..L : /\ n < i => f[n] = n
                      /\ n >= i /\ n < L => f[n] = n + 1
                      /\ n = L => f[n] = i
  <2> TAKE n \in 1..L
  <2> HIDE DEF L
  <2>1. f[n] = IF n < i THEN n ELSE IF n < L THEN n + 1 ELSE i
    OBVIOUS
  <2> HIDE DEF f
  <2>2. n \in Nat /\ i \in Nat /\ L \in Nat /\ i <= L
    BY <1>1
  <2>3. n < i => f[n] = n
    BY <2>1
  <2>4. n >= i /\ n < L => f[n] = n + 1
    BY <2>1, <2>2
  <2>5. n = L => f[n] = i
    BY <2>1, <2>2
  <2> QED BY <2>3, <2>4, <2>5
<1>6. f \in [1..L -> 1..L]
  BY <1>1
<1>7. \A m, n \in 1..L : f[m] = f[n] => m = n
  <2> SUFFICES ASSUME NEW m \in 1..L, NEW n \in 1..L, f[m] = f[n] PROVE m = n
    OBVIOUS
  <2> HIDE DEF f, L
  <2>1. (m < i \/ (m >= i /\ m < L) \/ m = L) /\ (n < i \/ (n >= i /\ n < L) \/ n = L)
    BY <1>1
  <2> QED BY <1>0, <1>1, <2>1
<1>8. ASSUME NEW j \in 1..L PROVE \E n \in 1..L : f[n] = j
  <2>1. CASE j < i
    BY <1>1, <2>1
  <2>2. CASE j = i
    <3>1. L \in 1..L /\ f[L] = i
      BY <1>1, <2>2
    <3> QED BY <2>2, <3>1
  <2>3. CASE j > i
    <3>1. j - 1 \in 1..L /\ f[j - 1] = j
      BY <1>1, <2>3
    <3> QED BY <3>1
  <2> QED BY <1>1, <2>1, <2>2, <2>3
<1>9. ASSUME NEW n \in 1..L PROVE Touched(s, i)[n] = s[f[n]]
  <2>1. CASE n = L
    BY <1>1, <1>2, <1>3, <2>1
  <2>2. CASE n # L
    <3> HIDE DEF f, L
    <3>0. n \in 1..(L - 1) /\ n \in 1..Len(r)
      BY <1>1, <1>2, <2>2
    <3>1. Touched(s, i)[n] = r[n]
      BY <1>2, <1>3, <3>0
    <3>2. n < i => f[n] = n
      BY <1>0
    <3>3. ~(n < i) => f[n] = n + 1
      BY <1>0, <1>1, <3>0
    <3> QED BY <1>2, <3>0, <3>1, <3>2, <3>3
  <2> QED BY <2>1, <2>2
<1> HIDE DEF f
<1>10. DOMAIN s = 1..L
  BY <1>1
<1> HIDE DEF L
<1>11. f \in [DOMAIN s -> DOMAIN s]
  BY <1>6, <1>10
<1>12. (\A m, n \in DOMAIN s : f[m] = f[n] => m = n) /\ (\A j \in DOMAIN s : \E n \in DOMAIN s : f[n] = j)
  BY <1>7, <1>8, <1>10
<1>13. \A n \in DOMAIN s : Touched(s, i)[n] = s[f[n]]
  BY <1>9, <1>10
<1>14. Touched(s, i) \in Seq(S) /\ DOMAIN Touched(s, i) = DOMAIN s
  BY <1>5, <1>10
<1>15. Rearranged(f, s, Touched(s, i))
  BY <1>11, <1>12, <1>13, <1>14 DEF Rearranged
<1> QED BY <1>14, <1>15

-----------------------------------------------------------------------------
(* The inductive invariant.                                                  *)

\* Where a run may be.
Places == {"key", "lease", "copy", "relocate", "replay", "install", "build", "rename",
           "claim", "trim", "command", "release", "done", "dead"}

\* The types of the state that runs keep.
Types ==
    /\ deps \in Workloads /\ pc \in [Run -> Places] /\ at \in [Run -> Nat]
    /\ \A r \in Run : at[r] \in DOMAIN deps[r]
    /\ DOMAIN tree = Run /\ \A r \in Run : DOMAIN tree[r] = DOMAIN deps[r]
    /\ held \in [Run -> SUBSET Nat] /\ \A r \in Run : held[r] \subseteq DOMAIN deps[r]
    /\ DOMAIN tmp = Run /\ spoiled \subseteq Run /\ damage \in 0..MaxDamage

\* Some run whose dir has the key has built the tree, complete and unspoilt.
Templated(k, t) ==
    \E b \in Run : \E j \in DOMAIN deps[b] :
        k = Key(deps[b][j]) /\ k # None /\ t = Template(b, Fresh(b, deps[b][j]))

\* An entry: the key of some dir, and some run's copy of its tree.
Stored == [key : {Key(d) : d \in Dirs}, tree : {Template(r, Fresh(r, d)) : r \in Run, d \in Dirs},
           leases : SUBSET (Run \X Nat), damaged : BOOLEAN]

\* The entries: one of a key, each as it was built.
StoreOK(s) ==
    /\ s \in Seq(Stored)
    /\ \A i, j \in DOMAIN s : s[i].key = s[j].key => i = j
    /\ \A i \in DOMAIN s : Templated(s[i].key, s[i].tree)

\* What a run holds on its way through a dir.
TreeOK(r) ==
    LET d == Dir(r)  t == tree[r][at[r]]
    IN  /\ pc[r] = "relocate" => Templated(Key(d), t)
        /\ pc[r] = "replay" => [t EXCEPT !.hooks = Allowlisted(d)] = Fresh(r, d)
        /\ pc[r] = "build" => Key(d) # None /\ t \in {Fresh(r, d), [Fresh(r, d) EXCEPT !.stray = TRUE]}
        /\ pc[r] = "rename" => Key(d) # None /\ tmp[r] \in {None, Template(r, Fresh(r, d))}

\* The hits of a run lie behind it.
Over == {"command", "release", "done", "dead"}
HitOK(h) ==
    /\ h \in Run \X Nat /\ h[2] \in DOMAIN deps[h[1]]
    /\ h[2] < at[h[1]] \/ pc[h[1]] \in Over
    /\ tree[h[1]][h[2]] = Fresh(h[1], deps[h[1]][h[2]])

\* The first half: what is in the store and in the dirs.
BuiltInv == Types /\ StoreOK(store) /\ (\A r \in Run : TreeOK(r)) /\ (\A h \in hits : HitOK(h))

\* A lease of a live run is one that it knows of, unless it could not be dropped.
LeaseOK(l) == Alive(l[1]) => l[2] \in held[l[1]] \/ spoiled # {}
\* All leases, and the leases of the entry with a key.
LeasesOf(s) == UNION {s[i].leases : i \in DOMAIN s}
Leased(s, k, l) == \E i \in DOMAIN s : s[i].key = k /\ l \in s[i].leases

\* The second half: whose leases there are, that a reader has one, and who is to trim.
LeaseInv ==
    /\ \A l \in LeasesOf(store) : LeaseOK(l)
    /\ \A r \in Run : pc[r] \in {"copy", "relocate"} => Leased(store, Key(Dir(r)), <<r, at[r]>>)
    /\ Cardinality(Sound(store)) > MaxBytes =>
          \/ spoiled # {}
          \/ \E r \in Run : held[r] # {} \/ pc[r] = "trim" \/ (pc[r] = "claim" /\ Has(Key(Dir(r))))

\* The dir that a run is at, and the others of its workload.
LEMMA DirType ==
    ASSUME Types, NEW r \in Run
    PROVE  /\ deps[r] \in Seq(Dirs) /\ deps[r] # <<>> /\ Dir(r) \in Dirs
           /\ \A j \in DOMAIN deps[r] : deps[r][j] \in Dirs
           /\ at[r] \in Nat /\ at[r] \in DOMAIN deps[r] /\ DOMAIN deps[r] = 1..Len(deps[r])
           /\ Len(deps[r]) \in Nat
<1>1. deps[r] \in Seq(Dirs) \ {<<>>}
  BY DepsAssumption DEF Types
<1>2. at[r] \in Nat /\ at[r] \in DOMAIN deps[r]
  BY DEF Types
<1> QED BY <1>1, <1>2 DEF Dir

\* To the next dir, or on to the command: the place that r comes to is new.
LEMMA AdvanceType ==
    ASSUME Types, NEW r \in Run, Advance(r)
    PROVE  /\ pc' = [pc EXCEPT ![r] = pc'[r]] /\ pc'[r] \in {"key", "command"} /\ pc' \in [Run -> Places]
           /\ at' = [at EXCEPT ![r] = at'[r]] /\ at' \in [Run -> Nat] /\ at'[r] \in DOMAIN deps[r]
           /\ at[r] < at'[r] \/ (at'[r] = at[r] /\ pc'[r] = "command")
<1>1. pc' = [pc EXCEPT ![r] = Next1(r)] /\ Next1(r) \in {"key", "command"}
  BY DEF Advance, Go, Next1
<1>2. pc' \in [Run -> Places] /\ pc'[r] = Next1(r)
  BY <1>1 DEF Types, Places
<1>3. at' = [at EXCEPT ![r] = IF @ < Len(deps[r]) THEN @ + 1 ELSE @]
  BY DEF Advance
<1>4. at[r] \in 1..Len(deps[r]) /\ Len(deps[r]) \in Nat /\ DOMAIN deps[r] = 1..Len(deps[r])
  BY DirType
<1>5. at' \in [Run -> Nat] /\ at'[r] = IF at[r] < Len(deps[r]) THEN at[r] + 1 ELSE at[r]
  BY <1>3, <1>4 DEF Types
<1>6. at'[r] \in DOMAIN deps[r] /\ (at[r] < at'[r] \/ (at'[r] = at[r] /\ pc'[r] = "command"))
  BY <1>2, <1>4, <1>5 DEF Next1
<1> QED BY <1>1, <1>2, <1>3, <1>5, <1>6

\* A step to a named place.
LEMMA GoType ==
    ASSUME Types, NEW r \in Run, NEW p \in Places, Go(r, p)
    PROVE  pc' \in [Run -> Places] /\ pc' = [pc EXCEPT ![r] = p] /\ pc'[r] = p
  BY DEF Go, Types

\* What a run puts into its dir.
LEMMA TreeType ==
    ASSUME Types, NEW r \in Run, NEW t, Tree(r, t)
    PROVE  /\ DOMAIN tree' = Run /\ \A q \in Run : DOMAIN tree'[q] = DOMAIN deps[q]
           /\ \A q \in Run : q # r => tree'[q] = tree[q]
           /\ tree'[r][at[r]] = t /\ \A j \in DOMAIN deps[r] : j # at[r] => tree'[r][j] = tree[r][j]
<1>1. tree' = [tree EXCEPT ![r] = [tree[r] EXCEPT ![at[r]] = t]]
  BY DEF Tree
<1>2. DOMAIN tree = Run /\ (\A q \in Run : DOMAIN tree[q] = DOMAIN deps[q]) /\ at[r] \in DOMAIN deps[r]
  BY DEF Types
<1> QED BY <1>1, <1>2

\* Who else is affected by a step of r, and how.
LEMMA StepTypes ==
    ASSUME Types, NEW r \in Run, Step(r) \/ Stray(r) \/ Kill(r)
    PROVE  /\ UNCHANGED <<deps, damage>>
           /\ pc' \in [Run -> Places] /\ pc' = [pc EXCEPT ![r] = pc'[r]]
           /\ at' \in [Run -> Nat] /\ at' = [at EXCEPT ![r] = at'[r]] /\ at'[r] \in DOMAIN deps[r]
           /\ DOMAIN tree' = Run /\ (\A q \in Run : DOMAIN tree'[q] = DOMAIN deps[q])
           /\ \A q \in Run : q # r => tree'[q] = tree[q]
           /\ \A j \in DOMAIN deps[r] : j # at[r] => tree'[r][j] = tree[r][j]
           /\ held' \in [Run -> SUBSET Nat] /\ held' = [held EXCEPT ![r] = held'[r]]
           /\ held'[r] \subseteq DOMAIN deps[r]
           /\ DOMAIN tmp' = Run /\ (\A q \in Run : q # r => tmp'[q] \in {tmp[q], None})
           /\ spoiled \subseteq spoiled' /\ spoiled' \subseteq Run
<1> DEFINE P == pc' \in [Run -> Places] /\ pc' = [pc EXCEPT ![r] = pc'[r]]
           A == at' \in [Run -> Nat] /\ at' = [at EXCEPT ![r] = at'[r]] /\ at'[r] \in DOMAIN deps[r]
           T == /\ DOMAIN tree' = Run /\ (\A q \in Run : DOMAIN tree'[q] = DOMAIN deps[q])
                /\ \A q \in Run : q # r => tree'[q] = tree[q]
                /\ \A j \in DOMAIN deps[r] : j # at[r] => tree'[r][j] = tree[r][j]
           H == /\ held' \in [Run -> SUBSET Nat] /\ held' = [held EXCEPT ![r] = held'[r]]
                /\ held'[r] \subseteq DOMAIN deps[r]
           M == DOMAIN tmp' = Run /\ (\A q \in Run : q # r => tmp'[q] \in {tmp[q], None})
           B == spoiled \subseteq spoiled' /\ spoiled' \subseteq Run
<1>a. UNCHANGED at => A
  BY DEF Types
<1>t. UNCHANGED tree => T
  BY DEF Types
<1>h. UNCHANGED held => H
  BY DEF Types
<1>m. UNCHANGED tmp => M
  BY DEF Types
<1>s. UNCHANGED spoiled => B
  BY DEF Types
<1>p. UNCHANGED pc => P
  BY DEF Types
<1>g. \A p \in Places : Go(r, p) => P
  BY GoType
<1>v. Advance(r) => P /\ A
  BY AdvanceType
<1>w. ASSUME NEW t, Tree(r, t) PROVE T
  BY <1>w, TreeType
<1>l. held' = [held EXCEPT ![r] = @ \cup {at[r]}] => H
  BY DEF Types
<1>x. ASSUME NEW old \in SUBSET {q \in Run : tmp[q] # None}, tmp' = Swept(old) PROVE M
  BY <1>x DEF Swept
<1>y. spoiled' = spoiled \cup {r} => B
  BY DEF Types
<1> SUFFICES UNCHANGED <<deps, damage>> /\ P /\ A /\ T /\ H /\ M /\ B
  OBVIOUS
<1> HIDE DEF P, A, T, H, M, B
<1>1. CASE Lookup(r)
  <2>1. P
    BY <1>1, <1>g DEF Lookup, Places
  <2> QED BY <1>1, <2>1, <1>a, <1>t, <1>h, <1>m, <1>s DEF Lookup
<1>2. CASE Lease(r)
  <2>1. P /\ H
    BY <1>2, <1>g, <1>l, <1>h DEF Lease, Places
  <2> QED BY <1>2, <2>1, <1>a, <1>t, <1>m, <1>s DEF Lease
<1>3. CASE Copy(r)
  <2>1. P /\ T
    BY <1>3, <1>g, <1>w, <1>t DEF Copy, Places
  <2> QED BY <1>3, <2>1, <1>a, <1>h, <1>m, <1>s DEF Copy
<1>4. CASE Relocate(r)
  <2>1. P /\ T
    BY <1>4, <1>g, <1>w DEF Relocate, Places, Discard
  <2> QED BY <1>4, <2>1, <1>a, <1>h, <1>m, <1>s DEF Relocate
<1>5. CASE Replay(r)
  <2>1. P /\ A /\ T
    BY <1>5, <1>g, <1>w, <1>v, <1>a DEF Replay, Places, Discard
  <2> QED BY <1>5, <2>1, <1>h, <1>m, <1>s DEF Replay
<1>6. CASE Install(r)
  <2>1. P /\ A /\ T
    <3>1. CASE Go(r, "release") /\ UNCHANGED <<at, tree>>
      BY <3>1, <1>g, <1>a, <1>t DEF Places
    <3>2. ASSUME NEW f, Tree(r, Installed(r, Dir(r), f)), Advance(r) \/ (Go(r, "build") /\ UNCHANGED at)
          PROVE  P /\ A /\ T
      BY <3>2, <1>g, <1>a, <1>v, <1>w DEF Places
    <3> QED BY <1>6, <3>1, <3>2, Zenon DEF Install
  <2> QED BY <1>6, <2>1, <1>h, <1>m, <1>s DEF Install
<1>7. CASE Build(r)
  <2>1. P /\ A
    BY <1>7, <1>g, <1>v, <1>a DEF Build, Places
  <2>2. M
    BY <1>7 DEF Build, M, Types
  <2> QED BY <1>7, <2>1, <2>2, <1>h, <1>t, <1>s DEF Build
<1>8. CASE Publish(r)
  <2>1. P /\ A
    BY <1>8, <1>g, <1>v, <1>a DEF Publish, Places
  <2>2. M
    BY <1>8 DEF Publish, M, Types
  <2> QED BY <1>8, <2>1, <2>2, <1>h, <1>t, <1>s DEF Publish
<1>9. CASE Claim(r)
  <2>1. P /\ A /\ H
    BY <1>9, <1>g, <1>v, <1>a, <1>l, <1>h DEF Claim, Places
  <2>2. B
    BY <1>9, <1>s, <1>y DEF Claim
  <2> QED BY <1>9, <2>1, <2>2, <1>m, <1>t DEF Claim
<1>10. CASE Trim(r)
  <2>1. P /\ A
    BY <1>10, <1>v DEF Trim
  <2>2. M /\ B
    BY <1>10, <1>m, <1>s, <1>x, <1>y DEF Trim
  <2> QED BY <1>10, <2>1, <2>2, <1>h, <1>t DEF Trim
<1>11. CASE Command(r)
  <2>1. P
    BY <1>11, <1>g DEF Command, Places
  <2> QED BY <1>11, <2>1, <1>a, <1>t, <1>h, <1>m, <1>s DEF Command
<1>12. CASE Release(r)
  <2>1. CASE held[r] = {}
    <3>1. P
      BY <1>12, <2>1, <1>g DEF Release, Places
    <3> QED BY <1>12, <2>1, <3>1, <1>a, <1>t, <1>h, <1>m, <1>s DEF Release
  <2>2. CASE held[r] # {}
    <3>1. M /\ B
      BY <1>12, <2>2, <1>m, <1>s, <1>x, <1>y DEF Release
    <3>2. H
      BY <1>12, <2>2 DEF Release, H, Types
    <3> QED BY <1>12, <2>2, <3>1, <3>2, <1>p, <1>a, <1>t DEF Release
  <2> QED BY <2>1, <2>2
<1>13. CASE Stray(r)
  <2>1. T
    BY <1>13, <1>w DEF Stray
  <2> QED BY <1>13, <2>1, <1>p, <1>a, <1>h, <1>m, <1>s DEF Stray
<1>14. CASE Kill(r)
  <2>1. P
    BY <1>14, <1>g DEF Kill, Places
  <2>2. B
    BY <1>14, <1>y DEF Kill
  <2> QED BY <1>14, <2>1, <2>2, <1>a, <1>t, <1>h, <1>m DEF Kill
<1> QED BY <1>1, <1>2, <1>3, <1>4, <1>5, <1>6, <1>7, <1>8, <1>9, <1>10, <1>11, <1>12, <1>13, <1>14 DEF Step

\* The types hold at the start.
LEMMA TypesInit == DepsInit => Types
<1> SUFFICES ASSUME DepsInit PROVE Types
  OBVIOUS
<1>1. \A r \in Run : 1 \in DOMAIN deps[r]
  <2> TAKE r \in Run
  <2>1. deps[r] \in Seq(Dirs) \ {<<>>}
    BY DepsAssumption DEF DepsInit
  <2> QED BY <2>1
<1>2. pc \in [Run -> Places]
  BY DEF DepsInit, Places
<1>3. DOMAIN tree = Run /\ \A r \in Run : DOMAIN tree[r] = DOMAIN deps[r]
  BY DEF DepsInit
<1> QED BY <1>1, <1>2, <1>3, DepsAssumption DEF DepsInit, Types

\* Every step keeps the types.
LEMMA TypesStep == Types /\ [DepsNext]_vars => Types'
<1> SUFFICES ASSUME Types, [DepsNext]_vars PROVE Types'
  OBVIOUS
<1>1. ASSUME NEW r \in Run, Step(r) \/ Stray(r) \/ Kill(r) PROVE Types'
  <2>1. /\ UNCHANGED <<deps, damage>>
        /\ pc' \in [Run -> Places]
        /\ at' \in [Run -> Nat] /\ at' = [at EXCEPT ![r] = at'[r]] /\ at'[r] \in DOMAIN deps[r]
        /\ DOMAIN tree' = Run /\ (\A q \in Run : DOMAIN tree'[q] = DOMAIN deps[q])
        /\ held' \in [Run -> SUBSET Nat] /\ held' = [held EXCEPT ![r] = held'[r]]
        /\ held'[r] \subseteq DOMAIN deps[r]
        /\ DOMAIN tmp' = Run /\ spoiled' \subseteq Run
    BY <1>1, StepTypes
  <2>2. \A q \in Run : at'[q] \in DOMAIN deps[q]
    BY <2>1 DEF Types
  <2>3. \A q \in Run : held'[q] \subseteq DOMAIN deps[q]
    BY <2>1 DEF Types
  <2> QED BY <2>1, <2>2, <2>3 DEF Types
<1>2. CASE Damage
  BY <1>2, DepsAssumption DEF Damage, Types
<1>3. CASE UNCHANGED vars
  BY <1>3 DEF vars, Types
<1> QED BY <1>1, <1>2, <1>3 DEF DepsNext

-----------------------------------------------------------------------------
(* What happens to the entries of the store.                                 *)

\* The entries of t are entries of s, with no leases but theirs and new ones.
Comes(s, t, new) ==
    \E f \in [DOMAIN t -> DOMAIN s] :
        /\ \A m, n \in DOMAIN t : f[m] = f[n] => m = n
        /\ \A n \in DOMAIN t : /\ t[n].key = s[f[n]].key /\ t[n].tree = s[f[n]].tree
                               /\ t[n].leases \subseteq s[f[n]].leases \cup new

\* A lease that an entry has in s it has in t.
Stays(s, t, l) == \A k : Leased(s, k, l) => Leased(t, k, l)

\* An entry with other leases, and a damaged one, are entries with the same key and tree.
LEMMA StoredEdits ==
    ASSUME NEW e \in Stored, NEW L \in SUBSET (Run \X Nat)
    PROVE  /\ LET x == [e EXCEPT !.leases = L]
              IN  x \in Stored /\ x.key = e.key /\ x.tree = e.tree /\ x.damaged = e.damaged /\ x.leases = L
           /\ LET x == [e EXCEPT !.damaged = TRUE]
              IN  x \in Stored /\ x.key = e.key /\ x.tree = e.tree /\ x.damaged = TRUE /\ x.leases = e.leases
<1> DEFINE K == {Key(d) : d \in Dirs}  T == {Template(r, Fresh(r, d)) : r \in Run, d \in Dirs}
<1>1. Stored = [key : K, tree : T, leases : SUBSET (Run \X Nat), damaged : BOOLEAN]
  BY DEF Stored
<1> HIDE DEF K, T
<1> QED BY <1>1

\* A lease names a run and a dir of it.
LEMMA StoredLeases == \A e \in Stored : e.leases \subseteq Run \X Nat
  BY DEF Stored

\* A store whose entries come from a good one is a good one.
LEMMA StoreKept ==
    ASSUME NEW s, StoreOK(s), NEW t \in Seq(Stored), NEW new, Comes(s, t, new)
    PROVE  StoreOK(t)
<1>1. PICK f \in [DOMAIN t -> DOMAIN s] :
          /\ \A m, n \in DOMAIN t : f[m] = f[n] => m = n
          /\ \A n \in DOMAIN t : t[n].key = s[f[n]].key /\ t[n].tree = s[f[n]].tree
  BY DEF Comes
<1>2. \A i, j \in DOMAIN t : t[i].key = t[j].key => i = j
  BY <1>1 DEF StoreOK
<1>3. \A i \in DOMAIN t : Templated(t[i].key, t[i].tree)
  BY <1>1 DEF StoreOK
<1> QED BY <1>2, <1>3 DEF StoreOK

\* Two changes of the store, one after the other, make one.
LEMMA ComesThrough ==
    ASSUME NEW s, NEW t, NEW u, Comes(s, t, {}), Comes(t, u, {}) PROVE Comes(s, u, {})
<1>1. PICK f \in [DOMAIN t -> DOMAIN s] :
          /\ \A m, n \in DOMAIN t : f[m] = f[n] => m = n
          /\ \A n \in DOMAIN t : /\ t[n].key = s[f[n]].key /\ t[n].tree = s[f[n]].tree
                                 /\ t[n].leases \subseteq s[f[n]].leases
  BY DEF Comes
<1>2. PICK g \in [DOMAIN u -> DOMAIN t] :
          /\ \A m, n \in DOMAIN u : g[m] = g[n] => m = n
          /\ \A n \in DOMAIN u : /\ u[n].key = t[g[n]].key /\ u[n].tree = t[g[n]].tree
                                 /\ u[n].leases \subseteq t[g[n]].leases
  BY DEF Comes
<1> DEFINE h == [n \in DOMAIN u |-> f[g[n]]]
<1>3. h \in [DOMAIN u -> DOMAIN s] /\ \A n \in DOMAIN u : h[n] = f[g[n]] /\ g[n] \in DOMAIN t
  BY <1>1, <1>2
<1> HIDE DEF h
<1>4. \A m, n \in DOMAIN u : h[m] = h[n] => m = n
  BY <1>1, <1>2, <1>3
<1>5. \A n \in DOMAIN u : /\ u[n].key = s[h[n]].key /\ u[n].tree = s[h[n]].tree
                          /\ u[n].leases \subseteq s[h[n]].leases \cup {}
  BY <1>1, <1>2, <1>3
<1> QED BY <1>3, <1>4, <1>5 DEF Comes

\* The entries stay where they are.
LEMMA SamePlaces ==
    ASSUME NEW s, NEW t, NEW new, DOMAIN t = DOMAIN s,
           \A n \in DOMAIN s : /\ t[n].key = s[n].key /\ t[n].tree = s[n].tree
                               /\ t[n].leases \subseteq s[n].leases \cup new
    PROVE  Comes(s, t, new)
<1> DEFINE f == [n \in DOMAIN t |-> n]
<1>1. f \in [DOMAIN t -> DOMAIN s] /\ \A n \in DOMAIN t : f[n] = n
  OBVIOUS
<1> HIDE DEF f
<1> QED BY <1>1 DEF Comes

\* An entry is leased.
LEMMA LeaseAdded ==
    ASSUME NEW s \in Seq(Stored), NEW i \in DOMAIN s, NEW l \in Run \X Nat
    PROVE  LET t == [s EXCEPT ![i].leases = @ \cup {l}]
           IN  /\ t \in Seq(Stored) /\ Comes(s, t, {l}) /\ Leased(t, s[i].key, l)
               /\ \A m : Stays(s, t, m)
<1> DEFINE L == s[i].leases \cup {l}  t == [s EXCEPT ![i].leases = @ \cup {l}]
<1>1. t = [s EXCEPT ![i] = [s[i] EXCEPT !.leases = L]] /\ s[i] \in Stored
  OBVIOUS
<1>2. L \in SUBSET (Run \X Nat)
  BY <1>1, StoredLeases
<1> DEFINE e == [s[i] EXCEPT !.leases = L]
<1>3. e \in Stored /\ e.key = s[i].key /\ e.tree = s[i].tree /\ e.leases = L
  BY <1>1, <1>2, StoredEdits
<1> HIDE DEF e
<1>4. t \in Seq(Stored) /\ DOMAIN t = DOMAIN s /\ t[i] = e /\ \A n \in DOMAIN s : n # i => t[n] = s[n]
  <2>1. t = [s EXCEPT ![i] = e]
    BY <1>1 DEF e
  <2> HIDE DEF t
  <2> QED BY <1>3, <2>1
<1> HIDE DEF t
<1>5. \A n \in DOMAIN s : /\ t[n].key = s[n].key /\ t[n].tree = s[n].tree
                          /\ t[n].leases \subseteq s[n].leases \cup {l} /\ s[n].leases \subseteq t[n].leases
  BY <1>3, <1>4
<1>6. Comes(s, t, {l})
  BY <1>4, <1>5, SamePlaces
<1>7. Leased(t, s[i].key, l)
  BY <1>3, <1>4 DEF Leased
<1>8. \A m : Stays(s, t, m)
  BY <1>4, <1>5 DEF Stays, Leased
<1> QED BY <1>4, <1>6, <1>7, <1>8 DEF t

\* A lease is dropped, wherever it is.
LEMMA LeaseDropped ==
    ASSUME NEW s \in Seq(Stored), NEW l
    PROVE  LET t == Unleased(s, l)
           IN  /\ t \in Seq(Stored) /\ Comes(s, t, {}) /\ DOMAIN t = DOMAIN s
               /\ \A n \in DOMAIN t : l \notin t[n].leases
               /\ \A m : m # l => Stays(s, t, m)
<1> DEFINE t == Unleased(s, l)
<1>1. t = [i \in DOMAIN s |-> [s[i] EXCEPT !.leases = s[i].leases \ {l}]]
  BY DEF Unleased
<1>2. ASSUME NEW n \in DOMAIN s
      PROVE  /\ t[n] \in Stored /\ t[n].key = s[n].key /\ t[n].tree = s[n].tree
             /\ t[n].leases = s[n].leases \ {l}
  <2>1. s[n] \in Stored
    OBVIOUS
  <2>2. s[n].leases \ {l} \in SUBSET (Run \X Nat)
    BY <2>1, StoredLeases
  <2> DEFINE e == [s[n] EXCEPT !.leases = s[n].leases \ {l}]
  <2>3. e \in Stored /\ e.key = s[n].key /\ e.tree = s[n].tree /\ e.leases = s[n].leases \ {l}
    BY <2>1, <2>2, StoredEdits
  <2>4. t[n] = e
    BY <1>1
  <2> QED BY <2>3, <2>4
<1>3. DOMAIN t = DOMAIN s /\ t \in Seq(Stored)
  <2>1. DOMAIN t = DOMAIN s
    BY <1>1
  <2>2. DOMAIN s = 1..Len(s) /\ Len(s) \in Nat
    OBVIOUS
  <2>3. t \in [1..Len(s) -> Stored]
    BY <1>1, <1>2, <2>2
  <2> HIDE DEF t
  <2> QED BY <2>1, <2>2, <2>3
<1> HIDE DEF t
<1>4. Comes(s, t, {})
  BY <1>2, <1>3, SamePlaces
<1>5. \A m : m # l => Stays(s, t, m)
  BY <1>2, <1>3 DEF Stays, Leased
<1> QED BY <1>2, <1>3, <1>4, <1>5 DEF t

\* An entry becomes the most recently used.
LEMMA EntryTouched ==
    ASSUME NEW s \in Seq(Stored), NEW i \in DOMAIN s
    PROVE  LET t == Touched(s, i) IN t \in Seq(Stored) /\ Comes(s, t, {}) /\ \A m : Stays(s, t, m)
<1> DEFINE t == Touched(s, i)
<1>1. t \in Seq(Stored) /\ \E f : Rearranged(f, s, t)
  BY TouchedParts
<1>2. PICK f : Rearranged(f, s, t)
  BY <1>1
<1> HIDE DEF t
<1>3. Comes(s, t, {})
  BY <1>2 DEF Comes, Rearranged
<1>4. \A m : Stays(s, t, m)
  BY <1>2 DEF Stays, Leased, Rearranged
<1> QED BY <1>1, <1>3, <1>4 DEF t

\* Trimming takes no entry that a live run has leased.
LEMMA StoreTrimmed ==
    ASSUME NEW s \in Seq(Stored)
    PROVE  LET t == Trimmed(s)
           IN  /\ t \in Seq(Stored) /\ Comes(s, t, {})
               /\ \A l : Alive(l[1]) => Stays(s, t, l)
<1> DEFINE kept == DOMAIN s \ Victims(s)  t == Trimmed(s)
<1>1. PICK f \in [1..Cardinality(kept) -> kept] :
          /\ Cardinality(kept) \in Nat
          /\ \A m, n \in DOMAIN f : f[m] = f[n] => m = n
          /\ \A i \in kept : \E n \in DOMAIN f : f[n] = i
          /\ t = [n \in 1..Cardinality(kept) |-> s[f[n]]]
          /\ t \in Seq(Stored) /\ DOMAIN t = DOMAIN f
  BY TrimmedParts
<1>2. \A n \in DOMAIN t : t[n] = s[f[n]] /\ f[n] \in kept
  BY <1>1
<1> HIDE DEF t
<1>3. Comes(s, t, {})
  <2>1. f \in [DOMAIN t -> DOMAIN s]
    BY <1>1, <1>2
  <2> QED BY <1>1, <1>2, <2>1 DEF Comes
<1>4. ASSUME NEW l, Alive(l[1]), NEW k, Leased(s, k, l) PROVE Leased(t, k, l)
  <2>1. PICK i \in DOMAIN s : s[i].key = k /\ l \in s[i].leases
    BY <1>4 DEF Leased
  <2>2. i \notin Evictable(s)
    BY <1>4, <2>1 DEF Evictable, LiveLeases
  <2>3. i \in kept
    BY <2>2 DEF Victims
  <2>4. PICK n \in DOMAIN f : f[n] = i
    BY <1>1, <2>3
  <2> HIDE DEF kept
  <2> QED BY <1>1, <1>2, <2>1, <2>4 DEF Leased
<1> QED BY <1>1, <1>3, <1>4 DEF t, Stays

\* An entry loses its meta.json.
LEMMA EntryDamaged ==
    ASSUME NEW s \in Seq(Stored), NEW i \in DOMAIN s
    PROVE  LET t == [s EXCEPT ![i].damaged = TRUE]
           IN  /\ t \in Seq(Stored) /\ Comes(s, t, {}) /\ DOMAIN t = DOMAIN s
               /\ \A n \in DOMAIN s : t[n].key = s[n].key
               /\ \A m : Stays(s, t, m) /\ Sound(t) \subseteq Sound(s)
<1> DEFINE e == [s[i] EXCEPT !.damaged = TRUE]  t == [s EXCEPT ![i].damaged = TRUE]
<1>1. s[i] \in Stored
  OBVIOUS
<1>2. e \in Stored /\ e.key = s[i].key /\ e.tree = s[i].tree /\ e.leases = s[i].leases /\ e.damaged = TRUE
  <2>1. {} \in SUBSET (Run \X Nat)
    OBVIOUS
  <2> QED BY <1>1, <2>1, StoredEdits
<1>3. t = [s EXCEPT ![i] = e]
  OBVIOUS
<1> HIDE DEF e, t
<1>4. t \in Seq(Stored) /\ DOMAIN t = DOMAIN s /\ t[i] = e /\ \A n \in DOMAIN s : n # i => t[n] = s[n]
  BY <1>2, <1>3
<1>5. \A n \in DOMAIN s : t[n].key = s[n].key /\ t[n].tree = s[n].tree /\ t[n].leases = s[n].leases
                          /\ (~t[n].damaged => ~s[n].damaged)
  BY <1>2, <1>4
<1>6. Comes(s, t, {})
  BY <1>4, <1>5, SamePlaces
<1> QED BY <1>4, <1>5, <1>6 DEF t, Stays, Leased, Sound

\* There are no leases but the old and the new ones.
LEMMA ComesLeases ==
    ASSUME NEW s, NEW t, NEW new, Comes(s, t, new) PROVE LeasesOf(t) \subseteq LeasesOf(s) \cup new
<1>1. PICK f \in [DOMAIN t -> DOMAIN s] : \A n \in DOMAIN t : t[n].leases \subseteq s[f[n]].leases \cup new
  BY DEF Comes
<1> SUFFICES ASSUME NEW n \in DOMAIN t, NEW l \in t[n].leases PROVE l \in LeasesOf(s) \cup new
  BY DEF LeasesOf
<1> QED BY <1>1 DEF LeasesOf

\* The slot of a key is an entry that has it.
LEMMA SlotHas ==
    ASSUME NEW k, Has(k) PROVE Slot(k) \in DOMAIN store /\ store[Slot(k)].key = k
<1>1. Slot(k) \in Slots(k)
  BY DEF Has, Slot
<1> QED BY <1>1 DEF Slots

\* An entry that is put into place.
LEMMA StoreAppended ==
    ASSUME NEW s, StoreOK(s), NEW r \in Run, NEW d \in Dirs, Key(d) # None,
           \A i \in DOMAIN s : s[i].key # Key(d),
           \E j \in DOMAIN deps[r] : d = deps[r][j]
    PROVE  LET e == [key |-> Key(d), tree |-> Template(r, Fresh(r, d)), leases |-> {}, damaged |-> FALSE]
               t == Append(s, e)
           IN  StoreOK(t) /\ LeasesOf(t) \subseteq LeasesOf(s) /\ \A m : Stays(s, t, m)
<1> DEFINE x == Template(r, Fresh(r, d))
           e == [key |-> Key(d), tree |-> x, leases |-> {}, damaged |-> FALSE]  t == Append(s, e)
<1>1. e \in Stored
  <2> DEFINE K == {Key(c) : c \in Dirs}  T == {Template(q, Fresh(q, c)) : q \in Run, c \in Dirs}
  <2>1. Stored = [key : K, tree : T, leases : SUBSET (Run \X Nat), damaged : BOOLEAN]
    BY DEF Stored
  <2>2. Key(d) \in K /\ x \in T
    OBVIOUS
  <2> HIDE DEF K, T, x
  <2> QED BY <2>1, <2>2
<1>2. e.key = Key(d) /\ e.tree = x /\ e.leases = {}
  OBVIOUS
<1>3. Templated(e.key, e.tree)
  BY <1>2 DEF Templated
<1> HIDE DEF e
<1>4. s \in Seq(Stored)
  BY DEF StoreOK
<1>5. /\ t \in Seq(Stored) /\ Len(t) = Len(s) + 1 /\ DOMAIN t = 1..Len(s) + 1 /\ DOMAIN s = 1..Len(s)
      /\ Len(s) \in Nat
  BY <1>1, <1>4
<1>6. t[Len(s) + 1] = e /\ \A n \in DOMAIN s : t[n] = s[n]
  BY <1>1, <1>4
<1>7. \A n \in DOMAIN t : n \in DOMAIN s \/ n = Len(s) + 1
  BY <1>5
<1>8. DOMAIN s \subseteq DOMAIN t
  BY <1>5
<1> HIDE DEF t, x
<1>9. \A i, j \in DOMAIN t : t[i].key = t[j].key => i = j
  BY <1>2, <1>6, <1>7 DEF StoreOK
<1>10. \A i \in DOMAIN t : Templated(t[i].key, t[i].tree)
  BY <1>3, <1>6, <1>7 DEF StoreOK
<1>11. LeasesOf(t) \subseteq LeasesOf(s)
  BY <1>2, <1>6, <1>7 DEF LeasesOf
<1>12. \A m : Stays(s, t, m)
  BY <1>6, <1>8 DEF Stays, Leased
<1> QED BY <1>5, <1>9, <1>10, <1>11, <1>12 DEF StoreOK, t, e, x

\* What a run is given it is given for a dir that has the key; nobody but a run
\* itself gives up what it has.
LEMMA StepStore ==
    ASSUME Types, StoreOK(store), NEW r \in Run, Step(r) \/ Stray(r) \/ Kill(r), TreeOK(r)
    PROVE  /\ StoreOK(store')
           /\ \A l \in LeasesOf(store') : l \in LeasesOf(store) \/ (l = <<r, at[r]>> /\ at[r] \in held'[r])
           /\ \A q \in Run : q # r /\ Alive(q) => \A j : Stays(store, store', <<q, j>>)
<1> DEFINE k == Key(Dir(r))  l == <<r, at[r]>>
           Gains == \A m \in LeasesOf(store') : m \in LeasesOf(store) \/ (m = l /\ at[r] \in held'[r])
           Others == \A q \in Run : q # r /\ Alive(q) => \A j : Stays(store, store', <<q, j>>)
<1>1. store \in Seq(Stored) /\ l \in Run \X Nat /\ held \in [Run -> SUBSET Nat]
  BY DirType DEF StoreOK, Types
<1> SUFFICES StoreOK(store') /\ Gains /\ Others
  OBVIOUS
<1>2. UNCHANGED store => StoreOK(store') /\ Gains /\ Others
  BY DEF Stays
<1>3. ASSUME Comes(store, store', {}), store' \in Seq(Stored) PROVE StoreOK(store') /\ Gains
  BY <1>3, StoreKept, ComesLeases
<1>4. ASSUME Has(k), store' = [store EXCEPT ![Slot(k)].leases = @ \cup {l}],
             held' = [held EXCEPT ![r] = @ \cup {at[r]}]
      PROVE  StoreOK(store') /\ Gains /\ Others
  <2>1. /\ store' \in Seq(Stored) /\ Comes(store, store', {l}) /\ \A m : Stays(store, store', m)
    BY <1>1, <1>4, LeaseAdded, SlotHas
  <2>2. StoreOK(store')
    BY <2>1, StoreKept
  <2>3. LeasesOf(store') \subseteq LeasesOf(store) \cup {l}
    BY <2>1, ComesLeases
  <2>4. at[r] \in held'[r]
    BY <1>1, <1>4
  <2> HIDE DEF l
  <2> QED BY <2>1, <2>2, <2>3, <2>4
<1> HIDE DEF Gains
<1>5. CASE Lookup(r) \/ Copy(r) \/ Replay(r) \/ Install(r) \/ Build(r) \/ Command(r) \/ Stray(r) \/ Kill(r)
  BY <1>2, <1>5 DEF Lookup, Copy, Replay, Install, Build, Command, Stray, Kill
<1>6. CASE Lease(r)
  <2>1. CASE UNCHANGED store
    BY <1>2, <2>1
  <2>2. CASE ~UNCHANGED store
    <3>1. Has(k) /\ store' = [store EXCEPT ![Slot(k)].leases = @ \cup {l}] /\ held' = [held EXCEPT ![r] = @ \cup {at[r]}]
      BY <1>6, <2>2 DEF Lease
    <3> QED BY <1>4, <3>1
  <2> QED BY <2>1, <2>2
<1>7. CASE Claim(r)
  <2>1. CASE UNCHANGED store
    BY <1>2, <2>1
  <2>2. CASE ~UNCHANGED store
    <3>1. Has(k) /\ store' = [store EXCEPT ![Slot(k)].leases = @ \cup {l}] /\ held' = [held EXCEPT ![r] = @ \cup {at[r]}]
      BY <1>7, <2>2 DEF Claim
    <3> QED BY <1>4, <3>1
  <2> QED BY <2>1, <2>2
<1>8. CASE Relocate(r)
  <2>1. CASE UNCHANGED store
    BY <1>2, <2>1
  <2>2. CASE ~UNCHANGED store
    <3>1. Has(k) /\ store' = Touched(store, Slot(k))
      BY <1>8, <2>2 DEF Relocate
    <3>2. store' \in Seq(Stored) /\ Comes(store, store', {}) /\ \A m : Stays(store, store', m)
      BY <1>1, <3>1, EntryTouched, SlotHas
    <3> QED BY <1>3, <3>2
  <2> QED BY <2>1, <2>2
<1>9. CASE Publish(r)
  <2>1. CASE UNCHANGED store
    BY <1>2, <2>1
  <2>2. CASE ~UNCHANGED store
    <3>1. /\ tmp[r] # None /\ ~Has(k) /\ pc[r] = "rename"
          /\ store' = Append(store, [key |-> k, tree |-> tmp[r], leases |-> {}, damaged |-> FALSE])
      BY <1>9, <2>2 DEF Publish
    <3>2. tmp[r] = Template(r, Fresh(r, Dir(r))) /\ k # None
      BY <3>1 DEF TreeOK
    <3>3. \A i \in DOMAIN store : store[i].key # k
      BY <3>1 DEF Has, Slots
    <3>4. Dir(r) \in Dirs /\ \E j \in DOMAIN deps[r] : Dir(r) = deps[r][j]
      BY DirType DEF Dir
    <3>5. StoreOK(store') /\ LeasesOf(store') \subseteq LeasesOf(store) /\ \A m : Stays(store, store', m)
      BY <3>1, <3>2, <3>3, <3>4, StoreAppended
    <3> QED BY <3>5 DEF Gains
  <2> QED BY <2>1, <2>2
<1>10. CASE Trim(r)
  <2>1. CASE UNCHANGED store
    BY <1>2, <2>1
  <2>2. CASE ~UNCHANGED store
    <3>1. store' = Trimmed(store)
      BY <1>10, <2>2 DEF Trim
    <3>2. store' \in Seq(Stored) /\ Comes(store, store', {}) /\ \A m : Alive(m[1]) => Stays(store, store', m)
      BY <1>1, <3>1, StoreTrimmed
    <3>3. Others
      BY <3>2
    <3> QED BY <1>3, <3>2, <3>3
  <2> QED BY <2>1, <2>2
<1>11. CASE Release(r)
  <2>1. CASE UNCHANGED store
    BY <1>2, <2>1
  <2>2. CASE ~UNCHANGED store
    <3> DEFINE m == <<r, Min(held[r])>>  mid == Unleased(store, m)
    <3>1. store' = Trimmed(mid)
      BY <1>11, <2>2 DEF Release
    <3>2. mid \in Seq(Stored) /\ Comes(store, mid, {}) /\ \A n : n # m => Stays(store, mid, n)
      BY <1>1, LeaseDropped
    <3> HIDE DEF mid
    <3>3. store' \in Seq(Stored) /\ Comes(mid, store', {}) /\ \A n : Alive(n[1]) => Stays(mid, store', n)
      BY <3>1, <3>2, StoreTrimmed
    <3>4. Comes(store, store', {})
      BY <3>2, <3>3, ComesThrough
    <3>5. Others
      <4> SUFFICES ASSUME NEW q \in Run, q # r, Alive(q), NEW j PROVE Stays(store, store', <<q, j>>)
        OBVIOUS
      <4>1. <<q, j>> # m /\ <<q, j>>[1] = q
        OBVIOUS
      <4>2. Stays(store, mid, <<q, j>>) /\ Stays(mid, store', <<q, j>>)
        BY <3>2, <3>3, <4>1
      <4> QED BY <4>2 DEF Stays
    <3> QED BY <1>3, <3>3, <3>4, <3>5
  <2> QED BY <2>1, <2>2
<1> QED BY <1>5, <1>6, <1>7, <1>8, <1>9, <1>10, <1>11 DEF Step

-----------------------------------------------------------------------------
(* What runs have in their dirs.                                             *)

\* A step of one run leaves what the others have in their dirs.
LEMMA OthersKeep ==
    ASSUME Types, NEW r \in Run, Step(r) \/ Stray(r) \/ Kill(r), NEW q \in Run, q # r, TreeOK(q)
    PROVE  TreeOK(q)'
<1>1. /\ deps' = deps /\ pc' = [pc EXCEPT ![r] = pc'[r]] /\ at' = [at EXCEPT ![r] = at'[r]]
      /\ tree'[q] = tree[q] /\ tmp'[q] \in {tmp[q], None}
  BY StepTypes
<1>2. pc'[q] = pc[q] /\ at'[q] = at[q]
  BY <1>1 DEF Types
<1>3. Dir(q)' = Dir(q)
  BY <1>1, <1>2 DEF Dir
<1> QED BY <1>1, <1>2, <1>3 DEF TreeOK, Templated

\* A run does not come back to a dir.
LEMMA StepForth ==
    ASSUME Types, NEW r \in Run, Step(r) \/ Stray(r) \/ Kill(r)
    PROVE  at[r] <= at'[r] /\ (pc[r] \in Over => pc'[r] \in Over /\ UNCHANGED tree)
<1>1. at[r] \in Nat /\ pc \in [Run -> Places]
  BY DEF Types
<1>2. Advance(r) => at[r] <= at'[r]
  <2> SUFFICES ASSUME Advance(r) PROVE at[r] <= at'[r]
    OBVIOUS
  <2>1. at'[r] \in Nat /\ (at[r] < at'[r] \/ at'[r] = at[r])
    BY AdvanceType
  <2> QED BY <1>1, <2>1
<1>3. at[r] <= at'[r]
  <2>1. UNCHANGED at \/ Advance(r)
    BY DEF Step, Lookup, Lease, Copy, Relocate, Replay, Install, Build, Publish, Claim, Trim, Command,
           Release, Stray, Kill
  <2> QED BY <1>1, <1>2, <2>1
<1>4. ASSUME pc[r] \in Over PROVE pc'[r] \in Over /\ UNCHANGED tree
  <2>1. Command(r) \/ Release(r) \/ Kill(r)
    BY <1>4 DEF Over, Step, Lookup, Lease, Copy, Relocate, Replay, Install, Build, Publish, Claim, Trim, Stray
  <2>2. UNCHANGED tree
    BY <2>1 DEF Command, Release, Kill
  <2>3. UNCHANGED pc \/ Go(r, "release") \/ Go(r, "done") \/ Go(r, "dead")
    BY <2>1 DEF Command, Release, Kill
  <2> QED BY <1>1, <1>4, <2>2, <2>3 DEF Go, Over
<1> QED BY <1>3, <1>4

\* A tree that was recorded as a hit is not touched again.
LEMMA HitsKeep ==
    ASSUME Types, NEW r \in Run, Step(r) \/ Stray(r) \/ Kill(r), NEW h, HitOK(h) PROVE HitOK(h)'
<1>1. /\ deps' = deps /\ pc' = [pc EXCEPT ![r] = pc'[r]] /\ at' = [at EXCEPT ![r] = at'[r]]
      /\ \A q \in Run : q # r => tree'[q] = tree[q]
      /\ \A j \in DOMAIN deps[r] : j # at[r] => tree'[r][j] = tree[r][j]
  BY StepTypes
<1>2. h \in Run \X Nat /\ h[1] \in Run /\ h[2] \in Nat /\ h[2] \in DOMAIN deps[h[1]]
  BY DEF HitOK
<1>3. Fresh(h[1], deps[h[1]][h[2]])' = Fresh(h[1], deps[h[1]][h[2]])
  BY <1>1
<1>4. CASE h[1] # r
  <2>1. pc'[h[1]] = pc[h[1]] /\ at'[h[1]] = at[h[1]] /\ tree'[h[1]] = tree[h[1]]
    BY <1>1, <1>2, <1>4 DEF Types
  <2> QED BY <1>1, <1>2, <1>3, <2>1 DEF HitOK
<1>5. CASE h[1] = r
  <2>1. at[r] <= at'[r] /\ (pc[r] \in Over => pc'[r] \in Over /\ UNCHANGED tree)
    BY StepForth
  <2>2. CASE pc[r] \in Over
    BY <1>1, <1>2, <1>3, <1>5, <2>1, <2>2 DEF HitOK
  <2>3. CASE pc[r] \notin Over
    <3>1. h[2] < at[r] /\ at[r] \in Nat
      BY <1>5, <2>3 DEF HitOK, Types
    <3>2. at'[r] \in Nat
      <4>1. at' \in [Run -> Nat]
        BY StepTypes
      <4> QED BY <4>1
    <3>3. h[2] < at'[r] /\ h[2] # at[r]
      BY <1>2, <2>1, <3>1, <3>2
    <3>4. tree'[r][h[2]] = tree[r][h[2]]
      BY <1>1, <1>2, <1>5, <3>3
    <3> QED BY <1>1, <1>2, <1>3, <1>5, <3>3, <3>4 DEF HitOK
  <2> QED BY <2>2, <2>3
<1> QED BY <1>4, <1>5

\* A tree as r's own install would leave it, and one with a stray file.
LEMMA StrayParts ==
    ASSUME NEW r \in Run, NEW d \in Dirs
    PROVE  Fresh(r, d).stray = FALSE /\ [Fresh(r, d) EXCEPT !.stray = TRUE].stray = TRUE
<1>1. Fresh(r, d).stray = FALSE
  BY FreshParts
<1>2. "stray" \in DOMAIN Fresh(r, d)
  BY DEF Fresh, Installed
<1> QED BY <1>1, <1>2

\* A tree copied from the store that can be relocated is, but for the hooks, r's own.
LEMMA RestoredHere ==
    ASSUME Types, NEW r \in Run, NEW t, Templated(Key(Dir(r)), t), Relocatable(r, t)
    PROVE  [Relocated(r, t) EXCEPT !.hooks = Allowlisted(Dir(r))] = Fresh(r, Dir(r))
<1>0. PICK b \in Run : \E j \in DOMAIN deps[b] :
          Key(Dir(r)) = Key(deps[b][j]) /\ Key(Dir(r)) # None /\ t = Template(b, Fresh(b, deps[b][j]))
  BY DEF Templated
<1>1. PICK j \in DOMAIN deps[b] :
          Key(Dir(r)) = Key(deps[b][j]) /\ Key(Dir(r)) # None /\ t = Template(b, Fresh(b, deps[b][j]))
  BY <1>0
<1> DEFINE d == deps[b][j]  e == Dir(r)
<1>2. d \in Dirs /\ e \in Dirs /\ at[r] \in DOMAIN deps[r] /\ e = deps[r][at[r]]
  BY DirType DEF Dir
<1>3. deps \in Workloads
  BY DEF Types
<1>4. d.names = e.names /\ \A m \in Roles : PathsOf[b][m] = None <=> PathsOf[r][m] = None
  BY <1>1, <1>2, <1>3, PathsAssumption
<1> HIDE DEF d, e
<1>5. Key(d) = Key(e) /\ Key(d) # None /\ t = Template(b, Fresh(b, d)) /\ Relocatable(r, Template(b, Fresh(b, d)))
  BY <1>1 DEF d, e
<1>6. [Relocated(r, Template(b, Fresh(b, d))) EXCEPT !.hooks = Allowlisted(e)] = Fresh(r, e)
  BY <1>2, <1>4, <1>5, RestoredIsFresh
<1> QED BY <1>5, <1>6 DEF e

\* What r has in its dir after its own step.
LEMMA OwnTree ==
    ASSUME Types, StoreOK(store), NEW r \in Run, Step(r) \/ Stray(r) \/ Kill(r), TreeOK(r)
    PROVE  TreeOK(r)'
<1> DEFINE d == Dir(r)  k == Key(d)  t == tree[r][at[r]]
           On == {"relocate", "replay", "build", "rename"}
<1>1. deps' = deps /\ pc \in [Run -> Places] /\ pc' \in [Run -> Places] /\ d \in Dirs /\ DOMAIN tmp = Run
  BY StepTypes, DirType DEF Types
<1>2. pc'[r] \notin On => TreeOK(r)'
  BY DEF TreeOK
<1>3. \A p : Go(r, p) => pc'[r] = p
  BY <1>1 DEF Go
<1>4. Advance(r) => pc'[r] \in {"key", "command"}
  BY AdvanceType
<1>5. UNCHANGED at => Dir(r)' = d
  BY <1>1 DEF Dir
<1>6. \A u : Tree(r, u) => tree'[r][at[r]] = u
  BY TreeType
<1>f. \A x : Fresh(r, x)' = Fresh(r, x) /\ Template(r, x)' = Template(r, x)
  OBVIOUS
<1>7. CASE Copy(r)
  <2>1. CASE Go(r, "install")
    BY <1>2, <1>3, <2>1
  <2>2. CASE ~Go(r, "install")
    <3>1. Has(k) /\ Tree(r, store[Slot(k)].tree) /\ Go(r, "relocate") /\ UNCHANGED at
      BY <1>7, <2>2 DEF Copy
    <3>2. Templated(store[Slot(k)].key, store[Slot(k)].tree) /\ store[Slot(k)].key = k
      BY <3>1, SlotHas DEF StoreOK
    <3>3. pc'[r] = "relocate" /\ Dir(r)' = d /\ tree'[r][at'[r]] = store[Slot(k)].tree
      BY <1>3, <1>5, <1>6, <3>1
    <3>4. Templated(k, store[Slot(k)].tree)
      BY <3>2
    <3>5. Templated(Key(Dir(r)), tree[r][at[r]])'
      BY <1>1, <3>3, <3>4 DEF Templated
    <3> QED BY <3>3, <3>5 DEF TreeOK
  <2> QED BY <2>1, <2>2
<1>8. CASE Relocate(r)
  <2>1. CASE Go(r, "install")
    BY <1>2, <1>3, <2>1
  <2>2. CASE ~Go(r, "install")
    <3>1. Relocatable(r, t) /\ Tree(r, Relocated(r, t)) /\ Go(r, "replay") /\ UNCHANGED at /\ pc[r] = "relocate"
      BY <1>8, <2>2 DEF Relocate
    <3>2. Templated(k, t)
      BY <3>1 DEF TreeOK
    <3>3. [Relocated(r, t) EXCEPT !.hooks = Allowlisted(d)] = Fresh(r, d)
      BY <3>1, <3>2, RestoredHere
    <3>4. pc'[r] = "replay" /\ Dir(r)' = d /\ tree'[r][at'[r]] = Relocated(r, t)
      BY <1>3, <1>5, <1>6, <3>1
    <3> QED BY <3>3, <3>4 DEF TreeOK
  <2> QED BY <2>1, <2>2
<1>9. CASE Install(r)
  <2>1. CASE Go(r, "release") \/ Advance(r)
    BY <1>2, <1>3, <1>4, <2>1
  <2>2. CASE ~(Go(r, "release") \/ Advance(r))
    <3>1. PICK failed : /\ Tree(r, Installed(r, d, failed)) /\ Go(r, "build") /\ UNCHANGED at
                        /\ k # None /\ Missing(d, Reached(d, failed)) = {}
      BY <1>9, <2>2, Zenon DEF Install
    <3>2. Reached(d, failed) = Reached(d, {})
      BY <1>1, <3>1, CompleteIsFresh
    <3>3. Installed(r, d, failed) = Fresh(r, d)
      BY <3>2 DEF Fresh, Installed
    <3>4. pc'[r] = "build" /\ Dir(r)' = d /\ tree'[r][at'[r]] = Fresh(r, d)
      BY <1>3, <1>5, <1>6, <3>1, <3>3
    <3> QED BY <3>1, <3>4 DEF TreeOK
  <2> QED BY <2>1, <2>2
<1>10. CASE Stray(r)
  <2>1. pc[r] = "build" /\ ~t.stray /\ Tree(r, [t EXCEPT !.stray = TRUE]) /\ UNCHANGED <<pc, at>>
    BY <1>10 DEF Stray
  <2>2. t = Fresh(r, d) /\ k # None
    BY <1>1, <2>1, StrayParts DEF TreeOK
  <2>3. pc'[r] = "build" /\ Dir(r)' = d /\ tree'[r][at'[r]] = [Fresh(r, d) EXCEPT !.stray = TRUE]
    BY <1>5, <1>6, <2>1, <2>2
  <2> QED BY <2>2, <2>3 DEF TreeOK
<1>11. CASE Build(r)
  <2>1. CASE Advance(r)
    BY <1>2, <1>4, <2>1
  <2>2. CASE ~Advance(r)
    <3>1. /\ pc[r] = "build" /\ ~t.stray /\ tmp' = [tmp EXCEPT ![r] = Template(r, t)] /\ Go(r, "rename")
          /\ UNCHANGED <<at, tree>>
      BY <1>11, <2>2 DEF Build, NamesInstallPath
    <3>2. t = Fresh(r, d) /\ k # None
      BY <1>1, <3>1, StrayParts DEF TreeOK
    <3>3. pc'[r] = "rename" /\ Dir(r)' = d /\ tmp'[r] = Template(r, Fresh(r, d))
      BY <1>1, <1>3, <1>5, <3>1, <3>2
    <3> QED BY <3>2, <3>3 DEF TreeOK
  <2> QED BY <2>1, <2>2
<1>12. CASE Lookup(r) \/ Lease(r) \/ Replay(r) \/ Publish(r) \/ Claim(r) \/ Trim(r) \/ Command(r)
            \/ Release(r) \/ Kill(r)
  <2>1. \/ Advance(r) \/ (pc[r] = "release" /\ UNCHANGED pc)
        \/ \E p \in {"lease", "install", "copy", "claim", "trim", "release", "done", "dead"} : Go(r, p)
    BY <1>12 DEF Lookup, Lease, Replay, Publish, Claim, Trim, Command, Release, Kill
  <2> QED BY <1>2, <1>3, <1>4, <2>1
<1> QED BY <1>7, <1>8, <1>9, <1>10, <1>11, <1>12 DEF Step

\* A dir is recorded as a hit when its tree is r's own.
LEMMA NewHit ==
    ASSUME Types, NEW r \in Run, Step(r) \/ Stray(r) \/ Kill(r), TreeOK(r), NEW h \in hits' \ hits
    PROVE  HitOK(h)'
<1>1. /\ Replay(r) /\ hits' = hits \cup {<<r, at[r]>>} /\ Advance(r) /\ pc[r] = "replay"
      /\ Tree(r, [tree[r][at[r]] EXCEPT !.hooks = Allowlisted(Dir(r))])
  BY DEF Step, Lookup, Lease, Copy, Relocate, Replay, Install, Build, Publish, Claim, Trim, Command,
         Release, Stray, Kill
<1>2. h = <<r, at[r]>> /\ h[1] = r /\ h[2] = at[r]
  BY <1>1
<1>3. tree'[r][at[r]] = Fresh(r, Dir(r)) /\ deps' = deps /\ at[r] \in Nat /\ at[r] \in DOMAIN deps[r]
  BY <1>1, TreeType, StepTypes DEF TreeOK, Types
<1>4. at[r] < at'[r] \/ pc'[r] \in Over
  BY <1>1, AdvanceType DEF Over
<1> QED BY <1>2, <1>3, <1>4 DEF HitOK, Dir

\* Nothing is built at the start.
LEMMA BuiltInit == DepsInit => BuiltInv
<1> SUFFICES ASSUME DepsInit PROVE BuiltInv
  OBVIOUS
<1>1. Types
  BY TypesInit
<1>2. StoreOK(store)
  <2>1. store = <<>> /\ <<>> \in Seq(Stored) /\ DOMAIN <<>> = {}
    BY DEF DepsInit
  <2> QED BY <2>1 DEF StoreOK
<1>3. (\A r \in Run : TreeOK(r)) /\ hits = {}
  BY DEF DepsInit, TreeOK
<1> QED BY <1>1, <1>2, <1>3 DEF BuiltInv

\* Every step keeps what is said of the trees.
LEMMA BuiltStep == BuiltInv /\ [DepsNext]_vars => BuiltInv'
<1> SUFFICES ASSUME BuiltInv, [DepsNext]_vars PROVE BuiltInv'
  OBVIOUS
<1>1. Types /\ Types' /\ StoreOK(store) /\ (\A r \in Run : TreeOK(r)) /\ (\A h \in hits : HitOK(h))
  BY TypesStep DEF BuiltInv
<1>2. ASSUME NEW r \in Run, Step(r) \/ Stray(r) \/ Kill(r) PROVE BuiltInv'
  <2>1. deps' = deps
    BY <1>1, <1>2, StepTypes
  <2>2. StoreOK(store')
    BY <1>1, <1>2, StepStore
  <2>3. StoreOK(store)'
    BY <2>1, <2>2 DEF StoreOK, Templated
  <2>4. \A q \in Run : TreeOK(q)'
    BY <1>1, <1>2, OthersKeep, OwnTree
  <2>5. \A h \in hits' : HitOK(h)'
    BY <1>1, <1>2, HitsKeep, NewHit
  <2> QED BY <1>1, <2>3, <2>4, <2>5 DEF BuiltInv
<1>3. CASE Damage
  <2>1. PICK i \in DOMAIN store : store' = [store EXCEPT ![i].damaged = TRUE]
    BY <1>3 DEF Damage
  <2>2. store \in Seq(Stored)
    BY <1>1 DEF StoreOK
  <2>3. store' \in Seq(Stored) /\ Comes(store, store', {})
    BY <2>1, <2>2, EntryDamaged
  <2>4. StoreOK(store')
    BY <1>1, <2>3, StoreKept
  <2>5. UNCHANGED <<deps, pc, at, tree, hits, tmp>>
    BY <1>3 DEF Damage
  <2>6. StoreOK(store)'
    BY <2>4, <2>5 DEF StoreOK, Templated
  <2>7. \A q \in Run : TreeOK(q)'
    BY <1>1, <2>5 DEF TreeOK, Templated, Dir
  <2>8. \A h \in hits' : HitOK(h)'
    BY <1>1, <2>5 DEF HitOK
  <2> QED BY <1>1, <2>6, <2>7, <2>8 DEF BuiltInv
<1>4. CASE UNCHANGED vars
  <2>1. UNCHANGED <<deps, pc, at, tree, hits, tmp, store>>
    BY <1>4 DEF vars
  <2>2. StoreOK(store)'
    BY <1>1, <2>1 DEF StoreOK, Templated
  <2>3. \A q \in Run : TreeOK(q)'
    BY <1>1, <2>1 DEF TreeOK, Templated, Dir
  <2>4. \A h \in hits' : HitOK(h)'
    BY <1>1, <2>1 DEF HitOK
  <2> QED BY <1>1, <2>2, <2>3, <2>4 DEF BuiltInv
<1> QED BY <1>2, <1>3, <1>4 DEF DepsNext

\* The invariant about the store's entries, the runs' trees and the hits holds in every
\* reachable state, for any workload that the assumptions allow.
THEOREM BuiltHolds == DepsSpec => []BuiltInv
  BY BuiltInit, BuiltStep, PTL DEF DepsSpec

\* materializeFromStore gives a run what its own npm ci would have given it: computeDepsKey,
\* the publication checks and relocateRestoredTree leave nothing of the building run in it.
THEOREM HitsAreFresh == DepsSpec => []TreesAreFresh
<1>1. BuiltInv => TreesAreFresh
  BY DEF BuiltInv, HitOK, TreesAreFresh
<1> QED BY <1>1, BuiltHolds, PTL

\* publishToStore publishes complete trees only: findMissingInstalled and the key together make
\* an entry right for every run that has its key.
THEOREM StoreIsComplete == DepsSpec => []EntriesAreComplete
<1>1. BuiltInv => EntriesAreComplete
  <2> SUFFICES ASSUME BuiltInv PROVE EntriesAreComplete
    OBVIOUS
  <2>1. Types /\ StoreOK(store)
    BY DEF BuiltInv
  <2>2. DepsTypeOK
    <3>1. \A i \in DOMAIN store : store[i].leases \subseteq Run \X Nat
      BY <2>1, StoredLeases DEF StoreOK
    <3>2. \A r \in Run : at[r] \in DOMAIN deps[r] /\ held[r] \subseteq DOMAIN deps[r]
      BY <2>1 DEF Types
    <3> QED BY <2>1, <3>1, <3>2 DEF DepsTypeOK, Types, StoreOK, Places
  <2>3. ASSUME NEW i \in DOMAIN store, NEW r \in Run, NEW j \in DOMAIN deps[r], Key(deps[r][j]) = store[i].key
        PROVE  /\ store[i].tree.packages = Fresh(r, deps[r][j]).packages
               /\ store[i].tree.built = Fresh(r, deps[r][j]).built
    <3>1. Templated(store[i].key, store[i].tree)
      BY <2>1 DEF StoreOK
    <3>2. PICK b \in Run : \E m \in DOMAIN deps[b] :
              /\ store[i].key = Key(deps[b][m]) /\ store[i].key # None
              /\ store[i].tree = Template(b, Fresh(b, deps[b][m]))
      BY <3>1 DEF Templated
    <3>3. PICK m \in DOMAIN deps[b] :
              /\ store[i].key = Key(deps[b][m]) /\ store[i].key # None
              /\ store[i].tree = Template(b, Fresh(b, deps[b][m]))
      BY <3>2
    <3> DEFINE d == deps[b][m]  e == deps[r][j]
    <3>4. d \in Dirs /\ e \in Dirs
      BY <2>1, DirType
    <3>5. Key(d) = Key(e) /\ Key(d) # None /\ store[i].tree = Template(b, Fresh(b, d))
      BY <2>3, <3>3
    <3> HIDE DEF d, e
    <3>6. Fresh(b, d).packages = Fresh(r, e).packages /\ Fresh(b, d).built = Fresh(r, e).built
      BY <3>4, <3>5, KeyDecides
    <3>7. Template(b, Fresh(b, d)).packages = Reached(d, {}) /\ Template(b, Fresh(b, d)).built = Fresh(b, d).built
      BY <3>4, TemplateParts
    <3>8. Fresh(b, d).packages = Reached(d, {})
      BY <3>4, FreshParts
    <3>9. store[i].tree.packages = Fresh(r, e).packages /\ store[i].tree.built = Fresh(r, e).built
      BY <3>5, <3>6, <3>7, <3>8
    <3> QED BY <3>9 DEF e
  <2> QED BY <2>2, <2>3 DEF EntriesAreComplete
<1> QED BY <1>1, BuiltHolds, PTL

-----------------------------------------------------------------------------
(* Leases.                                                                   *)

\* Nobody comes back to life, and only r's leases change, which only r's release drops.
LEMMA StepHeld ==
    ASSUME Types, NEW r \in Run, Step(r) \/ Stray(r) \/ Kill(r)
    PROVE  /\ Alive(r) /\ \A q \in Run : Alive(q)' => Alive(q)
           /\ \A q \in Run : q # r => held'[q] = held[q]
           /\ held[r] \subseteq held'[r] \/ (Release(r) /\ held[r] # {})
<1>1. /\ pc' = [pc EXCEPT ![r] = pc'[r]] /\ held' = [held EXCEPT ![r] = held'[r]]
      /\ pc \in [Run -> Places] /\ held \in [Run -> SUBSET Nat]
  BY StepTypes DEF Types
<1>2. Alive(r)
  BY DEF Alive, Step, Lookup, Lease, Copy, Relocate, Replay, Install, Build, Publish, Claim, Trim, Command,
         Release, Stray, Kill
<1>3. \A q \in Run : Alive(q)' => Alive(q)
  BY <1>1, <1>2 DEF Alive
<1>4. \A q \in Run : q # r => held'[q] = held[q]
  BY <1>1
<1>5. held[r] \subseteq held'[r] \/ (Release(r) /\ held[r] # {})
  <2>1. UNCHANGED held => held[r] \subseteq held'[r]
    OBVIOUS
  <2>2. held' = [held EXCEPT ![r] = @ \cup {at[r]}] => held[r] \subseteq held'[r]
    BY <1>1
  <2>3. UNCHANGED held \/ held' = [held EXCEPT ![r] = @ \cup {at[r]}] \/ (Release(r) /\ held[r] # {})
    BY DEF Step, Lookup, Lease, Copy, Relocate, Replay, Install, Build, Publish, Claim, Trim, Command,
           Release, Stray, Kill
  <2> QED BY <2>1, <2>2, <2>3
<1> QED BY <1>2, <1>3, <1>4, <1>5

\* What a run releases is in no entry any more, or it could not be released.
LEMMA ReleasedLease ==
    ASSUME Types, StoreOK(store), NEW r \in Run, Release(r), held[r] # {}, NEW j \in held[r]
    PROVE  j \in held'[r] \/ spoiled' # {} \/ <<r, j>> \notin LeasesOf(store')
<1> DEFINE m == Min(held[r])
<1>1. held' = [held EXCEPT ![r] = @ \ {m}] /\ held \in [Run -> SUBSET Nat]
  BY DEF Release, Types
<1>2. CASE j # m
  BY <1>1, <1>2
<1>3. CASE j = m
  <2>1. CASE spoiled' = spoiled \cup {r}
    BY <2>1
  <2>2. CASE spoiled' # spoiled \cup {r}
    <3> DEFINE mid == Unleased(store, <<r, m>>)
    <3>1. store' = Trimmed(mid)
      BY <2>2 DEF Release
    <3>2. store \in Seq(Stored)
      BY DEF StoreOK
    <3>3. mid \in Seq(Stored) /\ \A n \in DOMAIN mid : <<r, m>> \notin mid[n].leases
      BY <3>2, LeaseDropped
    <3> HIDE DEF mid
    <3>4. Comes(mid, store', {})
      BY <3>1, <3>3, StoreTrimmed
    <3>5. LeasesOf(store') \subseteq LeasesOf(mid)
      BY <3>4, ComesLeases
    <3> QED BY <1>3, <3>3, <3>5 DEF LeasesOf
  <2> QED BY <2>1, <2>2
<1> QED BY <1>2, <1>3

\* Every lease in the store is known to its live run, or a run was lost on the way.
LEMMA LeasesKept ==
    ASSUME BuiltInv, LeaseInv, NEW r \in Run, Step(r) \/ Stray(r) \/ Kill(r), NEW l \in LeasesOf(store')
    PROVE  LeaseOK(l)'
<1>1. Types /\ StoreOK(store) /\ TreeOK(r)
  BY DEF BuiltInv
<1>2. l \in LeasesOf(store) \/ (l = <<r, at[r]>> /\ at[r] \in held'[r])
  BY <1>1, StepStore
<1>3. /\ \A q \in Run : Alive(q)' => Alive(q)
      /\ \A q \in Run : q # r => held'[q] = held[q]
      /\ held[r] \subseteq held'[r] \/ (Release(r) /\ held[r] # {})
  BY <1>1, StepHeld
<1>4. spoiled \subseteq spoiled'
  BY <1>1, StepTypes
<1>5. CASE l = <<r, at[r]>> /\ at[r] \in held'[r]
  BY <1>5 DEF LeaseOK
<1>6. CASE l \in LeasesOf(store)
  <2>1. LeaseOK(l)
    BY <1>6 DEF LeaseInv
  <2>2. l[1] \in Run /\ l = <<l[1], l[2]>>
    <3>1. store \in Seq(Stored)
      BY <1>1 DEF StoreOK
    <3>2. PICK i \in DOMAIN store : l \in store[i].leases
      BY <1>6 DEF LeasesOf
    <3>3. l \in Run \X Nat
      BY <3>1, <3>2, StoredLeases
    <3> QED BY <3>3
  <2> SUFFICES ASSUME Alive(l[1])' PROVE l[2] \in held'[l[1]] \/ spoiled' # {}
    BY DEF LeaseOK
  <2>3. l[2] \in held[l[1]] \/ spoiled # {}
    BY <1>3, <2>1, <2>2 DEF LeaseOK
  <2>4. CASE l[1] # r
    BY <1>3, <1>4, <2>2, <2>3, <2>4
  <2>5. CASE l[1] = r
    <3>1. CASE Release(r) /\ held[r] # {}
      BY <1>1, <1>4, <2>2, <2>3, <2>5, <3>1, ReleasedLease
    <3>2. CASE held[r] \subseteq held'[r]
      BY <1>4, <2>3, <2>5, <3>2
    <3> QED BY <1>3, <3>1, <3>2
  <2> QED BY <2>4, <2>5
<1> QED BY <1>2, <1>5, <1>6

\* A run that reads an entry keeps its lease on it, whatever the others do.
LEMMA ReadersKept ==
    ASSUME BuiltInv, LeaseInv, NEW r \in Run, Step(r) \/ Stray(r) \/ Kill(r),
           NEW q \in Run, pc'[q] \in {"copy", "relocate"}
    PROVE  Leased(store, Key(Dir(q)), <<q, at[q]>>)'
<1>1. Types /\ StoreOK(store) /\ TreeOK(r)
  BY DEF BuiltInv
<1>2. deps' = deps /\ pc' = [pc EXCEPT ![r] = pc'[r]] /\ at' = [at EXCEPT ![r] = at'[r]] /\ pc \in [Run -> Places]
  BY <1>1, StepTypes DEF Types
<1>3. CASE q # r
  <2>1. pc'[q] = pc[q] /\ at'[q] = at[q]
    BY <1>1, <1>2, <1>3 DEF Types
  <2>2. Dir(q)' = Dir(q) /\ Alive(q)
    BY <1>2, <2>1 DEF Dir, Alive
  <2>3. Leased(store, Key(Dir(q)), <<q, at[q]>>)
    BY <2>1 DEF LeaseInv
  <2>4. Stays(store, store', <<q, at[q]>>)
    BY <1>1, <1>3, <2>2, StepStore
  <2>5. Leased(store', Key(Dir(q)), <<q, at[q]>>)
    BY <2>3, <2>4 DEF Stays
  <2> QED BY <2>1, <2>2, <2>5 DEF Leased
<1>4. CASE q = r
  <2> DEFINE k == Key(Dir(r))  l == <<r, at[r]>>
  <2>1. (Lease(r) /\ Go(r, "copy")) \/ Copy(r)
    <3>1. \A p : Go(r, p) => pc'[r] = p
      BY <1>2 DEF Go
    <3>2. Advance(r) => pc'[r] \in {"key", "command"}
      BY <1>1, AdvanceType
    <3>3. \/ (Lease(r) /\ Go(r, "copy")) \/ Copy(r) \/ Advance(r)
          \/ (UNCHANGED pc /\ pc[r] \in {"build", "release"})
          \/ \E p \in {"lease", "install", "replay", "build", "rename", "claim", "trim", "release", "done", "dead"} :
                Go(r, p)
      BY DEF Step, Lookup, Lease, Copy, Relocate, Replay, Install, Build, Publish, Claim, Trim, Command,
             Release, Stray, Kill
    <3> QED BY <1>4, <3>1, <3>2, <3>3
  <2>2. UNCHANGED at /\ Dir(r)' = Dir(r)
    BY <1>2, <2>1 DEF Lease, Copy, Dir
  <2>3. Leased(store', k, l)
    <3>1. CASE Copy(r)
      <4>1. pc[r] = "copy" /\ UNCHANGED store
        BY <3>1 DEF Copy
      <4> QED BY <4>1 DEF LeaseInv, Leased
    <3>2. CASE Lease(r) /\ Go(r, "copy")
      <4>1. Has(k) /\ store' = [store EXCEPT ![Slot(k)].leases = @ \cup {l}]
        <5>1. ~Go(r, "install")
          BY <1>2, <3>2 DEF Go
        <5> QED BY <3>2, <5>1 DEF Lease
      <4>2. store \in Seq(Stored) /\ l \in Run \X Nat
        BY <1>1, DirType DEF StoreOK
      <4> QED BY <4>1, <4>2, SlotHas, LeaseAdded
    <3> QED BY <2>1, <3>1, <3>2
  <2> QED BY <1>4, <2>2, <2>3 DEF Leased
<1> QED BY <1>3, <1>4

\* r is still to trim the store.
Trimmer(r) == held[r] # {} \/ pc[r] = "trim" \/ (pc[r] = "claim" /\ Has(Key(Dir(r))))

\* After trimming: if there are too many entries, a live run has one of them.
LEMMA TrimmedOrHeld ==
    ASSUME Types, NEW s \in Seq(Stored), Cardinality(Sound(Trimmed(s))) > MaxBytes
    PROVE  \E l \in LeasesOf(Trimmed(s)) : Alive(l[1]) /\ l[1] \in Run
<1> DEFINE t == Trimmed(s)
<1>1. PICK i \in DOMAIN t : LiveLeases(t[i]) # {}
  BY TrimmedFits
<1>2. PICK l \in t[i].leases : Alive(l[1])
  BY <1>1 DEF LiveLeases
<1>3. t \in Seq(Stored)
  BY StoreTrimmed
<1> HIDE DEF t
<1>4. l \in Run \X Nat
  BY <1>3, StoredLeases
<1> QED BY <1>2, <1>4 DEF LeasesOf, t

\* A step leaves the store in bounds, or somebody who will trim it.
LEMMA BoundKept ==
    ASSUME BuiltInv, LeaseInv, NEW r \in Run, Step(r) \/ Stray(r) \/ Kill(r),
           \A l \in LeasesOf(store') : LeaseOK(l)', Cardinality(Sound(store')) > MaxBytes
    PROVE  spoiled' # {} \/ \E q \in Run : Trimmer(q)'
<1>1. Types /\ StoreOK(store) /\ TreeOK(r) /\ pc \in [Run -> Places] /\ held \in [Run -> SUBSET Nat]
  BY DEF BuiltInv, Types
<1>2. /\ deps' = deps /\ pc' = [pc EXCEPT ![r] = pc'[r]] /\ at' = [at EXCEPT ![r] = at'[r]]
      /\ held' = [held EXCEPT ![r] = held'[r]] /\ spoiled \subseteq spoiled'
  BY <1>1, StepTypes
<1> SUFFICES ASSUME spoiled' = {} PROVE \E q \in Run : Trimmer(q)'
  OBVIOUS
<1>3. spoiled = {} /\ ~Kill(r)
  BY <1>2 DEF Kill
<1>4. CASE UNCHANGED store
  <2>1. PICK q \in Run : Trimmer(q)
    BY <1>3, <1>4 DEF LeaseInv, Trimmer
  <2>2. CASE q # r
    <3>1. pc'[q] = pc[q] /\ at'[q] = at[q] /\ held'[q] = held[q]
      BY <1>1, <1>2, <2>2 DEF Types
    <3> QED BY <1>2, <1>4, <2>1, <3>1 DEF Trimmer, Dir, Has, Slots
  <2>3. CASE q = r
    <3>1. held[r] \subseteq held'[r] \/ (Release(r) /\ held[r] # {})
      BY <1>1, StepHeld
    <3>2. CASE Release(r) /\ held[r] # {}
      <4>1. store' = Trimmed(Unleased(store, <<r, Min(held[r])>>))
        BY <1>3, <3>2 DEF Release
      <4> DEFINE mid == Unleased(store, <<r, Min(held[r])>>)
      <4>2. mid \in Seq(Stored)
        BY <1>1, LeaseDropped DEF StoreOK
      <4> HIDE DEF mid
      <4>3. PICK l \in LeasesOf(store') : Alive(l[1]) /\ l[1] \in Run
        BY <1>1, <4>1, <4>2, TrimmedOrHeld DEF mid
      <4>4. UNCHANGED pc
        BY <3>2 DEF Release
      <4>5. l[2] \in held'[l[1]]
        BY <4>3, <4>4 DEF LeaseOK, Alive
      <4> QED BY <4>3, <4>5 DEF Trimmer
    <3>3. CASE held[r] \subseteq held'[r] /\ held[r] # {}
      BY <3>3 DEF Trimmer
    <3>4. CASE held[r] = {} /\ pc[r] = "trim"
      <4>1. Trim(r)
        BY <1>3, <3>4 DEF Step, Lookup, Lease, Copy, Relocate, Replay, Install, Build, Publish, Claim, Command,
                          Release, Stray
      <4>2. store' = Trimmed(store) /\ store \in Seq(Stored)
        BY <1>1, <1>3, <4>1 DEF Trim, StoreOK
      <4>3. PICK l \in LeasesOf(store') : Alive(l[1]) /\ l[1] \in Run
        BY <1>1, <4>2, TrimmedOrHeld
      <4>4. Advance(r) /\ UNCHANGED held
        BY <4>1 DEF Trim
      <4>5. Alive(l[1])'
        BY <1>1, <1>2, <4>3, <4>4, AdvanceType DEF Alive
      <4> QED BY <4>3, <4>5 DEF LeaseOK, Trimmer
    <3>5. CASE pc[r] = "claim" /\ Has(Key(Dir(r)))
      <4>1. Claim(r)
        BY <1>3, <3>5 DEF Step, Lookup, Lease, Copy, Relocate, Replay, Install, Build, Publish, Trim, Command,
                          Release, Stray
      <4>2. Go(r, "trim")
        BY <1>3, <3>5, <4>1 DEF Claim
      <4>3. pc'[r] = "trim"
        BY <1>1, <4>2 DEF Go
      <4> QED BY <4>3 DEF Trimmer
    <3> QED BY <2>1, <2>3, <3>1, <3>2, <3>3, <3>4, <3>5 DEF Trimmer
  <2> QED BY <2>2, <2>3
<1>5. CASE ~UNCHANGED store
  <2>1. Lease(r) \/ Relocate(r) \/ Publish(r) \/ Claim(r) \/ Trim(r) \/ Release(r)
    BY <1>3, <1>5 DEF Step, Lookup, Copy, Replay, Install, Build, Command, Stray
  <2>2. CASE Lease(r)
    <3>1. held' = [held EXCEPT ![r] = @ \cup {at[r]}]
      BY <1>5, <2>2 DEF Lease
    <3> QED BY <1>1, <3>1 DEF Trimmer
  <2>3. CASE Relocate(r)
    <3>1. pc[r] = "relocate" /\ UNCHANGED held
      BY <2>3 DEF Relocate
    <3>2. <<r, at[r]>> \in LeasesOf(store) /\ Alive(r)
      BY <3>1 DEF LeaseInv, Leased, LeasesOf, Alive
    <3>3. LeaseOK(<<r, at[r]>>)
      BY <3>2 DEF LeaseInv
    <3>4. at[r] \in held'[r]
      BY <1>3, <3>1, <3>2, <3>3 DEF LeaseOK
    <3> QED BY <3>4 DEF Trimmer
  <2>4. CASE Publish(r)
    <3> DEFINE e == [key |-> Key(Dir(r)), tree |-> tmp[r], leases |-> {}, damaged |-> FALSE]
    <3>1. store' = Append(store, e) /\ Go(r, "claim") /\ UNCHANGED at
      BY <1>5, <2>4 DEF Publish
    <3>2. Len(store) + 1 \in DOMAIN store' /\ store'[Len(store) + 1].key = Key(Dir(r))
      <4>1. Len(store) \in Nat /\ e.key = Key(Dir(r))
        BY <1>1 DEF StoreOK
      <4> HIDE DEF e
      <4>2. store \in Seq(Stored \cup {e})
        BY <1>1 DEF StoreOK
      <4>3. /\ Len(Append(store, e)) = Len(store) + 1 /\ Append(store, e)[Len(store) + 1] = e
            /\ Append(store, e) \in Seq(Stored \cup {e})
        BY <4>2, AppendProperties
      <4>4. Len(store) + 1 \in DOMAIN Append(store, e)
        BY <4>1, <4>3
      <4> QED BY <3>1, <4>1, <4>3, <4>4
    <3>3. pc'[r] = "claim" /\ Dir(r)' = Dir(r)
      BY <1>1, <1>2, <3>1 DEF Go, Dir
    <3>4. Has(Key(Dir(r)))'
      BY <3>2, <3>3 DEF Has, Slots
    <3> QED BY <3>3, <3>4 DEF Trimmer
  <2>5. CASE Claim(r)
    <3>1. Go(r, "trim")
      BY <1>5, <2>5 DEF Claim
    <3>2. pc'[r] = "trim"
      BY <1>1, <3>1 DEF Go
    <3> QED BY <3>2 DEF Trimmer
  <2>6. CASE Trim(r)
    <3>1. store' = Trimmed(store) /\ store \in Seq(Stored) /\ Advance(r) /\ UNCHANGED held
      BY <1>1, <1>3, <1>5, <2>6 DEF Trim, StoreOK
    <3>2. PICK l \in LeasesOf(store') : Alive(l[1]) /\ l[1] \in Run
      BY <1>1, <3>1, TrimmedOrHeld
    <3>3. Alive(l[1])'
      BY <1>1, <1>2, <3>1, <3>2, AdvanceType DEF Alive
    <3> QED BY <3>2, <3>3 DEF LeaseOK, Trimmer
  <2>7. CASE Release(r)
    <3> DEFINE mid == Unleased(store, <<r, Min(held[r])>>)
    <3>1. store' = Trimmed(mid) /\ UNCHANGED pc
      BY <1>5, <2>7 DEF Release
    <3>2. mid \in Seq(Stored)
      BY <1>1, LeaseDropped DEF StoreOK
    <3> HIDE DEF mid
    <3>3. PICK l \in LeasesOf(store') : Alive(l[1]) /\ l[1] \in Run
      BY <1>1, <3>1, <3>2, TrimmedOrHeld
    <3>4. Alive(l[1])'
      BY <3>1, <3>3 DEF Alive
    <3> QED BY <3>3, <3>4 DEF LeaseOK, Trimmer
  <2> QED BY <2>1, <2>2, <2>3, <2>4, <2>5, <2>6, <2>7
<1> QED BY <1>4, <1>5

\* Nothing is leased at the start.
LEMMA LeaseInit == DepsInit => LeaseInv
<1> SUFFICES ASSUME DepsInit PROVE LeaseInv
  OBVIOUS
<1>1. store = <<>> /\ pc = [r \in Run |-> "key"]
  BY DEF DepsInit
<1>2. LeasesOf(store) = {} /\ Sound(store) = {}
  <2>1. DOMAIN <<>> = {}
    OBVIOUS
  <2> QED BY <1>1, <2>1 DEF LeasesOf, Sound
<1>3. ~(Cardinality(Sound(store)) > MaxBytes)
  BY <1>2, FS_EmptySet, DepsAssumption
<1> QED BY <1>1, <1>2, <1>3 DEF LeaseInv

\* Every step keeps what is said of the leases.
LEMMA LeaseStep == BuiltInv /\ LeaseInv /\ [DepsNext]_vars => LeaseInv'
<1> SUFFICES ASSUME BuiltInv, LeaseInv, [DepsNext]_vars PROVE LeaseInv'
  OBVIOUS
<1>1. ASSUME NEW r \in Run, Step(r) \/ Stray(r) \/ Kill(r) PROVE LeaseInv'
  <2>1. \A l \in LeasesOf(store') : LeaseOK(l)'
    BY <1>1, LeasesKept
  <2>2. \A q \in Run : pc'[q] \in {"copy", "relocate"} => Leased(store, Key(Dir(q)), <<q, at[q]>>)'
    BY <1>1, ReadersKept
  <2>3. Cardinality(Sound(store')) > MaxBytes => spoiled' # {} \/ \E q \in Run : Trimmer(q)'
    BY <1>1, <2>1, BoundKept
  <2>4. LeasesOf(store)' = LeasesOf(store') /\ Sound(store)' = Sound(store')
    BY DEF LeasesOf, Sound
  <2> QED BY <2>1, <2>2, <2>3, <2>4 DEF LeaseInv, Trimmer
<1>2. CASE Damage
  <2>1. PICK i \in DOMAIN store : store' = [store EXCEPT ![i].damaged = TRUE]
    BY <1>2 DEF Damage
  <2>2. store \in Seq(Stored)
    BY DEF BuiltInv, StoreOK
  <2>3. /\ store' \in Seq(Stored) /\ Comes(store, store', {}) /\ DOMAIN store' = DOMAIN store
        /\ \A n \in DOMAIN store : store'[n].key = store[n].key
        /\ \A m : Stays(store, store', m) /\ Sound(store') \subseteq Sound(store)
    BY <2>1, <2>2, EntryDamaged
  <2>4. UNCHANGED <<deps, pc, at, held, spoiled>>
    BY <1>2 DEF Damage
  <2>5. \A l \in LeasesOf(store') : LeaseOK(l)'
    <3>1. LeasesOf(store') \subseteq LeasesOf(store)
      BY <2>3, ComesLeases
    <3> QED BY <2>4, <3>1 DEF LeaseInv, LeaseOK, Alive
  <2>6. \A q \in Run : pc'[q] \in {"copy", "relocate"} => Leased(store, Key(Dir(q)), <<q, at[q]>>)'
    <3> SUFFICES ASSUME NEW q \in Run, pc'[q] \in {"copy", "relocate"}
                 PROVE  Leased(store, Key(Dir(q)), <<q, at[q]>>)'
      OBVIOUS
    <3>1. Leased(store, Key(Dir(q)), <<q, at[q]>>)
      BY <2>4 DEF LeaseInv
    <3>2. Leased(store', Key(Dir(q)), <<q, at[q]>>)
      BY <2>3, <3>1 DEF Stays
    <3> QED BY <2>4, <3>2 DEF Leased, Dir
  <2>7. Cardinality(Sound(store')) > MaxBytes => Cardinality(Sound(store)) > MaxBytes
    <3>1. Sound(store) \in SUBSET (1..Len(store)) /\ Len(store) \in Nat
      BY <2>2 DEF Sound
    <3>2. IsFiniteSet(Sound(store))
      <4>1. IsFiniteSet(1..Len(store))
        BY <3>1, FS_Interval
      <4> QED BY <3>1, <4>1, FS_Subset
    <3>3. IsFiniteSet(Sound(store')) /\ Cardinality(Sound(store')) <= Cardinality(Sound(store))
      BY <2>3, <3>2, FS_Subset
    <3>4. Cardinality(Sound(store')) \in Nat /\ Cardinality(Sound(store)) \in Nat
      BY <3>2, <3>3, FS_CardinalityType
    <3> QED BY <3>3, <3>4, DepsAssumption
  <2>8. \A q \in Run : Has(Key(Dir(q)))' <=> Has(Key(Dir(q)))
    BY <2>3, <2>4 DEF Has, Slots, Dir
  <2>9. LeasesOf(store)' = LeasesOf(store') /\ Sound(store)' = Sound(store')
    BY DEF LeasesOf, Sound
  <2> QED BY <2>4, <2>5, <2>6, <2>7, <2>8, <2>9 DEF LeaseInv
<1>3. CASE UNCHANGED vars
  <2>1. UNCHANGED <<deps, pc, at, store, held, spoiled>>
    BY <1>3 DEF vars
  <2>2. \A l \in LeasesOf(store)' : LeaseOK(l)'
    BY <2>1 DEF LeaseInv, LeaseOK, LeasesOf, Alive
  <2>3. \A q \in Run : pc'[q] \in {"copy", "relocate"} => Leased(store, Key(Dir(q)), <<q, at[q]>>)'
    BY <2>1 DEF LeaseInv, Leased, Dir
  <2>4. \A q \in Run : Has(Key(Dir(q)))' <=> Has(Key(Dir(q)))
    BY <2>1 DEF Has, Slots, Dir
  <2>5. Sound(store)' = Sound(store)
    BY <2>1 DEF Sound
  <2> QED BY <2>1, <2>2, <2>3, <2>4, <2>5 DEF LeaseInv
<1> QED BY <1>1, <1>2, <1>3 DEF DepsNext

\* trimStore and the leases of acquireLease and publishAndEvict: no entry is evicted while a live
\* run copies from it, and the store is over its bound only while some run is still to trim it,
\* or after one was killed or could not have the broker lock.
THEOREM EvictionHolds == DepsSpec => []EvictionIsSafe
<1>1. DepsInit => BuiltInv /\ LeaseInv
  BY BuiltInit, LeaseInit
<1>2. BuiltInv /\ LeaseInv /\ [DepsNext]_vars => (BuiltInv /\ LeaseInv)'
  BY BuiltStep, LeaseStep
<1>3. LeaseInv => EvictionIsSafe
  <2> SUFFICES ASSUME LeaseInv PROVE EvictionIsSafe
    OBVIOUS
  <2>1. ReaderKeepsItsEntry
    BY DEF LeaseInv, Leased, ReaderKeepsItsEntry, Has, Slots
  <2>2. StoreIsTrimmed
    BY DEF LeaseInv, Sound, StoreIsTrimmed
  <2> QED BY <2>1, <2>2 DEF EvictionIsSafe
<1> QED BY <1>1, <1>2, <1>3, PTL DEF DepsSpec
================================================================================
