------------------------------ MODULE DepsCache ------------------------------
(*****************************************************************************)
(* The store of installed node_modules trees on a remote runner              *)
(* (src/deps-cache.js) and the deps phase of the pipelines that share it     *)
(* (src/remote-pipeline.js).  A pipeline is a process of its own: between    *)
(* two of its actions the others look into the store, publish, evict, or are *)
(* killed.  Only leases and eviction hold the broker lock.                   *)
(*                                                                           *)
(* What npm installs is a function of what an install can read: `Fresh` says *)
(* what a new install of a directory would give, and the question is whether *)
(* a tree from the store is ever anything else.                              *)
(*****************************************************************************)
EXTENDS Naturals, FiniteSets, FiniteSetsExt, Sequences, SequencesExt

CONSTANTS
    Run, Package, Path, None,
    Workloads,      \* the deps dirs of the runs: functions from Run to sequences of Dirs
    PathsOf,        \* PathsOf[r][role]: where r's work and temp dirs are, None when unset
    MaxBytes,       \* the bound of the store, in entries of size 1
    Flaky,          \* optional packages that npm may fail to fetch
    Killable,       \* bound: the runs that may be killed
    Unlucky,        \* bound: the runs whose wait for the broker lock may time out
    MaxDamage       \* bound: how many entries may lose their meta.json

Roles == {"work", "real", "tmp"}

\* A lock entry: where its bytes come from, the entry whose tarball holds it, who
\* depends on it ("root" for the project), and what npm is told about it.
Entries == [kind : {"registry", "git", "tarball", "bundled", "unpinned"},
            within : Package \cup {None}, wanted : SUBSET (Package \cup {"root"}),
            optional : BOOLEAN, skipped : BOOLEAN, script : BOOLEAN]

\* root: the root lifecycle scripts (the allowlisted git hooks line, or another);
\* safe, keyFiles: the lane declares them safe, and names the files they read;
\* workspaces: none, determined, or not as the lock has them; leftover: one of
\* them has a node_modules already; src: the sources, named by keyFiles or not;
\* env: a variable that installs read, the locale, a per-ticket id, a credential;
\* names, how: which install paths end up in the tree, and in what kind of file.
Dirs == [lock : [Package -> Entries \cup {None}], root : {"none", "hooks", "other"},
         safe : BOOLEAN, keyFiles : BOOLEAN, workspaces : {"none", "ok", "odd"},
         leftover : BOOLEAN, src : [named : Nat, rest : Nat], cc : Nat, tempFs : Nat,
         env : [tool : Nat, locale : Nat, ticket : Nat, auth : Nat],
         names : SUBSET Roles, how : {"text", "binary", "ambiguous", "link"}]

ASSUME DepsAssumption ==
    /\ IsFiniteSet(Run) /\ IsFiniteSet(Package) /\ None \notin Run \cup Package \cup Path
    /\ "root" \notin Package
    /\ Workloads \subseteq [Run -> Seq(Dirs) \ {<<>>}]     \* others have no deps phase
    /\ PathsOf \in [Run -> [Roles -> Path \cup {None}]]
    /\ MaxBytes \in Nat /\ MaxDamage \in Nat
    /\ Flaky \subseteq Package /\ Killable \subseteq Run /\ Unlucky \subseteq Run

VARIABLES
    deps,       \* deps[r]: the dirs that r installs, in order
    pc, at,     \* pc[r], at[r]: the next step of r, the dir it is at
    tree,       \* tree[r][i]: the node_modules of r's i-th dir
    hits,       \* the dirs that were recorded as hits, <<run, dir>>
    tmp,        \* tmp[r]: the copy r is about to publish
    store,      \* the published entries, the least recently used first
    held,       \* held[r]: the dirs r has a lease for
    damage,     \* how many entries were damaged
    spoiled     \* history: runs that were killed or timed out on the lock

vars == <<deps, pc, at, tree, hits, tmp, store, held, damage, spoiled>>

Dir(r) == deps[r][at[r]]

DepsInit ==
    /\ deps \in Workloads
    /\ pc = [r \in Run |-> "key"] /\ at = [r \in Run |-> 1]
    /\ tree = [r \in Run |-> [i \in DOMAIN deps[r] |-> None]]
    /\ hits = {} /\ tmp = [r \in Run |-> None] /\ store = <<>>
    /\ held = [r \in Run |-> {}] /\ damage = 0 /\ spoiled = {}

-----------------------------------------------------------------------------
(* What an install reads and what the key covers.                            *)

Locked(d) == {p \in Package : d.lock[p] # None}
HasScript(d) == \E p \in Locked(d) : d.lock[p].script

\* allowlistedRootEvents: the git hooks line, whose effect is outside node_modules.
Allowlisted(d) == d.root = "hooks"
\* unsafeRootScript: any other root script must be declared safe by the lane.
SafeRoot(d) == d.root = "other" => d.safe

\* discoverWorkspaceDirs, workspaceKeyParts: the workspaces that the globs select
\* are those of the lock, and none of them has lifecycle scripts of its own.
Determined(d) == d.workspaces # "odd"

\* tempDirFsProperties: what the file systems of the temp dirs allow.
TempFs(d) == d.tempFs
\* The compiler counts only if some install script may use it.
Toolchain(d) == IF HasScript(d) THEN d.cc ELSE 0

\* lockEligibility: every entry is pinned to content, by itself or inside the
\* tarball of the entry that bundles it.
Pinned(d) ==
    \A p \in Locked(d) :
        \/ d.lock[p].kind \in {"registry", "git", "tarball"}
        \/ d.lock[p].kind = "bundled" /\ d.lock[p].within \in Locked(d)

\* buildDepsEnv: the variables that differ from run to run are taken out of the
\* environment and the locale is pinned, before npm sees it.
DepsEnv(env) == [env EXCEPT !.locale = 0, !.ticket = 0]

\* Which sources a script of the install may have read: all of them for the
\* install scripts of a workspace repo, the declared ones, or all of them.
SourcePart(d) ==
    IF d.workspaces # "none" /\ HasScript(d) THEN d.src
    ELSE IF d.safe THEN (IF d.keyFiles THEN [d.src EXCEPT !.rest = 0] ELSE d.src)
    ELSE [named |-> 0, rest |-> 0]

\* computeDepsKey: None when the dir must not be cached.
Key(d) ==
    IF \/ ~Pinned(d) \/ ~SafeRoot(d) \/ ~Determined(d)
       \/ d.safe /\ ~d.keyFiles /\ d.workspaces = "none"
    THEN None
    ELSE [lock |-> d.lock, root |-> d.root, tempFs |-> TempFs(d), workspaces |-> d.workspaces,
          cc |-> Toolchain(d),
          src |-> SourcePart(d),
          tool |-> DepsEnv(d.env).tool, locale |-> DepsEnv(d.env).locale]

\* Which install paths end up in the tree follows from what the install reads, and
\* a temp variable that is unset is unset in the key (tempDirFsProperties).
ASSUME PathsAssumption ==
    \A w \in Workloads, r, q \in Run : \A i \in DOMAIN w[r], j \in DOMAIN w[q] :
        Key(w[r][i]) = Key(w[q][j]) /\ Key(w[r][i]) # None =>
            /\ w[r][i].names = w[q][j].names
            /\ \A m \in Roles : PathsOf[r][m] = None <=> PathsOf[q][m] = None

\* What npm puts on disk when the optional packages in `failed` cannot be had:
\* whatever the project reaches without passing a package that is not installed.
Reached(d, failed) ==
    LET out == failed \cup {p \in Locked(d) : d.lock[p].skipped}
        Closed(S) == \A p \in Locked(d) \ out :
                        d.lock[p].wanted \cap (S \cup {"root"}) # {} => p \in S
    IN  {p \in Locked(d) : \A S \in SUBSET (Locked(d) \ out) : Closed(S) => p \in S}

\* The sources that scripts read: the install scripts of a workspace repo any, a
\* declared root script those it names, if it names some.
Reads(d) ==
    LET all == \/ d.workspaces # "none" /\ HasScript(d)
               \/ d.root # "none" /\ d.safe /\ ~d.keyFiles
        some == d.root # "none" /\ d.safe /\ d.keyFiles
    IN  [named |-> IF all \/ some THEN d.src.named ELSE 0, rest |-> IF all THEN d.src.rest ELSE 0]

\* What an install in r's own dirs leaves behind.  The credentials decide whether
\* it succeeds, not what it installs.
Installed(r, d, failed) ==
    [packages |-> Reached(d, failed),
     built |-> [env |-> [DepsEnv(d.env) EXCEPT !.auth = 0],
                cc |-> IF HasScript(d) THEN d.cc ELSE 0,
                src |-> Reads(d), tempFs |-> d.tempFs],
     paths |-> [n \in {m \in d.names : PathsOf[r][m] # None} |-> PathsOf[r][n]],
     hooks |-> Allowlisted(d), stray |-> FALSE]

Fresh(r, d) == Installed(r, d, {})

-----------------------------------------------------------------------------
(* What an install may leave that forbids publishing it.                     *)

\* snapshotInstallSurface: what an install is seen to change, the work dir's .git/config
\* or another file of the surface, which is the dir outside node_modules and the work
\* dir's .git; unexplainedChanges: an allowlisted script explains its own config line.
Outside == {"config", "file"}
Unexplained(d, wrote) == IF Allowlisted(d) THEN wrote \ {"config"} ELSE wrote

\* An install path in a link that leads where nobody can vouch for, in a binary, or
\* where it is not clear where it ends, cannot be rewritten.
RefusedLink(d) == d.how = "link"
Unrewritable(d) == d.how \in {"binary", "ambiguous"}

-----------------------------------------------------------------------------
(* Relocation.                                                               *)

\* In the stored copy an install path is a token that names every role which had
\* that path where the tree was built.
Template(r, t) ==
    [t EXCEPT !.hooks = FALSE,
              !.paths = [n \in DOMAIN @ |-> {m \in Roles : PathsOf[r][m] = @[n]}]]

\* Mutant: the first role of a token decides.
MutRelocatable(r, t) ==
    \A n \in DOMAIN t.paths : \E m \in t.paths[n] : PathsOf[r][m] # None

\* A token is replaced only when all its roles have one path here.
Relocatable(r, t) ==
    \A n \in DOMAIN t.paths :
        /\ \A m \in t.paths[n] : PathsOf[r][m] # None
        /\ \A m, o \in t.paths[n] : PathsOf[r][m] = PathsOf[r][o]

Relocated(r, t) ==
    [t EXCEPT !.paths = [n \in DOMAIN @ |->
        PathsOf[r][CHOOSE m \in @[n] : PathsOf[r][m] # None]]]

\* placeWorkspaces: no workspace may have a node_modules already.
Placeable(d) == ~(d.workspaces = "ok" /\ d.leftover)

\* verifyTemplatedCopy: something outside the recorded files names an install path.
NamesInstallPath(t) == t.stray

-----------------------------------------------------------------------------
(* The store.                                                                *)

Alive(r) == pc[r] \notin {"done", "dead"}
Slots(k) == {i \in DOMAIN store : store[i].key = k}
Has(k) == Slots(k) # {}
Slot(k) == CHOOSE i \in Slots(k) : TRUE
Touched(s, i) == Append(RemoveAt(s, i), s[i])

LiveLeases(e) == {l \in e.leases : Alive(l[1])}

\* Mutant: leases are not looked at.
MutEvictable(s) == {i \in DOMAIN s : TRUE}
\* The entries that no live run holds; a lease whose process is gone is stale.
Evictable(s) == {i \in DOMAIN s : LiveLeases(s[i]) = {}}

\* evictLeastRecentlyUsed: the damaged entries, whose size is not known, and the
\* oldest others until the rest fits.
Victims(s) ==
    LET sound == {i \in DOMAIN s : ~s[i].damaged}
        Before(i) == {j \in sound \cap Evictable(s) : j < i}
    IN  {i \in Evictable(s) : i \in sound => Cardinality(sound) - Cardinality(Before(i)) > MaxBytes}

\* The entries that stay keep their order: the n-th has n of them up to itself.
Trimmed(s) ==
    LET kept == DOMAIN s \ Victims(s)
        Nth(n) == CHOOSE i \in kept : Cardinality({j \in kept : j <= i}) = n
    IN  [n \in 1..Cardinality(kept) |-> s[Nth(n)]]

\* A crashed publisher's copy is swept once it is old.
Swept(old) == [r \in Run |-> IF r \in old THEN None ELSE tmp[r]]

Unleased(s, l) == [i \in DOMAIN s |-> [s[i] EXCEPT !.leases = @ \ {l}]]

-----------------------------------------------------------------------------
(* The deps phase.                                                           *)

Go(r, step) == pc' = [pc EXCEPT ![r] = step]
Tree(r, t) == tree' = [tree EXCEPT ![r][at[r]] = t]
\* The tree of the dir and those of its workspaces are removed.
Discard(r) == Tree(r, None)

\* The next dir, or the command once every dir is installed.
Next1(r) == IF at[r] < Len(deps[r]) THEN "key" ELSE "command"
Advance(r) ==
    /\ Go(r, Next1(r))
    /\ at' = [at EXCEPT ![r] = IF @ < Len(deps[r]) THEN @ + 1 ELSE @]

\* The key is computed and the store is looked into, without the lock.
Lookup(r) ==
    /\ pc[r] = "key"
    /\ Go(r, IF Key(Dir(r)) # None /\ Has(Key(Dir(r))) THEN "lease" ELSE "install")
    /\ UNCHANGED <<deps, at, tree, hits, tmp, store, held, damage, spoiled>>

\* acquireLease, under the lock; an entry that is gone, or a lock that cannot be
\* had, is a miss.
Lease(r) ==
    LET k == Key(Dir(r))
    IN  /\ pc[r] = "lease"
        /\ \/ /\ Has(k)
              /\ store' = [store EXCEPT ![Slot(k)].leases = @ \cup {<<r, at[r]>>}]
              /\ held' = [held EXCEPT ![r] = @ \cup {at[r]}]
              /\ Go(r, "copy")
           \/ /\ ~Has(k) \/ r \in Unlucky
              /\ Go(r, "install") /\ UNCHANGED <<store, held>>
        /\ UNCHANGED <<deps, at, tree, hits, tmp, damage, spoiled>>

\* materializeFromStore: the tree is copied, tokens and all.
Copy(r) ==
    LET k == Key(Dir(r))
    IN  /\ pc[r] = "copy"
        /\ IF Has(k)
           THEN Tree(r, store[Slot(k)].tree) /\ Go(r, "relocate")
           ELSE UNCHANGED tree /\ Go(r, "install")
        /\ UNCHANGED <<deps, at, hits, tmp, store, held, damage, spoiled>>

\* relocateRestoredTree and placeWorkspaces, by the record in meta.json; a tree
\* that cannot be relocated or placed is removed and installed instead.
Relocate(r) ==
    LET k == Key(Dir(r))
        t == tree[r][at[r]]
        ok == Has(k) /\ ~store[Slot(k)].damaged /\ Relocatable(r, t)
                /\ Placeable(Dir(r))
    IN  /\ pc[r] = "relocate"
        /\ IF ok
           THEN Tree(r, Relocated(r, t)) /\ Go(r, "replay") /\ store' = Touched(store, Slot(k))
           ELSE Discard(r) /\ Go(r, "install") /\ UNCHANGED store
        /\ UNCHANGED <<deps, at, hits, tmp, held, damage, spoiled>>

\* replayRootScripts: what the allowlisted scripts do outside the tree is done
\* again; when that fails the trees are removed and installed instead.
Replay(r) ==
    /\ pc[r] = "replay"
    /\ \/ /\ Tree(r, [tree[r][at[r]] EXCEPT !.hooks = Allowlisted(Dir(r))])
          /\ hits' = hits \cup {<<r, at[r]>>} /\ Advance(r)
       \/ /\ Allowlisted(Dir(r))
          /\ Discard(r) /\ Go(r, "install") /\ UNCHANGED <<at, hits>>
    /\ UNCHANGED <<deps, tmp, store, held, damage, spoiled>>

\* Mutant: one absent dependent is enough.
MutMissing(d, present) ==
    LET skipped == {p \in Locked(d) : d.lock[p].skipped}
        absent == Locked(d) \ (skipped \cup present)
    IN  {p \in absent : ~(d.lock[p].optional /\ d.lock[p].wanted \cap (skipped \cup absent) # {})}

\* findMissingInstalled: an absent entry is expected when npm skips it on this
\* platform, or when it is optional and everything that wants it is expected to
\* be absent; the latter set is grown from the former.
Missing(d, present) ==
    LET skipped == {p \in Locked(d) : d.lock[p].skipped}
        absent == Locked(d) \ (skipped \cup present)
        Grown(S) == \A p \in absent : d.lock[p].optional /\ d.lock[p].wanted # {}
                                        /\ d.lock[p].wanted \subseteq S => p \in S
        gone == {p \in Locked(d) : \A S \in SUBSET Locked(d) : skipped \subseteq S /\ Grown(S) => p \in S}
    IN  absent \ gone

\* npm ci, whose scripts may have written anything outside node_modules.  Only a
\* complete tree, whose install paths can be relocated, goes on to be published.
Install(r) ==
    LET d == Dir(r)
    IN  /\ pc[r] = "install"
        /\ \/ Go(r, "release") /\ UNCHANGED <<at, tree>>                 \* it fails
           \/ \E failed \in SUBSET {p \in Flaky \cap Locked(d) : d.lock[p].optional}, wrote \in SUBSET Outside :
                /\ Tree(r, Installed(r, d, failed))
                /\ IF \/ Key(d) = None \/ Unexplained(d, wrote) # {}
                      \/ Missing(d, Reached(d, failed)) # {}
                      \/ RefusedLink(d) \/ Unrewritable(d)
                   THEN Advance(r)
                   ELSE Go(r, "build") /\ UNCHANGED at
        /\ UNCHANGED <<deps, hits, tmp, store, held, damage, spoiled>>

\* A process that an install script left behind writes an install path into a file.
Stray(r) ==
    /\ pc[r] = "build" /\ ~tree[r][at[r]].stray
    /\ Tree(r, [tree[r][at[r]] EXCEPT !.stray = TRUE])
    /\ UNCHANGED <<deps, pc, at, hits, tmp, store, held, damage, spoiled>>

\* publishToStore: a read-only copy under a temporary name.  verifyTemplatedCopy
\* refuses one that names an install path outside the recorded files.
Build(r) ==
    /\ pc[r] = "build"
    /\ IF NamesInstallPath(tree[r][at[r]])
       THEN Advance(r) /\ UNCHANGED tmp
       ELSE /\ tmp' = [tmp EXCEPT ![r] = Template(r, tree[r][at[r]])]
            /\ Go(r, "rename") /\ UNCHANGED at
    /\ UNCHANGED <<deps, tree, hits, store, held, damage, spoiled>>

\* The copy is renamed into place, unless another run was first or it was swept.
Publish(r) ==
    LET k == Key(Dir(r))
    IN  /\ pc[r] = "rename"
        /\ IF tmp[r] # None /\ ~Has(k)
           THEN /\ store' = Append(store, [key |-> k, tree |-> tmp[r], leases |-> {}, damaged |-> FALSE])
                /\ Go(r, "claim") /\ UNCHANGED at
           ELSE Advance(r) /\ UNCHANGED store
        /\ tmp' = [tmp EXCEPT ![r] = None]
        /\ UNCHANGED <<deps, tree, hits, held, damage, spoiled>>

\* publishAndEvict: the publisher leases its own entry, which may be gone again.
Claim(r) ==
    LET k == Key(Dir(r))
    IN  /\ pc[r] = "claim"
        /\ \/ /\ Has(k)
              /\ store' = [store EXCEPT ![Slot(k)].leases = @ \cup {<<r, at[r]>>}]
              /\ held' = [held EXCEPT ![r] = @ \cup {at[r]}]
              /\ Go(r, "trim") /\ UNCHANGED <<at, spoiled>>
           \/ /\ ~Has(k) \/ r \in Unlucky
              /\ Advance(r) /\ UNCHANGED <<store, held>>
              /\ spoiled' = IF Has(k) THEN spoiled \cup {r} ELSE spoiled
        /\ UNCHANGED <<deps, tree, hits, tmp, damage>>

\* trimStore.  A copy that has been under way for an hour counts as abandoned.
Trim(r) ==
    /\ pc[r] = "trim" /\ Advance(r)
    /\ \/ /\ store' = Trimmed(store) /\ UNCHANGED spoiled
          /\ \E old \in SUBSET {q \in Run : tmp[q] # None} : tmp' = Swept(old)
       \/ r \in Unlucky /\ spoiled' = spoiled \cup {r} /\ UNCHANGED <<store, tmp>>
    /\ UNCHANGED <<deps, tree, hits, held, damage>>

\* Setup and the command run, whatever they do to the run's own trees.
Command(r) ==
    /\ pc[r] = "command" /\ Go(r, "release")
    /\ UNCHANGED <<deps, at, tree, hits, tmp, store, held, damage, spoiled>>

\* The finally block: each lease is dropped and the store trimmed, in one
\* critical section each; a lease that cannot be dropped is left behind.
Release(r) ==
    /\ pc[r] = "release"
    /\ IF held[r] = {}
       THEN Go(r, "done") /\ UNCHANGED <<store, tmp, held, spoiled>>
       ELSE /\ held' = [held EXCEPT ![r] = @ \ {Min(@)}]
            /\ \/ /\ store' = Trimmed(Unleased(store, <<r, Min(held[r])>>))
                  /\ \E old \in SUBSET {q \in Run : tmp[q] # None} : tmp' = Swept(old)
                  /\ UNCHANGED spoiled
               \/ r \in Unlucky /\ spoiled' = spoiled \cup {r} /\ UNCHANGED <<store, tmp>>
            /\ UNCHANGED pc
    /\ UNCHANGED <<deps, at, tree, hits, damage>>

\* The runner kills a pipeline: its leases and its copy stay behind.
Kill(r) ==
    /\ r \in Killable /\ Alive(r)
    /\ Go(r, "dead") /\ spoiled' = spoiled \cup {r}
    /\ UNCHANGED <<deps, at, tree, hits, tmp, store, held, damage>>

\* An entry loses its meta.json.
Damage ==
    /\ damage < MaxDamage /\ damage' = damage + 1
    /\ \E i \in DOMAIN store : ~store[i].damaged /\ store' = [store EXCEPT ![i].damaged = TRUE]
    /\ UNCHANGED <<deps, pc, at, tree, hits, tmp, held, spoiled>>

Step(r) ==
    \/ Lookup(r) \/ Lease(r) \/ Copy(r) \/ Relocate(r) \/ Replay(r) \/ Install(r)
    \/ Build(r) \/ Publish(r) \/ Claim(r) \/ Trim(r) \/ Command(r) \/ Release(r)

DepsNext == Damage \/ \E r \in Run : Step(r) \/ Stray(r) \/ Kill(r)

DepsSpec == DepsInit /\ [][DepsNext]_vars

-----------------------------------------------------------------------------
(* Properties.                                                               *)

DepsTypeOK ==
    /\ deps \in Workloads
    /\ pc \in [Run -> {"key", "lease", "copy", "relocate", "replay", "install", "build", "rename",
                       "claim", "trim", "command", "release", "done", "dead"}]
    /\ \A r \in Run : at[r] \in DOMAIN deps[r] /\ held[r] \subseteq DOMAIN deps[r]
    /\ \A i, j \in DOMAIN store : store[i].key = store[j].key => i = j
    /\ \A i \in DOMAIN store : store[i].leases \subseteq Run \X Nat
    /\ damage \in 0..MaxDamage /\ spoiled \subseteq Run

\* A run that goes on with a tree from the store (a hit) has the tree that an install of
\* its own would have given it: the same packages, built from the same inputs,
\* naming its own directories, with the side effects of its root scripts; nothing
\* an install of another run, another platform's gap or another run's paths left.
TreesAreFresh ==
    \A h \in hits : tree[h[1]][h[2]] = Fresh(h[1], deps[h[1]][h[2]])

\* Whatever is published stands for every run that has its key: no matter which
\* run built it and what npm could not fetch then, it is complete and unspoilt.
EntriesAreComplete ==
    /\ DepsTypeOK
    /\ \A i \in DOMAIN store : \A r \in Run : \A j \in DOMAIN deps[r] :
           Key(deps[r][j]) = store[i].key =>
               /\ store[i].tree.packages = Fresh(r, deps[r][j]).packages
               /\ store[i].tree.built = Fresh(r, deps[r][j]).built

\* A run that copies from an entry never has it evicted under it, whichever runs
\* publish, trim, end or are killed meanwhile.
ReaderKeepsItsEntry ==
    \A r \in Run : pc[r] \in {"copy", "relocate"} => Has(Key(Dir(r)))

\* Nothing but a killed run, or one that could not have the lock, leaves the store
\* over its bound: it may be over it only while some run is still to trim it.
StoreIsTrimmed ==
    Cardinality({i \in DOMAIN store : ~store[i].damaged}) > MaxBytes =>
        spoiled # {} \/ \E r \in Run : held[r] # {} \/ pc[r] \in {"claim", "trim"}

\* trimStore takes what it should: it keeps the store in bounds and never takes an
\* entry that a run is reading.
EvictionIsSafe == ReaderKeepsItsEntry /\ StoreIsTrimmed
=============================================================================
