---------------------------- MODULE MCDepsCache ----------------------------
(* Instances of DepsCache for TLC. *)
EXTENDS DepsCache, TLC

CONSTANTS r1, r2, r3, p, q

Fetched == [kind |-> "registry", within |-> None, wanted |-> {"root"},
            optional |-> FALSE, skipped |-> FALSE, script |-> FALSE]
Plain == [lock |-> (p :> Fetched) @@ (q :> None), root |-> "hooks", safe |-> FALSE,
          keyFiles |-> FALSE, workspaces |-> "none", leftover |-> FALSE,
          src |-> [named |-> 1, rest |-> 1], cc |-> 1, tempFs |-> 1,
          env |-> [tool |-> 1, locale |-> 1, ticket |-> 1, auth |-> 1],
          names |-> {"work", "real", "tmp"}, how |-> "text"]
\* The same project checked out by another submitter, with other sources.
Again == [Plain EXCEPT !.env = [tool |-> 1, locale |-> 2, ticket |-> 2, auth |-> 2], !.src.rest = 2]
Other == [Plain EXCEPT !.env.tool = 2, !.root = "none"]

\* q is optional and wanted by p, which this platform skips, or by the project too.
Optional(by) ==
    [Plain EXCEPT !.lock = (p :> [Fetched EXCEPT !.optional = TRUE, !.skipped = TRUE])
                             @@ (q :> [Fetched EXCEPT !.optional = TRUE, !.wanted = by, !.kind = "git"]),
                  !.root = "none", !.names = {}]

\* A workspace repo with install scripts, one whose root scripts are declared.
Native(n, rest) == [Plain EXCEPT !.lock[p].script = TRUE, !.workspaces = "ok", !.cc = n, !.src.rest = rest,
                                !.root = "none"]
Declared(named, rest) == [Plain EXCEPT !.root = "other", !.safe = TRUE, !.keyFiles = TRUE,
                                       !.src = [named |-> named, rest |-> rest]]

Relocations == (r1 :> <<Plain>>) @@ (r2 :> <<Again>>) @@ (r3 :> <<Other>>)
TwoDirs == (r1 :> <<Plain, Other>>) @@ (r2 :> <<Other>>) @@ (r3 :> <<Again>>)
Optionals == (r1 :> <<Optional({p, "root"})>>) @@ (r2 :> <<Optional({p, "root"})>>) @@ (r3 :> <<Optional({p})>>)
Natives == (r1 :> <<Native(1, 1)>>) @@ (r2 :> <<[Native(1, 1) EXCEPT !.leftover = TRUE]>>)
           @@ (r3 :> <<Native(2, 1)>>)
Sources == (r1 :> <<Declared(1, 1)>>) @@ (r2 :> <<Declared(1, 2)>>) @@ (r3 :> <<Declared(2, 2)>>)
\* Dirs that are never cached.
Refused == (r1 :> <<[Plain EXCEPT !.lock[p].kind = "unpinned"], [Plain EXCEPT !.how = "binary"]>>)
           @@ (r2 :> <<[Plain EXCEPT !.lock[p].kind = "bundled", !.lock[p].within = q],
                       [Plain EXCEPT !.workspaces = "odd"]>>)
           @@ (r3 :> <<[Plain EXCEPT !.safe = TRUE]>>)

AllWorkloads == {Relocations, TwoDirs, Optionals, Natives, Sources, Refused}

\* r2's work dir is reached through a symbolic link.
Places == (r1 :> [work |-> "w1", real |-> "w1", tmp |-> "t1"])
          @@ (r2 :> [work |-> "w2", real |-> "v2", tmp |-> "t2"])
          @@ (r3 :> [work |-> "w3", real |-> "w3", tmp |-> "t3"])
AllPaths == {"w1", "w2", "w3", "v2", "t1", "t2", "t3"}
=============================================================================
