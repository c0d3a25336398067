---------------------------- MODULE MCSelection ----------------------------
(* Instances of Selection for TLC. *)
EXTENDS Selection, TLC

CONSTANTS a, b, c, d

Keys == {"k1", "k2", "k3", "k4"}

Light == [key |-> "k1", conflicts |-> {}, ceiling |-> 1, weight |-> 1, cpu |-> 10,
          min |-> 10, mem |-> 1, nice |-> None, tier |-> "medium", sim |-> FALSE, exclusive |-> FALSE,
          aging |-> TRUE, short |-> FALSE, brief |-> FALSE, push |-> None]
Gate(caller, git, what) == [caller |-> caller, git |-> git, what |-> what]

\* b conflicts with a and is passed by c; d displaces it until it is re-tiered.
Conflict == (a :> Light) @@ (b :> [Light EXCEPT !.key = "k2", !.conflicts = {"k1"}])
            @@ (c :> [Light EXCEPT !.key = "k3", !.cpu = 30, !.min = 20, !.brief = TRUE])
            @@ (d :> [Light EXCEPT !.key = "k4", !.tier = "high", !.brief = TRUE])
\* b is as heavy as the host; a and c are pushes of one caller, d repeats a.
Heavy == (a :> [Light EXCEPT !.push = Gate(3, 2, 5)]) @@ (b :> [Light EXCEPT !.key = "k2", !.weight = 4])
         @@ (c :> [Light EXCEPT !.key = "k3", !.short = TRUE, !.tier = "high", !.push = Gate(3, 3, 6)])
         @@ (d :> [Light EXCEPT !.key = "k4", !.aging = FALSE, !.tier = "high", !.push = Gate(3, 4, 5)])
\* b claims more cores than are free beside a.
Cores == (a :> [Light EXCEPT !.cpu = 20, !.min = 20]) @@ (b :> [Light EXCEPT !.key = "k2", !.cpu = 40, !.min = 40, !.mem = 2])
         @@ (c :> [Light EXCEPT !.key = "k3", !.tier = "low"])
         @@ (d :> [Light EXCEPT !.key = "k4", !.tier = "high", !.cpu = 20])
\* Beside a run, pushes of two callers; the last is an older repeat of b.
Pushes == (a :> [Light EXCEPT !.cpu = 30, !.min = 30])
          @@ (b :> [Light EXCEPT !.key = "k2", !.push = Gate(1, 4, 2), !.cpu = 30, !.min = 30])
          @@ (c :> [Light EXCEPT !.key = "k3", !.push = Gate(2, 3, 3), !.short = TRUE])
          @@ (d :> [Light EXCEPT !.key = "k4", !.push = Gate(1, 2, 2), !.brief = TRUE, !.cpu = 20, !.min = 20])
\* Two sims, an exclusive run and a test.
Mixed == (a :> [Light EXCEPT !.sim = TRUE, !.cpu = 30]) @@ (b :> [Light EXCEPT !.key = "k2", !.sim = TRUE])
         @@ (c :> [Light EXCEPT !.key = "k3", !.exclusive = TRUE])
         @@ (d :> [Light EXCEPT !.key = "k4", !.brief = TRUE])
AllWorkloads == {Conflict, Heavy, Cores, Pushes, Mixed}

TierNices == [low |-> 10, medium |-> 10, high |-> 5]

NoPast == [g \in 0..40 |-> None]
Calm == [up |-> TRUE, gate |-> FALSE, cool |-> FALSE, quiet |-> TRUE, load |-> FALSE,
         critical |-> FALSE, x |-> 0, m |-> 3, broken |-> FALSE,
         use |-> [t \in Ticket |-> None], past |-> [t \in Ticket |-> NoPast]]
Using(cpu, peak, mem) == [t \in Ticket |-> [cpu |-> cpu, peak |-> peak, mem |-> mem]]
\* History expects a full claim to use less and a small one to use more.
Past == [t \in Ticket |-> [NoPast EXCEPT ![10] = 20, ![20] = 15, ![30] = 15, ![40] = 20]]
AllSamples == {Calm,
               [Calm EXCEPT !.x = 20, !.m = 1, !.use = Using(10, None, 1)],
               [Calm EXCEPT !.use = Using(5, 10, 1), !.past = Past],
               [Calm EXCEPT !.gate = TRUE],
               [Calm EXCEPT !.broken = TRUE],
               [Calm EXCEPT !.cool = TRUE],
               [Calm EXCEPT !.up = FALSE, !.load = TRUE]}
InOrder == <<a, b, c, d>>
SomeRetiers == {<<d, "low">>}

\* What DrainedHostsStart asks of the workloads and the quiet sample.
ASSUME Served == Servable
=============================================================================
