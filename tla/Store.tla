-------------------------------- MODULE Store --------------------------------
(*****************************************************************************)
(* The snapshot store (src/store/): the primary's object store and journal,  *)
(* its retention, its crashes and restarts, the replicator that ships the    *)
(* journal, and the replica with a retention of its own.                     *)
(*                                                                           *)
(* The primary is one event loop.  A handler runs without interruption from  *)
(* one await to the next, so such a section is `todo`, the durable steps it  *)
(* still has to make: no other handler runs meanwhile, but the process may   *)
(* die between two steps, and a write of the journal may fail.  A manifest   *)
(* is identified with its job; every object has size 1.                      *)
(*****************************************************************************)
EXTENDS Naturals, FiniteSets, FiniteSetsExt, Sequences, SequencesExt

CONSTANTS
    Blob, Job, Uploader,
    Refs,           \* Refs[j]: the blobs that the manifest of j references
    Limit,          \* admission is refused when the store would hold more
    EvictAt,        \* from this many objects on, retention evicts
    BlobGrace, ManifestGrace, ReplicaGrace,
    MaxNow, MaxRecords, MaxFaults,    \* bounds; a fault is a crash, an accident or a failed write
    Mixes           \* bound: what happens in one behaviour, see Mixable

Object == Blob \cup Job
Node == {"primary", "replica"}

\* What only some behaviours of an instance have: two uploads at a time, operations
\* of an administrator, time, faults.
\* "torn": a rollback of the journal may fail and leave a complete record.
Mixable == {"race", "pin", "delete", "rejournal", "age", "crash", "fail", "torn", "loss"}

ASSUME StoreAssumption ==
    /\ IsFiniteSet(Object) /\ Blob \cap Job = {} /\ Blob # {} /\ IsFiniteSet(Uploader)
    /\ Refs \in [Job -> SUBSET Blob]
    /\ {Limit, EvictAt, BlobGrace, ManifestGrace, ReplicaGrace, MaxNow,
        MaxRecords, MaxFaults} \subseteq Nat
    /\ MaxNow > 0 /\ Mixes \subseteq SUBSET Mixable

Metas == [terminal : 0..MaxNow, pinned : BOOLEAN]
NoMeta == [terminal |-> 0, pinned |-> FALSE]

\* A record of the journal; val is the mark of a "terminal" or a "pin" record.
Records == [kind : {"put", "intent", "cancel", "delete", "terminal", "pin"},
            of : Object, val : 0..MaxNow]
Rec(kind, o) == [kind |-> kind, of |-> o, val |-> 0]

\* A durable step of a section; was and as are the meta before and after it.
Steps == [do : {"flush", "rename", "touch", "commit", "journal", "verify", "rejournal", "cancel", "write", "stamp",
                "register", "meta", "state", "intent", "unlink", "unmeta", "delete",
                "expire", "collect", "evict", "free"},
          of : Object, was : Metas, as : Metas]
Do(do, o) == [do |-> do, of |-> o, was |-> NoMeta, as |-> NoMeta]

VARIABLES
    mix,        \* what happens in this behaviour
    journal,    \* the committed records
    tail,       \* a record that a failed rollback left behind the committed end
    disk,       \* disk[n]: the objects of node n
    meta,       \* meta[n][j]: meta/<job>.json, NoMeta when absent
    mtime,      \* mtime[n][b]: when b was last uploaded
    alive,      \* the primary's process runs
    mem,        \* what that process knows, see Boot
    todo,       \* the rest of its current section
    upload,     \* upload[u]: an upload in flight and how far it is
    mark,       \* the watermark: the records that are verified at the replica
    shipping,   \* the record after it was sent and is to be verified
    now,
    faults,     \* how many there were
    gone,       \* history: objects lost by accident and not stored again
    arrived     \* history: objects that were verified at the replica

vars == <<mix, journal, tail, disk, meta, mtime, alive, mem, todo, upload, mark, shipping, now,
          faults, gone, arrived>>
net == <<mark, shipping, arrived>>

Fault(kind) == kind \in mix /\ faults < MaxFaults /\ faults' = faults + 1

-----------------------------------------------------------------------------
(* The journal. *)

\* The last object record naming o; pins and terminal marks never overwrite it.
ObjectState(s, o) ==
    LET at == {i \in DOMAIN s : s[i].of = o /\ s[i].kind \notin {"terminal", "pin"}}
    IN  IF at = {} THEN "none"
        ELSE IF s[Max(at)].kind = "cancel" THEN "put" ELSE s[Max(at)].kind

CommittedDeletion(o, i) == \E k \in DOMAIN journal : k > i /\ journal[k] = Rec("delete", o)

\* The memory of a process that has just opened the store.
Boot(s, d) == [intents |-> {o \in Object : ObjectState(s, o) = "intent"},
               pending |-> {}, unjournaled |-> {}, verifying |-> {},
               bytes |-> Cardinality(d), broken |-> FALSE]

\* Startup: every object on disk gets a record, blobs first; an interrupted
\* deletion gets its delete record; an object that is missing otherwise is lost.
Reconciled(s) ==
    LET orphans == {o \in disk["primary"] : ObjectState(s, o) \notin {"put", "intent"}}
        halfway == {o \in Object \ disk["primary"] : ObjectState(s, o) = "intent"}
        put(o) == Rec("put", o)
    IN  s \o SetToSeq({put(o) : o \in orphans \cap Blob}) \o SetToSeq({put(o) : o \in orphans \cap Job})
          \o SetToSeq({Rec("delete", o) : o \in halfway})

StoreInit ==
    /\ mix \in Mixes
    /\ journal = <<>> /\ tail = <<>>
    /\ disk = [n \in Node |-> {}]
    /\ meta = [n \in Node |-> [j \in Job |-> NoMeta]]
    /\ mtime = [n \in Node |-> [b \in Blob |-> 0]]
    /\ alive = TRUE /\ mem = Boot(<<>>, {}) /\ todo = <<>>
    /\ upload = [u \in Uploader |-> [pc |-> "idle", of |-> CHOOSE b \in Blob : TRUE]]
    /\ mark = 0 /\ shipping = FALSE /\ now = 1
    /\ faults = 0 /\ gone = {} /\ arrived = {}

-----------------------------------------------------------------------------
(* What the stores hold, of node n. *)

Live(n, j) == j \in disk[n] /\ (meta[n][j].terminal = 0 \/ meta[n][j].pinned)
Protected(b) == \E j \in Job : Live("primary", j) /\ b \in Refs[j]
Referenced(n) == UNION {Refs[j] : j \in disk[n] \cap Job}
Terminal(n) == {j \in disk[n] \cap Job : ~Live(n, j)}
Expired(n, grace) == {j \in Terminal(n) : now - meta[n][j].terminal >= grace}
Unreferenced(n, grace) == {b \in (disk[n] \cap Blob) \ Referenced(n) : now - mtime[n][b] >= grace}

\* Objects admitted and not yet committed.
Reserved == Cardinality({u \in Uploader : upload[u].pc = "stream"})

-----------------------------------------------------------------------------
(* Handlers of the primary.  Each begins a section. *)

Free == alive /\ todo = <<>>
Room == Len(journal) < MaxRecords

\* A step with nothing to do.
Idle(s) == \/ s.do = "journal" /\ s.of \notin mem.unjournaled
           \/ s.do = "cancel" /\ s.of \notin mem.intents
           \/ s.do = "flush" /\ mem.pending = {}
Due(steps) ==
    LET due == {i \in DOMAIN steps : ~Idle(steps[i])}
        Nth(n) == CHOOSE i \in due : Cardinality({k \in due : k <= i}) = n
    IN  [n \in 1..Cardinality(due) |-> steps[Nth(n)]]
Begin(steps) == Free /\ todo' = Due(steps)

Intact(b) == b \in disk["primary"]

PutBlob(u, b) ==
    /\ Free /\ Room /\ upload[u].pc = "idle"
    /\ "race" \in mix \/ \A v \in Uploader : upload[v].pc = "idle"
    /\ \/ Intact(b) /\ upload' = [upload EXCEPT ![u] = [pc |-> "duplicate", of |-> b]]
       \/ ~Intact(b) /\ mem.bytes + Reserved + 1 <= Limit
          /\ upload' = [upload EXCEPT ![u] = [pc |-> "stream", of |-> b]]
    /\ UNCHANGED <<mix, journal, tail, disk, meta, mtime, alive, mem, todo, net, now, faults, gone>>

AcknowledgeDuplicate(u) ==
    /\ upload[u].pc = "duplicate"
    /\ LET b == upload[u].of
       IN  Begin(IF Intact(b) THEN <<Do("touch", b), Do("journal", b), Do("cancel", b)>> ELSE <<>>)
    /\ upload' = [upload EXCEPT ![u].pc = "idle"]
    /\ UNCHANGED <<mix, journal, tail, disk, meta, mtime, alive, mem, net, now, faults, gone>>

\* The body is in tmp/: another upload of it may have won the race meanwhile.
\* Mutant: the pending deletions are left for later.
MutCommitBlob(u) ==
    /\ upload[u].pc = "stream"
    /\ LET b == upload[u].of
       IN  Begin(IF Intact(b) THEN <<Do("touch", b), Do("journal", b)>>
                 ELSE <<Do("rename", b), Do("commit", b)>>)
    /\ upload' = [upload EXCEPT ![u].pc = "idle"]
    /\ UNCHANGED <<mix, journal, tail, disk, meta, mtime, alive, mem, net, now, faults, gone>>

\* The body is in tmp/: another upload of it may have won the race meanwhile.
CommitBlob(u) ==
    /\ upload[u].pc = "stream"
    /\ LET b == upload[u].of
       IN  Begin(IF Intact(b) THEN <<Do("touch", b), Do("journal", b)>>
                 ELSE <<Do("flush", b), Do("rename", b), Do("commit", b)>>)
    /\ upload' = [upload EXCEPT ![u].pc = "idle"]
    /\ UNCHANGED <<mix, journal, tail, disk, meta, mtime, alive, mem, net, now, faults, gone>>

UploadFails(u) ==
    /\ Free /\ upload[u].pc # "idle"
    /\ upload' = [upload EXCEPT ![u].pc = "idle"]
    /\ UNCHANGED <<mix, journal, tail, disk, meta, mtime, alive, mem, todo, net, now, faults, gone>>

RegisterManifest(j) ==
    /\ Room /\ j \notin disk["primary"] /\ Refs[j] \subseteq disk["primary"]
    /\ mem.bytes + Reserved + 1 <= Limit
    /\ ObjectState(journal, j) # "delete"     \* bound: a deleted job does not come back
    /\ LET each(do) == SetToSeq({Do(do, b) : b \in Refs[j]})
       IN  Begin(<<Do("flush", j)>> \o each("journal") \o each("cancel")
                   \o <<Do("write", j), Do("stamp", j), Do("register", j)>>)
    /\ UNCHANGED <<mix, journal, tail, disk, meta, mtime, alive, mem, upload, net, now, faults, gone>>

\* Terminal marks and pins; a change that changes nothing is not journaled.
SetJobState(j, m) ==
    /\ Room /\ j \in disk["primary"]
    /\ LET old == meta["primary"][j]
       IN  /\ m # old /\ (m.terminal = old.terminal \/ m.pinned = old.pinned)
           /\ Begin(<<Do("flush", j), [do |-> "meta", of |-> j, was |-> old, as |-> m],
                      [do |-> "state", of |-> j, was |-> old, as |-> m]>>)
    /\ UNCHANGED <<mix, journal, tail, disk, meta, mtime, alive, mem, upload, net, now, faults, gone>>

MarkTerminal(j) == SetJobState(j, [meta["primary"][j] EXCEPT !.terminal = now])
SetPinned(j) == "pin" \in mix /\ SetJobState(j, [meta["primary"][j] EXCEPT !.pinned = ~@])

DeleteSteps(o) == <<Do("flush", o), Do("intent", o), Do("unlink", o)>>
                    \o (IF o \in Job THEN <<Do("unmeta", o)>> ELSE <<>>) \o <<Do("delete", o)>>

\* DELETE /objects of an administrator.
DeleteObject(o) ==
    /\ "delete" \in mix /\ Room /\ o \in disk["primary"] \ mem.verifying
    /\ o \in Blob => ~Protected(o)
    /\ Begin(DeleteSteps(o))
    /\ UNCHANGED <<mix, journal, tail, disk, meta, mtime, alive, mem, upload, net, now, faults, gone>>

\* Mutant: an evicted group takes its blobs along, referenced or not.
MutVictims(s) ==
    (CASE s.do = "expire" -> Expired("primary", ManifestGrace)
      [] s.do = "collect" -> Unreferenced("primary", BlobGrace)
      [] s.do = "evict" -> IF mem.bytes < EvictAt THEN {} ELSE Terminal("primary")
      [] s.do = "free" -> Refs[s.of] \cap disk["primary"]
      [] OTHER -> {}) \ mem.verifying

\* What a loop of a retention pass deletes: the oldest terminal group is evicted
\* first, and the blobs that no other group references go with it.
Victims(s) ==
    (CASE s.do = "expire" -> Expired("primary", ManifestGrace)
      [] s.do = "collect" -> Unreferenced("primary", BlobGrace)
      [] s.do = "evict" -> IF mem.bytes < EvictAt THEN {}
                           ELSE {j \in Terminal("primary") : \A k \in Terminal("primary") \ mem.verifying :
                                    meta["primary"][j].terminal <= meta["primary"][k].terminal}
      [] s.do = "free" -> (Refs[s.of] \cap disk["primary"]) \ Referenced("primary")
      [] OTHER -> {}) \ mem.verifying

Sweep ==
    /\ LET pass == [i \in 1..3 |-> Do(<<"expire", "collect", "evict">>[i], CHOOSE o \in Object : TRUE)]
       IN  (\E i \in 1..3 : Victims(pass[i]) # {}) /\ Begin(pass)
    /\ UNCHANGED <<mix, journal, tail, disk, meta, mtime, alive, mem, upload, net, now, faults, gone>>

\* Mutant: nothing is flushed between two appends.
MutMaintain ==
    /\ mem.pending # {} /\ Begin(<<>>)
    /\ UNCHANGED <<mix, journal, tail, disk, meta, mtime, alive, mem, upload, net, now, faults, gone>>

Maintain ==
    /\ mem.pending # {} /\ Begin(<<Do("flush", CHOOSE o \in mem.pending : TRUE)>>)
    /\ UNCHANGED <<mix, journal, tail, disk, meta, mtime, alive, mem, upload, net, now, faults, gone>>

\* The repair of the weekly comparison: o is hashed, retention defers it until then.
Rejournal(o) ==
    /\ "rejournal" \in mix /\ Room /\ mem.verifying = {} /\ o \in disk["primary"]
    /\ Begin(<<Do("flush", o), Do("verify", o)>>)
    /\ UNCHANGED <<mix, journal, tail, disk, meta, mtime, alive, mem, upload, net, now, faults, gone>>

Rejournaled(o) ==
    /\ o \in mem.verifying
    /\ Begin(<<Do("rejournal", o)>>)
    /\ mem' = [mem EXCEPT !.verifying = {}]
    /\ UNCHANGED <<mix, journal, tail, disk, meta, mtime, alive, upload, net, now, faults, gone>>

-----------------------------------------------------------------------------
(* The steps of a section. *)

Written(s) ==
    IF s.do = "state"
    THEN IF s.was.pinned # s.as.pinned
         THEN [kind |-> "pin", of |-> s.of, val |-> IF s.as.pinned THEN 1 ELSE 0]
         ELSE [kind |-> "terminal", of |-> s.of, val |-> s.as.terminal]
    ELSE Rec(IF s.do \in {"commit", "journal", "rejournal", "register"} THEN "put" ELSE s.do, s.of)

Appending == {"commit", "journal", "rejournal", "register", "state", "intent", "cancel", "delete"}

Recorded(s) ==
    [mem EXCEPT !.unjournaled = IF s.do \in {"commit", "journal"} THEN @ \ {s.of} ELSE @,
                !.intents = IF s.do = "intent" THEN @ \cup {s.of}
                            ELSE IF s.do \in {"commit", "cancel", "delete"} THEN @ \ {s.of} ELSE @,
                !.pending = IF s.do = "delete" THEN @ \ {s.of} ELSE @]

AppendRecord(s) ==
    /\ s.do \in Appending /\ ~mem.broken
    /\ journal' = Append(journal, Written(s))
    /\ mem' = Recorded(s) /\ todo' = Tail(todo)
    /\ gone' = IF s.do \in {"commit", "register"} THEN gone \ {s.of} ELSE gone
    /\ UNCHANGED <<disk, meta, mtime>>

FlushOne(s) ==
    /\ s.do = "flush" /\ ~mem.broken
    /\ \E o \in mem.pending :
          /\ journal' = Append(journal, Rec("delete", o))
          /\ mem' = [mem EXCEPT !.pending = @ \ {o}]
          /\ todo' = IF mem.pending = {o} THEN Tail(todo) ELSE todo
    /\ UNCHANGED <<disk, meta, mtime, gone>>

\* tmp/ to its address, or a new manifest with the meta of a job that has just begun.
StoreObject(s) ==
    /\ s.do \in {"rename", "write"} /\ todo' = Tail(todo)
    /\ disk' = [disk EXCEPT !["primary"] = @ \cup {s.of}]
    /\ mtime' = IF s.of \in Blob THEN [mtime EXCEPT !["primary"][s.of] = now] ELSE mtime
    /\ mem' = [mem EXCEPT !.bytes = @ + 1]
    /\ UNCHANGED <<journal, meta, gone>>

UpdateMeta(s) ==
    /\ s.do \in {"stamp", "meta", "unmeta"} /\ todo' = Tail(todo)
    /\ meta' = [meta EXCEPT !["primary"][s.of] = s.as]
    /\ UNCHANGED <<journal, disk, mtime, mem, gone>>

Touch(s) ==
    /\ s.do \in {"touch", "verify"} /\ todo' = Tail(todo)
    /\ mtime' = IF s.do = "touch" THEN [mtime EXCEPT !["primary"][s.of] = now] ELSE mtime
    /\ mem' = IF s.do = "verify" THEN [mem EXCEPT !.verifying = {s.of}] ELSE mem
    /\ UNCHANGED <<journal, disk, meta, gone>>

Unlink(s) ==
    /\ s.do = "unlink" /\ todo' = Tail(todo)
    /\ disk' = [disk EXCEPT !["primary"] = @ \ {s.of}]
    /\ mem' = [mem EXCEPT !.bytes = @ - 1, !.pending = @ \cup {s.of}]
    /\ UNCHANGED <<journal, meta, mtime, gone>>

Retain(s) ==
    /\ s.do \in {"expire", "collect", "evict", "free"}
    /\ \/ \E o \in Victims(s) :
            todo' = Due(DeleteSteps(o)) \o (IF s.do = "evict" THEN <<Do("free", o)>> ELSE <<>>) \o todo
       \/ Victims(s) = {} /\ todo' = Tail(todo)
    /\ UNCHANGED <<journal, disk, meta, mtime, mem, gone>>

Step ==
    /\ alive /\ todo # <<>>
    /\ LET s == Head(todo)
       IN  \/ AppendRecord(s) \/ FlushOne(s) \/ StoreObject(s)
           \/ UpdateMeta(s) \/ Touch(s) \/ Unlink(s) \/ Retain(s)
    /\ UNCHANGED <<mix, tail, alive, upload, net, now, faults>>

\* Mutant: the blob that stays is not counted.
MutUndo(s, after) ==
    \/ /\ s.do \in {"commit", "register"}
       /\ \/ disk' = [disk EXCEPT !["primary"] = @ \ {s.of}]
          \/ s.do = "commit" /\ UNCHANGED disk
       /\ mem' = [after EXCEPT !.bytes = @ - 1]
       /\ meta' = IF s.do = "register" THEN [meta EXCEPT !["primary"][s.of] = NoMeta] ELSE meta
    \/ s.do \notin {"commit", "register"} /\ mem' = after /\ UNCHANGED <<disk, meta>>

\* What a handler undoes when its append failed: a blob that cannot be unlinked
\* again stays, without a record.
Undo(s, after) ==
    \/ /\ s.do \in {"commit", "register"}
       /\ disk' = [disk EXCEPT !["primary"] = @ \ {s.of}]
       /\ mem' = [after EXCEPT !.bytes = @ - 1]
       /\ meta' = IF s.do = "register" THEN [meta EXCEPT !["primary"][s.of] = NoMeta] ELSE meta
    \/ /\ s.do = "commit"
       /\ mem' = [after EXCEPT !.unjournaled = @ \cup {s.of}]
       /\ UNCHANGED <<disk, meta>>
    \/ /\ s.do \notin {"commit", "register"}
       /\ mem' = after
       /\ meta' = IF s.do = "state" THEN [meta EXCEPT !["primary"][s.of] = s.was] ELSE meta
       /\ UNCHANGED disk

\* What the append of a step may leave behind the committed end.
Unfinished(s) == IF s.do = "flush" THEN {Rec("delete", o) : o \in mem.pending} ELSE {Written(s)}

\* A write of the journal fails.  When its rollback fails too, the journal refuses
\* every append until a restart, which may find the record complete.
AppendFails ==
    /\ alive /\ todo # <<>>
    /\ LET s == Head(todo)
       IN  /\ s.do \in Appending \cup {"flush"}
           /\ \/ mem.broken /\ UNCHANGED <<tail, faults>> /\ Undo(s, mem)
              \/ /\ ~mem.broken /\ Fault("fail")
                 /\ \/ UNCHANGED tail /\ Undo(s, mem)
                    \/ /\ tail' \in {<<>>} \cup {<<r>> : r \in IF "torn" \in mix THEN Unfinished(s) ELSE {}}
                       /\ Undo(s, [mem EXCEPT !.broken = TRUE])
    /\ todo' = <<>>
    /\ UNCHANGED <<mix, journal, mtime, alive, upload, net, now, gone>>

\* An unlink is refused: the object stays, with its intent in the journal.
UnlinkFails ==
    /\ alive /\ todo # <<>> /\ Head(todo).do = "unlink"
    /\ Fault("fail") /\ todo' = <<>>
    /\ UNCHANGED <<mix, journal, tail, disk, meta, mtime, alive, mem, upload, net, now, gone>>

-----------------------------------------------------------------------------
(* Crashes, restarts and accidents. *)

\* The process dies, at any point of a section; an error in a timed retention pass
\* is not caught and ends it too.  Bound: with a broken journal nothing but an
\* administrator's restart ends it.
Crash ==
    /\ alive /\ ~mem.broken /\ Fault("crash")
    /\ alive' = FALSE /\ todo' = <<>> /\ shipping' = FALSE
    /\ upload' = [u \in Uploader |-> [upload[u] EXCEPT !.pc = "idle"]]
    /\ mem' = Boot(<<>>, {})
    /\ UNCHANGED <<mix, journal, tail, disk, meta, mtime, mark, arrived, now, gone>>

\* After a crash, or when the store is stopped, its replication drained, and started.
Restart ==
    /\ todo = <<>> /\ ~shipping
    /\ LET found == journal \o tail
       IN  journal' = Reconciled(found) /\ mem' = Boot(found, disk["primary"])
    /\ alive' = TRUE /\ tail' = <<>>
    /\ upload' = [u \in Uploader |-> [upload[u] EXCEPT !.pc = "idle"]]
    /\ UNCHANGED <<mix, disk, meta, mtime, todo, net, now, faults, gone>>

\* An object vanishes from the primary's disk.
Loss(o) ==
    /\ Fault("loss") /\ todo = <<>>
    /\ o \in disk["primary"]
    /\ disk' = [disk EXCEPT !["primary"] = @ \ {o}]
    /\ gone' = gone \cup {o}
    /\ UNCHANGED <<mix, journal, tail, meta, mtime, alive, mem, todo, upload, net, now>>

Tick ==
    /\ "age" \in mix /\ now < MaxNow /\ todo = <<>> /\ now' = now + 1
    /\ UNCHANGED <<mix, journal, tail, disk, meta, mtime, alive, mem, todo, upload, net, faults, gone>>

-----------------------------------------------------------------------------
(* The replicator, a loop of the primary's process, and the replica. *)

primary == <<journal, tail, alive, mem, todo, upload>>

Next1 == journal[mark + 1]
Round == Free /\ mark < Len(journal)

Advance == mark' = mark + 1 /\ shipping' = FALSE

\* Mutant: a put whose object is gone is always skipped.
MutSkipRecord ==
    /\ Round /\ ~shipping
    /\ LET o == Next1.of
       IN  \/ Next1.kind \in {"intent", "cancel", "delete"}
           \/ Next1.kind = "put" /\ o \notin disk["primary"]
    /\ Advance
    /\ UNCHANGED <<mix, primary, disk, meta, mtime, arrived, now, faults, gone>>

\* Deletions are never shipped; a put whose object retention has removed is skipped.
SkipRecord ==
    /\ Round /\ ~shipping
    /\ LET o == Next1.of
           here == o \in disk["primary"]
           deleted == CommittedDeletion(o, mark + 1)
       IN  \/ Next1.kind \in {"intent", "cancel", "delete"}
           \/ Next1.kind = "put" /\ ~here /\ deleted
           \/ /\ Next1.kind \in {"terminal", "pin"} /\ o \notin disk["replica"]
              /\ IF here THEN meta["primary"][o].terminal # 0 ELSE deleted
    /\ Advance
    /\ UNCHANGED <<mix, primary, disk, meta, mtime, arrived, now, faults, gone>>

\* Mutant: a manifest is taken whatever blobs the replica has.
MutShipObject ==
    /\ Round /\ ~shipping /\ Next1.kind = "put" /\ Next1.of \in disk["primary"]
    /\ disk' = [disk EXCEPT !["replica"] = @ \cup {Next1.of}]
    /\ shipping' = TRUE
    /\ UNCHANGED <<mix, primary, meta, mtime, mark, arrived, now, faults, gone>>

\* A manifest is refused while the replica misses blobs of it: they are shipped first.
ShipObject ==
    /\ Round /\ ~shipping /\ Next1.kind = "put" /\ Next1.of \in disk["primary"]
    /\ LET missing == IF Next1.of \in Job \ disk["replica"] THEN Refs[Next1.of] \ disk["replica"] ELSE {}
       IN  \E o \in (IF missing = {} THEN {Next1.of} ELSE missing \cap disk["primary"]) :
              /\ disk' = [disk EXCEPT !["replica"] = @ \cup {o}]
              /\ mtime' = IF o \in Blob THEN [mtime EXCEPT !["replica"][o] = now] ELSE mtime
              /\ meta' = IF o \in Job \ disk["replica"] THEN [meta EXCEPT !["replica"][o] = NoMeta] ELSE meta
              /\ shipping' = (missing = {})
    /\ UNCHANGED <<mix, primary, mark, arrived, now, faults, gone>>

MetaWith(m, r) == IF r.kind = "pin" THEN [m EXCEPT !.pinned = (r.val = 1)] ELSE [m EXCEPT !.terminal = r.val]

ShipState ==
    /\ Round /\ ~shipping /\ Next1.kind \in {"terminal", "pin"} /\ Next1.of \in disk["replica"]
    /\ meta' = [meta EXCEPT !["replica"][Next1.of] = MetaWith(@, Next1)]
    /\ shipping' = TRUE
    /\ UNCHANGED <<mix, primary, disk, mtime, mark, arrived, now, faults, gone>>

\* The replica reports what it holds: only a match moves the watermark.
VerifyShipped ==
    /\ Round /\ shipping
    /\ LET o == Next1.of
           match == /\ o \in disk["replica"]
                    /\ Next1.kind = "put" \/ meta["replica"][o] = MetaWith(meta["replica"][o], Next1)
       IN  IF match THEN Advance /\ arrived' = (IF Next1.kind = "put" THEN arrived \cup {o} ELSE arrived)
           ELSE shipping' = FALSE /\ UNCHANGED <<mark, arrived>>
    /\ UNCHANGED <<mix, primary, disk, meta, mtime, now, faults, gone>>

\* The request was served, its answer did not come: the next round starts over.
AnswerLost ==
    /\ Free /\ shipping /\ Fault("fail")
    /\ shipping' = FALSE
    /\ UNCHANGED <<mix, primary, disk, meta, mtime, mark, arrived, now, gone>>

\* The replica's own retention pass.
ReplicaSweep ==
    LET expired == Expired("replica", ReplicaGrace)
        kept == disk["replica"] \ expired
        loose == {b \in kept \cap Blob : /\ \A j \in kept \cap Job : b \notin Refs[j]
                                         /\ now - mtime["replica"][b] >= ReplicaGrace}
    IN  /\ todo = <<>> /\ expired \cup loose # {}
        /\ disk' = [disk EXCEPT !["replica"] = kept \ loose]
        /\ meta' = [meta EXCEPT !["replica"] = [j \in Job |-> IF j \in expired THEN NoMeta ELSE @[j]]]
        /\ UNCHANGED <<mix, primary, mtime, net, now, faults, gone>>

-----------------------------------------------------------------------------
Replicate == SkipRecord \/ ShipObject \/ ShipState \/ VerifyShipped

StoreNext ==
    \/ \E u \in Uploader : \/ \E b \in Blob : PutBlob(u, b)
                           \/ AcknowledgeDuplicate(u) \/ CommitBlob(u) \/ UploadFails(u)
    \/ \E j \in Job : RegisterManifest(j) \/ MarkTerminal(j) \/ SetPinned(j)
    \/ \E o \in Object : DeleteObject(o) \/ Rejournal(o) \/ Rejournaled(o) \/ Loss(o)
    \/ Sweep \/ Maintain \/ Step \/ AppendFails \/ UnlinkFails
    \/ Crash \/ Restart \/ Tick
    \/ SkipRecord \/ ShipObject \/ ShipState \/ VerifyShipped \/ AnswerLost \/ ReplicaSweep

\* A section that has begun ends, systemd restarts a store that died, and the event
\* loop serves every callback that is due again and again between two sections: the
\* maintenance timer, the replication timer and the answers it waits for.
StoreFairness == /\ WF_vars(Step) /\ WF_vars(~alive /\ Restart)
                 /\ SF_vars(Maintain) /\ SF_vars(Replicate)

StoreSpec == StoreInit /\ [][StoreNext]_vars /\ StoreFairness

-----------------------------------------------------------------------------
(* Properties. *)

StoreTypeOK ==
    /\ mix \in Mixes
    /\ journal \in Seq(Records) /\ tail \in {<<>>} \cup {<<r>> : r \in Records}
    /\ disk \in [Node -> SUBSET Object]
    /\ meta \in [Node -> [Job -> Metas]]
    /\ mtime \in [Node -> [Blob -> 0..MaxNow]]
    /\ alive \in BOOLEAN /\ shipping \in BOOLEAN
    /\ mem \in [intents : SUBSET Object, pending : SUBSET Object, unjournaled : SUBSET Blob,
                verifying : SUBSET Object, bytes : Nat, broken : BOOLEAN]
    /\ todo \in Seq(Steps)
    /\ upload \in [Uploader -> [pc : {"idle", "stream", "duplicate"}, of : Blob]]
    /\ mark \in 0..Len(journal) /\ now \in 1..MaxNow
    /\ faults \in 0..MaxFaults
    /\ gone \subseteq Object /\ arrived \subseteq Object

\* "No journal prefix ever contains a manifest without the blobs it needs"
\* (registerManifest): at its first record, none of them is unrecorded or deleted.
ManifestsFollowBlobs ==
    \A i \in DOMAIN journal : journal[i].kind = "put" /\ journal[i].of \in Job
                               /\ journal[i] \notin Range(SubSeq(journal, 1, i - 1))
        => \A b \in Refs[journal[i].of] : ObjectState(SubSeq(journal, 1, i), b) \in {"put", "intent"}

\* A job that is not terminal keeps its snapshot: its blobs are on the disk but for
\* accidents, and no record says that retention took or is taking them, so that a
\* restart never turns their loss into a deletion.
LiveJobsKeepBlobs ==
    \A j \in disk["primary"] \cap Job : meta["primary"][j].terminal = 0
        => /\ Refs[j] \subseteq disk["primary"] \cup gone
           /\ \A b \in Refs[j] : ObjectState(journal, b) \notin {"intent", "delete"}

\* A registered snapshot can be had from the primary, whole, until its job has ended;
\* and so says the journal that restarts and replication go by.
SnapshotsAreKept == StoreTypeOK /\ ManifestsFollowBlobs /\ LiveJobsKeepBlobs

\* Only retention writes tombstones: a delete record ends an intent that nothing
\* has voided since, whatever failed or crashed between the two.
TombstonesAreIntended ==
    \A i \in DOMAIN journal : journal[i].kind = "delete"
        => ObjectState(SubSeq(journal, 1, i - 1), journal[i].of) = "intent"

\* The watermark passes an object that the replica never confirmed only when a
\* deletion explains its absence.
WatermarkIsEarned ==
    \A i \in 1..mark : journal[i].kind = "put"
        => journal[i].of \in arrived \/ CommittedDeletion(journal[i].of, i)

\* Behind the watermark a job is complete at the replica unless the journal deletes it
\* or ends it, whatever the replica's own retention has swept before.
ReplicaKeepsLiveJobs ==
    \A j \in Job : (/\ \E i \in 1..mark : journal[i] = Rec("put", j) /\ ~CommittedDeletion(j, i)
                    /\ \A i \in DOMAIN journal : journal[i].kind = "terminal" => journal[i].of # j)
        => j \in disk["replica"] /\ Refs[j] \subseteq disk["replica"]

\* What is stored and what is being uploaded stays below the admission threshold,
\* and the count of what is stored never falls short, whatever failed or was lost.
WithinLimit ==
    /\ Cardinality(disk["primary"]) + Reserved <= Limit
    /\ alive => mem.bytes >= Cardinality(disk["primary"])

\* Replication catches up: it stops for good only at an object that the primary does
\* not hold, or not all the blobs of, and that no deletion explains.  (A record that
\* survived its rollback and whose change was undone may stop it too.)
ReplicationCatchesUp ==
    LET whole(o) == IF o \in Job THEN {o} \cup Refs[o] ELSE {o}
        waits == /\ Next1.kind \in {"put", "terminal", "pin"} /\ ~CommittedDeletion(Next1.of, mark + 1)
                 /\ ~(whole(Next1.of) \subseteq disk["primary"] \cup mem.pending)
    IN  "torn" \in mix \/ <>[](mark = Len(journal) \/ mem.broken \/ waits)

=============================================================================
