--------------------------- MODULE SledGraphStore ---------------------------
(***************************************************************************)
(* SledGraphStore (sage-graph/src/sled_store.rs): the GraphStore trait on  *)
(* a key-value tree.  Only single reads and writes of the tree are atomic, *)
(* so each is a step and a call is several; clients interleave between     *)
(* them.  An access that fails ends its call and leaves what the call had  *)
(* written; a crash cuts all calls short and leaves what the tree had      *)
(* flushed.  Every key starts with the tenant, so one tenant is modelled.  *)
(*                                                                         *)
(* Rows of the tree are keyed <<table, id, seq>>, with seq = 0 except for  *)
(* edges; snapshots and the tenant's meta record are kept apart.           *)
(***************************************************************************)
EXTENDS Integers, Sequences, FiniteSets, Maps

CONSTANTS
    Clients,         \* threads that share the store
    Entities,        \* EntityId, numbers: keys are ordered
    Docs,
    Opened,          \* entities the database holds when it is opened
    OpenedSources,   \* their source_docs
    SourceSets,      \* source_docs an upsert may carry
    Edges,           \* edges that may be upserted: records with src, dst, provenance
    Fails,           \* whether an access to the tree may fail
    MaxCalls,        \* bound on the number of calls
    MaxCrashes       \* bound on the number of crashes

ASSUME SledAssumption ==
    /\ Entities \subseteq Nat
    /\ Opened \subseteq Entities
    /\ OpenedSources \in (SUBSET Docs) \ {{}}
    /\ SourceSets \subseteq SUBSET Docs
    /\ \A edge \in Edges : {edge.src, edge.dst} \subseteq Entities /\ edge.provenance \in Docs
    /\ Fails \in BOOLEAN
    /\ MaxCalls \in Nat /\ MaxCrashes \in Nat

VARIABLES
    db,       \* the tree as the clients see it
    disk,     \* the tree as a crash would leave it
    call,     \* call[c]: where client c is in its call
    calls, crashes    \* how many so far, for the bounds

vars == <<db, disk, call, calls, crashes>>

K_ENT == 1
K_OUT == 2
K_DOC == 3

ent_key(e) == <<K_ENT, e, 0>>
doc_key(e) == <<K_DOC, e, 0>>
out_key(src, seq) == <<K_OUT, src, seq>>

\* The keys of one table, as a prefix scan yields them.
Table(rows, table) == {k \in DOMAIN rows : k[1] = table}

\* Keys of one table sort by id, then by sequence number.
Before(j, k) ==
    \/ j[1] < k[1]
    \/ j[1] = k[1] /\ j[2] < k[2]
    \/ j[1] = k[1] /\ j[2] = k[2] /\ j[3] < k[3]

Least(k, keys) == k \in keys /\ \A j \in keys : ~ Before(j, k)

Has(e) == ent_key(e) \in DOMAIN db.rows

Idle == [pc |-> "idle"]

\* The tree of a database opened with some entities in it.  Three fields are
\* history, not data: acked, the rows of edges whose upsert returned Ok; taken,
\* the ids returned by snapshot; torn, that some restore is partly done.
OpenedDb ==
    [rows |-> [k \in {K_ENT, K_DOC} \X Opened \X {0} |-> OpenedSources],
     snaps |-> EmptyMap,
     meta |-> [next_snap |-> 0, next_edge_seq |-> 0],
     acked |-> {}, taken |-> {}, torn |-> FALSE]

-----------------------------------------------------------------------------
(***************************************************************************)
(* What the rows stand for: the view of a reader who comes between calls.  *)
(***************************************************************************)

\* collect_outgoing: the edges of an entity in the order of their keys.
Outgoing(rows, src) ==
    LET keys == {k \in Table(rows, K_OUT) : k[2] = src} IN
    [i \in 1..Cardinality(keys) |->
        LET key == CHOOSE k \in keys : Cardinality({j \in keys : ~ Before(k, j)}) = i IN
        [dst |-> rows[key].dst, provenance |-> rows[key].provenance]]

View(rows) ==
    [entities  |-> [e \in {k[2] : k \in Table(rows, K_ENT)} |-> rows[ent_key(e)]],
     out_edges |-> [e \in Entities |-> Outgoing(rows, e)],
     doc_index |-> [e \in Entities |-> GetOr(rows, doc_key(e), {})]]

-----------------------------------------------------------------------------
Init ==
    /\ db = OpenedDb
    /\ disk = OpenedDb
    /\ call = [c \in Clients |-> Idle]
    /\ calls = 0 /\ crashes = 0

(***************************************************************************)
(* Steps of a client.  since is history: the tree when the call began.     *)
(***************************************************************************)

Start(c, r) ==
    /\ call[c].pc = "idle"
    /\ calls < MaxCalls
    /\ calls' = calls + 1
    /\ call' = [call EXCEPT ![c] = Put(r, "since", db)]
    /\ UNCHANGED <<db, disk, crashes>>

At(c, pc) == call[c].pc = pc

\* A read moves the client on, a write also changes the tree.
Read(c, r) ==
    /\ call' = [call EXCEPT ![c] = r]
    /\ UNCHANGED <<db, disk, calls, crashes>>

Write(c, r, new) ==
    /\ call' = [call EXCEPT ![c] = r]
    /\ db' = new
    /\ UNCHANGED <<disk, calls, crashes>>

\* --- upsert_entity: read the document list, write it, write the entity ---

Upsert(c, e, sources, docs) ==
    Start(c, [pc |-> IF docs = {} THEN "put_entity" ELSE "put_docs",
              id |-> e, sources |-> sources, docs |-> docs])

\* Seeded fault: the document list is replaced instead of extended.
upsert_entity_replaces_docs(c, e, sources) == Upsert(c, e, sources, sources)

upsert_entity(c, e, sources) ==
    Upsert(c, e, sources, GetOr(db.rows, doc_key(e), {}) \cup sources)

put_docs(c) ==
    LET r == call[c] IN
    /\ At(c, "put_docs")
    /\ Write(c, [r EXCEPT !.pc = "put_entity"],
                [db EXCEPT !.rows = Put(@, doc_key(r.id), r.docs)])

put_entity(c) ==
    LET r == call[c] IN
    /\ At(c, "put_entity")
    /\ Write(c, Idle, [db EXCEPT !.rows = Put(@, ent_key(r.id), r.sources)])

\* --- upsert_edge: check both ends, take a sequence number, write, bump ---

\* A missing source makes the call return Err at once.
upsert_edge(c, edge) ==
    /\ Has(edge.src)
    /\ Start(c, [pc |-> "check_dst", edge |-> edge])

\* Seeded fault: only the source is checked.
check_dst_skipped(c) ==
    /\ At(c, "check_dst")
    /\ Read(c, [call[c] EXCEPT !.pc = "read_meta"])

check_dst(c) ==
    /\ At(c, "check_dst")
    /\ Read(c, IF Has(call[c].edge.dst) THEN [call[c] EXCEPT !.pc = "read_meta"] ELSE Idle)

read_meta(c) ==
    /\ At(c, "read_meta")
    /\ Read(c, Put([call[c] EXCEPT !.pc = "put_edge"], "meta", db.meta))

put_edge(c) ==
    LET r == call[c] IN
    /\ At(c, "put_edge")
    /\ Write(c, [r EXCEPT !.pc = "put_meta"],
                [db EXCEPT !.rows = Put(@, out_key(r.edge.src, r.meta.next_edge_seq), r.edge)])

put_meta(c) ==
    LET r == call[c]
        key == out_key(r.edge.src, r.meta.next_edge_seq) IN
    /\ At(c, "put_meta")
    /\ Write(c, Idle, [db EXCEPT !.meta = [r.meta EXCEPT !.next_edge_seq = @ + 1],
                                 !.acked = @ \cup {<<key, r.edge>>}])

\* --- snapshot: read meta, scan the three tables, write the payload, bump ---

snapshot(c) ==
    Start(c, [pc |-> "scan", meta |-> db.meta, table |-> K_ENT, rows |-> EmptyMap])

\* One table after the other is read row by row, in the order of its keys.
scan(c) ==
    LET r == call[c]
        rest == {k \in Table(db.rows, r.table) : \A j \in DOMAIN r.rows : Before(j, k)} IN
    /\ At(c, "scan")
    /\ \/ \E k \in rest :
             /\ Least(k, rest)
             /\ Read(c, [r EXCEPT !.rows = Put(@, k, db.rows[k])])
       \/ /\ rest = {}
          /\ Read(c, IF r.table = K_DOC THEN [r EXCEPT !.pc = "put_snap"]
                                       ELSE [r EXCEPT !.table = @ + 1])

put_snap(c) ==
    LET r == call[c]
        payload == [rows |-> r.rows, acked |-> db.acked, torn |-> db.torn] IN
    /\ At(c, "put_snap")
    /\ Write(c, [r EXCEPT !.pc = "put_snap_meta"],
                [db EXCEPT !.snaps = Put(@, r.meta.next_snap, payload)])

put_snap_meta(c) ==
    LET r == call[c] IN
    /\ At(c, "put_snap_meta")
    /\ Write(c, Idle, [db EXCEPT !.meta = [r.meta EXCEPT !.next_snap = @ + 1],
                                 !.taken = @ \cup {r.meta.next_snap}])

\* --- restore: remove the rows of each table, write meta, insert the payload ---

restore(c, snap) ==
    /\ snap \in DOMAIN db.snaps
    /\ Start(c, [pc |-> "list_keys", table |-> K_ENT, payload |-> db.snaps[snap]])

\* Seeded fault: the document lists are left in place.
AfterTable_keeps_docs(r) ==
    IF r.table = K_OUT
    THEN [since |-> r.since, payload |-> r.payload, pc |-> "reread_meta"]
    ELSE [since |-> r.since, payload |-> r.payload, pc |-> "list_keys", table |-> r.table + 1]

\* The next table to clear, or on to the meta record.
AfterTable(r) ==
    IF r.table = K_DOC
    THEN [since |-> r.since, payload |-> r.payload, pc |-> "reread_meta"]
    ELSE [since |-> r.since, payload |-> r.payload, pc |-> "list_keys", table |-> r.table + 1]

\* Every key is listed.  (One that cannot be read is passed over in the code,
\* and its row is left in place; errors here end the call, as all others do.)
list_keys(c) ==
    LET r == call[c]
        keys == Table(db.rows, r.table) IN
    /\ At(c, "list_keys")
    /\ Read(c, IF keys = {} THEN AfterTable(r)
               ELSE Put([r EXCEPT !.pc = "clear"], "keys", keys))

clear(c) ==
    LET r == call[c] IN
    /\ At(c, "clear")
    /\ \E k \in r.keys :
          /\ Least(k, r.keys)
          /\ Write(c, IF r.keys = {k} THEN AfterTable(r) ELSE [r EXCEPT !.keys = @ \ {k}],
                      [db EXCEPT !.rows = Drop(@, k), !.torn = TRUE])

reread_meta(c) ==
    /\ At(c, "reread_meta")
    /\ Read(c, Put([call[c] EXCEPT !.pc = "reset_meta"], "meta", db.meta))

\* Edges are numbered anew, from 0 across all sources, as they were saved.
NewKey(rows, k) ==
    IF k[1] = K_OUT THEN out_key(k[2], Cardinality({j \in Table(rows, K_OUT) : Before(j, k)}))
                    ELSE k

\* A restore with these rows still to insert; without any it is complete.
Restoring(r, rest) ==
    IF rest = {} THEN Idle
    ELSE [since |-> r.since, payload |-> r.payload, pc |-> "insert", rest |-> rest]

Restored(r, rest, tree) ==
    IF rest # {} THEN [tree EXCEPT !.torn = TRUE]
    ELSE [tree EXCEPT !.torn = r.payload.torn,
                      !.acked = {<<NewKey(r.payload.rows, a[1]), a[2]>> : a \in r.payload.acked}]

\* Seeded fault: the counter starts again while edges are put back.
reset_meta_forgets_edges(c) ==
    LET r == call[c]
        rest == DOMAIN r.payload.rows IN
    /\ At(c, "reset_meta")
    /\ Write(c, Restoring(r, rest),
             Restored(r, rest, [db EXCEPT !.meta = [r.meta EXCEPT !.next_edge_seq = 0]]))

\* Seeded fault: the snapshot counter is not preserved.
reset_meta_forgets_snaps(c) ==
    LET r == call[c]
        rest == DOMAIN r.payload.rows IN
    /\ At(c, "reset_meta")
    /\ Write(c, Restoring(r, rest),
             Restored(r, rest, [db EXCEPT !.meta =
                 [next_snap |-> 0, next_edge_seq |-> Cardinality(Table(r.payload.rows, K_OUT))]]))

reset_meta(c) ==
    LET r == call[c]
        rest == DOMAIN r.payload.rows IN
    /\ At(c, "reset_meta")
    /\ Write(c, Restoring(r, rest),
             Restored(r, rest, [db EXCEPT !.meta =
                 [r.meta EXCEPT !.next_edge_seq = Cardinality(Table(r.payload.rows, K_OUT))]]))

insert(c) ==
    LET r == call[c] IN
    /\ At(c, "insert")
    /\ \E k \in r.rest :
          /\ Least(k, r.rest)
          /\ Write(c, Restoring(r, r.rest \ {k}),
                   Restored(r, r.rest \ {k}, [db EXCEPT !.rows =
                       Put(@, NewKey(r.payload.rows, k), r.payload.rows[k])]))

\* An access of any call fails (sled_err): the call returns Err and leaves
\* what it wrote.  A write that fails has not been done.
fails(c) ==
    /\ Fails
    /\ ~At(c, "idle")
    /\ Read(c, Idle)

-----------------------------------------------------------------------------
(***************************************************************************)
(* The tree.  It flushes by itself from time to time, in the order it was  *)
(* written, so a crash goes back to the tree as it was at some moment.     *)
(***************************************************************************)

\* Once no crash can follow, what is flushed makes no difference.
flush ==
    /\ crashes < MaxCrashes
    /\ disk' = db
    /\ UNCHANGED <<db, call, calls, crashes>>

\* The process dies and the database is opened again.
crash ==
    /\ crashes < MaxCrashes
    /\ crashes' = crashes + 1
    /\ db' = disk
    /\ call' = [c \in Clients |-> Idle]
    /\ UNCHANGED <<disk, calls>>

-----------------------------------------------------------------------------
Next ==
    \/ \E c \in Clients :
          \/ \E e \in Entities, sources \in SourceSets : upsert_entity(c, e, sources)
          \/ put_docs(c) \/ put_entity(c)
          \/ \E edge \in Edges : upsert_edge(c, edge)
          \/ check_dst(c) \/ read_meta(c) \/ put_edge(c) \/ put_meta(c)
          \/ snapshot(c) \/ scan(c) \/ put_snap(c) \/ put_snap_meta(c)
          \/ \E snap \in DOMAIN db.snaps : restore(c, snap)
          \/ list_keys(c) \/ clear(c) \/ reread_meta(c) \/ reset_meta(c) \/ insert(c)
          \/ fails(c)
    \/ flush
    \/ crash

Spec == Init /\ [][Next]_vars

-----------------------------------------------------------------------------
(***************************************************************************)
(* Properties.                                                             *)
(***************************************************************************)

Pcs == {"idle", "put_docs", "put_entity", "check_dst", "read_meta", "put_edge", "put_meta",
        "scan", "put_snap", "put_snap_meta",
        "list_keys", "clear", "reread_meta", "reset_meta", "insert"}

RowsTyped(rows) ==
    \A k \in DOMAIN rows : IF k[1] = K_OUT THEN rows[k] \in Edges ELSE rows[k] \subseteq Docs

\* A tree holds rows of the three tables, and the ids that snapshot returned
\* are below the counter and have a payload.
TreeOK(tree) ==
    /\ RowsTyped(tree.rows)
    /\ tree.meta \in [next_snap: Nat, next_edge_seq: Nat]
    /\ tree.taken \subseteq DOMAIN tree.snaps \cap 0..(tree.meta.next_snap - 1)

\* So are the rows a call is about to write, or has read to write them later.
CallOK(r) ==
    /\ r.pc \in Pcs
    /\ r.pc \in {"put_docs", "put_entity"} => r.sources \subseteq r.docs /\ r.docs \subseteq Docs
    /\ r.pc \in {"check_dst", "read_meta", "put_edge", "put_meta"} => r.edge \in Edges
    /\ r.pc \in {"scan", "put_snap"} => RowsTyped(r.rows)
    /\ r.pc \in {"list_keys", "clear", "reread_meta", "reset_meta", "insert"} =>
          RowsTyped(r.payload.rows)

TypeOK ==
    /\ TreeOK(db) /\ TreeOK(disk)
    /\ \A c \in Clients : CallOK(call[c])

\* An edge whose upsert returned Ok keeps its row: no later edge takes over
\* its sequence number, also not after an error or a crash that came between
\* writing an edge and writing the counter, nor after a restore numbered edges
\* anew.
AckedEdgesKept ==
    ~db.torn => \A a \in db.acked : a[1] \in DOMAIN db.rows /\ db.rows[a[1]] = a[2]

\* Ends of edges are stored, and documents of entities are listed.
Consistent(rows) ==
    /\ \A k \in Table(rows, K_OUT) :
          {ent_key(rows[k].src), ent_key(rows[k].dst)} \subseteq DOMAIN rows
    /\ \A k \in Table(rows, K_ENT) : rows[k] \subseteq GetOr(rows, doc_key(k[2]), {})

\* Whatever writes an error or a crash cuts off, the tree and every snapshot
\* of it stay consistent; only a restore that was cut short leaves them
\* otherwise.
ConsistentUnlessTorn ==
    /\ ~db.torn => Consistent(db.rows)
    /\ \A id \in db.taken : ~db.snaps[id].torn => Consistent(db.snaps[id].rows)

\* An id that snapshot returned stands for the same snapshot from then on,
\* unless a crash comes back without it.
SnapshotsKept ==
    [][crashes' = crashes =>
          \A id \in db.taken : id \in db'.taken /\ db'.snaps[id] = db.snaps[id]]_vars

\* A restore that runs to its end leaves exactly the graph that was saved,
\* although it removes and inserts row by row, and also when it repairs a
\* tree that an earlier restore left torn.  (Its last access is a write; one
\* that fails there leaves the tree as it is.)
RestoreInstalls ==
    [][\A c \in Clients :
          (/\ call[c].pc \in {"reset_meta", "insert"} /\ call'[c] = Idle
           /\ crashes' = crashes /\ db' # db)
              => View(db'.rows) = View(call[c].payload.rows)]_vars

\* The tree a client meets between calls; a call takes effect when it returns.
Settled == IF \E c \in Clients : call[c] # Idle
           THEN call[CHOOSE c \in Clients : call[c] # Idle].since
           ELSE db

Promise == INSTANCE GraphStore WITH
    Tenants <- {"t"},
    graph <- [t \in {"t"} |-> View(Settled.rows)],
    snaps <- [t \in {"t"} |-> [i \in 1..Settled.meta.next_snap |->
                                  View(Settled.snaps[i - 1].rows)]]

\* To one client that is not cut short, every call does exactly what the
\* GraphStore trait promises.
ImplementsGraphStore == Promise!Spec
=============================================================================
