------------------------ MODULE SledGraphStore_proofs ------------------------
(***************************************************************************)
(* Proofs about SledGraphStore with one client, for any entities,          *)
(* documents, edges and bounds: what holds with crashes and flushes at any *)
(* step, and what a reader sees of the rows.                               *)
(***************************************************************************)
EXTENDS SledGraphStore, FiniteSetTheorems, TLAPS

-----------------------------------------------------------------------------
(***************************************************************************)
(* The inductive invariant.  A tree is described without the call in       *)
(* progress, because a crash keeps the tree and forgets the call.          *)
(***************************************************************************)

\* With two clients the properties fail: Sled_race.cfg shows how.
Alone == \E c : Clients = {c}

Keys == ({K_ENT, K_DOC} \X Entities \X {0}) \cup ({K_OUT} \X Entities \X Nat)

ValueOK(k, v) == IF k[1] = K_OUT THEN v \in Edges /\ v.src = k[2] ELSE v \subseteq Docs

RowsOK(rows) ==
    /\ rows = [k \in DOMAIN rows |-> rows[k]]
    /\ \A k \in DOMAIN rows : k \in Keys /\ ValueOK(k, rows[k])
    /\ IsFiniteSet(Table(rows, K_OUT))

AckedIn(rows, acked) == \A a \in acked : a[1] \in Table(rows, K_OUT) /\ rows[a[1]] = a[2]

\* Holds of the tree and of every snapshot in it.
PayloadOK(p) ==
    /\ RowsOK(p.rows)
    /\ p.torn \in BOOLEAN
    /\ ~p.torn => AckedIn(p.rows, p.acked) /\ Consistent(p.rows)

\* Only an edge that a crash cut off may have the number the next edge takes.
Numbered(tree) ==
    /\ \A k \in Table(tree.rows, K_OUT) : k[3] <= tree.meta.next_edge_seq
    /\ \A a \in tree.acked : a[1][3] < tree.meta.next_edge_seq

TreeInv(tree) ==
    /\ DOMAIN tree = {"rows", "snaps", "meta", "acked", "taken", "torn"}
    /\ PayloadOK(tree)
    /\ tree.meta \in [next_snap: Nat, next_edge_seq: Nat]
    /\ tree.taken \subseteq DOMAIN tree.snaps \cap 0..(tree.meta.next_snap - 1)
    /\ \A id \in DOMAIN tree.snaps : PayloadOK(tree.snaps[id])
    /\ ~tree.torn => Numbered(tree)

\* What a call knows of the tree, one predicate per operation.
UpsertEntityInv(r, tree) ==
    /\ DOMAIN r = {"since", "pc", "id", "sources", "docs"}
    /\ r.id \in Entities /\ r.docs \subseteq Docs /\ r.sources \subseteq r.docs
    /\ GetOr(tree.rows, doc_key(r.id), {}) \subseteq r.docs
    /\ r.pc = "put_entity" => r.docs = GetOr(tree.rows, doc_key(r.id), {})

UpsertEdgeInv(r, tree) ==
    /\ DOMAIN r = {"since", "pc", "edge"} \cup
                  (IF r.pc \in {"put_edge", "put_meta"} THEN {"meta"} ELSE {})
    /\ r.edge \in Edges /\ ent_key(r.edge.src) \in DOMAIN tree.rows
    /\ r.pc # "check_dst" => ent_key(r.edge.dst) \in DOMAIN tree.rows
    /\ r.pc \in {"put_edge", "put_meta"} => r.meta = tree.meta
    /\ r.pc = "put_meta" =>
          LET key == out_key(r.edge.src, tree.meta.next_edge_seq) IN
          key \in DOMAIN tree.rows /\ tree.rows[key] = r.edge

\* A scan has read the first rows of the table it is at, and all before.
ScanInv(r, tree) ==
    /\ r.table \in {K_ENT, K_OUT, K_DOC}
    /\ r.rows = [k \in DOMAIN r.rows |-> tree.rows[k]]
    /\ DOMAIN r.rows \subseteq DOMAIN tree.rows
    /\ \A j \in DOMAIN r.rows : j[1] <= r.table
    /\ \A k \in DOMAIN tree.rows : k[1] <= r.table =>
          \/ k \in DOMAIN r.rows
          \/ k[1] = r.table /\ \A j \in DOMAIN r.rows : Before(j, k)

SnapshotInv(r, tree) ==
    /\ DOMAIN r = {"since", "pc", "meta", "table", "rows"}
    /\ r.meta = tree.meta
    /\ r.pc = "scan" => ScanInv(r, tree)
    /\ r.pc = "put_snap" => r.rows = tree.rows
    /\ r.pc = "put_snap_meta" => tree.meta.next_snap \in DOMAIN tree.snaps

ClearInv(r, tree) ==
    /\ DOMAIN r = {"since", "pc", "payload", "table"} \cup
                  (IF r.pc = "clear" THEN {"keys"} ELSE {})
    /\ r.table \in {K_ENT, K_OUT, K_DOC}
    /\ \A k \in DOMAIN tree.rows : r.table <= k[1]
    /\ r.pc = "clear" => r.keys = Table(tree.rows, r.table) /\ r.keys # {}

\* The rows are the inserted ones of the saved rows, under their new keys.
Renumbered(rows, saved, inserted) ==
    /\ DOMAIN rows = {NewKey(saved, k) : k \in inserted}
    /\ \A k \in inserted : rows[NewKey(saved, k)] = saved[k]

InsertInv(r, tree) ==
    LET saved == r.payload.rows IN
    /\ DOMAIN r = {"since", "pc", "payload", "rest"}
    /\ r.rest \subseteq DOMAIN saved /\ r.rest # {}
    /\ tree.torn
    /\ tree.meta.next_edge_seq = Cardinality(Table(saved, K_OUT))
    /\ Renumbered(tree.rows, saved, DOMAIN saved \ r.rest)

RestoreInv(r, tree) ==
    /\ PayloadOK(r.payload)
    /\ r.pc \in {"list_keys", "clear"} => ClearInv(r, tree)
    /\ r.pc \in {"reread_meta", "reset_meta"} => DOMAIN tree.rows = {}
    /\ r.pc = "reread_meta" => DOMAIN r = {"since", "pc", "payload"}
    /\ r.pc = "reset_meta" => DOMAIN r = {"since", "pc", "payload", "meta"} /\ r.meta = tree.meta
    /\ r.pc = "insert" => InsertInv(r, tree)

CallInv(r, tree) ==
    /\ r.pc \in Pcs
    /\ r.pc = "idle" => r = Idle
    /\ r.pc \in {"put_docs", "put_entity"} => UpsertEntityInv(r, tree)
    /\ r.pc \in {"check_dst", "read_meta", "put_edge", "put_meta"} => UpsertEdgeInv(r, tree)
    /\ r.pc \in {"scan", "put_snap", "put_snap_meta"} => SnapshotInv(r, tree)
    /\ r.pc \in {"list_keys", "clear", "reread_meta", "reset_meta", "insert"} => RestoreInv(r, tree)

IInv ==
    /\ TreeInv(db) /\ TreeInv(disk)
    /\ DOMAIN call = Clients
    /\ \A c \in Clients : CallInv(call[c], db)
    /\ crashes \in Nat

-----------------------------------------------------------------------------
(***************************************************************************)
(* Keys and rows.                                                          *)
(***************************************************************************)

\* The three kinds of keys.
LEMMA KeyKinds ==
    /\ \A e \in Entities : ent_key(e) \in Keys /\ doc_key(e) \in Keys
    /\ \A e \in Entities, n \in Nat : out_key(e, n) \in Keys
    /\ \A k \in Keys :
          /\ k[1] \in {K_ENT, K_OUT, K_DOC} /\ k[2] \in Entities /\ k[2] \in Nat /\ k[3] \in Nat
          /\ k[1] = K_ENT => k = ent_key(k[2])
          /\ k[1] = K_DOC => k = doc_key(k[2])
          /\ k[1] = K_OUT => k = out_key(k[2], k[3])
<1> USE DEF K_ENT, K_OUT, K_DOC
<1>1. \A k \in {K_ENT, K_DOC} \X Entities \X {0} :
          k = <<k[1], k[2], 0>> /\ k[1] \in {K_ENT, K_DOC} /\ k[2] \in Entities /\ k[3] = 0
  OBVIOUS
<1>2. \A k \in {K_OUT} \X Entities \X Nat :
          k = <<K_OUT, k[2], k[3]>> /\ k[1] = K_OUT /\ k[2] \in Entities /\ k[3] \in Nat
  OBVIOUS
<1>3. \A e \in Entities : e \in Nat
  BY SledAssumption
<1>4. \A e \in Entities : ent_key(e) \in Keys /\ doc_key(e) \in Keys
  BY DEF Keys, ent_key, doc_key
<1>5. \A e \in Entities, n \in Nat : out_key(e, n) \in Keys
  BY DEF Keys, out_key
<1>6. \A k \in Keys : \/ k \in {K_ENT, K_DOC} \X Entities \X {0}
                      \/ k \in {K_OUT} \X Entities \X Nat
  BY DEF Keys
<1>7. ASSUME NEW k \in Keys
      PROVE  /\ k[1] \in {K_ENT, K_OUT, K_DOC} /\ k[2] \in Entities /\ k[2] \in Nat /\ k[3] \in Nat
             /\ k[1] = K_ENT => k = ent_key(k[2])
             /\ k[1] = K_DOC => k = doc_key(k[2])
             /\ k[1] = K_OUT => k = out_key(k[2], k[3])
  BY <1>1, <1>2, <1>3, <1>6 DEF ent_key, doc_key, out_key
<1> QED
  BY <1>4, <1>5, <1>7

\* Keys are linearly ordered.
LEMMA KeysLinear ==
    /\ \A k \in Keys : ~Before(k, k)
    /\ \A j, k \in Keys : j # k => Before(j, k) \/ Before(k, j)
    /\ \A j, k \in Keys : ~(Before(j, k) /\ Before(k, j))
    /\ \A i, j, k \in Keys : Before(i, j) /\ Before(j, k) => Before(i, k)
    /\ \A j, k \in Keys : j[1] < k[1] => Before(j, k)
<1>1. \A k \in Keys : k[1] \in Nat /\ k[2] \in Nat /\ k[3] \in Nat /\ k = <<k[1], k[2], k[3]>>
  BY KeyKinds DEF ent_key, doc_key, out_key, K_ENT, K_OUT, K_DOC
<1> QED
  BY <1>1 DEF Before

\* Writing one row of the right kind keeps the rows well formed.
LEMMA PutRow ==
    ASSUME NEW rows, RowsOK(rows), NEW k \in Keys, NEW v, ValueOK(k, v)
    PROVE  RowsOK(Put(rows, k, v))
<1> DEFINE new == Put(rows, k, v)
<1>1. /\ new = [j \in DOMAIN new |-> new[j]]
      /\ DOMAIN new = DOMAIN rows \cup {k}
      /\ new[k] = v
      /\ \A j \in DOMAIN rows : j # k => new[j] = rows[j]
  BY DEF Put
<1>2. \A j \in DOMAIN new : j \in Keys /\ ValueOK(j, new[j])
  BY <1>1 DEF RowsOK
<1>3. IsFiniteSet(Table(new, K_OUT))
  <2>1. IsFiniteSet(Table(rows, K_OUT) \cup {k})
    BY FS_AddElement DEF RowsOK
  <2>2. Table(new, K_OUT) \in SUBSET (Table(rows, K_OUT) \cup {k})
    BY <1>1 DEF Table
  <2> QED
    BY <2>1, <2>2, FS_Subset
<1> QED
  BY <1>1, <1>2, <1>3 DEF RowsOK

\* Removing a row keeps the others well formed.
LEMMA DropRow ==
    ASSUME NEW rows, RowsOK(rows), NEW k
    PROVE  RowsOK(Drop(rows, k))
<1> DEFINE new == Drop(rows, k)
<1>1. /\ new = [j \in DOMAIN new |-> new[j]]
      /\ DOMAIN new = DOMAIN rows \ {k}
      /\ \A j \in DOMAIN rows \ {k} : new[j] = rows[j]
  BY DEF Drop
<1>2. \A j \in DOMAIN new : j \in Keys /\ ValueOK(j, new[j])
  BY <1>1 DEF RowsOK
<1>3. IsFiniteSet(Table(new, K_OUT))
  <2>1. Table(new, K_OUT) \in SUBSET Table(rows, K_OUT)
    BY <1>1 DEF Table
  <2> QED
    BY <2>1, FS_Subset DEF RowsOK
<1> QED
  BY <1>1, <1>2, <1>3 DEF RowsOK

-----------------------------------------------------------------------------
(***************************************************************************)
(* Steps of the one client.                                                *)
(***************************************************************************)

\* It suffices that the client's write is right for what its call knows.
LEMMA WriteKeeps ==
    ASSUME Alone, IInv, NEW c \in Clients, NEW r, NEW new,
           Write(c, r, new), TreeInv(new), CallInv(r, new)
    PROVE  IInv'
<1>1. db' = new /\ disk' = disk /\ call' = [call EXCEPT ![c] = r] /\ crashes' = crashes
  BY DEF Write
<1>2. \A d \in Clients : d = c
  BY DEF Alone
<1>3. call'[c] = r /\ DOMAIN call' = Clients
  BY <1>1 DEF IInv
<1>4. \A d \in Clients : CallInv(call'[d], db')
  BY <1>1, <1>2, <1>3
<1> QED
  BY <1>1, <1>3, <1>4 DEF IInv

LEMMA ReadKeeps ==
    ASSUME Alone, IInv, NEW c \in Clients, NEW r, Read(c, r), CallInv(r, db)
    PROVE  IInv'
<1>1. db' = db /\ disk' = disk /\ call' = [call EXCEPT ![c] = r] /\ crashes' = crashes
  BY DEF Read
<1>2. \A d \in Clients : d = c
  BY DEF Alone
<1>3. call'[c] = r /\ DOMAIN call' = Clients
  BY <1>1 DEF IInv
<1>4. \A d \in Clients : CallInv(call'[d], db')
  BY <1>1, <1>2, <1>3
<1> QED
  BY <1>1, <1>3, <1>4 DEF IInv

LEMMA StartKeeps ==
    ASSUME Alone, IInv, NEW c \in Clients, NEW r, Start(c, r),
           CallInv(Put(r, "since", db), db)
    PROVE  IInv'
<1> DEFINE started == Put(r, "since", db)
<1> HIDE DEF started
<1>1. db' = db /\ disk' = disk /\ call' = [call EXCEPT ![c] = started] /\ crashes' = crashes
  BY DEF Start, started
<1>2. \A d \in Clients : d = c
  BY DEF Alone
<1>3. call'[c] = started /\ DOMAIN call' = Clients
  BY <1>1 DEF IInv
<1>4. \A d \in Clients : CallInv(call'[d], db')
  BY <1>1, <1>2, <1>3 DEF started
<1> QED
  BY <1>1, <1>3, <1>4 DEF IInv

\* A client that has returned knows nothing.
LEMMA IdleOK == \A tree : CallInv(Idle, tree)
BY DEF CallInv, Idle, Pcs

\* The documents listed for an entity are documents.
LEMMA ListedDocs ==
    ASSUME NEW rows, RowsOK(rows), NEW e \in Entities
    PROVE  GetOr(rows, doc_key(e), {}) \subseteq Docs
<1>1. CASE doc_key(e) \in DOMAIN rows
  <2>1. ValueOK(doc_key(e), rows[doc_key(e)])
    BY <1>1 DEF RowsOK
  <2> QED
    BY <1>1, <2>1 DEF ValueOK, GetOr, doc_key, K_DOC, K_OUT
<1>2. CASE doc_key(e) \notin DOMAIN rows
  BY <1>2 DEF GetOr
<1> QED
  BY <1>1, <1>2

LEMMA OpenedOK == TreeInv(OpenedDb)
<1> DEFINE rows == [k \in {K_ENT, K_DOC} \X Opened \X {0} |-> OpenedSources]
<1>1. \A k \in DOMAIN rows : /\ k \in Keys /\ k[1] # K_OUT
                             /\ doc_key(k[2]) \in DOMAIN rows
                             /\ rows[k] = OpenedSources /\ OpenedSources \subseteq Docs
  <2> SUFFICES ASSUME NEW k \in {K_ENT, K_DOC} \X Opened \X {0}
               PROVE  /\ k \in Keys /\ k[1] # K_OUT
                      /\ doc_key(k[2]) \in {K_ENT, K_DOC} \X Opened \X {0}
                      /\ OpenedSources \subseteq Docs
    OBVIOUS
  <2>1. k \in {K_ENT, K_DOC} \X Entities \X {0}
    BY SledAssumption
  <2>2. k[1] \in {K_ENT, K_DOC} /\ k[2] \in Opened
    OBVIOUS
  <2> QED
    BY <2>1, <2>2, SledAssumption DEF Keys, doc_key, K_ENT, K_DOC, K_OUT
<1>2. Table(rows, K_OUT) = {}
  BY <1>1 DEF Table
<1>3. RowsOK(rows)
  BY <1>1, <1>2, FS_EmptySet DEF RowsOK, ValueOK
<1>4. Consistent(rows)
  <2>1. ASSUME NEW k \in Table(rows, K_ENT)
        PROVE  rows[k] \subseteq GetOr(rows, doc_key(k[2]), {})
    <3>1. k \in DOMAIN rows
      BY DEF Table
    <3>2. doc_key(k[2]) \in DOMAIN rows
      BY <1>1, <3>1
    <3> HIDE DEF rows
    <3> QED
      BY <1>1, <3>1, <3>2 DEF GetOr
  <2> QED
    BY <1>2, <2>1 DEF Consistent
<1> HIDE DEF rows
<1>5. /\ OpenedDb.rows = rows /\ OpenedDb.acked = {} /\ OpenedDb.taken = {}
      /\ OpenedDb.meta = [next_snap |-> 0, next_edge_seq |-> 0] /\ DOMAIN OpenedDb.snaps = {}
      /\ OpenedDb.torn = FALSE
      /\ DOMAIN OpenedDb = {"rows", "snaps", "meta", "acked", "taken", "torn"}
  BY DEF OpenedDb, EmptyMap, rows
<1>6. PayloadOK(OpenedDb)
  BY <1>3, <1>4, <1>5 DEF PayloadOK, AckedIn
<1>7. Numbered(OpenedDb)
  BY <1>2, <1>5 DEF Numbered
<1>8. /\ OpenedDb.meta \in [next_snap: Nat, next_edge_seq: Nat]
      /\ OpenedDb.taken \subseteq DOMAIN OpenedDb.snaps \cap 0..(OpenedDb.meta.next_snap - 1)
      /\ OpenedDb.torn \in BOOLEAN
  <2>1. [next_snap |-> 0, next_edge_seq |-> 0] \in [next_snap: Nat, next_edge_seq: Nat]
    OBVIOUS
  <2>2. \A S : {} \subseteq S
    OBVIOUS
  <2> QED
    BY <1>5, <2>1, <2>2, Zenon
<1> HIDE DEF OpenedDb
<1> QED
  BY <1>5, <1>6, <1>7, <1>8 DEF TreeInv

LEMMA InitKeeps == Alone /\ Init => IInv
<1> SUFFICES ASSUME Alone, Init PROVE IInv
  OBVIOUS
<1>1. DOMAIN call = Clients /\ (\A c \in Clients : call[c] = Idle) /\ crashes \in Nat
  BY DEF Init
<1>2. TreeInv(db) /\ TreeInv(disk)
  BY OpenedOK DEF Init
<1> QED
  BY <1>1, <1>2, IdleOK DEF IInv

\* --- upsert_entity ---

LEMMA UpsertEntityStarts ==
    ASSUME Alone, IInv, NEW c \in Clients, NEW e \in Entities, NEW sources \in SourceSets,
           upsert_entity(c, e, sources)
    PROVE  IInv'
<1> DEFINE listed == GetOr(db.rows, doc_key(e), {})
           docs == listed \cup sources
           r == [pc |-> IF docs = {} THEN "put_entity" ELSE "put_docs",
                 id |-> e, sources |-> sources, docs |-> docs]
           started == Put(r, "since", db)
<1>1. docs \subseteq Docs
  BY ListedDocs, SledAssumption DEF IInv, TreeInv, PayloadOK
<1> HIDE DEF listed
<1>2. /\ DOMAIN started = {"since", "pc", "id", "sources", "docs"}
      /\ started.id = e /\ started.sources = sources /\ started.docs = docs
      /\ started.pc = IF docs = {} THEN "put_entity" ELSE "put_docs"
  BY DEF Put
<1> HIDE DEF started
<1>3. UpsertEntityInv(started, db)
  BY <1>1, <1>2 DEF UpsertEntityInv, listed
<1>4. CallInv(started, db)
  BY <1>2, <1>3 DEF CallInv, Pcs
<1>5. Start(c, r)
  BY DEF upsert_entity, Upsert, listed
<1> QED
  BY <1>4, <1>5, StartKeeps DEF started

\* Rows other than edges: ends stay stored when no row is removed.
LEMMA PutDocsKeeps ==
    ASSUME Alone, IInv, NEW c \in Clients, put_docs(c)
    PROVE  IInv'
<1> DEFINE r == call[c]
           key == doc_key(r.id)
           rows == Put(db.rows, key, r.docs)
           new == [db EXCEPT !.rows = rows]
           next == [r EXCEPT !.pc = "put_entity"]
<1>1. /\ TreeInv(db) /\ UpsertEntityInv(r, db) /\ r.pc = "put_docs"
      /\ RowsOK(db.rows)
  BY DEF IInv, CallInv, put_docs, At, TreeInv, PayloadOK
<1>2. Write(c, next, new)
  BY DEF put_docs
<1>3. r.id \in Entities /\ r.docs \subseteq Docs /\ key \in Keys /\ ValueOK(key, r.docs)
  BY <1>1, KeyKinds DEF UpsertEntityInv, ValueOK, doc_key, K_DOC, K_OUT
<1>4. /\ new.rows = rows /\ new.snaps = db.snaps /\ new.meta = db.meta /\ new.acked = db.acked
      /\ new.taken = db.taken /\ new.torn = db.torn /\ DOMAIN new = DOMAIN db
  BY <1>1 DEF TreeInv
<1>5. /\ next.pc = "put_entity" /\ next.id = r.id /\ next.docs = r.docs
      /\ next.sources = r.sources /\ DOMAIN next = DOMAIN r
  BY <1>1 DEF UpsertEntityInv
<1> HIDE DEF new, next, rows, key
<1>6. /\ RowsOK(rows) /\ DOMAIN rows = DOMAIN db.rows \cup {key} /\ rows[key] = r.docs
      /\ \A j \in DOMAIN db.rows : j # key => rows[j] = db.rows[j]
  <2>1. RowsOK(rows)
    BY <1>1, <1>3, PutRow DEF rows
  <2> QED
    BY <2>1 DEF rows, Put
<1>7. Table(rows, K_OUT) = Table(db.rows, K_OUT) /\ Table(rows, K_ENT) = Table(db.rows, K_ENT)
  BY <1>6 DEF Table, key, doc_key, K_DOC, K_OUT, K_ENT
<1>8. \A j \in Table(rows, K_OUT) \cup Table(rows, K_ENT) : rows[j] = db.rows[j]
  BY <1>6, <1>7 DEF Table, key, doc_key, K_DOC, K_OUT, K_ENT
<1>9. AckedIn(db.rows, db.acked) => AckedIn(rows, db.acked)
  BY <1>7, <1>8 DEF AckedIn
<1>10. ASSUME Consistent(db.rows) PROVE Consistent(rows)
  <2>1. ASSUME NEW k \in Table(rows, K_OUT)
        PROVE  {ent_key(rows[k].src), ent_key(rows[k].dst)} \subseteq DOMAIN rows
    BY <1>6, <1>7, <1>8, <1>10 DEF Consistent
  <2>2. ASSUME NEW k \in Table(rows, K_ENT)
        PROVE  rows[k] \subseteq GetOr(rows, doc_key(k[2]), {})
    <3>1. rows[k] \subseteq GetOr(db.rows, doc_key(k[2]), {})
      BY <1>7, <1>8, <1>10 DEF Consistent
    <3>2. CASE doc_key(k[2]) = key
      BY <1>1, <1>6, <3>1, <3>2 DEF GetOr, UpsertEntityInv, key
    <3>3. CASE doc_key(k[2]) # key
      BY <1>6, <3>1, <3>3 DEF GetOr
    <3> QED
      BY <3>2, <3>3
  <2> QED
    BY <2>1, <2>2 DEF Consistent
<1>11. TreeInv(new)
  BY <1>1, <1>4, <1>6, <1>7, <1>9, <1>10 DEF TreeInv, PayloadOK, Numbered
<1>12. UpsertEntityInv(next, new)
  BY <1>1, <1>4, <1>5, <1>6 DEF UpsertEntityInv, GetOr, key
<1>13. CallInv(next, new)
  BY <1>5, <1>12 DEF CallInv, Pcs
<1> QED
  BY <1>2, <1>11, <1>13, WriteKeeps

LEMMA PutEntityKeeps ==
    ASSUME Alone, IInv, NEW c \in Clients, put_entity(c)
    PROVE  IInv'
<1> DEFINE r == call[c]
           key == ent_key(r.id)
           rows == Put(db.rows, key, r.sources)
           new == [db EXCEPT !.rows = rows]
<1>1. /\ TreeInv(db) /\ UpsertEntityInv(r, db) /\ r.pc = "put_entity"
      /\ RowsOK(db.rows)
  BY DEF IInv, CallInv, put_entity, At, TreeInv, PayloadOK
<1>2. Write(c, Idle, new)
  BY DEF put_entity
<1>3. r.id \in Entities /\ key \in Keys /\ ValueOK(key, r.sources)
  BY <1>1, KeyKinds DEF UpsertEntityInv, ValueOK, ent_key, K_ENT, K_OUT
<1>4. /\ new.rows = rows /\ new.snaps = db.snaps /\ new.meta = db.meta /\ new.acked = db.acked
      /\ new.taken = db.taken /\ new.torn = db.torn /\ DOMAIN new = DOMAIN db
  BY <1>1 DEF TreeInv
<1> HIDE DEF new, rows, key
<1>6. /\ RowsOK(rows) /\ DOMAIN rows = DOMAIN db.rows \cup {key} /\ rows[key] = r.sources
      /\ \A j \in DOMAIN db.rows : j # key => rows[j] = db.rows[j]
  <2>1. RowsOK(rows)
    BY <1>1, <1>3, PutRow DEF rows
  <2> QED
    BY <2>1 DEF rows, Put
<1>7. Table(rows, K_OUT) = Table(db.rows, K_OUT)
  BY <1>6 DEF Table, key, ent_key, K_OUT, K_ENT
<1>8. \A j \in Table(rows, K_OUT) : rows[j] = db.rows[j]
  BY <1>6, <1>7 DEF Table, key, ent_key, K_OUT, K_ENT
<1>9. AckedIn(db.rows, db.acked) => AckedIn(rows, db.acked)
  BY <1>7, <1>8 DEF AckedIn
<1>10. ASSUME Consistent(db.rows) PROVE Consistent(rows)
  <2>1. ASSUME NEW k \in Table(rows, K_OUT)
        PROVE  {ent_key(rows[k].src), ent_key(rows[k].dst)} \subseteq DOMAIN rows
    BY <1>6, <1>7, <1>8, <1>10 DEF Consistent
  <2>2. ASSUME NEW k \in Table(rows, K_ENT)
        PROVE  rows[k] \subseteq GetOr(rows, doc_key(k[2]), {})
    <3>1. \A e : GetOr(rows, doc_key(e), {}) = GetOr(db.rows, doc_key(e), {})
      <4>1. \A e : doc_key(e) # key
        BY DEF key, ent_key, doc_key, K_ENT, K_DOC
      <4> QED
        BY <4>1, <1>6 DEF GetOr
    <3>2. CASE k = key
      <4>1. k[2] = r.id
        BY <3>2 DEF key, ent_key
      <4> QED
        BY <1>1, <1>6, <3>1, <3>2, <4>1 DEF UpsertEntityInv
    <3>3. CASE k # key
      <4>1. k \in Table(db.rows, K_ENT) /\ rows[k] = db.rows[k]
        BY <1>6, <3>3 DEF Table
      <4> QED
        BY <1>10, <3>1, <4>1 DEF Consistent
    <3> QED
      BY <3>2, <3>3
  <2> QED
    BY <2>1, <2>2 DEF Consistent
<1>11. TreeInv(new)
  BY <1>1, <1>4, <1>6, <1>7, <1>9, <1>10 DEF TreeInv, PayloadOK, Numbered
<1> QED
  BY <1>2, <1>11, IdleOK, WriteKeeps

\* --- upsert_edge ---

LEMMA UpsertEdgeStarts ==
    ASSUME Alone, IInv, NEW c \in Clients, NEW edge \in Edges, upsert_edge(c, edge)
    PROVE  IInv'
<1> DEFINE r == [pc |-> "check_dst", edge |-> edge]
           started == Put(r, "since", db)
<1>1. /\ DOMAIN started = {"since", "pc", "edge"}
      /\ started.pc = "check_dst" /\ started.edge = edge
  BY DEF Put
<1> HIDE DEF started
<1>2. UpsertEdgeInv(started, db)
  BY <1>1 DEF UpsertEdgeInv, upsert_edge, Has
<1>3. CallInv(started, db)
  BY <1>1, <1>2 DEF CallInv, Pcs
<1>4. Start(c, r)
  BY DEF upsert_edge
<1> QED
  BY <1>3, <1>4, StartKeeps DEF started

LEMMA CheckDstKeeps ==
    ASSUME Alone, IInv, NEW c \in Clients, check_dst(c)
    PROVE  IInv'
<1> DEFINE r == call[c]
           next == [r EXCEPT !.pc = "read_meta"]
<1>1. UpsertEdgeInv(r, db) /\ r.pc = "check_dst"
  BY DEF IInv, CallInv, check_dst, At
<1>2. CASE Has(r.edge.dst)
  <2>1. Read(c, next)
    BY <1>2 DEF check_dst
  <2>2. next.pc = "read_meta" /\ next.edge = r.edge /\ DOMAIN next = {"since", "pc", "edge"}
    BY <1>1 DEF UpsertEdgeInv
  <2> HIDE DEF next
  <2>3. UpsertEdgeInv(next, db)
    BY <1>1, <1>2, <2>2 DEF UpsertEdgeInv, Has
  <2>4. CallInv(next, db)
    BY <2>2, <2>3 DEF CallInv, Pcs
  <2> QED
    BY <2>1, <2>4, ReadKeeps
<1>3. CASE ~Has(r.edge.dst)
  <2>1. Read(c, Idle)
    BY <1>3 DEF check_dst
  <2> QED
    BY <2>1, IdleOK, ReadKeeps
<1> QED
  BY <1>2, <1>3

LEMMA ReadMetaKeeps ==
    ASSUME Alone, IInv, NEW c \in Clients, read_meta(c)
    PROVE  IInv'
<1> DEFINE r == call[c]
           next == Put([r EXCEPT !.pc = "put_edge"], "meta", db.meta)
<1>1. UpsertEdgeInv(r, db) /\ r.pc = "read_meta"
  BY DEF IInv, CallInv, read_meta, At
<1>2. Read(c, next)
  BY DEF read_meta
<1>3. /\ next.pc = "put_edge" /\ next.edge = r.edge /\ next.meta = db.meta
      /\ DOMAIN next = {"since", "pc", "edge", "meta"}
  BY <1>1 DEF UpsertEdgeInv, Put
<1> HIDE DEF next
<1>4. UpsertEdgeInv(next, db)
  BY <1>1, <1>3 DEF UpsertEdgeInv
<1>5. CallInv(next, db)
  BY <1>3, <1>4 DEF CallInv, Pcs
<1> QED
  BY <1>2, <1>5, ReadKeeps

\* The new row takes no acknowledged number, and both its ends are stored.
LEMMA PutEdgeKeeps ==
    ASSUME Alone, IInv, NEW c \in Clients, put_edge(c)
    PROVE  IInv'
<1> DEFINE r == call[c]
           key == out_key(r.edge.src, db.meta.next_edge_seq)
           rows == Put(db.rows, key, r.edge)
           new == [db EXCEPT !.rows = rows]
           next == [r EXCEPT !.pc = "put_meta"]
<1>1. /\ TreeInv(db) /\ UpsertEdgeInv(r, db) /\ r.pc = "put_edge" /\ r.meta = db.meta
      /\ RowsOK(db.rows)
  BY DEF IInv, CallInv, put_edge, At, TreeInv, PayloadOK, UpsertEdgeInv
<1>2. Write(c, next, new)
  BY <1>1 DEF put_edge
<1>3. key \in Keys /\ ValueOK(key, r.edge) /\ key[1] = K_OUT /\ key[3] = db.meta.next_edge_seq
  <2>1. r.edge \in Edges /\ r.edge.src \in Entities
    BY <1>1, SledAssumption DEF UpsertEdgeInv
  <2>2. db.meta.next_edge_seq \in Nat
    BY <1>1 DEF TreeInv
  <2>3. key[1] = K_OUT /\ key[2] = r.edge.src /\ key[3] = db.meta.next_edge_seq
    BY DEF out_key
  <2> QED
    BY <2>1, <2>2, <2>3, KeyKinds DEF ValueOK
<1>4. /\ new.rows = rows /\ new.snaps = db.snaps /\ new.meta = db.meta /\ new.acked = db.acked
      /\ new.taken = db.taken /\ new.torn = db.torn /\ DOMAIN new = DOMAIN db
  BY <1>1 DEF TreeInv
<1>5. /\ next.pc = "put_meta" /\ next.edge = r.edge /\ next.meta = db.meta
      /\ DOMAIN next = {"since", "pc", "edge", "meta"}
  BY <1>1 DEF UpsertEdgeInv
<1>6. /\ RowsOK(rows) /\ DOMAIN rows = DOMAIN db.rows \cup {key} /\ rows[key] = r.edge
      /\ \A j \in DOMAIN db.rows : j # key => rows[j] = db.rows[j]
  <2>1. RowsOK(rows)
    BY <1>1, <1>3, PutRow
  <2> QED
    BY <2>1 DEF Put
<1>7. key = out_key(next.edge.src, new.meta.next_edge_seq)
  BY <1>4, <1>5
<1> HIDE DEF new, next, rows, key
<1>8. /\ Table(rows, K_OUT) = Table(db.rows, K_OUT) \cup {key}
      /\ Table(rows, K_ENT) = Table(db.rows, K_ENT)
  BY <1>3, <1>6 DEF Table, K_OUT, K_ENT
<1>9. ASSUME ~db.torn PROVE AckedIn(rows, db.acked) /\ Numbered(new)
  <2>1. AckedIn(db.rows, db.acked) /\ Numbered(db)
    BY <1>1, <1>9 DEF TreeInv, PayloadOK
  <2>2. db.meta.next_edge_seq \in Nat
    BY <1>1 DEF TreeInv
  <2>3. \A a \in db.acked : a[1] # key
    BY <1>3, <2>1, <2>2 DEF Numbered
  <2>4. AckedIn(rows, db.acked)
    BY <1>6, <1>8, <2>1, <2>3 DEF AckedIn, Table
  <2>5. Numbered(new)
    BY <1>3, <1>4, <1>8, <2>1, <2>2 DEF Numbered
  <2> QED
    BY <2>4, <2>5
<1>10. ASSUME Consistent(db.rows) PROVE Consistent(rows)
  <2>1. ASSUME NEW k \in Table(rows, K_OUT)
        PROVE  {ent_key(rows[k].src), ent_key(rows[k].dst)} \subseteq DOMAIN rows
    <3>1. CASE k = key
      BY <1>1, <1>6, <3>1 DEF UpsertEdgeInv
    <3>2. CASE k # key
      <4>1. k \in Table(db.rows, K_OUT) /\ rows[k] = db.rows[k]
        BY <1>6, <1>8, <3>2 DEF Table
      <4> QED
        BY <1>6, <1>10, <4>1 DEF Consistent
    <3> QED
      BY <3>1, <3>2
  <2>2. ASSUME NEW k \in Table(rows, K_ENT)
        PROVE  rows[k] \subseteq GetOr(rows, doc_key(k[2]), {})
    <3>1. k \in Table(db.rows, K_ENT) /\ rows[k] = db.rows[k]
      BY <1>3, <1>6, <1>8 DEF Table, K_OUT, K_ENT
    <3>2. doc_key(k[2]) # key
      BY <1>3 DEF doc_key, K_DOC, K_OUT
    <3> QED
      BY <1>6, <1>10, <3>1, <3>2 DEF Consistent, GetOr
  <2> QED
    BY <2>1, <2>2 DEF Consistent
<1>11. TreeInv(new)
  BY <1>1, <1>4, <1>6, <1>9, <1>10 DEF TreeInv, PayloadOK
<1>12. UpsertEdgeInv(next, new)
  BY <1>1, <1>4, <1>5, <1>6, <1>7 DEF UpsertEdgeInv
<1>13. CallInv(next, new)
  BY <1>5, <1>12 DEF CallInv, Pcs
<1> QED
  BY <1>2, <1>11, <1>13, WriteKeeps

LEMMA PutMetaKeeps ==
    ASSUME Alone, IInv, NEW c \in Clients, put_meta(c)
    PROVE  IInv'
<1> DEFINE r == call[c]
           seq == db.meta.next_edge_seq
           key == out_key(r.edge.src, seq)
           acked == db.acked \cup {<<key, r.edge>>}
           meta == [db.meta EXCEPT !.next_edge_seq = @ + 1]
           new == [db EXCEPT !.meta = meta, !.acked = acked]
<1>1. /\ TreeInv(db) /\ UpsertEdgeInv(r, db) /\ r.pc = "put_meta" /\ r.meta = db.meta
      /\ db.meta \in [next_snap: Nat, next_edge_seq: Nat]
  BY DEF IInv, CallInv, put_meta, At, TreeInv, UpsertEdgeInv
<1>2. Write(c, Idle, new)
  BY <1>1 DEF put_meta
<1>3. /\ new.rows = db.rows /\ new.snaps = db.snaps /\ new.meta = meta /\ new.acked = acked
      /\ new.taken = db.taken /\ new.torn = db.torn /\ DOMAIN new = DOMAIN db
  BY <1>1 DEF TreeInv
<1>4. /\ meta \in [next_snap: Nat, next_edge_seq: Nat] /\ meta.next_snap = db.meta.next_snap
      /\ meta.next_edge_seq = seq + 1 /\ seq \in Nat
  BY <1>1
<1>5. /\ key \in Table(db.rows, K_OUT) /\ db.rows[key] = r.edge
      /\ key[3] = seq
  BY <1>1 DEF UpsertEdgeInv, Table, out_key, K_OUT
<1> HIDE DEF new, meta, key
<1>6. \A a \in acked : a \in db.acked \/ (a[1] = key /\ a[2] = r.edge)
  OBVIOUS
<1> HIDE DEF acked, seq, r
<1>7. AckedIn(db.rows, db.acked) => AckedIn(db.rows, acked)
  BY <1>5, <1>6 DEF AckedIn
<1>8. ASSUME ~db.torn PROVE Numbered(new)
  <2>1. Numbered(db) /\ RowsOK(db.rows) /\ db.meta.next_edge_seq = seq
    BY <1>1, <1>8 DEF TreeInv, PayloadOK, seq
  <2>2. \A k \in Table(db.rows, K_OUT) : k[3] <= seq /\ k[3] \in Nat
    BY <2>1, KeyKinds DEF Numbered, RowsOK, Table
  <2>3. \A k \in Table(new.rows, K_OUT) : k[3] <= new.meta.next_edge_seq
    BY <1>3, <1>4, <2>2
  <2>4. ASSUME NEW a \in new.acked PROVE a[1][3] < new.meta.next_edge_seq
    <3>1. CASE a \in db.acked
      <4>1. a[1] \in Table(db.rows, K_OUT)
        BY <1>1, <1>8, <3>1 DEF TreeInv, PayloadOK, AckedIn
      <4> QED
        BY <1>3, <1>4, <2>2, <4>1
    <3>2. CASE a \notin db.acked
      BY <1>3, <1>4, <1>5, <1>6, <3>2
    <3> QED
      BY <3>1, <3>2
  <2> QED
    BY <2>3, <2>4 DEF Numbered
<1>9. TreeInv(new)
  BY <1>1, <1>3, <1>4, <1>7, <1>8 DEF TreeInv, PayloadOK
<1> QED
  BY <1>2, <1>9, IdleOK, WriteKeeps

\* --- snapshot ---

LEMMA SnapshotStarts ==
    ASSUME Alone, IInv, NEW c \in Clients, snapshot(c)
    PROVE  IInv'
<1> DEFINE r == [pc |-> "scan", meta |-> db.meta, table |-> K_ENT, rows |-> EmptyMap]
           started == Put(r, "since", db)
<1>1. /\ DOMAIN started = {"since", "pc", "meta", "table", "rows"}
      /\ started.pc = "scan" /\ started.meta = db.meta /\ started.table = K_ENT
      /\ started.rows = EmptyMap
  BY DEF Put
<1> HIDE DEF started
<1>2. \A k \in DOMAIN db.rows : k[1] <= K_ENT => k[1] = K_ENT
  <2>1. \A k \in DOMAIN db.rows : k \in Keys
    BY DEF IInv, TreeInv, PayloadOK, RowsOK
  <2> QED
    BY <2>1, KeyKinds DEF K_ENT, K_OUT, K_DOC
<1>3. ScanInv(started, db)
  <2>1. DOMAIN started.rows = {} /\ started.rows = [k \in DOMAIN started.rows |-> db.rows[k]]
    BY <1>1 DEF EmptyMap
  <2> QED
    BY <1>1, <1>2, <2>1 DEF ScanInv
<1>4. SnapshotInv(started, db)
  BY <1>1, <1>3 DEF SnapshotInv
<1>5. CallInv(started, db)
  BY <1>1, <1>4 DEF CallInv, Pcs
<1>6. Start(c, r)
  BY DEF snapshot
<1> QED
  BY <1>5, <1>6, StartKeeps DEF started

\* Reading the next row: what is left of the table comes after it.
LEMMA ScanRow ==
    ASSUME NEW r, NEW tree, RowsOK(tree.rows), ScanInv(r, tree),
           NEW rest, rest = {k \in Table(tree.rows, r.table) : \A j \in DOMAIN r.rows : Before(j, k)},
           NEW k \in rest, Least(k, rest),
           NEW next, next.table = r.table, next.rows = Put(r.rows, k, tree.rows[k])
    PROVE  ScanInv(next, tree)
<1>1. k \in DOMAIN tree.rows /\ k[1] = r.table
  BY DEF Table
<1>2. \A j \in DOMAIN tree.rows : j \in Keys
  BY DEF RowsOK
<1>3. /\ DOMAIN next.rows = DOMAIN r.rows \cup {k}
      /\ next.rows = [j \in DOMAIN next.rows |-> tree.rows[j]]
  <2>1. \A j \in DOMAIN r.rows : r.rows[j] = tree.rows[j]
    BY DEF ScanInv
  <2> QED
    BY <2>1 DEF Put
<1>4. \A j \in DOMAIN next.rows : j[1] <= next.table
  <2>1. \A j \in DOMAIN next.rows : j \in DOMAIN r.rows \/ j = k
    BY <1>3
  <2>2. r.table <= r.table
    BY DEF ScanInv, K_ENT, K_OUT, K_DOC
  <2> QED
    BY <1>1, <2>1, <2>2 DEF ScanInv
<1>5. ASSUME NEW j \in DOMAIN tree.rows, j[1] <= next.table
      PROVE  \/ j \in DOMAIN next.rows
             \/ j[1] = next.table /\ \A i \in DOMAIN next.rows : Before(i, j)
  <2>1. CASE j \in DOMAIN next.rows
    BY <2>1
  <2>2. CASE j \notin DOMAIN next.rows
    <3>1. j[1] = r.table /\ \A i \in DOMAIN r.rows : Before(i, j)
      BY <1>3, <1>5, <2>2 DEF ScanInv
    <3>2. j \in rest /\ j # k
      BY <1>3, <2>2, <3>1 DEF Table
    <3>3. Before(k, j)
      BY <1>1, <1>2, <3>2, KeysLinear DEF Least
    <3> QED
      BY <1>3, <3>1, <3>3
  <2> QED
    BY <2>1, <2>2
<1>6. DOMAIN next.rows \subseteq DOMAIN tree.rows
  BY <1>1, <1>3 DEF ScanInv
<1> QED
  BY <1>3, <1>4, <1>5, <1>6 DEF ScanInv

\* The table is read to its end when no row is left after those read.
LEMMA ScanTable ==
    ASSUME NEW r, NEW tree, RowsOK(tree.rows), ScanInv(r, tree),
           {k \in Table(tree.rows, r.table) : \A j \in DOMAIN r.rows : Before(j, k)} = {}
    PROVE  \A k \in DOMAIN tree.rows : k[1] <= r.table => k \in DOMAIN r.rows
BY DEF ScanInv, Table

LEMMA ScanKeeps ==
    ASSUME Alone, IInv, NEW c \in Clients, scan(c)
    PROVE  IInv'
<1> DEFINE r == call[c]
           rest == {k \in Table(db.rows, r.table) : \A j \in DOMAIN r.rows : Before(j, k)}
<1>1. /\ SnapshotInv(r, db) /\ r.pc = "scan" /\ ScanInv(r, db)
      /\ RowsOK(db.rows)
  BY DEF IInv, CallInv, scan, At, TreeInv, PayloadOK, SnapshotInv
<1>2. \A k \in DOMAIN db.rows : k \in Keys
  BY <1>1 DEF RowsOK
<1>3. ASSUME NEW k \in rest, Least(k, rest), Read(c, [r EXCEPT !.rows = Put(@, k, db.rows[k])])
      PROVE  IInv'
  <2> DEFINE next == [r EXCEPT !.rows = Put(@, k, db.rows[k])]
  <2>1. /\ next.pc = "scan" /\ next.meta = r.meta /\ next.table = r.table
        /\ next.rows = Put(r.rows, k, db.rows[k]) /\ DOMAIN next = DOMAIN r
    BY <1>1 DEF SnapshotInv
  <2>2. Read(c, next)
    BY <1>3
  <2> HIDE DEF next, rest
  <2>3. ScanInv(next, db)
    BY <1>1, <1>3, <2>1, ScanRow DEF rest
  <2>4. SnapshotInv(next, db)
    BY <1>1, <2>1, <2>3 DEF SnapshotInv
  <2>5. CallInv(next, db)
    BY <2>1, <2>4 DEF CallInv, Pcs
  <2> QED
    BY <2>2, <2>5, ReadKeeps
<1>4. ASSUME rest = {}, r.table = K_DOC, Read(c, [r EXCEPT !.pc = "put_snap"])
      PROVE  IInv'
  <2> DEFINE next == [r EXCEPT !.pc = "put_snap"]
  <2>1. /\ next.pc = "put_snap" /\ next.meta = r.meta
        /\ next.rows = r.rows /\ DOMAIN next = DOMAIN r
    BY <1>1 DEF SnapshotInv
  <2>2. Read(c, next)
    BY <1>4
  <2> HIDE DEF next
  <2>3. \A k \in DOMAIN db.rows : k \in DOMAIN r.rows
    <3>1. \A k \in DOMAIN db.rows : k[1] <= K_DOC
      BY <1>2, KeyKinds DEF K_ENT, K_OUT, K_DOC
    <3> QED
      BY <1>1, <1>4, <3>1, ScanTable
  <2>4. r.rows = db.rows
    <3>1. DOMAIN r.rows = DOMAIN db.rows
      BY <1>1, <2>3 DEF ScanInv
    <3> QED
      BY <1>1, <3>1 DEF ScanInv, RowsOK
  <2>5. SnapshotInv(next, db)
    BY <1>1, <2>1, <2>4 DEF SnapshotInv
  <2>6. CallInv(next, db)
    BY <2>1, <2>5 DEF CallInv, Pcs
  <2> QED
    BY <2>2, <2>6, ReadKeeps
<1>5. ASSUME rest = {}, r.table # K_DOC, Read(c, [r EXCEPT !.table = @ + 1])
      PROVE  IInv'
  <2> DEFINE next == [r EXCEPT !.table = @ + 1]
  <2>1. /\ next.pc = "scan" /\ next.meta = r.meta /\ next.table = r.table + 1
        /\ next.rows = r.rows /\ DOMAIN next = DOMAIN r
    BY <1>1 DEF SnapshotInv
  <2>2. Read(c, next)
    BY <1>5
  <2> HIDE DEF next
  <2>3. r.table \in {1, 2} /\ next.table \in {K_ENT, K_OUT, K_DOC}
    BY <1>1, <1>5, <2>1 DEF ScanInv, K_ENT, K_OUT, K_DOC
  <2>4. \A k \in DOMAIN db.rows : k[1] \in {1, 2, 3}
    BY <1>2, KeyKinds DEF K_ENT, K_OUT, K_DOC
  <2>5. \A j \in DOMAIN r.rows : j \in DOMAIN db.rows /\ j[1] <= r.table
    BY <1>1 DEF ScanInv
  <2>6. \A j \in DOMAIN next.rows : j[1] <= next.table
    BY <2>1, <2>3, <2>4, <2>5
  <2>7. ASSUME NEW k \in DOMAIN db.rows, k[1] <= next.table
        PROVE  \/ k \in DOMAIN next.rows
               \/ k[1] = next.table /\ \A j \in DOMAIN next.rows : Before(j, k)
    <3>1. CASE k[1] <= r.table
      BY <1>1, <1>5, <2>1, <3>1, ScanTable
    <3>2. CASE ~(k[1] <= r.table)
      <4>1. k[1] = next.table
        BY <2>1, <2>3, <2>4, <2>7, <3>2
      <4>2. ASSUME NEW j \in DOMAIN r.rows PROVE Before(j, k)
        <5>1. j[1] < k[1]
          BY <2>3, <2>4, <2>5, <3>2
        <5> QED
          BY <1>2, <2>5, <5>1, KeysLinear
      <4> QED
        BY <2>1, <4>1, <4>2
    <3> QED
      BY <3>1, <3>2
  <2>8. ScanInv(next, db)
    BY <1>1, <2>1, <2>3, <2>6, <2>7 DEF ScanInv
  <2>9. SnapshotInv(next, db)
    BY <1>1, <2>1, <2>8 DEF SnapshotInv
  <2>10. CallInv(next, db)
    BY <2>1, <2>9 DEF CallInv, Pcs
  <2> QED
    BY <2>2, <2>10, ReadKeeps
<1> QED
  BY <1>3, <1>4, <1>5 DEF scan

\* The payload is the tree as it is, since no one else writes.
LEMMA PutSnapKeeps ==
    ASSUME Alone, IInv, NEW c \in Clients, put_snap(c)
    PROVE  IInv'
<1> DEFINE r == call[c]
           id == db.meta.next_snap
           payload == [rows |-> r.rows, acked |-> db.acked, torn |-> db.torn]
           snaps == Put(db.snaps, id, payload)
           new == [db EXCEPT !.snaps = snaps]
           next == [r EXCEPT !.pc = "put_snap_meta"]
<1>1. /\ TreeInv(db) /\ SnapshotInv(r, db) /\ r.pc = "put_snap"
      /\ r.meta = db.meta /\ r.rows = db.rows
  BY DEF IInv, CallInv, put_snap, At, SnapshotInv
<1>2. Write(c, next, new)
  BY <1>1 DEF put_snap
<1>3. /\ new.rows = db.rows /\ new.snaps = snaps /\ new.meta = db.meta /\ new.acked = db.acked
      /\ new.taken = db.taken /\ new.torn = db.torn /\ DOMAIN new = DOMAIN db
  BY <1>1 DEF TreeInv
<1>4. /\ next.pc = "put_snap_meta" /\ next.meta = r.meta /\ DOMAIN next = DOMAIN r
  BY <1>1 DEF SnapshotInv
<1>5. PayloadOK(payload)
  <2>1. payload.rows = db.rows /\ payload.acked = db.acked /\ payload.torn = db.torn
    BY <1>1
  <2> QED
    BY <1>1, <2>1 DEF TreeInv, PayloadOK
<1>6. /\ DOMAIN snaps = DOMAIN db.snaps \cup {id}
      /\ \A i \in DOMAIN snaps : snaps[i] = payload \/ (i \in DOMAIN db.snaps /\ snaps[i] = db.snaps[i])
  BY DEF Put
<1> HIDE DEF new, next, snaps, payload
<1>7. \A i \in DOMAIN snaps : PayloadOK(snaps[i])
  BY <1>1, <1>5, <1>6 DEF TreeInv
<1>8. TreeInv(new)
  BY <1>1, <1>3, <1>6, <1>7 DEF TreeInv, PayloadOK, Numbered
<1>9. CallInv(next, new)
  BY <1>1, <1>3, <1>4, <1>6 DEF CallInv, Pcs, SnapshotInv
<1> QED
  BY <1>2, <1>8, <1>9, WriteKeeps

LEMMA PutSnapMetaKeeps ==
    ASSUME Alone, IInv, NEW c \in Clients, put_snap_meta(c)
    PROVE  IInv'
<1> DEFINE r == call[c]
           id == db.meta.next_snap
           meta == [db.meta EXCEPT !.next_snap = @ + 1]
           taken == db.taken \cup {id}
           new == [db EXCEPT !.meta = meta, !.taken = taken]
<1>1. /\ TreeInv(db) /\ r.meta = db.meta /\ id \in DOMAIN db.snaps
      /\ db.meta \in [next_snap: Nat, next_edge_seq: Nat]
  BY DEF IInv, CallInv, put_snap_meta, At, SnapshotInv, TreeInv
<1>2. Write(c, Idle, new)
  BY <1>1 DEF put_snap_meta
<1>3. /\ new.rows = db.rows /\ new.snaps = db.snaps /\ new.meta = meta /\ new.acked = db.acked
      /\ new.taken = taken /\ new.torn = db.torn /\ DOMAIN new = DOMAIN db
  BY <1>1 DEF TreeInv
<1>4. /\ meta \in [next_snap: Nat, next_edge_seq: Nat] /\ meta.next_snap = id + 1
      /\ meta.next_edge_seq = db.meta.next_edge_seq /\ id \in Nat
  BY <1>1
<1>5. taken \subseteq DOMAIN db.snaps \cap 0..(meta.next_snap - 1)
  BY <1>1, <1>4 DEF TreeInv
<1> HIDE DEF new, meta, taken
<1>6. TreeInv(new)
  BY <1>1, <1>3, <1>4, <1>5 DEF TreeInv, PayloadOK, Numbered
<1> QED
  BY <1>2, <1>6, IdleOK, WriteKeeps

\* --- restore ---

LEMMA RestoreStarts ==
    ASSUME Alone, IInv, NEW c \in Clients, NEW snap \in DOMAIN db.snaps, restore(c, snap)
    PROVE  IInv'
<1> DEFINE payload == db.snaps[snap]
           r == [pc |-> "list_keys", table |-> K_ENT, payload |-> payload]
           started == Put(r, "since", db)
<1>1. /\ DOMAIN started = {"since", "pc", "table", "payload"}
      /\ started.pc = "list_keys" /\ started.table = K_ENT /\ started.payload = payload
  BY DEF Put
<1>2. PayloadOK(payload) /\ RowsOK(db.rows)
  BY DEF IInv, TreeInv, PayloadOK
<1> HIDE DEF started, payload
<1>3. \A k \in DOMAIN db.rows : K_ENT <= k[1]
  BY <1>2, KeyKinds DEF RowsOK, K_ENT, K_OUT, K_DOC
<1>4. ClearInv(started, db)
  BY <1>1, <1>3 DEF ClearInv
<1>5. CallInv(started, db)
  BY <1>1, <1>2, <1>4 DEF CallInv, Pcs, RestoreInv
<1>6. Start(c, r)
  BY DEF restore, payload
<1> QED
  BY <1>5, <1>6, StartKeeps DEF started

\* With one more table empty, the next may be cleared, or all are empty.
LEMMA AfterTableOK ==
    ASSUME NEW r, NEW tree, RowsOK(tree.rows), PayloadOK(r.payload),
           r.table \in {K_ENT, K_OUT, K_DOC},
           \A k \in DOMAIN tree.rows : r.table <= k[1] /\ k[1] # r.table
    PROVE  CallInv(AfterTable(r), tree)
<1> DEFINE next == AfterTable(r)
<1>1. \A k \in DOMAIN tree.rows : k[1] \in {1, 2, 3}
  BY KeyKinds DEF RowsOK, K_ENT, K_OUT, K_DOC
<1>2. CASE r.table = K_DOC
  <2>1. /\ next.pc = "reread_meta" /\ next.payload = r.payload
        /\ DOMAIN next = {"since", "pc", "payload"}
    BY <1>2 DEF AfterTable
  <2> HIDE DEF next
  <2>2. DOMAIN tree.rows = {}
    BY <1>1, <1>2 DEF K_DOC
  <2>3. RestoreInv(next, tree)
    BY <2>1, <2>2 DEF RestoreInv
  <2>4. CallInv(next, tree)
    BY <2>1, <2>3 DEF CallInv, Pcs
  <2> QED
    BY <2>4 DEF next
<1>3. CASE r.table # K_DOC
  <2>1. /\ next.pc = "list_keys" /\ next.payload = r.payload /\ next.table = r.table + 1
        /\ DOMAIN next = {"since", "pc", "payload", "table"}
    BY <1>3 DEF AfterTable
  <2> HIDE DEF next
  <2>2. r.table \in {1, 2} /\ next.table \in {K_ENT, K_OUT, K_DOC}
    BY <1>3, <2>1 DEF K_ENT, K_OUT, K_DOC
  <2>3. \A k \in DOMAIN tree.rows : next.table <= k[1]
    BY <1>1, <2>1, <2>2
  <2>4. ClearInv(next, tree)
    BY <2>1, <2>2, <2>3 DEF ClearInv
  <2>5. RestoreInv(next, tree)
    BY <2>1, <2>4 DEF RestoreInv
  <2>6. CallInv(next, tree)
    BY <2>1, <2>5 DEF CallInv, Pcs
  <2> QED
    BY <2>6 DEF next
<1> QED
  BY <1>2, <1>3

LEMMA ListKeysKeeps ==
    ASSUME Alone, IInv, NEW c \in Clients, list_keys(c)
    PROVE  IInv'
<1> DEFINE r == call[c]
           keys == Table(db.rows, r.table)
           next == Put([r EXCEPT !.pc = "clear"], "keys", keys)
<1>1. /\ RestoreInv(r, db) /\ r.pc = "list_keys" /\ ClearInv(r, db)
      /\ RowsOK(db.rows)
  BY DEF IInv, CallInv, list_keys, At, TreeInv, PayloadOK, RestoreInv
<1>2. CASE keys = {}
  <2>1. Read(c, AfterTable(r))
    BY <1>2 DEF list_keys
  <2>2. \A k \in DOMAIN db.rows : r.table <= k[1] /\ k[1] # r.table
    BY <1>1, <1>2 DEF ClearInv, Table
  <2>3. CallInv(AfterTable(r), db)
    BY <1>1, <2>2, AfterTableOK DEF RestoreInv, ClearInv
  <2> QED
    BY <2>1, <2>3, ReadKeeps
<1>3. CASE keys # {}
  <2>1. Read(c, next)
    BY <1>3 DEF list_keys
  <2>2. /\ next.pc = "clear" /\ next.payload = r.payload /\ next.table = r.table
        /\ next.keys = keys /\ DOMAIN next = {"since", "pc", "payload", "table", "keys"}
    BY <1>1 DEF ClearInv, Put
  <2> HIDE DEF next
  <2>3. ClearInv(next, db)
    BY <1>1, <1>3, <2>2 DEF ClearInv
  <2>4. CallInv(next, db)
    BY <1>1, <2>2, <2>3 DEF CallInv, Pcs, RestoreInv
  <2> QED
    BY <2>1, <2>4, ReadKeeps
<1> QED
  BY <1>2, <1>3

LEMMA ClearKeeps ==
    ASSUME Alone, IInv, NEW c \in Clients, clear(c)
    PROVE  IInv'
<1> DEFINE r == call[c]
<1>1. /\ TreeInv(db) /\ RestoreInv(r, db) /\ r.pc = "clear" /\ ClearInv(r, db)
      /\ RowsOK(db.rows)
  BY DEF IInv, CallInv, clear, At, TreeInv, PayloadOK, RestoreInv
<1>2. PICK k \in r.keys :
         Write(c, IF r.keys = {k} THEN AfterTable(r) ELSE [r EXCEPT !.keys = @ \ {k}],
                  [db EXCEPT !.rows = Drop(@, k), !.torn = TRUE])
  BY DEF clear
<1> DEFINE rows == Drop(db.rows, k)
           new == [db EXCEPT !.rows = rows, !.torn = TRUE]
           next == [r EXCEPT !.keys = @ \ {k}]
<1>3. /\ new.rows = rows /\ new.snaps = db.snaps /\ new.meta = db.meta /\ new.acked = db.acked
      /\ new.taken = db.taken /\ new.torn = TRUE /\ DOMAIN new = DOMAIN db
  BY <1>1 DEF TreeInv
<1>4. RowsOK(rows) /\ DOMAIN rows = DOMAIN db.rows \ {k}
  <2>1. RowsOK(rows)
    BY <1>1, DropRow
  <2> QED
    BY <2>1 DEF Drop
<1>5. Table(rows, r.table) = r.keys \ {k}
  BY <1>1, <1>4 DEF ClearInv, Table
<1>6. \A j \in DOMAIN rows : r.table <= j[1]
  BY <1>1, <1>4 DEF ClearInv
<1>7. /\ next.pc = "clear" /\ next.payload = r.payload /\ next.table = r.table
      /\ next.keys = r.keys \ {k} /\ DOMAIN next = {"since", "pc", "payload", "table", "keys"}
  BY <1>1 DEF ClearInv
<1>8. Write(c, IF r.keys = {k} THEN AfterTable(r) ELSE next, new)
  BY <1>2
<1> HIDE DEF new, rows, next
<1>9. TreeInv(new)
  BY <1>1, <1>3, <1>4 DEF TreeInv, PayloadOK
<1>10. CASE r.keys = {k}
  <2>1. \A j \in DOMAIN rows : r.table <= j[1] /\ j[1] # r.table
    BY <1>5, <1>6, <1>10 DEF Table
  <2>2. CallInv(AfterTable(r), new)
    BY <1>1, <1>3, <1>4, <2>1, AfterTableOK DEF RestoreInv, ClearInv
  <2>3. Write(c, AfterTable(r), new)
    BY <1>8, <1>10
  <2> QED
    BY <1>9, <2>2, <2>3, WriteKeeps
<1>11. CASE r.keys # {k}
  <2>1. next.keys # {}
    BY <1>2, <1>7, <1>11
  <2>2. ClearInv(next, new)
    BY <1>1, <1>3, <1>5, <1>6, <1>7, <2>1 DEF ClearInv
  <2>3. CallInv(next, new)
    BY <1>1, <1>7, <2>2 DEF CallInv, Pcs, RestoreInv
  <2>4. Write(c, next, new)
    BY <1>8, <1>11
  <2> QED
    BY <1>9, <2>3, <2>4, WriteKeeps
<1> QED
  BY <1>10, <1>11

LEMMA RereadMetaKeeps ==
    ASSUME Alone, IInv, NEW c \in Clients, reread_meta(c)
    PROVE  IInv'
<1> DEFINE r == call[c]
           next == Put([r EXCEPT !.pc = "reset_meta"], "meta", db.meta)
<1>1. RestoreInv(r, db) /\ r.pc = "reread_meta"
  BY DEF IInv, CallInv, reread_meta, At
<1>2. Read(c, next)
  BY DEF reread_meta
<1>3. /\ next.pc = "reset_meta" /\ next.payload = r.payload /\ next.meta = db.meta
      /\ DOMAIN next = {"since", "pc", "payload", "meta"}
  BY <1>1 DEF RestoreInv, Put
<1> HIDE DEF next
<1>4. CallInv(next, db)
  BY <1>1, <1>3 DEF CallInv, Pcs, RestoreInv
<1> QED
  BY <1>2, <1>4, ReadKeeps

-----------------------------------------------------------------------------
(***************************************************************************)
(* Numbering edges anew.                                                   *)
(***************************************************************************)

\* The edges saved before a key, in the order of keys.
EarlierEdges(rows, k) == {j \in Table(rows, K_OUT) : Before(j, k)}

\* An edge saved later gets a greater number, and all are below the counter.
LEMMA RankGrows ==
    ASSUME NEW rows, RowsOK(rows)
    PROVE  /\ Cardinality(Table(rows, K_OUT)) \in Nat
           /\ \A k \in Table(rows, K_OUT) :
                 /\ Cardinality(EarlierEdges(rows, k)) \in Nat
                 /\ Cardinality(EarlierEdges(rows, k)) < Cardinality(Table(rows, K_OUT))
           /\ \A j, k \in Table(rows, K_OUT) :
                 Before(j, k) => Cardinality(EarlierEdges(rows, j)) < Cardinality(EarlierEdges(rows, k))
<1> DEFINE T == Table(rows, K_OUT)
           E(k) == EarlierEdges(rows, k)
<1>1. \A k \in T : k \in Keys
  BY DEF RowsOK, Table
<1>2. IsFiniteSet(T) /\ Cardinality(T) \in Nat
  BY FS_CardinalityType DEF RowsOK
<1>3. \A k \in T : E(k) \in SUBSET T /\ k \notin E(k)
  BY <1>1, KeysLinear DEF EarlierEdges
<1> HIDE DEF T, E
<1>4. ASSUME NEW k \in T
      PROVE  IsFiniteSet(E(k)) /\ Cardinality(E(k)) \in Nat /\ Cardinality(E(k)) < Cardinality(T)
  <2>1. /\ IsFiniteSet(E(k)) /\ Cardinality(E(k)) <= Cardinality(T)
        /\ Cardinality(T) = Cardinality(E(k)) => T = E(k)
    BY <1>2, <1>3, FS_Subset
  <2>2. Cardinality(E(k)) \in Nat
    BY <2>1, FS_CardinalityType
  <2> QED
    BY <1>2, <1>3, <2>1, <2>2
<1>5. ASSUME NEW j \in T, NEW k \in T, Before(j, k)
      PROVE  Cardinality(E(j)) < Cardinality(E(k))
  <2>1. E(j) \in SUBSET E(k) /\ j \in E(k) /\ j \notin E(j)
    BY <1>1, <1>3, <1>5, KeysLinear DEF EarlierEdges, T, E
  <2>2. /\ Cardinality(E(j)) <= Cardinality(E(k))
        /\ Cardinality(E(k)) = Cardinality(E(j)) => E(k) = E(j)
    BY <1>4, <2>1, FS_Subset
  <2> QED
    BY <1>4, <2>1, <2>2
<1> QED
  BY <1>2, <1>4, <1>5 DEF T, E

\* A new key is a key of the same table and entity, edges keep their order,
\* and no two rows get the same key.
LEMMA NewKeys ==
    ASSUME NEW rows, RowsOK(rows)
    PROVE  /\ \A k \in DOMAIN rows :
                 /\ NewKey(rows, k) \in Keys
                 /\ NewKey(rows, k)[1] = k[1] /\ NewKey(rows, k)[2] = k[2]
                 /\ k[1] # K_OUT => NewKey(rows, k) = k
                 /\ k[1] = K_OUT => NewKey(rows, k)[3] < Cardinality(Table(rows, K_OUT))
           /\ \A j, k \in Table(rows, K_OUT) : Before(j, k) => NewKey(rows, j)[3] < NewKey(rows, k)[3]
           /\ \A j, k \in DOMAIN rows : NewKey(rows, j) = NewKey(rows, k) => j = k
<1> DEFINE rank(k) == Cardinality(EarlierEdges(rows, k))
<1>1. \A k \in DOMAIN rows : k \in Keys /\ k[2] \in Entities
  BY KeyKinds DEF RowsOK
<1>2. \A k \in DOMAIN rows : k[1] # K_OUT => NewKey(rows, k) = k
  BY DEF NewKey
<1>3. ASSUME NEW k \in Table(rows, K_OUT)
      PROVE  /\ k \in DOMAIN rows /\ k[1] = K_OUT /\ rank(k) \in Nat
             /\ NewKey(rows, k) = out_key(k[2], rank(k))
             /\ NewKey(rows, k) \in Keys
             /\ NewKey(rows, k)[1] = K_OUT /\ NewKey(rows, k)[2] = k[2]
             /\ NewKey(rows, k)[3] = rank(k)
  <2>1. k \in DOMAIN rows /\ k[1] = K_OUT
    BY DEF Table
  <2>2. NewKey(rows, k) = out_key(k[2], rank(k))
    BY <2>1 DEF NewKey, EarlierEdges
  <2>3. rank(k) \in Nat
    BY RankGrows
  <2> HIDE DEF rank
  <2>4. out_key(k[2], rank(k)) \in Keys
    BY <1>1, <2>1, <2>3, KeyKinds
  <2> QED
    BY <2>1, <2>2, <2>3, <2>4 DEF out_key
<1>4. \A k \in Table(rows, K_OUT) : rank(k) < Cardinality(Table(rows, K_OUT))
  BY RankGrows
<1>5. \A j, k \in Table(rows, K_OUT) : Before(j, k) => rank(j) < rank(k)
  BY RankGrows
<1> HIDE DEF rank
<1>6. \A k \in DOMAIN rows : k[1] = K_OUT => k \in Table(rows, K_OUT)
  BY DEF Table
<1>7. \A j, k \in Table(rows, K_OUT) : NewKey(rows, j) = NewKey(rows, k) => j = k
  <2> SUFFICES ASSUME NEW j \in Table(rows, K_OUT), NEW k \in Table(rows, K_OUT),
                      NewKey(rows, j) = NewKey(rows, k), j # k
               PROVE  FALSE
    OBVIOUS
  <2>1. rank(j) = rank(k) /\ rank(j) \in Nat
    BY <1>3
  <2>2. Before(j, k) \/ Before(k, j)
    BY <1>1, <1>3, KeysLinear
  <2> QED
    BY <1>5, <2>1, <2>2
<1>8. \A j, k \in DOMAIN rows : NewKey(rows, j) = NewKey(rows, k) => j = k
  <2> SUFFICES ASSUME NEW j \in DOMAIN rows, NEW k \in DOMAIN rows,
                      NewKey(rows, j) = NewKey(rows, k)
               PROVE  j = k
    OBVIOUS
  <2>1. NewKey(rows, j)[1] = j[1] /\ NewKey(rows, k)[1] = k[1]
    BY <1>2, <1>3, <1>6
  <2>2. CASE j[1] = K_OUT
    BY <1>6, <1>7, <2>1, <2>2
  <2>3. CASE j[1] # K_OUT
    BY <1>2, <2>1, <2>3
  <2> QED
    BY <2>2, <2>3
<1> QED
  BY <1>1, <1>2, <1>3, <1>4, <1>5, <1>6, <1>8

\* The acknowledged edges under their new keys.
Renamed(saved, acked) == {<<NewKey(saved, a[1]), a[2]>> : a \in acked}

\* All rows inserted, the tree is as sound as what was saved.
LEMMA AllInserted ==
    ASSUME NEW saved, RowsOK(saved), NEW rows, RowsOK(rows), Renumbered(rows, saved, DOMAIN saved),
           NEW acked
    PROVE  /\ Consistent(saved) => Consistent(rows)
           /\ AckedIn(saved, acked) => AckedIn(rows, Renamed(saved, acked))
           /\ \A k \in Table(rows, K_OUT) : k[3] < Cardinality(Table(saved, K_OUT))
<1>1. \A k \in DOMAIN saved : /\ NewKey(saved, k) \in DOMAIN rows
                              /\ rows[NewKey(saved, k)] = saved[k]
                              /\ NewKey(saved, k)[1] = k[1] /\ NewKey(saved, k)[2] = k[2]
                              /\ k[1] # K_OUT => NewKey(saved, k) = k
                              /\ k[1] = K_OUT => NewKey(saved, k)[3] < Cardinality(Table(saved, K_OUT))
  BY NewKeys DEF Renumbered
<1>2. \A j \in DOMAIN rows : \E k \in DOMAIN saved : j = NewKey(saved, k)
  BY DEF Renumbered
<1>3. \A e : doc_key(e)[1] # K_OUT /\ ent_key(e)[1] # K_OUT
  BY DEF doc_key, ent_key, K_OUT, K_DOC, K_ENT
<1>4. \A e : ent_key(e) \in DOMAIN saved => ent_key(e) \in DOMAIN rows
  BY <1>1, <1>3
<1>5. \A e : GetOr(rows, doc_key(e), {}) = GetOr(saved, doc_key(e), {})
  <2> TAKE e
  <2>1. CASE doc_key(e) \in DOMAIN saved
    BY <1>1, <1>3, <2>1 DEF GetOr
  <2>2. CASE doc_key(e) \notin DOMAIN saved
    <3>1. doc_key(e) \notin DOMAIN rows
      <4> SUFFICES ASSUME doc_key(e) \in DOMAIN rows PROVE FALSE
        OBVIOUS
      <4>1. PICK k \in DOMAIN saved : doc_key(e) = NewKey(saved, k)
        BY <1>2
      <4>2. k[1] # K_OUT
        BY <1>1, <1>3, <4>1
      <4> QED
        BY <1>1, <2>2, <4>1, <4>2
    <3> QED
      BY <2>2, <3>1 DEF GetOr
  <2> QED
    BY <2>1, <2>2
<1>6. ASSUME Consistent(saved) PROVE Consistent(rows)
  <2>1. ASSUME NEW j \in Table(rows, K_OUT)
        PROVE  {ent_key(rows[j].src), ent_key(rows[j].dst)} \subseteq DOMAIN rows
    <3>1. PICK k \in DOMAIN saved : j = NewKey(saved, k)
      BY <1>2 DEF Table
    <3>2. k \in Table(saved, K_OUT) /\ rows[j] = saved[k]
      BY <1>1, <3>1 DEF Table
    <3>3. ent_key(saved[k].src) \in DOMAIN saved /\ ent_key(saved[k].dst) \in DOMAIN saved
      BY <1>6, <3>2 DEF Consistent
    <3> QED
      BY <1>4, <3>2, <3>3
  <2>2. ASSUME NEW j \in Table(rows, K_ENT)
        PROVE  rows[j] \subseteq GetOr(rows, doc_key(j[2]), {})
    <3>1. PICK k \in DOMAIN saved : j = NewKey(saved, k)
      BY <1>2 DEF Table
    <3>2. k[1] = K_ENT
      BY <1>1, <3>1 DEF Table
    <3>3. j = k /\ rows[j] = saved[k]
      BY <1>1, <3>1, <3>2 DEF K_ENT, K_OUT
    <3>4. k \in Table(saved, K_ENT)
      BY <3>2 DEF Table
    <3> QED
      BY <1>5, <1>6, <3>3, <3>4 DEF Consistent
  <2> QED
    BY <2>1, <2>2 DEF Consistent
<1>7. ASSUME AckedIn(saved, acked)
      PROVE  AckedIn(rows, Renamed(saved, acked))
  <2>1. ASSUME NEW a \in acked
        PROVE  NewKey(saved, a[1]) \in Table(rows, K_OUT) /\ rows[NewKey(saved, a[1])] = a[2]
    <3>1. a[1] \in DOMAIN saved /\ a[1][1] = K_OUT /\ saved[a[1]] = a[2]
      BY <1>7 DEF AckedIn, Table
    <3> QED
      BY <1>1, <3>1 DEF Table
  <2>2. ASSUME NEW b \in Renamed(saved, acked)
        PROVE  b[1] \in Table(rows, K_OUT) /\ rows[b[1]] = b[2]
    <3>1. PICK a \in acked : b = <<NewKey(saved, a[1]), a[2]>>
      BY DEF Renamed
    <3>2. b[1] = NewKey(saved, a[1]) /\ b[2] = a[2]
      BY <3>1
    <3> QED
      BY <2>1, <3>2
  <2> QED
    BY <2>2 DEF AckedIn
<1>8. ASSUME NEW j \in Table(rows, K_OUT) PROVE j[3] < Cardinality(Table(saved, K_OUT))
  <2>1. PICK k \in DOMAIN saved : j = NewKey(saved, k)
    BY <1>2 DEF Table
  <2>2. k[1] = K_OUT
    BY <1>1, <2>1 DEF Table
  <2> QED
    BY <1>1, <2>1, <2>2
<1> QED
  BY <1>6, <1>7, <1>8

\* A step of a restore that has these rows still to insert keeps the invariant.
LEMMA RestoredKeeps ==
    ASSUME Alone, IInv, NEW c \in Clients, PayloadOK(call[c].payload), NEW rest, NEW tree,
           Write(c, Restoring(call[c], rest), Restored(call[c], rest, tree)),
           DOMAIN tree = DOMAIN db, RowsOK(tree.rows), tree.snaps = db.snaps, tree.taken = db.taken,
           tree.meta = [db.meta EXCEPT !.next_edge_seq = Cardinality(Table(call[c].payload.rows, K_OUT))],
           rest \subseteq DOMAIN call[c].payload.rows,
           Renumbered(tree.rows, call[c].payload.rows, DOMAIN call[c].payload.rows \ rest)
    PROVE  IInv'
<1> DEFINE r == call[c]
           p == r.payload
           saved == p.rows
           n == Cardinality(Table(saved, K_OUT))
           new == Restored(r, rest, tree)
           next == Restoring(r, rest)
<1>1. TreeInv(db) /\ RowsOK(saved) /\ PayloadOK(p)
  BY DEF IInv, PayloadOK
<1>2. n \in Nat
  BY <1>1, RankGrows
<1>3. /\ tree.meta \in [next_snap: Nat, next_edge_seq: Nat]
      /\ tree.meta.next_snap = db.meta.next_snap /\ tree.meta.next_edge_seq = n
  BY <1>1, <1>2 DEF TreeInv
<1>4. DOMAIN tree = {"rows", "snaps", "meta", "acked", "taken", "torn"}
  BY <1>1 DEF TreeInv
<1>5. \A id \in DOMAIN tree.snaps : PayloadOK(tree.snaps[id])
  BY <1>1 DEF TreeInv
<1>6. tree.taken \subseteq DOMAIN tree.snaps \cap 0..(tree.meta.next_snap - 1)
  BY <1>1, <1>3 DEF TreeInv
<1>7. CASE rest = {}
  <2> DEFINE acked == Renamed(saved, p.acked)
  <2>1. next = Idle
    BY <1>7 DEF Restoring
  <2>2. new = [tree EXCEPT !.torn = p.torn, !.acked = acked]
    BY <1>7 DEF Restored, Renamed
  <2> HIDE DEF acked, new, next
  <2>3. /\ new.rows = tree.rows /\ new.snaps = tree.snaps /\ new.meta = tree.meta
        /\ new.acked = acked /\ new.taken = tree.taken /\ new.torn = p.torn
        /\ DOMAIN new = DOMAIN tree
    BY <1>4, <2>2
  <2>4. DOMAIN saved \ rest = DOMAIN saved
    BY <1>7
  <2>5. /\ Consistent(saved) => Consistent(tree.rows)
        /\ AckedIn(saved, p.acked) => AckedIn(tree.rows, acked)
        /\ \A k \in Table(tree.rows, K_OUT) : k[3] < n
    BY <1>1, <2>4, AllInserted DEF acked
  <2>6. ~p.torn => AckedIn(tree.rows, acked) /\ Consistent(tree.rows)
    BY <1>1, <2>5 DEF PayloadOK
  <2>7. ASSUME ~p.torn PROVE Numbered(new)
    <3>1. \A k \in Table(tree.rows, K_OUT) : k[3] \in Nat
      BY KeyKinds DEF RowsOK, Table
    <3>2. \A k \in Table(tree.rows, K_OUT) : k[3] <= n
      BY <1>2, <2>5, <3>1
    <3> QED
      BY <1>3, <2>3, <2>5, <2>6, <2>7, <3>2 DEF Numbered, AckedIn
  <2>8. PayloadOK(new)
    BY <2>3, <2>6 DEF PayloadOK
  <2>9. p.torn \in BOOLEAN
    BY <1>1 DEF PayloadOK
  <2>10. TreeInv(new)
    BY <1>3, <1>4, <1>5, <1>6, <2>3, <2>7, <2>8, <2>9 DEF TreeInv
  <2> QED
    BY <2>1, <2>10, IdleOK, WriteKeeps DEF new, next
<1>8. CASE rest # {}
  <2>1. /\ next.pc = "insert" /\ next.payload = p /\ next.rest = rest
        /\ DOMAIN next = {"since", "pc", "payload", "rest"}
    BY <1>8 DEF Restoring
  <2>2. new = [tree EXCEPT !.torn = TRUE]
    BY <1>8 DEF Restored
  <2> HIDE DEF new, next
  <2>3. /\ new.rows = tree.rows /\ new.snaps = tree.snaps /\ new.meta = tree.meta
        /\ new.acked = tree.acked /\ new.taken = tree.taken /\ new.torn = TRUE
        /\ DOMAIN new = DOMAIN tree
    BY <1>4, <2>2
  <2>4. TreeInv(new)
    BY <1>3, <1>4, <1>5, <1>6, <2>3 DEF TreeInv, PayloadOK
  <2>5. InsertInv(next, new)
    BY <1>3, <1>8, <2>1, <2>3 DEF InsertInv
  <2>6. CallInv(next, new)
    BY <1>1, <2>1, <2>5 DEF CallInv, Pcs, RestoreInv
  <2> QED
    BY <2>4, <2>6, WriteKeeps DEF new, next
<1> QED
  BY <1>7, <1>8

LEMMA ResetMetaKeeps ==
    ASSUME Alone, IInv, NEW c \in Clients, reset_meta(c)
    PROVE  IInv'
<1> DEFINE r == call[c]
           saved == r.payload.rows
           rest == DOMAIN saved
           n == Cardinality(Table(saved, K_OUT))
           tree == [db EXCEPT !.meta = [r.meta EXCEPT !.next_edge_seq = n]]
<1>1. /\ TreeInv(db) /\ RowsOK(db.rows) /\ PayloadOK(r.payload)
      /\ r.meta = db.meta /\ DOMAIN db.rows = {}
  BY DEF IInv, CallInv, reset_meta, At, TreeInv, PayloadOK, RestoreInv
<1>2. Write(c, Restoring(r, rest), Restored(r, rest, tree))
  BY DEF reset_meta
<1> HIDE DEF n
<1>3. /\ tree.rows = db.rows /\ tree.snaps = db.snaps /\ tree.taken = db.taken
      /\ tree.meta = [db.meta EXCEPT !.next_edge_seq = n] /\ DOMAIN tree = DOMAIN db
  BY <1>1 DEF TreeInv
<1> HIDE DEF tree
<1>4. Renumbered(tree.rows, saved, DOMAIN saved \ rest)
  BY <1>1, <1>3 DEF Renumbered
<1> QED
  BY <1>1, <1>2, <1>3, <1>4, RestoredKeeps DEF n

LEMMA InsertKeeps ==
    ASSUME Alone, IInv, NEW c \in Clients, insert(c)
    PROVE  IInv'
<1> DEFINE r == call[c]
           saved == r.payload.rows
           n == Cardinality(Table(saved, K_OUT))
<1>1. /\ TreeInv(db) /\ RowsOK(db.rows) /\ PayloadOK(r.payload) /\ InsertInv(r, db)
      /\ RowsOK(saved)
  BY DEF IInv, CallInv, insert, At, TreeInv, PayloadOK, RestoreInv
<1>2. PICK k \in r.rest :
         Write(c, Restoring(r, r.rest \ {k}),
               Restored(r, r.rest \ {k}, [db EXCEPT !.rows =
                   Put(@, NewKey(r.payload.rows, k), r.payload.rows[k])]))
  BY DEF insert
<1> DEFINE key == NewKey(saved, k)
           rows == Put(db.rows, key, saved[k])
           rest == r.rest \ {k}
           tree == [db EXCEPT !.rows = rows]
<1>3. Write(c, Restoring(r, rest), Restored(r, rest, tree))
  BY <1>2
<1>4. /\ tree.rows = rows /\ tree.snaps = db.snaps /\ tree.taken = db.taken
      /\ tree.meta = db.meta /\ DOMAIN tree = DOMAIN db
  BY <1>1 DEF TreeInv
<1>5. k \in DOMAIN saved /\ k \in r.rest /\ r.rest \subseteq DOMAIN saved
  BY <1>1, <1>2 DEF InsertInv
<1>6. ValueOK(key, saved[k]) /\ key \in Keys
  <2>1. ValueOK(k, saved[k])
    BY <1>1, <1>5 DEF RowsOK
  <2>2. key \in Keys /\ key[1] = k[1] /\ key[2] = k[2]
    BY <1>1, <1>5, NewKeys
  <2> QED
    BY <2>1, <2>2 DEF ValueOK
<1>7. RowsOK(rows)
  BY <1>1, <1>6, PutRow
<1>8. /\ DOMAIN rows = DOMAIN db.rows \cup {key} /\ rows[key] = saved[k]
      /\ \A j \in DOMAIN db.rows : j # key => rows[j] = db.rows[j]
  BY DEF Put
<1>9. db.meta = [db.meta EXCEPT !.next_edge_seq = n]
  BY <1>1 DEF TreeInv, InsertInv
<1>10. \A j \in DOMAIN saved : NewKey(saved, j) = key => j = k
  BY <1>1, <1>5, NewKeys
<1> HIDE DEF rows, tree
<1>11. Renumbered(rows, saved, DOMAIN saved \ rest)
  <2>1. DOMAIN saved \ rest = (DOMAIN saved \ r.rest) \cup {k}
    BY <1>5
  <2>2. Renumbered(db.rows, saved, DOMAIN saved \ r.rest)
    BY <1>1 DEF InsertInv
  <2>3. DOMAIN rows = {NewKey(saved, j) : j \in DOMAIN saved \ rest}
    BY <1>8, <2>1, <2>2 DEF Renumbered
  <2>4. ASSUME NEW j \in DOMAIN saved \ rest
        PROVE  rows[NewKey(saved, j)] = saved[j]
    <3>1. CASE j = k
      BY <1>8, <3>1
    <3>2. CASE j # k
      <4>1. j \in DOMAIN saved \ r.rest
        BY <2>1, <3>2
      <4>2. NewKey(saved, j) \in DOMAIN db.rows /\ db.rows[NewKey(saved, j)] = saved[j]
        BY <2>2, <4>1 DEF Renumbered
      <4> QED
        BY <1>8, <1>10, <3>2, <4>2
    <3> QED
      BY <3>1, <3>2
  <2> QED
    BY <2>3, <2>4 DEF Renumbered
<1> HIDE DEF rest
<1>12. rest \subseteq DOMAIN saved
  BY <1>5 DEF rest
<1> QED
  BY <1>1, <1>3, <1>4, <1>7, <1>9, <1>11, <1>12, RestoredKeeps

-----------------------------------------------------------------------------
(***************************************************************************)
(* The tree itself, and all steps together.                                *)
(***************************************************************************)

LEMMA FlushKeeps == IInv /\ flush => IInv'
BY DEF IInv, flush

\* A crash comes back to a tree that was sound, with no call in progress.
LEMMA CrashKeeps == IInv /\ crash => IInv'
<1> SUFFICES ASSUME IInv, crash PROVE IInv'
  OBVIOUS
<1>1. db' = disk /\ disk' = disk /\ call' = [c \in Clients |-> Idle]
  BY DEF crash
<1>2. DOMAIN call' = Clients /\ \A c \in Clients : call'[c] = Idle
  BY <1>1
<1>3. crashes' \in Nat
  BY DEF crash, IInv
<1> QED
  BY <1>1, <1>2, <1>3, IdleOK DEF IInv

\* A call that fails leaves the tree as it is at that step.
LEMMA FailsKeeps ==
    ASSUME Alone, IInv, NEW c \in Clients, fails(c)
    PROVE  IInv'
<1>1. Read(c, Idle)
  BY DEF fails
<1> QED
  BY <1>1, IdleOK, ReadKeeps

LEMMA NextKeeps == Alone /\ IInv /\ [Next]_vars => IInv'
<1> SUFFICES ASSUME Alone, IInv, [Next]_vars PROVE IInv'
  OBVIOUS
<1>1. CASE UNCHANGED vars
  BY <1>1 DEF vars, IInv
<1>2. CASE flush \/ crash
  BY <1>2, FlushKeeps, CrashKeeps
<1>3. ASSUME NEW c \in Clients,
             \/ \E e \in Entities, sources \in SourceSets : upsert_entity(c, e, sources)
             \/ put_docs(c) \/ put_entity(c)
      PROVE  IInv'
  BY <1>3, UpsertEntityStarts, PutDocsKeeps, PutEntityKeeps
<1>4. ASSUME NEW c \in Clients,
             \/ \E edge \in Edges : upsert_edge(c, edge)
             \/ check_dst(c) \/ read_meta(c) \/ put_edge(c) \/ put_meta(c)
      PROVE  IInv'
  BY <1>4, UpsertEdgeStarts, CheckDstKeeps, ReadMetaKeeps, PutEdgeKeeps, PutMetaKeeps
<1>5. ASSUME NEW c \in Clients, snapshot(c) \/ scan(c) \/ put_snap(c) \/ put_snap_meta(c)
      PROVE  IInv'
  BY <1>5, SnapshotStarts, ScanKeeps, PutSnapKeeps, PutSnapMetaKeeps
<1>6. ASSUME NEW c \in Clients,
             \/ \E snap \in DOMAIN db.snaps : restore(c, snap)
             \/ list_keys(c) \/ clear(c) \/ reread_meta(c) \/ reset_meta(c) \/ insert(c)
      PROVE  IInv'
  BY <1>6, RestoreStarts, ListKeysKeeps, ClearKeeps, RereadMetaKeeps, ResetMetaKeeps, InsertKeeps
<1>7. ASSUME NEW c \in Clients, fails(c) PROVE IInv'
  BY <1>7, FailsKeeps
<1> QED
  BY <1>1, <1>2, <1>3, <1>4, <1>5, <1>6, <1>7 DEF Next

LEMMA AlwaysIInv ==
    ASSUME Alone
    PROVE  Spec => []IInv
<1>1. Init => IInv
  BY InitKeeps
<1>2. IInv /\ [Next]_vars => IInv'
  BY NextKeeps
<1> QED
  BY <1>1, <1>2, PTL DEF Spec

\* One client's tree and calls hold only rows of the three tables, and every
\* id that snapshot returned has a payload and lies below the counter: also
\* after an error or a crash between the payload and the counter, which leaves
\* a payload that no one was told of and the next snapshot overwrites.
THEOREM TypeCorrect ==
    ASSUME Alone
    PROVE  Spec => []TypeOK
<1>1. ASSUME NEW rows, RowsOK(rows) PROVE RowsTyped(rows)
  BY <1>1 DEF RowsOK, ValueOK, RowsTyped
<1>2. ASSUME NEW tree, TreeInv(tree) PROVE TreeOK(tree)
  BY <1>1, <1>2 DEF TreeInv, PayloadOK, TreeOK
<1>3. ASSUME NEW r, NEW tree, TreeInv(tree), CallInv(r, tree) PROVE CallOK(r)
  <2>1. r.pc \in {"put_docs", "put_entity"} => r.sources \subseteq r.docs /\ r.docs \subseteq Docs
    BY <1>3 DEF CallInv, UpsertEntityInv
  <2>2. r.pc \in {"check_dst", "read_meta", "put_edge", "put_meta"} => r.edge \in Edges
    BY <1>3 DEF CallInv, UpsertEdgeInv
  <2>3. ASSUME r.pc \in {"scan", "put_snap"} PROVE RowsTyped(r.rows)
    <3>1. RowsTyped(tree.rows)
      BY <1>1, <1>3 DEF TreeInv, PayloadOK
    <3>2. \A k \in DOMAIN r.rows : k \in DOMAIN tree.rows /\ r.rows[k] = tree.rows[k]
      BY <1>3, <2>3 DEF CallInv, SnapshotInv, ScanInv
    <3> QED
      BY <3>1, <3>2 DEF RowsTyped
  <2>4. r.pc \in {"list_keys", "clear", "reread_meta", "reset_meta", "insert"} =>
            RowsTyped(r.payload.rows)
    BY <1>1, <1>3 DEF CallInv, RestoreInv, PayloadOK
  <2> QED
    BY <1>3, <2>1, <2>2, <2>3, <2>4 DEF CallOK, CallInv
<1>4. IInv => TypeOK
  BY <1>2, <1>3 DEF IInv, TypeOK
<1> QED
  BY <1>4, AlwaysIInv, PTL

\* An edge whose upsert returned Ok is never overwritten, although the row is
\* written before the counter and a restore starts the numbers anew.
THEOREM AckedEdgesAlwaysKept ==
    ASSUME Alone
    PROVE  Spec => []AckedEdgesKept
<1>1. IInv => AckedEdgesKept
  BY DEF IInv, TreeInv, PayloadOK, AckedIn, Table, AckedEdgesKept
<1> QED
  BY <1>1, AlwaysIInv, PTL

\* The order of the writes keeps the tree and its snapshots free of dangling
\* edges and unlisted sources at every step, wherever an error or a crash cuts
\* a call off.
THEOREM AlwaysConsistentUnlessTorn ==
    ASSUME Alone
    PROVE  Spec => []ConsistentUnlessTorn
<1>1. IInv => ConsistentUnlessTorn
  BY DEF IInv, TreeInv, PayloadOK, ConsistentUnlessTorn
<1> QED
  BY <1>1, AlwaysIInv, PTL

\* What a step does to the snapshots, if it changes the tree at all.
SnapsAlone == db'.snaps = db.snaps /\ db'.taken = db.taken

LEMMA SnapshotKeptByPutSnap ==
    ASSUME IInv, NEW c \in Clients, put_snap(c)
    PROVE  \A id \in db.taken : id \in db'.taken /\ db'.snaps[id] = db.snaps[id]
<1> DEFINE r == call[c]
           next == db.meta.next_snap
           payload == [rows |-> r.rows, acked |-> db.acked, torn |-> db.torn]
<1>1. TreeInv(db) /\ r.meta = db.meta
  BY DEF IInv, CallInv, put_snap, At, SnapshotInv
<1>2. db' = [db EXCEPT !.snaps = Put(@, next, payload)]
  BY <1>1 DEF put_snap, Write
<1>3. db'.taken = db.taken /\ db'.snaps = Put(db.snaps, next, payload)
  BY <1>1, <1>2 DEF TreeInv
<1> HIDE DEF payload
<1>4. \A id \in db.taken : id \in DOMAIN db.snaps /\ id # next
  <2>1. next \in Nat
    BY <1>1 DEF TreeInv
  <2> QED
    BY <1>1, <2>1 DEF TreeInv
<1> QED
  BY <1>3, <1>4 DEF Put

LEMMA RestoreLeavesSnaps ==
    ASSUME IInv, NEW c \in Clients, reset_meta(c) \/ insert(c)
    PROVE  SnapsAlone
<1>1. DOMAIN db = {"rows", "snaps", "meta", "acked", "taken", "torn"}
  BY DEF IInv, TreeInv
<1>2. ASSUME NEW r, NEW rest, NEW tree, DOMAIN tree = DOMAIN db
      PROVE  /\ Restored(r, rest, tree).snaps = tree.snaps
             /\ Restored(r, rest, tree).taken = tree.taken
  BY <1>1, <1>2 DEF Restored
<1>3. CASE reset_meta(c)
  <2>1. PICK n : db' = Restored(call[c], DOMAIN call[c].payload.rows, [db EXCEPT !.meta = n])
    BY <1>3 DEF reset_meta, Write
  <2> DEFINE tree == [db EXCEPT !.meta = n]
  <2>2. DOMAIN tree = DOMAIN db /\ tree.snaps = db.snaps /\ tree.taken = db.taken
    BY <1>1
  <2>3. db' = Restored(call[c], DOMAIN call[c].payload.rows, tree)
    BY <2>1
  <2> HIDE DEF tree
  <2> QED
    BY <1>2, <2>2, <2>3 DEF SnapsAlone
<1>4. CASE insert(c)
  <2>1. PICK rest, rows : db' = Restored(call[c], rest, [db EXCEPT !.rows = rows])
    BY <1>4 DEF insert, Write
  <2> DEFINE tree == [db EXCEPT !.rows = rows]
  <2>2. DOMAIN tree = DOMAIN db /\ tree.snaps = db.snaps /\ tree.taken = db.taken
    BY <1>1
  <2>3. db' = Restored(call[c], rest, tree)
    BY <2>1
  <2> HIDE DEF tree
  <2> QED
    BY <1>2, <2>2, <2>3 DEF SnapsAlone
<1> QED
  BY <1>3, <1>4

\* Without a crash, no step changes or forgets a snapshot that was returned.
LEMMA StepKeepsSnapshots ==
    ASSUME IInv, [Next]_vars, crashes' = crashes
    PROVE  \A id \in db.taken : id \in db'.taken /\ db'.snaps[id] = db.snaps[id]
<1>1. DOMAIN db = {"rows", "snaps", "meta", "acked", "taken", "torn"}
  BY DEF IInv, TreeInv
<1>2. CASE UNCHANGED db
  BY <1>2
<1>3. CASE SnapsAlone
  BY <1>3 DEF SnapsAlone
<1>4. ~crash
  BY DEF crash, IInv
<1>5. CASE flush
  BY <1>2, <1>5 DEF flush
<1>6. ASSUME NEW c \in Clients,
             \/ \E e \in Entities, sources \in SourceSets : upsert_entity(c, e, sources)
             \/ \E edge \in Edges : upsert_edge(c, edge)
             \/ snapshot(c)
             \/ \E snap \in DOMAIN db.snaps : restore(c, snap)
      PROVE  UNCHANGED db
  BY <1>6 DEF upsert_entity, Upsert, upsert_edge, snapshot, restore, Start
<1>7. ASSUME NEW c \in Clients,
             \/ check_dst(c) \/ read_meta(c) \/ scan(c) \/ list_keys(c) \/ reread_meta(c)
             \/ fails(c)
      PROVE  UNCHANGED db
  BY <1>7 DEF check_dst, read_meta, scan, list_keys, reread_meta, fails, Read
<1>8. ASSUME NEW c \in Clients, put_docs(c) \/ put_entity(c) \/ put_edge(c) \/ put_meta(c)
      PROVE  SnapsAlone
  BY <1>1, <1>8 DEF put_docs, put_entity, put_edge, put_meta, Write, SnapsAlone
<1>9. ASSUME NEW c \in Clients, clear(c)
      PROVE  SnapsAlone
  BY <1>1, <1>9 DEF clear, Write, SnapsAlone
<1>10. ASSUME NEW c \in Clients, put_snap_meta(c)
       PROVE  db'.snaps = db.snaps /\ db.taken \subseteq db'.taken
  BY <1>1, <1>10 DEF put_snap_meta, Write
<1> QED
  BY <1>2, <1>3, <1>4, <1>5, <1>6, <1>7, <1>8, <1>9, <1>10, SnapshotKeptByPutSnap, RestoreLeavesSnaps
     DEF Next, vars

\* No step but a crash changes or forgets a snapshot that was returned: no
\* later snapshot takes over its id, and no restore, complete or not, drops it.
THEOREM SnapshotsAlwaysKept ==
    ASSUME Alone
    PROVE  Spec => SnapshotsKept
<1>1. IInv /\ [Next]_vars =>
        [crashes' = crashes =>
            \A id \in db.taken : id \in db'.taken /\ db'.snaps[id] = db.snaps[id]]_vars
  BY StepKeepsSnapshots
<1> QED
  BY <1>1, AlwaysIInv, PTL DEF Spec, SnapshotsKept

-----------------------------------------------------------------------------
(***************************************************************************)
(* What a reader sees of the rows: that renumbering edges on a restore     *)
(* changes nothing of it, and that one client whose calls are not cut      *)
(* short gets from the tree what the GraphStore trait promises.            *)
(***************************************************************************)

-----------------------------------------------------------------------------
(***************************************************************************)
(* The edges of an entity, in the order of their keys.                     *)
(***************************************************************************)

EdgeKeys(rows, src) == {k \in Table(rows, K_OUT) : k[2] = src}

\* The place of a key among those of its entity, from 1.
Upto(keys, k) == {j \in keys : ~Before(k, j)}
Place(keys, k) == Cardinality(Upto(keys, k))

LEMMA EdgeKeysFinite ==
    ASSUME NEW rows, RowsOK(rows), NEW src
    PROVE  IsFiniteSet(EdgeKeys(rows, src)) /\ EdgeKeys(rows, src) \subseteq Keys
<1>1. EdgeKeys(rows, src) \in SUBSET Table(rows, K_OUT)
  BY DEF EdgeKeys
<1>2. Table(rows, K_OUT) \subseteq Keys
  BY DEF Table, RowsOK
<1> QED
  BY <1>1, <1>2, FS_Subset DEF RowsOK

\* Places run from 1 to the number of keys, each taken once.
LEMMA Places ==
    ASSUME NEW keys, keys \subseteq Keys, IsFiniteSet(keys)
    PROVE  /\ Cardinality(keys) \in Nat
           /\ \A k \in keys : Place(keys, k) \in 1..Cardinality(keys)
           /\ \A j, k \in keys : Place(keys, j) = Place(keys, k) => j = k
           /\ \A i \in 1..Cardinality(keys) : \E k \in keys : Place(keys, k) = i
<1> DEFINE n == Cardinality(keys)
<1>1. n \in Nat
  BY FS_CardinalityType
<1>2. ASSUME NEW k \in keys
      PROVE  IsFiniteSet(Upto(keys, k)) /\ Place(keys, k) \in 1..n
  <2>1. Upto(keys, k) \in SUBSET keys /\ k \in Upto(keys, k)
    BY KeysLinear DEF Upto
  <2>2. IsFiniteSet(Upto(keys, k)) /\ Place(keys, k) <= n
    BY <2>1, FS_Subset DEF Place
  <2>3. Place(keys, k) \in Nat /\ Place(keys, k) # 0
    BY <2>1, <2>2, FS_CardinalityType, FS_EmptySet DEF Place
  <2> QED
    BY <1>1, <2>2, <2>3
<1>3. ASSUME NEW j \in keys, NEW k \in keys, Before(j, k)
      PROVE  Place(keys, j) < Place(keys, k)
  <2>1. Upto(keys, j) \in SUBSET Upto(keys, k) /\ k \in Upto(keys, k) /\ k \notin Upto(keys, j)
    BY <1>3, KeysLinear DEF Upto
  <2>2. /\ Place(keys, j) <= Place(keys, k)
        /\ Place(keys, k) = Place(keys, j) => Upto(keys, k) = Upto(keys, j)
    BY <1>2, <2>1, FS_Subset DEF Place
  <2>3. Place(keys, j) \in Nat /\ Place(keys, k) \in Nat
    BY <1>1, <1>2
  <2> QED
    BY <2>1, <2>2, <2>3
<1>4. ASSUME NEW j \in keys, NEW k \in keys, Place(keys, j) = Place(keys, k)
      PROVE  j = k
  <2> SUFFICES ASSUME j # k PROVE FALSE
    OBVIOUS
  <2>1. Before(j, k) \/ Before(k, j)
    BY KeysLinear
  <2>2. Place(keys, j) \in Nat
    BY <1>1, <1>2
  <2> QED
    BY <1>3, <1>4, <2>1, <2>2
<1>5. ASSUME NEW i \in 1..n PROVE \E k \in keys : Place(keys, k) = i
  <2> DEFINE f == [k \in keys |-> Place(keys, k)]
  <2>1. f \in Injection(keys, 1..n)
    BY <1>2, <1>4 DEF Injection, IsInjective
  <2>2. IsFiniteSet(1..n) /\ Cardinality(1..n) = n
    BY <1>1, FS_Interval
  <2> HIDE DEF f
  <2>3. f \in Surjection(keys, 1..n)
    BY <2>1, <2>2, FS_Injection
  <2> QED
    BY <2>3 DEF Surjection, f
<1> QED
  BY <1>1, <1>2, <1>4, <1>5

\* What a reader gets of one row.
EdgeOf(row) == [dst |-> row.dst, provenance |-> row.provenance]

\* The edge at a key's place is the one in its row.
LEMMA OutgoingOf ==
    ASSUME NEW rows, RowsOK(rows), NEW src
    PROVE  LET keys == EdgeKeys(rows, src) IN
           /\ Outgoing(rows, src) = [i \in 1..Cardinality(keys) |-> Outgoing(rows, src)[i]]
           /\ \A k \in keys : Outgoing(rows, src)[Place(keys, k)] = EdgeOf(rows[k])
<1> DEFINE keys == EdgeKeys(rows, src)
           n == Cardinality(keys)
           key(i) == CHOOSE k \in keys : Place(keys, k) = i
           out == Outgoing(rows, src)
<1>1. out = [i \in 1..n |-> EdgeOf(rows[key(i)])]
  BY DEF Outgoing, EdgeKeys, Place, Upto, EdgeOf
<1>2. keys \subseteq Keys /\ IsFiniteSet(keys)
  BY EdgeKeysFinite
<1> HIDE DEF keys, out
<1>3. ASSUME NEW k \in keys PROVE out[Place(keys, k)] = EdgeOf(rows[k])
  <2>1. Place(keys, k) \in 1..n
    BY <1>2, Places
  <2>2. key(Place(keys, k)) \in keys /\ Place(keys, key(Place(keys, k))) = Place(keys, k)
    OBVIOUS
  <2> HIDE DEF key
  <2>3. key(Place(keys, k)) = k
    BY <1>2, <2>2, Places
  <2> QED
    BY <1>1, <2>1, <2>3
<1> HIDE DEF key
<1>4. out = [i \in 1..n |-> out[i]]
  BY <1>1
<1> QED
  BY <1>3, <1>4 DEF keys, out

\* Moving keys without changing their order moves none from its place.
LEMMA MovedKeys ==
    ASSUME NEW S, S \subseteq Keys, IsFiniteSet(S), NEW T, T \subseteq Keys,
           NEW f \in [S -> T], \A t \in T : \E k \in S : f[k] = t,
           \A j, k \in S : Before(j, k) => Before(f[j], f[k])
    PROVE  /\ Cardinality(T) = Cardinality(S)
           /\ \A k \in S : Place(T, f[k]) = Place(S, k)
<1>1. \A j, k \in S : f[j] = f[k] => j = k
  BY KeysLinear
<1>2. \A j, k \in S : Before(f[j], f[k]) <=> Before(j, k)
  BY KeysLinear
<1>3. Cardinality(T) = Cardinality(S)
  <2>1. f \in Surjection(S, T) /\ f \in Injection(S, T)
    BY <1>1 DEF Surjection, Injection, IsInjective
  <2> QED
    BY <2>1, FS_Surjection
<1>4. ASSUME NEW k \in S PROVE Place(T, f[k]) = Place(S, k)
  <2> DEFINE A == Upto(S, k)
             B == Upto(T, f[k])
             g == [j \in A |-> f[j]]
  <2>1. A \in SUBSET S
    BY DEF Upto
  <2>2. IsFiniteSet(A)
    BY <2>1, FS_Subset
  <2>3. g \in [A -> B]
    BY <1>2 DEF Upto
  <2>4. g \in Injection(A, B)
    <3>1. \A i, j \in A : g[i] = g[j] => i = j
      BY <1>1, <2>1
    <3> HIDE DEF g
    <3> QED
      BY <2>3, <3>1 DEF Injection, IsInjective
  <2>5. \A t \in B : \E j \in A : g[j] = t
    <3>1. ASSUME NEW t \in B PROVE \E j \in A : g[j] = t
      <4>1. t \in T /\ ~Before(f[k], t)
        BY DEF Upto
      <4>2. PICK j \in S : f[j] = t
        BY <4>1
      <4>3. j \in A
        BY <1>2, <4>1, <4>2 DEF Upto
      <4> QED
        BY <4>2, <4>3
    <3> QED
      BY <3>1
  <2>6. g \in Surjection(A, B)
    <3> HIDE DEF g
    <3> QED
      BY <2>3, <2>5 DEF Surjection
  <2> HIDE DEF A, B, g
  <2>7. Cardinality(B) = Cardinality(A)
    BY <2>2, <2>4, <2>6, FS_Surjection
  <2> QED
    BY <2>7 DEF A, B, Place
<1> QED
  BY <1>3, <1>4

\* A reader gets the same edges from rows whose keys were moved in order.
LEMMA OutgoingMoved ==
    ASSUME NEW rows, RowsOK(rows), NEW other, RowsOK(other), NEW src,
           NEW f \in [EdgeKeys(rows, src) -> EdgeKeys(other, src)],
           \A t \in EdgeKeys(other, src) : \E k \in EdgeKeys(rows, src) : f[k] = t,
           \A j, k \in EdgeKeys(rows, src) : Before(j, k) => Before(f[j], f[k]),
           \A k \in EdgeKeys(rows, src) : other[f[k]] = rows[k]
    PROVE  Outgoing(other, src) = Outgoing(rows, src)
<1> DEFINE S == EdgeKeys(rows, src)
           T == EdgeKeys(other, src)
           out == Outgoing(rows, src)
           got == Outgoing(other, src)
<1>1. S \subseteq Keys /\ T \subseteq Keys /\ IsFiniteSet(S)
  BY EdgeKeysFinite
<1>2. /\ out = [i \in 1..Cardinality(S) |-> out[i]]
      /\ \A k \in S : out[Place(S, k)] = EdgeOf(rows[k])
  BY OutgoingOf
<1> HIDE DEF S, T, out, got
<1>3. /\ Cardinality(T) = Cardinality(S)
      /\ \A k \in S : Place(T, f[k]) = Place(S, k)
  BY <1>1, MovedKeys DEF S, T
<1>4. /\ got = [i \in 1..Cardinality(T) |-> got[i]]
      /\ \A t \in T : got[Place(T, t)] = EdgeOf(other[t])
  BY OutgoingOf DEF T, got
<1>5. ASSUME NEW i \in 1..Cardinality(S) PROVE got[i] = out[i]
  <2>1. PICK k \in S : Place(S, k) = i
    BY <1>1, Places
  <2>2. f[k] \in T /\ Place(T, f[k]) = i /\ other[f[k]] = rows[k]
    BY <1>3, <2>1 DEF S, T
  <2>3. out[Place(S, k)] = EdgeOf(rows[k])
    BY <1>2
  <2>4. got[Place(T, f[k])] = EdgeOf(other[f[k]])
    BY <1>4, <2>2
  <2>5. got[i] = EdgeOf(other[f[k]])
    BY <2>2, <2>4, Zenon
  <2> QED
    BY <2>1, <2>2, <2>3, <2>5, Zenon
<1>6. [i \in 1..Cardinality(S) |-> got[i]] = [i \in 1..Cardinality(S) |-> out[i]]
  BY <1>5
<1>7. got = out
  BY <1>2, <1>3, <1>4, <1>6
<1> QED
  BY <1>7 DEF got, out

-----------------------------------------------------------------------------
(***************************************************************************)
(* A restore installs what was saved.                                      *)
(***************************************************************************)

\* Views of the same entities, edges and documents are equal.
LEMMA SameView ==
    ASSUME NEW rows, RowsOK(rows), NEW other, RowsOK(other),
           \A k \in Keys : k[1] # K_OUT => (k \in DOMAIN other <=> k \in DOMAIN rows),
           \A k \in DOMAIN rows : k[1] # K_OUT => other[k] = rows[k],
           \A e \in Entities : Outgoing(other, e) = Outgoing(rows, e)
    PROVE  View(other) = View(rows)
<1>1. Table(other, K_ENT) = Table(rows, K_ENT)
  BY DEF Table, RowsOK, K_ENT, K_OUT
<1>2. \A k \in Table(rows, K_ENT) : other[ent_key(k[2])] = rows[ent_key(k[2])]
  <2>1. ASSUME NEW k \in Table(rows, K_ENT)
        PROVE  other[ent_key(k[2])] = rows[ent_key(k[2])]
    <3>1. k \in DOMAIN rows /\ k \in Keys /\ k[1] = K_ENT
      BY DEF Table, RowsOK
    <3>2. k = ent_key(k[2])
      BY <3>1, KeyKinds
    <3>3. other[k] = rows[k]
      BY <3>1 DEF K_ENT, K_OUT
    <3> QED
      BY <3>2, <3>3
  <2> QED
    BY <2>1
<1>3. [e \in {k[2] : k \in Table(other, K_ENT)} |-> other[ent_key(e)]]
      = [e \in {k[2] : k \in Table(rows, K_ENT)} |-> rows[ent_key(e)]]
  BY <1>1, <1>2
<1>4. \A e \in Entities : GetOr(other, doc_key(e), {}) = GetOr(rows, doc_key(e), {})
  <2>1. \A e \in Entities : doc_key(e) \in Keys /\ doc_key(e)[1] # K_OUT
    <3>1. \A e : doc_key(e)[1] # K_OUT
      BY DEF doc_key, K_DOC, K_OUT
    <3> QED
      BY <3>1, KeyKinds
  <2> QED
    BY <2>1 DEF GetOr
<1>5. [e \in Entities |-> GetOr(other, doc_key(e), {})] = [e \in Entities |-> GetOr(rows, doc_key(e), {})]
  BY <1>4
<1>6. [e \in Entities |-> Outgoing(other, e)] = [e \in Entities |-> Outgoing(rows, e)]
  OBVIOUS
<1> QED
  BY <1>3, <1>5, <1>6, Zenon DEF View

\* Numbering edges anew changes nothing that a reader sees.
LEMMA ViewRenumbered ==
    ASSUME NEW saved, RowsOK(saved), NEW rows, RowsOK(rows), Renumbered(rows, saved, DOMAIN saved)
    PROVE  View(rows) = View(saved)
<1>1. \A k \in DOMAIN saved : /\ NewKey(saved, k) \in DOMAIN rows
                              /\ rows[NewKey(saved, k)] = saved[k]
                              /\ NewKey(saved, k)[1] = k[1] /\ NewKey(saved, k)[2] = k[2]
                              /\ k[1] # K_OUT => NewKey(saved, k) = k
  BY NewKeys DEF Renumbered
<1>2. \A j \in DOMAIN rows : \E k \in DOMAIN saved : j = NewKey(saved, k)
  BY DEF Renumbered
<1>3. \A k \in Keys : k[1] # K_OUT => (k \in DOMAIN rows <=> k \in DOMAIN saved)
  BY <1>1, <1>2
<1>4. \A k \in DOMAIN saved : k[1] # K_OUT => rows[k] = saved[k]
  BY <1>1
<1>5. ASSUME NEW e \in Entities PROVE Outgoing(rows, e) = Outgoing(saved, e)
  <2> DEFINE S == EdgeKeys(saved, e)
             T == EdgeKeys(rows, e)
             f == [k \in S |-> NewKey(saved, k)]
  <2>1. \A k \in S : k \in Table(saved, K_OUT) /\ k \in DOMAIN saved /\ k[1] = K_OUT /\ k[2] = e
    BY DEF EdgeKeys, Table
  <2>2. \A k \in S : f[k] = NewKey(saved, k) /\ NewKey(saved, k) \in T
    BY <1>1, <2>1 DEF EdgeKeys, Table
  <2>3. f \in [S -> T]
    BY <2>2
  <2>4. ASSUME NEW t \in T PROVE \E k \in S : f[k] = t
    <3>1. t \in DOMAIN rows /\ t[1] = K_OUT /\ t[2] = e
      BY DEF EdgeKeys, Table
    <3>2. PICK k \in DOMAIN saved : t = NewKey(saved, k)
      BY <1>2, <3>1
    <3>3. k \in S
      BY <1>1, <3>1, <3>2 DEF EdgeKeys, Table
    <3> QED
      BY <2>2, <3>2, <3>3
  <2>5. ASSUME NEW j \in S, NEW k \in S, Before(j, k) PROVE Before(f[j], f[k])
    <3>1. NewKey(saved, j)[3] < NewKey(saved, k)[3]
      BY <2>1, <2>5, NewKeys
    <3>2. NewKey(saved, j)[1] = NewKey(saved, k)[1] /\ NewKey(saved, j)[2] = NewKey(saved, k)[2]
      BY <1>1, <2>1
    <3>3. Before(NewKey(saved, j), NewKey(saved, k))
      BY <3>1, <3>2 DEF Before
    <3> QED
      BY <2>2, <3>3
  <2>6. \A k \in S : rows[f[k]] = saved[k]
    BY <1>1, <2>1, <2>2
  <2> HIDE DEF f
  <2> QED
    BY <2>3, <2>4, <2>5, <2>6, OutgoingMoved
<1> QED
  BY <1>3, <1>4, <1>5, SameView

\* The last step of a restore leaves the saved rows under their new keys.
LEMMA LastInsert ==
    ASSUME Alone, IInv, NEW c \in Clients, reset_meta(c) \/ insert(c), call'[c] = Idle
    PROVE  Renumbered(db'.rows, call[c].payload.rows, DOMAIN call[c].payload.rows)
<1> DEFINE r == call[c]
           saved == r.payload.rows
<1>1. DOMAIN db = {"rows", "snaps", "meta", "acked", "taken", "torn"} /\ c \in DOMAIN call
  BY DEF IInv, TreeInv
<1>2. ASSUME NEW rest, Restoring(r, rest) = Idle PROVE rest = {}
  BY <1>2 DEF Restoring, Idle
<1>3. ASSUME NEW tree, DOMAIN tree = DOMAIN db
      PROVE  Restored(r, {}, tree).rows = tree.rows
  BY <1>1, <1>3 DEF Restored
<1>4. CASE reset_meta(c)
  <2>1. PICK meta : db' = Restored(r, DOMAIN saved, [db EXCEPT !.meta = meta])
    BY <1>4 DEF reset_meta, Write
  <2>2. call'[c] = Restoring(r, DOMAIN saved)
    BY <1>1, <1>4 DEF reset_meta, Write
  <2>3. DOMAIN saved = {} /\ DOMAIN db.rows = {}
    BY <1>2, <1>4, <2>2 DEF IInv, CallInv, RestoreInv, reset_meta, At
  <2> DEFINE tree == [db EXCEPT !.meta = meta]
  <2>4. tree.rows = db.rows /\ DOMAIN tree = DOMAIN db
    BY <1>1
  <2>5. db' = Restored(r, {}, tree)
    BY <2>1, <2>3
  <2> HIDE DEF tree
  <2>6. db'.rows = db.rows
    BY <1>3, <2>4, <2>5
  <2> QED
    BY <2>3, <2>6 DEF Renumbered
<1>5. CASE insert(c)
  <2>1. PICK k \in r.rest :
           Write(c, Restoring(r, r.rest \ {k}),
                 Restored(r, r.rest \ {k}, [db EXCEPT !.rows = Put(@, NewKey(saved, k), saved[k])]))
    BY <1>5 DEF insert
  <2>2. call'[c] = Restoring(r, r.rest \ {k})
    BY <1>1, <2>1 DEF Write
  <2>3. r.rest \ {k} = {}
    BY <1>2, <2>2
  <2> DEFINE rows == Put(db.rows, NewKey(saved, k), saved[k])
             tree == [db EXCEPT !.rows = rows]
  <2>4. tree.rows = rows /\ DOMAIN tree = DOMAIN db
    BY <1>1
  <2>5. db' = Restored(r, {}, tree)
    BY <2>1, <2>3 DEF Write
  <2> HIDE DEF tree, rows
  <2>6. db'.rows = rows
    BY <1>3, <2>4, <2>5
  <2>7. /\ InsertInv(r, db) /\ RowsOK(saved)
    BY <1>5 DEF IInv, CallInv, RestoreInv, PayloadOK, insert, At
  <2>8. /\ k \in DOMAIN saved /\ DOMAIN saved \ r.rest = DOMAIN saved \ {k}
        /\ Renumbered(db.rows, saved, DOMAIN saved \ {k})
    BY <2>3, <2>7 DEF InsertInv
  <2>9. \A j \in DOMAIN saved : NewKey(saved, j) = NewKey(saved, k) => j = k
    BY <2>7, <2>8, NewKeys
  <2>10. DOMAIN rows = {NewKey(saved, j) : j \in DOMAIN saved}
    BY <2>8 DEF rows, Put, Renumbered
  <2>11. ASSUME NEW j \in DOMAIN saved PROVE rows[NewKey(saved, j)] = saved[j]
    <3>1. CASE j = k
      BY <3>1 DEF rows, Put
    <3>2. CASE j # k
      <4>1. NewKey(saved, j) \in DOMAIN db.rows /\ db.rows[NewKey(saved, j)] = saved[j]
        BY <2>8, <3>2 DEF Renumbered
      <4> QED
        BY <2>9, <3>2, <4>1 DEF rows, Put
    <3> QED
      BY <3>1, <3>2
  <2> QED
    BY <2>6, <2>10, <2>11 DEF Renumbered
<1> QED
  BY <1>4, <1>5

\* A restore that runs to its end leaves exactly the graph that was saved.
LEMMA StepInstalls ==
    ASSUME Alone, IInv, IInv', [Next]_vars, NEW c \in Clients,
           call[c].pc \in {"reset_meta", "insert"}, call'[c] = Idle, crashes' = crashes, db' # db
    PROVE  View(db'.rows) = View(call[c].payload.rows)
<1>1. \A d \in Clients : d = c
  BY DEF Alone
<1>2. call[c] # Idle
  BY DEF Idle
<1>3. reset_meta(c) \/ insert(c)
  <2>1. ~UNCHANGED vars /\ ~flush /\ ~crash /\ ~fails(c)
    BY <1>2 DEF vars, flush, crash, fails, Read, IInv
  <2> QED
    BY <1>1, <2>1 DEF Next, upsert_entity, Upsert, upsert_edge, snapshot, restore, Start,
       put_docs, put_entity, check_dst, read_meta, put_edge, put_meta, scan, put_snap,
       put_snap_meta, list_keys, clear, reread_meta, At
<1>4. Renumbered(db'.rows, call[c].payload.rows, DOMAIN call[c].payload.rows)
  BY <1>3, LastInsert
<1>5. RowsOK(db'.rows)
  BY DEF IInv, TreeInv, PayloadOK
<1>6. RowsOK(call[c].payload.rows)
  BY DEF IInv, CallInv, RestoreInv, PayloadOK
<1> QED
  BY <1>4, <1>5, <1>6, ViewRenumbered

\* A restore removes and inserts row by row and gives edges new keys, yet at
\* its end a reader sees exactly the graph that the snapshot saved, for any
\* number of edges of any entities.
THEOREM RestoreAlwaysInstalls ==
    ASSUME Alone
    PROVE  Spec => RestoreInstalls
<1>1. IInv /\ IInv' /\ [Next]_vars =>
        [\A c \in Clients :
            (/\ call[c].pc \in {"reset_meta", "insert"} /\ call'[c] = Idle
             /\ crashes' = crashes /\ db' # db)
                => View(db'.rows) = View(call[c].payload.rows)]_vars
  BY StepInstalls
<1> QED
  BY <1>1, AlwaysIInv, PTL DEF Spec, RestoreInstalls

-----------------------------------------------------------------------------
(***************************************************************************)
(* The trait.  A call takes effect when it returns: until then a reader of *)
(* Settled sees the tree of its start.  The invariant says how far the     *)
(* call in progress has moved the tree from there.                         *)
(***************************************************************************)

\* A tree between calls: snapshots are numbered without gaps, and the number
\* the next edge takes is not taken, also not by an edge that was cut off.
Quiet(tree) ==
    /\ TreeInv(tree)
    /\ DOMAIN tree.snaps = 0..(tree.meta.next_snap - 1)
    /\ \A k \in Table(tree.rows, K_OUT) : k[3] < tree.meta.next_edge_seq

\* The rows of an entity's upsert once its documents are listed.
Listed(rows, e, docs) == IF docs = {} THEN rows ELSE Put(rows, doc_key(e), docs)

\* A call that began on tree s has changed it so far to tree.
MidCall(r, s, tree) ==
    /\ r.pc \in {"put_docs", "put_entity"} =>
          /\ r.docs = GetOr(s.rows, doc_key(r.id), {}) \cup r.sources
          /\ r.pc = "put_docs" => tree = s /\ r.docs # {}
          /\ r.pc = "put_entity" => /\ tree.rows = Listed(s.rows, r.id, r.docs)
                                    /\ tree.snaps = s.snaps /\ tree.meta = s.meta
    /\ r.pc \in {"check_dst", "read_meta", "put_edge", "scan", "put_snap"} => tree = s
    /\ r.pc = "put_meta" =>
          tree = [s EXCEPT !.rows = Put(@, out_key(r.edge.src, s.meta.next_edge_seq), r.edge)]
    /\ r.pc = "put_snap_meta" =>
          LET payload == tree.snaps[s.meta.next_snap] IN
          tree = [s EXCEPT !.snaps = Put(@, s.meta.next_snap, payload)] /\ payload.rows = s.rows
    /\ r.pc \in {"list_keys", "clear", "reread_meta", "reset_meta", "insert"} =>
          /\ tree.snaps = s.snaps /\ tree.meta.next_snap = s.meta.next_snap
          /\ \E snap \in DOMAIN s.snaps : r.payload = s.snaps[snap]

RInv ==
    \A c \in Clients : IF call[c] = Idle THEN Quiet(db)
                       ELSE Quiet(call[c].since) /\ MidCall(call[c], call[c].since, db)

\* What the trait sees of a tree.
Saved(tree) == [i \in 1..tree.meta.next_snap |-> View(tree.snaps[i - 1].rows)]

\* One call, or none, leads from what is seen of s to what is seen of tree.
OneCall(s, tree) ==
    \/ View(tree.rows) = View(s.rows) /\ Saved(tree) = Saved(s)
    \/ /\ Saved(tree) = Saved(s)
       /\ \E e \in Entities, sources \in SUBSET Docs :
             View(tree.rows) = Promise!WithEntity(View(s.rows), e, sources)
    \/ /\ Saved(tree) = Saved(s)
       /\ \E src \in Entities, edge \in Promise!Edge :
             /\ Promise!HasEndpoints(View(s.rows), src, edge)
             /\ View(tree.rows) = Promise!WithEdge(View(s.rows), src, edge)
    \/ Saved(tree) = Append(Saved(s), View(s.rows)) /\ View(tree.rows) = View(s.rows)
    \/ /\ Saved(tree) = Saved(s)
       /\ \E i \in 1..Len(Saved(s)) : View(tree.rows) = Saved(s)[i]

SettledOf(r, tree) == IF r = Idle THEN tree ELSE r.since

LEMMA SettledIs ==
    ASSUME Alone, NEW c \in Clients
    PROVE  Settled = SettledOf(call[c], db) /\ Settled' = SettledOf(call'[c], db')
<1>1. \A d \in Clients : d = c
  BY DEF Alone
<1>2. Settled = SettledOf(call[c], db)
  <2>1. CASE call[c] # Idle
    <3>1. (CHOOSE d \in Clients : call[d] # Idle) = c
      BY <1>1, <2>1
    <3> QED
      BY <2>1, <3>1 DEF Settled, SettledOf
  <2>2. CASE call[c] = Idle
    BY <1>1, <2>2 DEF Settled, SettledOf
  <2> QED
    BY <2>1, <2>2
<1>3. Settled' = SettledOf(call'[c], db')
  <2>1. CASE call'[c] # Idle
    <3>1. (CHOOSE d \in Clients : call'[d] # Idle) = c
      BY <1>1, <2>1
    <3> QED
      BY <2>1, <3>1 DEF Settled, SettledOf
  <2>2. CASE call'[c] = Idle
    BY <1>1, <2>2 DEF Settled, SettledOf
  <2> QED
    BY <2>1, <2>2
<1> QED
  BY <1>2, <1>3

\* The trait allows the step if it is one call, or none.
LEMMA OneCallMapped ==
    ASSUME OneCall(Settled, Settled')
    PROVE  [Promise!Next]_Promise!storeVars
<1> DEFINE old == View(Settled.rows)
           new == View(Settled'.rows)
           had == Saved(Settled)
           has == Saved(Settled')
           G == [t \in {"t"} |-> View(Settled.rows)]
           S == [t \in {"t"} |-> [i \in 1..Settled.meta.next_snap |-> View(Settled.snaps[i - 1].rows)]]
<1>1. /\ G["t"] = old /\ S["t"] = had
      /\ G = [t \in {"t"} |-> old] /\ S = [t \in {"t"} |-> had]
      /\ G' = [t \in {"t"} |-> new] /\ S' = [t \in {"t"} |-> has]
  BY DEF Saved
<1>2. CASE new = old /\ has = had
  BY <1>1, <1>2 DEF Promise!storeVars, Saved
<1>3. ASSUME has = had, NEW e \in Entities, NEW sources \in SUBSET Docs,
             new = Promise!WithEntity(old, e, sources)
      PROVE  Promise!Next
  <2> HIDE DEF old, new, had, has
  <2>1. G' = [G EXCEPT !["t"] = Promise!WithEntity(@, e, sources)] /\ S' = S
    BY <1>1, <1>3
  <2> QED
    BY <2>1 DEF Promise!Next, Promise!upsert_entity
<1>4. ASSUME has = had, NEW src \in Entities, NEW edge \in Promise!Edge,
             Promise!HasEndpoints(old, src, edge), new = Promise!WithEdge(old, src, edge)
      PROVE  Promise!Next
  <2> HIDE DEF old, new, had, has
  <2>1. G' = [G EXCEPT !["t"] = Promise!WithEdge(@, src, edge)] /\ S' = S
    BY <1>1, <1>4
  <2>2. Promise!HasEndpoints(G["t"], src, edge)
    BY <1>1, <1>4
  <2> QED
    BY <2>1, <2>2 DEF Promise!Next, Promise!upsert_edge
<1>5. CASE has = Append(had, old) /\ new = old
  <2> HIDE DEF old, new, had, has
  <2>1. S' = [S EXCEPT !["t"] = Append(@, G["t"])] /\ G' = G
    BY <1>1, <1>5
  <2> QED
    BY <2>1 DEF Promise!Next, Promise!snapshot
<1>6. ASSUME has = had, NEW i \in 1..Len(had), new = had[i]
      PROVE  Promise!Next
  <2> HIDE DEF old, new, had, has
  <2>1. G' = [G EXCEPT !["t"] = S["t"][i]] /\ S' = S /\ i \in 1..Len(S["t"])
    BY <1>1, <1>6
  <2> QED
    BY <2>1 DEF Promise!Next, Promise!restore
<1> QED
  BY <1>2, <1>3, <1>4, <1>5, <1>6 DEF OneCall

-----------------------------------------------------------------------------
(***************************************************************************)
(* Steps before the last leave what is seen alone.                         *)
(***************************************************************************)

\* Nothing was asked for, or the call goes on.
Goes(r, tree) == IF r = Idle THEN Quiet(tree) ELSE Quiet(r.since) /\ MidCall(r, r.since, tree)

LEMMA GoesOn ==
    ASSUME Alone, RInv, NEW c \in Clients, Goes(call'[c], db'),
           OneCall(SettledOf(call[c], db), SettledOf(call'[c], db'))
    PROVE  RInv' /\ OneCall(Settled, Settled')
<1>1. \A d \in Clients : d = c
  BY DEF Alone
<1>2. RInv'
  BY <1>1 DEF RInv, Goes
<1> QED
  BY <1>2, SettledIs

LEMMA StartGoesOn ==
    ASSUME Alone, IInv, RInv, NEW c \in Clients, NEW r, Start(c, r),
           Put(r, "since", db).pc # "idle",
           MidCall(Put(r, "since", db), db, db)
    PROVE  RInv' /\ OneCall(Settled, Settled')
<1> DEFINE started == Put(r, "since", db)
<1>1. started.since = db /\ started # Idle
  BY DEF Put, Idle
<1>2. call[c] = Idle
  BY DEF Start, IInv, CallInv
<1>3. Quiet(db)
  BY <1>2 DEF RInv
<1> HIDE DEF started
<1>4. db' = db /\ call' = [call EXCEPT ![c] = started]
  BY DEF Start, started
<1>5. call'[c] = started
  BY <1>4 DEF IInv
<1>6. Goes(call'[c], db')
  BY <1>1, <1>3, <1>4, <1>5 DEF Goes, started
<1>7. SettledOf(call'[c], db') = SettledOf(call[c], db)
  BY <1>1, <1>2, <1>5 DEF SettledOf
<1> QED
  BY <1>6, <1>7, GoesOn DEF OneCall

LEMMA StepGoesOn ==
    ASSUME Alone, IInv, RInv, NEW c \in Clients, NEW r, NEW new,
           db' = new, call' = [call EXCEPT ![c] = r],
           call[c] # Idle, r.pc # "idle", r.since = call[c].since,
           MidCall(r, r.since, new)
    PROVE  RInv' /\ OneCall(Settled, Settled')
<1>1. call'[c] = r /\ r # Idle
  BY DEF IInv, Idle
<1>2. Quiet(call[c].since)
  BY DEF RInv
<1>3. Goes(call'[c], db')
  BY <1>1, <1>2 DEF Goes
<1>4. SettledOf(call'[c], db') = SettledOf(call[c], db)
  BY <1>1 DEF SettledOf
<1> QED
  BY <1>3, <1>4, GoesOn DEF OneCall

\* A call that returns must be one call of the trait.
LEMMA ReturnGoesOn ==
    ASSUME Alone, IInv, RInv, NEW c \in Clients, NEW new,
           db' = new, call' = [call EXCEPT ![c] = Idle],
           call[c] # Idle, Quiet(new), OneCall(call[c].since, new)
    PROVE  RInv' /\ OneCall(Settled, Settled')
<1>1. call'[c] = Idle
  BY DEF IInv
<1>2. Goes(call'[c], db')
  BY <1>1 DEF Goes
<1>3. SettledOf(call'[c], db') = new /\ SettledOf(call[c], db) = call[c].since
  BY <1>1 DEF SettledOf
<1> QED
  BY <1>2, <1>3, GoesOn

-----------------------------------------------------------------------------
(***************************************************************************)
(* What the trait sees of each call's rows.                                *)
(***************************************************************************)

\* Rows of other tables, or of other entities, make no difference.
LEMMA OutgoingSame ==
    ASSUME NEW rows, RowsOK(rows), NEW other, RowsOK(other), NEW src,
           \A k : k[1] = K_OUT /\ k[2] = src =>
               /\ k \in DOMAIN other <=> k \in DOMAIN rows
               /\ k \in DOMAIN rows => other[k] = rows[k]
    PROVE  Outgoing(other, src) = Outgoing(rows, src)
<1> DEFINE S == EdgeKeys(rows, src)
           f == [k \in S |-> k]
<1>1. \A k \in S : k \in DOMAIN rows /\ k[1] = K_OUT /\ k[2] = src
  BY DEF EdgeKeys, Table
<1>2. EdgeKeys(other, src) = S
  BY DEF EdgeKeys, Table
<1>3. /\ f \in [S -> EdgeKeys(other, src)]
      /\ \A t \in EdgeKeys(other, src) : \E k \in S : f[k] = t
      /\ \A j, k \in S : Before(j, k) => Before(f[j], f[k])
      /\ \A k \in S : other[f[k]] = rows[k]
  BY <1>1, <1>2
<1> HIDE DEF f
<1> QED
  BY <1>3, OutgoingMoved

\* An upsert of an entity replaces it and extends its documents.
LEMMA ViewOfUpsert ==
    ASSUME NEW rows, RowsOK(rows), NEW e \in Entities, NEW sources \in SUBSET Docs,
           NEW docs, docs = GetOr(rows, doc_key(e), {}) \cup sources,
           NEW new, RowsOK(new), new = Put(Listed(rows, e, docs), ent_key(e), sources)
    PROVE  View(new) = Promise!WithEntity(View(rows), e, sources)
<1> DEFINE mid == Listed(rows, e, docs)
<1>1. /\ DOMAIN mid \subseteq DOMAIN rows \cup {doc_key(e)} /\ DOMAIN rows \subseteq DOMAIN mid
      /\ \A k \in DOMAIN rows : k # doc_key(e) => mid[k] = rows[k]
  <2>1. CASE docs = {}
    BY <2>1 DEF Listed
  <2>2. CASE docs # {}
    BY <2>2 DEF Put, Listed
  <2> QED
    BY <2>1, <2>2
<1> HIDE DEF mid
<1>2. /\ DOMAIN new \subseteq DOMAIN rows \cup {ent_key(e), doc_key(e)} /\ DOMAIN rows \subseteq DOMAIN new
      /\ \A k \in DOMAIN rows : k # ent_key(e) /\ k # doc_key(e) => new[k] = rows[k]
  <2>1. DOMAIN new = DOMAIN mid \cup {ent_key(e)}
    BY DEF Put, mid
  <2>2. \A k \in DOMAIN mid : k # ent_key(e) => new[k] = mid[k]
    BY DEF Put, mid
  <2> QED
    BY <1>1, <2>1, <2>2
<1>3. ent_key(e) \in DOMAIN new /\ new[ent_key(e)] = sources
  BY DEF Put
<1>4. ent_key(e) # doc_key(e) /\ ent_key(e) \in Keys /\ doc_key(e) \in Keys
      /\ ent_key(e)[1] = K_ENT /\ ent_key(e)[2] = e /\ doc_key(e)[1] = K_DOC /\ doc_key(e)[2] = e
      /\ ent_key(e)[1] # K_OUT /\ doc_key(e)[1] # K_OUT /\ doc_key(e)[1] # K_ENT
  <2>1. ent_key(e) \in Keys /\ doc_key(e) \in Keys
    BY KeyKinds
  <2> QED
    BY <2>1 DEF ent_key, doc_key, K_ENT, K_DOC, K_OUT
<1>5. GetOr(new, doc_key(e), {}) = docs
  <2>1. CASE docs = {}
    BY <1>4, <2>1 DEF Put, Listed, GetOr
  <2>2. CASE docs # {}
    BY <1>4, <2>2 DEF Put, Listed, GetOr
  <2> QED
    BY <2>1, <2>2
<1> DEFINE old == View(rows)
           now == View(new)
<1>6. now.entities = Put(old.entities, e, sources)
  <2>1. {k[2] : k \in Table(new, K_ENT)} = {k[2] : k \in Table(rows, K_ENT)} \cup {e}
    BY <1>2, <1>3, <1>4 DEF Table
  <2>2. ASSUME NEW f \in {k[2] : k \in Table(rows, K_ENT)}, f # e
        PROVE  new[ent_key(f)] = rows[ent_key(f)]
    <3>1. PICK k \in Table(rows, K_ENT) : f = k[2]
      OBVIOUS
    <3>2. k \in DOMAIN rows /\ k = ent_key(f)
      BY <3>1, KeyKinds DEF Table, RowsOK
    <3>3. k # ent_key(e) /\ k # doc_key(e)
      BY <1>4, <2>2, <3>1
    <3> QED
      BY <1>2, <3>2, <3>3
  <2>3. /\ old.entities = [f \in {k[2] : k \in Table(rows, K_ENT)} |-> rows[ent_key(f)]]
        /\ now.entities = [f \in {k[2] : k \in Table(new, K_ENT)} |-> new[ent_key(f)]]
    BY DEF View
  <2> HIDE DEF old, now
  <2> DEFINE had == {k[2] : k \in Table(rows, K_ENT)}
  <2>4. /\ old.entities = [f \in had |-> rows[ent_key(f)]]
        /\ now.entities = [f \in had \cup {e} |-> new[ent_key(f)]]
    BY <2>1, <2>3
  <2>5. \A f \in had : f # e => new[ent_key(f)] = rows[ent_key(f)]
    BY <2>2
  <2> HIDE DEF had
  <2> QED
    <3>1. Put(old.entities, e, sources)
            = [f \in had \cup {e} |-> IF f = e THEN sources ELSE rows[ent_key(f)]]
      BY <2>4 DEF Put
    <3>2. \A f \in had \cup {e} : new[ent_key(f)] = IF f = e THEN sources ELSE rows[ent_key(f)]
      BY <1>3, <2>5
    <3> QED
      BY <2>4, <3>1, <3>2
<1>7. now.out_edges = old.out_edges
  <2>1. ASSUME NEW f \in Entities PROVE Outgoing(new, f) = Outgoing(rows, f)
    <3>1. ASSUME NEW k, k[1] = K_OUT
          PROVE  /\ k \in DOMAIN new <=> k \in DOMAIN rows
                 /\ k \in DOMAIN rows => new[k] = rows[k]
      <4>1. k # ent_key(e) /\ k # doc_key(e)
        BY <1>4, <3>1
      <4> QED
        BY <1>2, <4>1
    <3> QED
      BY <3>1, OutgoingSame
  <2> QED
    BY <2>1 DEF View
<1>8. now.doc_index = [old.doc_index EXCEPT ![e] = @ \cup sources]
  <2>1. ASSUME NEW f \in Entities, f # e
        PROVE  GetOr(new, doc_key(f), {}) = GetOr(rows, doc_key(f), {})
    <3>1. doc_key(f) # ent_key(e) /\ doc_key(f) # doc_key(e)
      BY <2>1 DEF doc_key, ent_key, K_ENT, K_DOC
    <3> HIDE DEF old, now
    <3> QED
      BY <1>2, <3>1 DEF GetOr
  <2>2. /\ old.doc_index = [f \in Entities |-> GetOr(rows, doc_key(f), {})]
        /\ now.doc_index = [f \in Entities |-> GetOr(new, doc_key(f), {})]
    BY DEF View
  <2> HIDE DEF old, now
  <2> QED
    BY <1>5, <2>1, <2>2
<1>9. now = [entities |-> now.entities, out_edges |-> now.out_edges, doc_index |-> now.doc_index]
      /\ DOMAIN old = {"entities", "out_edges", "doc_index"}
      /\ old = [entities |-> old.entities, out_edges |-> old.out_edges, doc_index |-> old.doc_index]
  BY DEF View
<1> HIDE DEF old, now
<1>10. now = Promise!WithEntity(old, e, sources)
  BY <1>6, <1>7, <1>8, <1>9 DEF Promise!WithEntity, Promise!Put, Put
<1> QED
  BY <1>10 DEF old, now

LEMMA AppendLast ==
    ASSUME NEW n \in Nat, NEW f, NEW x,
           NEW g, g = [i \in 1..(n + 1) |-> IF i = n + 1 THEN x ELSE f[i]]
    PROVE  g = Append([i \in 1..n |-> f[i]], x)
<1> DEFINE s == [i \in 1..n |-> f[i]]
           S == {f[i] : i \in 1..n} \cup {x}
<1>1. s \in Seq(S) /\ Len(s) = n
  OBVIOUS
<1>2. g \in Seq(S) /\ Len(g) = n + 1
  OBVIOUS
<1>3. Append(s, x) \in Seq(S) /\ Len(Append(s, x)) = n + 1
  BY <1>1
<1>4. \A i \in 1..(n + 1) : g[i] = Append(s, x)[i]
  BY <1>1
<1> QED
  BY <1>2, <1>3, <1>4

\* A key above all others of its entity comes last.
LEMMA LastKey ==
    ASSUME NEW S, S \subseteq Keys, IsFiniteSet(S), NEW key \in Keys,
           \A k \in S : Before(k, key)
    PROVE  /\ Cardinality(S \cup {key}) = Cardinality(S) + 1
           /\ \A k \in S : Place(S \cup {key}, k) = Place(S, k)
           /\ Place(S \cup {key}, key) = Cardinality(S) + 1
<1>1. key \notin S
  BY KeysLinear
<1>2. Cardinality(S \cup {key}) = Cardinality(S) + 1
  BY <1>1, FS_AddElement
<1>3. \A k \in S : Upto(S \cup {key}, k) = Upto(S, k)
  BY DEF Upto
<1>4. Upto(S \cup {key}, key) = S \cup {key}
  BY KeysLinear DEF Upto
<1> QED
  BY <1>2, <1>3, <1>4 DEF Place

\* An upsert of an edge whose number is new appends it to those of its source.
LEMMA ViewOfEdge ==
    ASSUME NEW rows, RowsOK(rows), NEW seq \in Nat,
           \A k \in Table(rows, K_OUT) : k[3] < seq,
           NEW edge \in Edges, NEW new, RowsOK(new), new = Put(rows, out_key(edge.src, seq), edge)
    PROVE  View(new) = Promise!WithEdge(View(rows), edge.src, EdgeOf(edge))
<1> DEFINE src == edge.src
           key == out_key(src, seq)
           S == EdgeKeys(rows, src)
           out == Outgoing(rows, src)
           got == Outgoing(new, src)
           n == Cardinality(S)
           old == View(rows)
           now == View(new)
<1>1. src \in Entities
  BY SledAssumption
<1>2. key \in Keys /\ key[1] = K_OUT /\ key[2] = src /\ key[3] = seq
  <2>1. key \in Keys
    BY <1>1, KeyKinds
  <2> QED
    BY <2>1 DEF out_key
<1> HIDE DEF key
<1>3. /\ DOMAIN new = DOMAIN rows \cup {key} /\ new[key] = edge
      /\ \A k \in DOMAIN rows : k # key => new[k] = rows[k]
  BY DEF Put, key
<1>4. S \subseteq Keys /\ IsFiniteSet(S) /\ n \in Nat
  BY EdgeKeysFinite, FS_CardinalityType
<1>5. EdgeKeys(new, src) = S \cup {key}
  BY <1>2, <1>3 DEF EdgeKeys, Table
<1>6. \A k \in S : Before(k, key) /\ k \in DOMAIN rows /\ k # key
  <2>1. \A k \in S : k[1] = K_OUT /\ k[2] = src /\ k[3] < seq /\ k \in DOMAIN rows
    BY DEF EdgeKeys, Table
  <2>2. \A k \in S : k[3] # seq
    <3>1. \A k \in S : k[3] \in Nat
      BY <1>4, KeyKinds
    <3> QED
      BY <2>1, <3>1
  <2> QED
    BY <1>2, <2>1, <2>2 DEF Before
<1>7. got = Append(out, EdgeOf(edge))
  <2>1. /\ out = [i \in 1..n |-> out[i]]
        /\ \A k \in S : out[Place(S, k)] = EdgeOf(rows[k])
    BY OutgoingOf
  <2>2. /\ got = [i \in 1..Cardinality(S \cup {key}) |-> got[i]]
        /\ \A k \in S \cup {key} : got[Place(S \cup {key}, k)] = EdgeOf(new[k])
    <3> DEFINE T == EdgeKeys(new, src)
    <3>1. /\ got = [i \in 1..Cardinality(T) |-> got[i]]
          /\ \A k \in T : got[Place(T, k)] = EdgeOf(new[k])
      BY ONLY RowsOK(new), OutgoingOf
    <3>2. T = S \cup {key}
      BY <1>5
    <3> HIDE DEF T, S, got
    <3> QED
      BY <3>1, <3>2
  <2> HIDE DEF S, n, out, got
  <2>3. /\ Cardinality(S \cup {key}) = n + 1
        /\ \A k \in S : Place(S \cup {key}, k) = Place(S, k)
        /\ Place(S \cup {key}, key) = n + 1
    BY <1>2, <1>4, <1>6, LastKey DEF n
  <2>4. got = [i \in 1..(n + 1) |-> got[i]]
    BY <2>2, <2>3
  <2>5. ASSUME NEW i \in 1..n PROVE got[i] = out[i]
    <3>1. PICK k \in S : Place(S, k) = i
      BY <1>4, Places DEF n
    <3>2. got[Place(S \cup {key}, k)] = EdgeOf(new[k]) /\ new[k] = rows[k]
      BY <1>3, <1>6, <2>2
    <3>3. Place(S \cup {key}, k) = i /\ out[i] = EdgeOf(rows[k])
      BY <2>1, <2>3, <3>1
    <3> QED
      BY <3>2, <3>3
  <2>6. got[n + 1] = EdgeOf(edge)
    <3>1. got[Place(S \cup {key}, key)] = EdgeOf(new[key])
      BY <2>2
    <3> QED
      BY <1>3, <2>3, <3>1
  <2>7. got = [i \in 1..(n + 1) |-> IF i = n + 1 THEN EdgeOf(edge) ELSE out[i]]
    <3>1. ASSUME NEW i \in 1..(n + 1)
          PROVE  got[i] = IF i = n + 1 THEN EdgeOf(edge) ELSE out[i]
      <4>1. n \in Nat
        BY <1>4 DEF n
      <4>2. i = n + 1 \/ i \in 1..n
        BY <4>1
      <4> QED
        BY <2>5, <2>6, <4>1, <4>2
    <3> QED
      BY <2>4, <3>1
  <2>8. n \in Nat
    BY <1>4 DEF n
  <2>9. got = Append([i \in 1..n |-> out[i]], EdgeOf(edge))
    BY <2>7, <2>8, AppendLast
  <2> QED
    BY <2>1, <2>9
<1>8. \A k : k[1] # K_OUT => (k \in DOMAIN new <=> k \in DOMAIN rows)
  BY <1>2, <1>3
<1>9. now.entities = old.entities
  <2>1. Table(new, K_ENT) = Table(rows, K_ENT)
    BY <1>8 DEF Table, K_ENT, K_OUT
  <2>2. ASSUME NEW e \in {k[2] : k \in Table(rows, K_ENT)} PROVE new[ent_key(e)] = rows[ent_key(e)]
    <3>1. PICK k \in Table(rows, K_ENT) : e = k[2]
      OBVIOUS
    <3>2. k \in DOMAIN rows /\ k = ent_key(e) /\ k[1] = K_ENT
      BY <3>1, KeyKinds DEF Table, RowsOK
    <3>3. k # key
      BY <1>2, <3>2 DEF K_ENT, K_OUT
    <3> QED
      BY <1>3, <3>2, <3>3
  <2> QED
    BY <2>1, <2>2 DEF View
<1>10. now.doc_index = old.doc_index
  <2>1. ASSUME NEW e \in Entities PROVE GetOr(new, doc_key(e), {}) = GetOr(rows, doc_key(e), {})
    <3>1. doc_key(e)[1] # K_OUT
      BY DEF doc_key, K_DOC, K_OUT
    <3>2. doc_key(e) # key
      BY <1>2, <3>1
    <3> QED
      BY <1>3, <3>2 DEF GetOr
  <2> QED
    BY <2>1 DEF View
<1>11. now.out_edges = [old.out_edges EXCEPT ![src] = Append(@, EdgeOf(edge))]
  <2>1. ASSUME NEW e \in Entities, e # src PROVE Outgoing(new, e) = Outgoing(rows, e)
    <3>1. ASSUME NEW k, k[2] = e
          PROVE  /\ k \in DOMAIN new <=> k \in DOMAIN rows
                 /\ k \in DOMAIN rows => new[k] = rows[k]
      <4>1. k # key
        BY <1>2, <2>1, <3>1
      <4> QED
        BY <1>3, <4>1
    <3> QED
      BY <3>1, OutgoingSame
  <2>2. /\ old.out_edges = [e \in Entities |-> Outgoing(rows, e)]
        /\ now.out_edges = [e \in Entities |-> Outgoing(new, e)]
    BY DEF View
  <2> HIDE DEF old, now
  <2>3. ASSUME NEW e \in Entities
        PROVE  now.out_edges[e] = IF e = src THEN Append(old.out_edges[e], EdgeOf(edge))
                                  ELSE old.out_edges[e]
    <3>1. now.out_edges[e] = Outgoing(new, e) /\ old.out_edges[e] = Outgoing(rows, e)
      BY <2>2
    <3>2. CASE e = src
      BY <1>7, <3>1, <3>2
    <3>3. CASE e # src
      BY <2>1, <3>1, <3>3
    <3> QED
      BY <3>2, <3>3
  <2>4. now.out_edges = [e \in Entities |-> now.out_edges[e]]
        /\ old.out_edges = [e \in Entities |-> old.out_edges[e]]
    BY <2>2
  <2> QED
    BY <2>3, <2>4
<1>12. /\ now = [entities |-> now.entities, out_edges |-> now.out_edges, doc_index |-> now.doc_index]
       /\ old = [entities |-> old.entities, out_edges |-> old.out_edges, doc_index |-> old.doc_index]
  BY DEF View
<1> HIDE DEF old, now
<1>13. now = Promise!WithEdge(old, src, EdgeOf(edge))
  BY <1>9, <1>10, <1>11, <1>12 DEF Promise!WithEdge
<1> QED
  BY <1>13 DEF old, now

-----------------------------------------------------------------------------
(***************************************************************************)
(* The steps, one by one.                                                  *)
(***************************************************************************)

LEMMA UpsertEntityMapped ==
    ASSUME Alone, IInv, RInv, NEW c \in Clients, NEW e \in Entities, NEW sources \in SourceSets,
           upsert_entity(c, e, sources)
    PROVE  RInv' /\ OneCall(Settled, Settled')
<1> DEFINE docs == GetOr(db.rows, doc_key(e), {}) \cup sources
           r == [pc |-> IF docs = {} THEN "put_entity" ELSE "put_docs",
                 id |-> e, sources |-> sources, docs |-> docs]
           started == Put(r, "since", db)
<1>1. Start(c, r)
  BY DEF upsert_entity, Upsert
<1>2. /\ started.pc = IF docs = {} THEN "put_entity" ELSE "put_docs"
      /\ started.id = e /\ started.sources = sources /\ started.docs = docs
  BY DEF Put
<1>3. docs = {} => db.rows = Listed(db.rows, e, docs)
  BY DEF Listed
<1> HIDE DEF started, docs
<1>4. MidCall(started, db, db)
  <2>1. started.docs = GetOr(db.rows, doc_key(started.id), {}) \cup started.sources
    BY <1>2 DEF docs
  <2> QED
    BY <1>2, <1>3, <2>1 DEF MidCall
<1>5. started.pc # "idle"
  BY <1>2
<1> QED
  BY <1>1, <1>4, <1>5, StartGoesOn DEF started, docs

LEMMA PutDocsMapped ==
    ASSUME Alone, IInv, RInv, NEW c \in Clients, put_docs(c)
    PROVE  RInv' /\ OneCall(Settled, Settled')
<1> DEFINE r == call[c]
           s == r.since
           next == [r EXCEPT !.pc = "put_entity"]
           new == [db EXCEPT !.rows = Put(@, doc_key(r.id), r.docs)]
<1>1. r.pc = "put_docs" /\ db' = new /\ call' = [call EXCEPT ![c] = next] /\ r # Idle
  BY DEF put_docs, At, Write, Idle
<1>2. MidCall(r, s, db)
  BY <1>1 DEF RInv
<1>3. db = s /\ r.docs # {} /\ r.docs = GetOr(s.rows, doc_key(r.id), {}) \cup r.sources
  BY <1>1, <1>2 DEF MidCall
<1>4. DOMAIN r = {"since", "pc", "id", "sources", "docs"}
  BY <1>1 DEF IInv, CallInv, UpsertEntityInv
<1>5. /\ next.pc = "put_entity" /\ next.since = s /\ next.id = r.id
      /\ next.sources = r.sources /\ next.docs = r.docs
  BY <1>4
<1>6. new.rows = Listed(s.rows, r.id, r.docs) /\ new.snaps = s.snaps /\ new.meta = s.meta
  BY <1>3 DEF Listed, IInv, TreeInv
<1> HIDE DEF next, new
<1>7. MidCall(next, next.since, new)
  BY <1>3, <1>5, <1>6 DEF MidCall
<1> QED
  BY <1>1, <1>5, <1>7, StepGoesOn

LEMMA PutEntityMapped ==
    ASSUME Alone, IInv, IInv', RInv, NEW c \in Clients, put_entity(c)
    PROVE  RInv' /\ OneCall(Settled, Settled')
<1> DEFINE r == call[c]
           s == r.since
           new == [db EXCEPT !.rows = Put(@, ent_key(r.id), r.sources)]
<1>1. r.pc = "put_entity" /\ db' = new /\ call' = [call EXCEPT ![c] = Idle] /\ r # Idle
  BY DEF put_entity, At, Write, Idle
<1>2. MidCall(r, s, db) /\ Quiet(s)
  BY <1>1 DEF RInv
<1>3. /\ db.rows = Listed(s.rows, r.id, r.docs) /\ db.snaps = s.snaps /\ db.meta = s.meta
      /\ r.docs = GetOr(s.rows, doc_key(r.id), {}) \cup r.sources
  BY <1>1, <1>2 DEF MidCall
<1>4. r.id \in Entities /\ r.sources \in SUBSET Docs
  BY <1>1 DEF IInv, CallInv, UpsertEntityInv
<1>5. /\ new.rows = Put(Listed(s.rows, r.id, r.docs), ent_key(r.id), r.sources)
      /\ new.snaps = s.snaps /\ new.meta = s.meta
  BY <1>3 DEF IInv, TreeInv
<1>6. TreeInv(new)
  BY <1>1 DEF IInv
<1> HIDE DEF new
<1>7. RowsOK(new.rows) /\ RowsOK(s.rows)
  BY <1>2, <1>6 DEF Quiet, TreeInv, PayloadOK
<1>8. Quiet(new)
  <2>1. \A k \in Table(new.rows, K_OUT) : k \in Table(s.rows, K_OUT)
    <3>1. ent_key(r.id)[1] # K_OUT /\ doc_key(r.id)[1] # K_OUT
      BY DEF ent_key, doc_key, K_ENT, K_DOC, K_OUT
    <3>2. DOMAIN new.rows \subseteq DOMAIN s.rows \cup {ent_key(r.id), doc_key(r.id)}
      <4>1. CASE r.docs = {}
        BY <1>5, <4>1 DEF Put, Listed
      <4>2. CASE r.docs # {}
        BY <1>5, <4>2 DEF Put, Listed
      <4> QED
        BY <4>1, <4>2
    <3> QED
      BY <3>1, <3>2 DEF Table
  <2> QED
    BY <1>2, <1>5, <1>6, <2>1 DEF Quiet
<1>9. View(new.rows) = Promise!WithEntity(View(s.rows), r.id, r.sources)
  BY <1>3, <1>4, <1>5, <1>7, ViewOfUpsert
<1>10. Saved(new) = Saved(s)
  BY <1>5 DEF Saved
<1>11. OneCall(s, new)
  BY <1>4, <1>9, <1>10 DEF OneCall
<1> QED
  BY <1>1, <1>8, <1>11, ReturnGoesOn

LEMMA UpsertEdgeMapped ==
    ASSUME Alone, IInv, RInv, NEW c \in Clients, NEW edge \in Edges, upsert_edge(c, edge)
    PROVE  RInv' /\ OneCall(Settled, Settled')
<1> DEFINE r == [pc |-> "check_dst", edge |-> edge]
           started == Put(r, "since", db)
<1>1. Start(c, r)
  BY DEF upsert_edge
<1>2. started.pc = "check_dst"
  BY DEF Put
<1> HIDE DEF started
<1>3. MidCall(started, db, db)
  BY <1>2 DEF MidCall
<1> QED
  BY <1>1, <1>2, <1>3, StartGoesOn DEF started

LEMMA CheckDstMapped ==
    ASSUME Alone, IInv, RInv, NEW c \in Clients, check_dst(c)
    PROVE  RInv' /\ OneCall(Settled, Settled')
<1> DEFINE r == call[c]
           next == [r EXCEPT !.pc = "read_meta"]
<1>1. r.pc = "check_dst" /\ db' = db /\ r # Idle
  BY DEF check_dst, At, Read, Idle
<1>2. MidCall(r, r.since, db) /\ Quiet(r.since)
  BY <1>1 DEF RInv
<1>3. db = r.since
  BY <1>1, <1>2 DEF MidCall
<1>4. CASE call' = [call EXCEPT ![c] = next]
  <2>1. "since" \in DOMAIN r /\ "pc" \in DOMAIN r
    BY <1>1 DEF IInv, CallInv, UpsertEdgeInv
  <2>2. next.pc = "read_meta" /\ next.since = r.since
    BY <2>1
  <2> HIDE DEF next
  <2>3. MidCall(next, next.since, db)
    BY <1>3, <2>2 DEF MidCall
  <2> QED
    BY <1>1, <1>4, <2>2, <2>3, StepGoesOn
<1>5. CASE call' = [call EXCEPT ![c] = Idle]
  <2>1. Quiet(db) /\ OneCall(r.since, db)
    BY <1>2, <1>3 DEF OneCall
  <2> QED
    BY <1>1, <1>5, <2>1, ReturnGoesOn
<1> QED
  BY <1>4, <1>5 DEF check_dst, Read

LEMMA ReadMetaMapped ==
    ASSUME Alone, IInv, RInv, NEW c \in Clients, read_meta(c)
    PROVE  RInv' /\ OneCall(Settled, Settled')
<1> DEFINE r == call[c]
           next == Put([r EXCEPT !.pc = "put_edge"], "meta", db.meta)
<1>1. r.pc = "read_meta" /\ db' = db /\ r # Idle /\ call' = [call EXCEPT ![c] = next]
  BY DEF read_meta, At, Read, Idle
<1>2. MidCall(r, r.since, db)
  BY <1>1 DEF RInv
<1>3. db = r.since
  BY <1>1, <1>2 DEF MidCall
<1>4. "since" \in DOMAIN r /\ "pc" \in DOMAIN r
  BY <1>1 DEF IInv, CallInv, UpsertEdgeInv
<1>5. next.pc = "put_edge" /\ next.since = r.since
  BY <1>4 DEF Put
<1> HIDE DEF next
<1>6. MidCall(next, next.since, db)
  BY <1>3, <1>5 DEF MidCall
<1> QED
  BY <1>1, <1>5, <1>6, StepGoesOn

LEMMA PutEdgeMapped ==
    ASSUME Alone, IInv, RInv, NEW c \in Clients, put_edge(c)
    PROVE  RInv' /\ OneCall(Settled, Settled')
<1> DEFINE r == call[c]
           next == [r EXCEPT !.pc = "put_meta"]
           new == [db EXCEPT !.rows = Put(@, out_key(r.edge.src, r.meta.next_edge_seq), r.edge)]
<1>1. r.pc = "put_edge" /\ db' = new /\ r # Idle /\ call' = [call EXCEPT ![c] = next]
  BY DEF put_edge, At, Write, Idle
<1>2. MidCall(r, r.since, db)
  BY <1>1 DEF RInv
<1>3. db = r.since
  BY <1>1, <1>2 DEF MidCall
<1>4. DOMAIN r = {"since", "pc", "edge", "meta"} /\ r.meta = db.meta
  BY <1>1 DEF IInv, CallInv, UpsertEdgeInv
<1>5. next.pc = "put_meta" /\ next.since = r.since /\ next.edge = r.edge
  BY <1>4
<1>6. new = [next.since EXCEPT !.rows =
                Put(@, out_key(next.edge.src, next.since.meta.next_edge_seq), next.edge)]
  BY <1>3, <1>4, <1>5
<1> HIDE DEF next, new
<1>7. MidCall(next, next.since, new)
  BY <1>5, <1>6 DEF MidCall
<1> QED
  BY <1>1, <1>5, <1>7, StepGoesOn

LEMMA PutMetaMapped ==
    ASSUME Alone, IInv, IInv', RInv, NEW c \in Clients, put_meta(c)
    PROVE  RInv' /\ OneCall(Settled, Settled')
<1> DEFINE r == call[c]
           s == r.since
           seq == s.meta.next_edge_seq
           edge == r.edge
           key == out_key(edge.src, seq)
           new == [db EXCEPT !.meta = [r.meta EXCEPT !.next_edge_seq = @ + 1],
                             !.acked = @ \cup {<<out_key(edge.src, r.meta.next_edge_seq), edge>>}]
<1>1. r.pc = "put_meta" /\ db' = new /\ call' = [call EXCEPT ![c] = Idle] /\ r # Idle
  BY DEF put_meta, At, Write, Idle
<1>2. MidCall(r, s, db) /\ Quiet(s)
  BY <1>1 DEF RInv
<1>3. db = [s EXCEPT !.rows = Put(@, key, edge)]
  BY <1>1, <1>2 DEF MidCall
<1>4. /\ db.rows = Put(s.rows, key, edge) /\ db.snaps = s.snaps /\ db.meta = s.meta
      /\ s.meta \in [next_snap: Nat, next_edge_seq: Nat] /\ seq \in Nat
  BY <1>2, <1>3 DEF Quiet, TreeInv
<1>5. /\ r.meta = s.meta /\ edge \in Edges
      /\ ent_key(edge.src) \in DOMAIN db.rows /\ ent_key(edge.dst) \in DOMAIN db.rows
  BY <1>1, <1>4 DEF IInv, CallInv, UpsertEdgeInv
<1>6. /\ new.rows = Put(s.rows, key, edge) /\ new.snaps = s.snaps
      /\ new.meta.next_snap = s.meta.next_snap /\ new.meta.next_edge_seq = seq + 1
  BY <1>4, <1>5 DEF IInv, TreeInv
<1>7. TreeInv(new)
  BY <1>1 DEF IInv
<1> HIDE DEF new
<1>8. RowsOK(new.rows) /\ RowsOK(s.rows)
  BY <1>2, <1>7 DEF Quiet, TreeInv, PayloadOK
<1>9. \A k \in Table(s.rows, K_OUT) : k[3] < seq /\ k[3] \in Nat
  BY <1>2, <1>8, KeyKinds DEF Quiet, Table, RowsOK
<1>10. Quiet(new)
  <2>1. ASSUME NEW k \in Table(new.rows, K_OUT) PROVE k[3] < seq + 1
    <3>1. k = key \/ k \in Table(s.rows, K_OUT)
      BY <1>6 DEF Put, Table
    <3>2. key[3] = seq
      BY DEF out_key
    <3> QED
      BY <1>4, <1>9, <3>1, <3>2
  <2> QED
    BY <1>2, <1>6, <1>7, <2>1 DEF Quiet
<1>11. View(new.rows) = Promise!WithEdge(View(s.rows), edge.src, EdgeOf(edge))
  <2>1. \A k \in Table(s.rows, K_OUT) : k[3] < seq
    BY <1>9
  <2> QED
    BY <1>4, <1>5, <1>6, <1>8, <2>1, ViewOfEdge
<1>12. Promise!HasEndpoints(View(s.rows), edge.src, EdgeOf(edge))
  <2>1. ASSUME NEW e, ent_key(e) \in DOMAIN db.rows PROVE e \in DOMAIN View(s.rows).entities
    <3>1. ent_key(e) # key /\ ent_key(e)[1] = K_ENT /\ ent_key(e)[2] = e
      BY DEF ent_key, out_key, K_ENT, K_OUT
    <3>2. ent_key(e) \in Table(s.rows, K_ENT)
      BY <1>4, <2>1, <3>1 DEF Put, Table
    <3> QED
      BY <3>1, <3>2 DEF View
  <2> QED
    BY <1>5, <2>1 DEF Promise!HasEndpoints, EdgeOf
<1>13. edge.src \in Entities /\ EdgeOf(edge) \in Promise!Edge
  BY <1>5, SledAssumption DEF EdgeOf, Promise!Edge
<1>14. Saved(new) = Saved(s)
  BY <1>6 DEF Saved
<1>15. OneCall(s, new)
  BY <1>11, <1>12, <1>13, <1>14 DEF OneCall
<1> QED
  BY <1>1, <1>10, <1>15, ReturnGoesOn

LEMMA SnapshotMapped ==
    ASSUME Alone, IInv, RInv, NEW c \in Clients, snapshot(c)
    PROVE  RInv' /\ OneCall(Settled, Settled')
<1> DEFINE r == [pc |-> "scan", meta |-> db.meta, table |-> K_ENT, rows |-> EmptyMap]
           started == Put(r, "since", db)
<1>1. Start(c, r)
  BY DEF snapshot
<1>2. started.pc = "scan"
  BY DEF Put
<1> HIDE DEF started
<1>3. MidCall(started, db, db)
  BY <1>2 DEF MidCall
<1> QED
  BY <1>1, <1>2, <1>3, StartGoesOn DEF started

LEMMA ScanMapped ==
    ASSUME Alone, IInv, RInv, NEW c \in Clients, scan(c)
    PROVE  RInv' /\ OneCall(Settled, Settled')
<1> DEFINE r == call[c]
<1>1. r.pc = "scan" /\ r # Idle
  BY DEF scan, At, Idle
<1>2. DOMAIN r = {"since", "pc", "meta", "table", "rows"}
  BY <1>1 DEF IInv, CallInv, SnapshotInv
<1>3. MidCall(r, r.since, db)
  BY <1>1 DEF RInv
<1>4. db = r.since
  BY <1>1, <1>3 DEF MidCall
<1>5. PICK next : /\ Read(c, next) /\ next.pc \in {"scan", "put_snap"} /\ next.since = r.since
  <2>1. CASE \E k \in Table(db.rows, r.table) : Read(c, [r EXCEPT !.rows = Put(@, k, db.rows[k])])
    BY <1>1, <1>2, <2>1
  <2>2. CASE Read(c, [r EXCEPT !.pc = "put_snap"])
    BY <1>2, <2>2
  <2>3. CASE Read(c, [r EXCEPT !.table = @ + 1])
    BY <1>1, <1>2, <2>3
  <2> QED
    BY <2>1, <2>2, <2>3 DEF scan
<1>6. MidCall(next, next.since, db)
  BY <1>4, <1>5 DEF MidCall
<1> QED
  BY <1>1, <1>5, <1>6, StepGoesOn DEF Read

LEMMA PutSnapMapped ==
    ASSUME Alone, IInv, RInv, NEW c \in Clients, put_snap(c)
    PROVE  RInv' /\ OneCall(Settled, Settled')
<1> DEFINE r == call[c]
           payload == [rows |-> r.rows, acked |-> db.acked, torn |-> db.torn]
           next == [r EXCEPT !.pc = "put_snap_meta"]
           new == [db EXCEPT !.snaps = Put(@, r.meta.next_snap, payload)]
<1>1. r.pc = "put_snap" /\ db' = new /\ r # Idle /\ call' = [call EXCEPT ![c] = next]
  BY DEF put_snap, At, Write, Idle
<1>2. MidCall(r, r.since, db)
  BY <1>1 DEF RInv
<1>3. db = r.since
  BY <1>1, <1>2 DEF MidCall
<1>4. /\ DOMAIN r = {"since", "pc", "meta", "table", "rows"}
      /\ r.meta = db.meta /\ r.rows = db.rows
  BY <1>1 DEF IInv, CallInv, SnapshotInv
<1>5. next.pc = "put_snap_meta" /\ next.since = r.since
  BY <1>4
<1>6. payload.rows = next.since.rows
  BY <1>3, <1>4, <1>5
<1> HIDE DEF next, payload
<1>7. new.snaps[next.since.meta.next_snap] = payload
  BY <1>3, <1>4, <1>5 DEF Put, IInv, TreeInv
<1>8. new = [next.since EXCEPT !.snaps = Put(@, next.since.meta.next_snap, payload)]
  BY <1>3, <1>4, <1>5
<1> HIDE DEF new
<1>9. MidCall(next, next.since, new)
  BY <1>5, <1>6, <1>7, <1>8 DEF MidCall
<1> QED
  BY <1>1, <1>5, <1>9, StepGoesOn

LEMMA PutSnapMetaMapped ==
    ASSUME Alone, IInv, IInv', RInv, NEW c \in Clients, put_snap_meta(c)
    PROVE  RInv' /\ OneCall(Settled, Settled')
<1> DEFINE r == call[c]
           s == r.since
           n == s.meta.next_snap
           payload == db.snaps[n]
           new == [db EXCEPT !.meta = [r.meta EXCEPT !.next_snap = @ + 1],
                             !.taken = @ \cup {r.meta.next_snap}]
<1>1. r.pc = "put_snap_meta" /\ db' = new /\ call' = [call EXCEPT ![c] = Idle] /\ r # Idle
  BY DEF put_snap_meta, At, Write, Idle
<1>2. MidCall(r, s, db) /\ Quiet(s)
  BY <1>1 DEF RInv
<1>3. db = [s EXCEPT !.snaps = Put(@, n, payload)] /\ payload.rows = s.rows
  BY <1>1, <1>2 DEF MidCall
<1>4. /\ db.rows = s.rows /\ db.snaps = Put(s.snaps, n, payload) /\ db.meta = s.meta
      /\ s.meta \in [next_snap: Nat, next_edge_seq: Nat] /\ n \in Nat
      /\ DOMAIN s.snaps = 0..(n - 1)
  BY <1>2, <1>3 DEF Quiet, TreeInv
<1>5. r.meta = s.meta
  BY <1>1, <1>4 DEF IInv, CallInv, SnapshotInv
<1>6. /\ new.rows = s.rows /\ new.snaps = Put(s.snaps, n, payload)
      /\ new.meta.next_snap = n + 1 /\ new.meta.next_edge_seq = s.meta.next_edge_seq
  BY <1>4, <1>5 DEF IInv, TreeInv
<1>7. TreeInv(new)
  BY <1>1 DEF IInv
<1> HIDE DEF new, payload
<1>8. DOMAIN new.snaps = 0..(new.meta.next_snap - 1)
  <2>1. DOMAIN new.snaps = 0..(n - 1) \cup {n}
    BY <1>4, <1>6 DEF Put
  <2> QED
    BY <1>4, <1>6, <2>1
<1>9. Quiet(new)
  BY <1>2, <1>6, <1>7, <1>8 DEF Quiet
<1>10. Saved(new) = Append(Saved(s), View(s.rows))
  <2> DEFINE f == [i \in 1..n |-> View(s.snaps[i - 1].rows)]
  <2>1. ASSUME NEW i \in 1..(n + 1)
        PROVE  View(new.snaps[i - 1].rows) = IF i = n + 1 THEN View(s.rows) ELSE f[i]
    <3>1. CASE i = n + 1
      <4>1. i - 1 = n
        BY <1>4, <3>1
      <4>2. new.snaps[i - 1] = payload
        BY <1>6, <4>1 DEF Put
      <4> QED
        BY <1>3, <3>1, <4>2 DEF payload
    <3>2. CASE i # n + 1
      <4>1. i \in 1..n /\ i - 1 \in 0..(n - 1) /\ i - 1 # n
        BY <1>4, <3>2
      <4>2. new.snaps[i - 1] = s.snaps[i - 1]
        BY <1>4, <1>6, <4>1 DEF Put
      <4> QED
        BY <3>2, <4>1, <4>2
    <3> QED
      BY <3>1, <3>2
  <2>2. Saved(new) = [i \in 1..(n + 1) |-> View(new.snaps[i - 1].rows)]
    BY <1>6 DEF Saved
  <2>3. Saved(s) = [i \in 1..n |-> f[i]]
    BY DEF Saved
  <2> HIDE DEF f, n
  <2>4. Saved(new) = [i \in 1..(n + 1) |-> IF i = n + 1 THEN View(s.rows) ELSE f[i]]
    BY <2>1, <2>2
  <2>5. n \in Nat
    BY <1>4 DEF n
  <2> QED
    BY <2>3, <2>4, <2>5, AppendLast
<1>11. OneCall(s, new)
  BY <1>6, <1>10 DEF OneCall
<1> QED
  BY <1>1, <1>9, <1>11, ReturnGoesOn

Restores == {"list_keys", "clear", "reread_meta", "reset_meta", "insert"}

LEMMA RestoreMapped ==
    ASSUME Alone, IInv, RInv, NEW c \in Clients, NEW snap \in DOMAIN db.snaps, restore(c, snap)
    PROVE  RInv' /\ OneCall(Settled, Settled')
<1> DEFINE r == [pc |-> "list_keys", table |-> K_ENT, payload |-> db.snaps[snap]]
           started == Put(r, "since", db)
<1>1. Start(c, r)
  BY DEF restore
<1>2. started.pc = "list_keys" /\ started.payload = db.snaps[snap]
  BY DEF Put
<1> HIDE DEF started
<1>3. MidCall(started, db, db)
  BY <1>2 DEF MidCall
<1> QED
  BY <1>1, <1>2, <1>3, StartGoesOn DEF started

\* Until the last row is in, a restore leaves the snapshots and their counter.
LEMMA RestoreGoesOn ==
    ASSUME Alone, IInv, RInv, NEW c \in Clients, NEW next, call[c].pc \in Restores,
           call' = [call EXCEPT ![c] = next], next.pc \in Restores,
           next.since = call[c].since, next.payload = call[c].payload,
           db'.snaps = db.snaps, db'.meta.next_snap = db.meta.next_snap
    PROVE  RInv' /\ OneCall(Settled, Settled')
<1> DEFINE r == call[c]
           s == r.since
<1>1. r # Idle
  BY DEF Restores, Idle
<1>2. MidCall(r, s, db)
  BY <1>1 DEF RInv
<1>3. /\ db.snaps = s.snaps /\ db.meta.next_snap = s.meta.next_snap
      /\ \E snap \in DOMAIN s.snaps : r.payload = s.snaps[snap]
  BY <1>2 DEF MidCall, Restores
<1>4. MidCall(next, s, db')
  BY <1>3 DEF MidCall, Restores
<1>5. next.pc # "idle"
  BY DEF Restores
<1> QED
  BY <1>1, <1>4, <1>5, StepGoesOn

LEMMA AfterTableGoesOn ==
    ASSUME NEW r
    PROVE  /\ AfterTable(r).pc \in Restores
           /\ AfterTable(r).since = r.since /\ AfterTable(r).payload = r.payload
BY DEF AfterTable, Restores

LEMMA ListKeysMapped ==
    ASSUME Alone, IInv, RInv, NEW c \in Clients, list_keys(c)
    PROVE  RInv' /\ OneCall(Settled, Settled')
<1> DEFINE r == call[c]
           keys == Table(db.rows, r.table)
           found == Put([r EXCEPT !.pc = "clear"], "keys", keys)
<1>1. r.pc = "list_keys" /\ r.pc \in Restores /\ db' = db
  BY DEF list_keys, At, Read, Restores
<1>2. DOMAIN r = {"since", "pc", "payload", "table"}
  BY <1>1 DEF IInv, CallInv, RestoreInv, ClearInv
<1>3. CASE call' = [call EXCEPT ![c] = AfterTable(r)]
  BY <1>1, <1>3, AfterTableGoesOn, RestoreGoesOn
<1>4. CASE call' = [call EXCEPT ![c] = found]
  <2>1. found.pc \in Restores /\ found.since = r.since /\ found.payload = r.payload
    BY <1>2 DEF Put, Restores
  <2> HIDE DEF found
  <2> QED
    BY <1>1, <1>4, <2>1, RestoreGoesOn
<1> QED
  BY <1>3, <1>4 DEF list_keys, Read

LEMMA ClearMapped ==
    ASSUME Alone, IInv, RInv, NEW c \in Clients, clear(c)
    PROVE  RInv' /\ OneCall(Settled, Settled')
<1> DEFINE r == call[c]
           fewer(k) == [r EXCEPT !.keys = @ \ {k}]
<1>1. r.pc = "clear" /\ r.pc \in Restores
  BY DEF clear, At, Restores
<1>2. DOMAIN r = {"since", "pc", "payload", "table", "keys"}
  BY <1>1 DEF IInv, CallInv, RestoreInv, ClearInv
<1>3. PICK k \in r.keys : Write(c, IF r.keys = {k} THEN AfterTable(r) ELSE fewer(k),
                                   [db EXCEPT !.rows = Drop(@, k), !.torn = TRUE])
  BY DEF clear
<1>4. db'.snaps = db.snaps /\ db'.meta.next_snap = db.meta.next_snap
  BY <1>3 DEF Write, IInv, TreeInv
<1>5. CASE call' = [call EXCEPT ![c] = AfterTable(r)]
  BY <1>1, <1>4, <1>5, AfterTableGoesOn, RestoreGoesOn
<1>6. CASE call' = [call EXCEPT ![c] = fewer(k)]
  <2>1. fewer(k).pc \in Restores /\ fewer(k).since = r.since /\ fewer(k).payload = r.payload
    BY <1>1, <1>2
  <2> HIDE DEF fewer
  <2> QED
    BY <1>1, <1>4, <1>6, <2>1, RestoreGoesOn
<1> QED
  BY <1>3, <1>5, <1>6 DEF Write

LEMMA RereadMetaMapped ==
    ASSUME Alone, IInv, RInv, NEW c \in Clients, reread_meta(c)
    PROVE  RInv' /\ OneCall(Settled, Settled')
<1> DEFINE r == call[c]
           next == Put([r EXCEPT !.pc = "reset_meta"], "meta", db.meta)
<1>1. r.pc = "reread_meta" /\ r.pc \in Restores /\ db' = db /\ call' = [call EXCEPT ![c] = next]
  BY DEF reread_meta, At, Read, Restores
<1>2. DOMAIN r = {"since", "pc", "payload"}
  BY <1>1 DEF IInv, CallInv, RestoreInv
<1>3. next.pc \in Restores /\ next.since = r.since /\ next.payload = r.payload
  BY <1>2 DEF Put, Restores
<1> HIDE DEF next
<1> QED
  BY <1>1, <1>3, RestoreGoesOn

\* Where the last two steps of a restore leave the counters.
LEMMA RestoreCounts ==
    ASSUME Alone, IInv, NEW c \in Clients, reset_meta(c) \/ insert(c)
    PROVE  /\ call[c].pc \in Restores /\ call[c].pc \in {"reset_meta", "insert"}
           /\ db'.snaps = db.snaps /\ db'.meta.next_snap = db.meta.next_snap
           /\ db'.meta.next_edge_seq = Cardinality(Table(call[c].payload.rows, K_OUT))
           /\ \E rest \in SUBSET DOMAIN call[c].payload.rows :
                 call' = [call EXCEPT ![c] = Restoring(call[c], rest)]
<1> DEFINE r == call[c]
           n == Cardinality(Table(r.payload.rows, K_OUT))
<1>1. DOMAIN db = {"rows", "snaps", "meta", "acked", "taken", "torn"}
      /\ db.meta \in [next_snap: Nat, next_edge_seq: Nat]
  BY DEF IInv, TreeInv
<1>2. ASSUME NEW rest, NEW tree, DOMAIN tree = DOMAIN db
      PROVE  Restored(r, rest, tree).snaps = tree.snaps /\ Restored(r, rest, tree).meta = tree.meta
  BY <1>1, <1>2 DEF Restored
<1>3. CASE reset_meta(c)
  <2> DEFINE rest == DOMAIN r.payload.rows
             tree == [db EXCEPT !.meta = [r.meta EXCEPT !.next_edge_seq = n]]
  <2>1. /\ r.pc = "reset_meta" /\ db' = Restored(r, rest, tree)
        /\ call' = [call EXCEPT ![c] = Restoring(r, rest)]
    BY <1>3 DEF reset_meta, At, Write
  <2>2. r.meta = db.meta
    BY <2>1 DEF IInv, CallInv, RestoreInv
  <2>3. /\ DOMAIN tree = DOMAIN db /\ tree.snaps = db.snaps
        /\ tree.meta.next_snap = db.meta.next_snap /\ tree.meta.next_edge_seq = n
    BY <1>1, <2>2
  <2> HIDE DEF tree, n
  <2>4. db'.snaps = tree.snaps /\ db'.meta = tree.meta
    BY <1>2, <2>1, <2>3
  <2> QED
    BY <2>1, <2>3, <2>4 DEF Restores, n
<1>4. CASE insert(c)
  <2>1. r.pc = "insert"
    BY <1>4 DEF insert, At
  <2>2. PICK k \in r.rest :
           Write(c, Restoring(r, r.rest \ {k}),
                 Restored(r, r.rest \ {k}, [db EXCEPT !.rows =
                     Put(@, NewKey(r.payload.rows, k), r.payload.rows[k])]))
    BY <1>4 DEF insert
  <2> DEFINE rest == r.rest \ {k}
             tree == [db EXCEPT !.rows = Put(@, NewKey(r.payload.rows, k), r.payload.rows[k])]
  <2>3. r.rest \subseteq DOMAIN r.payload.rows /\ db.meta.next_edge_seq = n
    BY <2>1 DEF IInv, CallInv, RestoreInv, InsertInv
  <2>4. DOMAIN tree = DOMAIN db /\ tree.snaps = db.snaps /\ tree.meta = db.meta
    BY <1>1
  <2>5. db' = Restored(r, rest, tree) /\ call' = [call EXCEPT ![c] = Restoring(r, rest)]
    BY <2>2 DEF Write
  <2> HIDE DEF tree, n
  <2>6. db'.snaps = tree.snaps /\ db'.meta = tree.meta
    BY <1>2, <2>4, <2>5
  <2> QED
    BY <2>1, <2>3, <2>4, <2>5, <2>6 DEF Restores, n
<1> QED
  BY <1>3, <1>4

LEMMA InsertMapped ==
    ASSUME Alone, IInv, IInv', RInv, NEW c \in Clients, reset_meta(c) \/ insert(c)
    PROVE  RInv' /\ OneCall(Settled, Settled')
<1> DEFINE r == call[c]
           s == r.since
           saved == r.payload.rows
<1>1. /\ r.pc \in Restores /\ r.pc \in {"reset_meta", "insert"}
      /\ db'.snaps = db.snaps /\ db'.meta.next_snap = db.meta.next_snap
      /\ db'.meta.next_edge_seq = Cardinality(Table(saved, K_OUT))
  BY RestoreCounts
<1>2. PICK rest \in SUBSET DOMAIN saved : call' = [call EXCEPT ![c] = Restoring(r, rest)]
  BY RestoreCounts
<1>3. CASE rest # {}
  <2>1. Restoring(r, rest) = [since |-> s, payload |-> r.payload, pc |-> "insert", rest |-> rest]
    BY <1>3 DEF Restoring
  <2>2. /\ Restoring(r, rest).pc \in Restores
        /\ Restoring(r, rest).since = s /\ Restoring(r, rest).payload = r.payload
    BY <2>1 DEF Restores
  <2> QED
    BY <1>1, <1>2, <2>2, RestoreGoesOn
<1>4. CASE rest = {}
  <2>1. call' = [call EXCEPT ![c] = Idle] /\ call'[c] = Idle /\ r # Idle
    BY <1>1, <1>2, <1>4 DEF Restoring, IInv, Idle
  <2>2. MidCall(r, s, db) /\ Quiet(s)
    BY <2>1 DEF RInv
  <2>3. db.snaps = s.snaps /\ db.meta.next_snap = s.meta.next_snap
    BY <1>1, <2>2 DEF MidCall
  <2>4. PICK snap \in DOMAIN s.snaps : r.payload = s.snaps[snap]
    BY <1>1, <2>2 DEF MidCall
  <2>5. Renumbered(db'.rows, saved, DOMAIN saved)
    BY <2>1, LastInsert
  <2>6. RowsOK(saved) /\ RowsOK(db'.rows) /\ TreeInv(db')
    BY <1>1 DEF IInv, CallInv, RestoreInv, TreeInv, PayloadOK
  <2>7. View(db'.rows) = View(saved)
    BY <2>5, <2>6, ViewRenumbered
  <2>8. \A j \in Table(db'.rows, K_OUT) : j[3] < db'.meta.next_edge_seq
    <3>1. ASSUME NEW j \in Table(db'.rows, K_OUT)
          PROVE  j[3] < Cardinality(Table(saved, K_OUT))
      <4>1. PICK k \in DOMAIN saved : j = NewKey(saved, k)
        BY <2>5 DEF Renumbered, Table
      <4>2. j[1] = K_OUT
        BY DEF Table
      <4> QED
        BY <2>6, <4>1, <4>2, NewKeys
    <3> QED
      BY <1>1, <3>1
  <2>9. Quiet(db')
    BY <1>1, <2>2, <2>3, <2>6, <2>8 DEF Quiet
  <2>10. Saved(db') = Saved(s)
    BY <1>1, <2>3 DEF Saved
  <2>11. snap + 1 \in 1..Len(Saved(s)) /\ Saved(s)[snap + 1] = View(saved)
    <3>1. s.meta.next_snap \in Nat /\ snap \in 0..(s.meta.next_snap - 1)
      BY <2>2 DEF Quiet, TreeInv
    <3>2. snap + 1 \in 1..s.meta.next_snap /\ (snap + 1) - 1 = snap
      BY <3>1
    <3> QED
      BY <2>4, <3>1, <3>2 DEF Saved
  <2>12. OneCall(s, db')
    BY <2>7, <2>10, <2>11 DEF OneCall
  <2> QED
    BY <2>1, <2>9, <2>12, ReturnGoesOn
<1> QED
  BY <1>3, <1>4

LEMMA StepMapped ==
    ASSUME Alone, MaxCrashes = 0, ~Fails, IInv, IInv', RInv, [Next]_vars
    PROVE  RInv' /\ OneCall(Settled, Settled')
<1>1. CASE UNCHANGED vars
  BY <1>1 DEF vars, RInv, Settled, OneCall
<1>2. ASSUME NEW c \in Clients,
             \/ \E e \in Entities, sources \in SourceSets : upsert_entity(c, e, sources)
             \/ put_docs(c) \/ put_entity(c)
      PROVE  RInv' /\ OneCall(Settled, Settled')
  BY <1>2, UpsertEntityMapped, PutDocsMapped, PutEntityMapped
<1>3. ASSUME NEW c \in Clients,
             \/ \E edge \in Edges : upsert_edge(c, edge)
             \/ check_dst(c) \/ read_meta(c) \/ put_edge(c) \/ put_meta(c)
      PROVE  RInv' /\ OneCall(Settled, Settled')
  BY <1>3, UpsertEdgeMapped, CheckDstMapped, ReadMetaMapped, PutEdgeMapped, PutMetaMapped
<1>4. ASSUME NEW c \in Clients, snapshot(c) \/ scan(c) \/ put_snap(c) \/ put_snap_meta(c)
      PROVE  RInv' /\ OneCall(Settled, Settled')
  BY <1>4, SnapshotMapped, ScanMapped, PutSnapMapped, PutSnapMetaMapped
<1>5. ASSUME NEW c \in Clients,
             \/ \E snap \in DOMAIN db.snaps : restore(c, snap)
             \/ list_keys(c) \/ clear(c) \/ reread_meta(c) \/ reset_meta(c) \/ insert(c)
      PROVE  RInv' /\ OneCall(Settled, Settled')
  BY <1>5, RestoreMapped, ListKeysMapped, ClearMapped, RereadMetaMapped, InsertMapped
<1>6. ~flush /\ ~crash /\ \A c \in Clients : ~fails(c)
  BY DEF flush, crash, fails, IInv
<1> QED
  BY <1>1, <1>2, <1>3, <1>4, <1>5, <1>6 DEF Next

LEMMA InitMapped ==
    ASSUME Alone, Opened = {}, Init
    PROVE  RInv /\ Promise!Init
<1>1. db = OpenedDb /\ \A c \in Clients : call[c] = Idle
  BY DEF Init
<1>2. /\ DOMAIN OpenedDb.rows = {} /\ DOMAIN OpenedDb.snaps = {}
      /\ OpenedDb.meta.next_snap = 0 /\ TreeInv(OpenedDb)
  BY OpenedOK DEF OpenedDb, EmptyMap
<1>3. Quiet(OpenedDb)
  BY <1>2 DEF Quiet, Table
<1>4. Settled = OpenedDb
  BY <1>1 DEF Settled
<1> DEFINE rows == OpenedDb.rows
<1>5. View(rows) = Promise!EmptyGraph
  <2>1. \A table : Table(rows, table) = {}
    BY <1>2 DEF Table
  <2>2. ASSUME NEW e \in Entities PROVE Outgoing(rows, e) = <<>>
    <3> DEFINE keys == EdgeKeys(rows, e)
               out == Outgoing(rows, e)
    <3>1. RowsOK(rows)
      BY <1>2 DEF TreeInv, PayloadOK
    <3>2. out = [i \in 1..Cardinality(keys) |-> out[i]]
      BY <3>1, OutgoingOf
    <3>3. keys = {}
      BY <2>1 DEF EdgeKeys
    <3>4. Cardinality(keys) = 0
      BY <3>3, FS_EmptySet
    <3> HIDE DEF rows, keys, out
    <3>5. out = <<>>
      BY <3>2, <3>4
    <3> QED
      BY <3>5 DEF out
  <2>3. \A e \in Entities : GetOr(rows, doc_key(e), {}) = {}
    BY <1>2 DEF GetOr
  <2>4. {k[2] : k \in Table(rows, K_ENT)} = {}
    BY <2>1
  <2> HIDE DEF rows
  <2>5. View(rows) = [entities |-> [e \in {} |-> rows[ent_key(e)]],
                      out_edges |-> [e \in Entities |-> <<>>],
                      doc_index |-> [e \in Entities |-> {}]]
    BY <2>2, <2>3, <2>4 DEF View
  <2>6. [e \in {} |-> rows[ent_key(e)]] = Promise!EmptyMap
    BY DEF Promise!EmptyMap
  <2> QED
    BY <2>5, <2>6 DEF Promise!EmptyGraph
<1>6. Saved(OpenedDb) = <<>>
  BY <1>2 DEF Saved
<1>7. Promise!Init
  <2>1. [t \in {"t"} |-> View(Settled.rows)] = [t \in {"t"} |-> Promise!EmptyGraph]
    BY <1>4, <1>5
  <2>2. [t \in {"t"} |-> [i \in 1..Settled.meta.next_snap |-> View(Settled.snaps[i - 1].rows)]]
          = [t \in {"t"} |-> <<>>]
    BY <1>4, <1>6 DEF Saved
  <2> QED
    BY <2>1, <2>2 DEF Promise!Init
<1>8. RInv
  BY <1>1, <1>3 DEF RInv
<1> QED
  BY <1>7, <1>8

\* To one client whose calls are not cut short, each call on a database that
\* was created empty, many steps though it takes, is one call of the trait:
\* an entity replaced, an edge appended, a snapshot taken or installed, for
\* any entities, documents, edges and number of calls.
THEOREM SledImplementsTrait ==
    ASSUME Alone, MaxCrashes = 0, ~Fails, Opened = {}
    PROVE  Spec => ImplementsGraphStore
<1>1. Init => RInv /\ Promise!Init
  BY InitMapped
<1>2. IInv /\ IInv' /\ RInv /\ [Next]_vars => RInv' /\ [Promise!Next]_Promise!storeVars
  BY StepMapped, OneCallMapped
<1>3. Spec => Promise!Spec
  BY <1>1, <1>2, AlwaysIInv, PTL DEF Spec, Promise!Spec
<1> QED
  BY <1>3 DEF ImplementsGraphStore
=============================================================================
