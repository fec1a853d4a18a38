------------------------- MODULE SageEngine_proofs -------------------------
(***************************************************************************)
(* Proofs about SageEngine, for any callers, names, entities, documents    *)
(* and bounds.  The store is a MemGraphStore, so what MemGraphStore_proofs *)
(* shows of it is used here as it stands: every step of the engine is a    *)
(* call of the store or leaves it alone.                                   *)
(***************************************************************************)
EXTENDS SageEngine, FiniteSetTheorems, SequenceTheorems, TLAPS

Mem == INSTANCE MemGraphStore_proofs WITH Tenants <- {Tenant}

-----------------------------------------------------------------------------
(***************************************************************************)
(* The inductive invariant, in parts.                                      *)
(***************************************************************************)

Pcs == {"idle", "write", "resolve", "embed", "create", "append", "link", "index", "publish"}

Task == [pc: Pcs, queue: Seq(Docs), triples: Seq(Names \X Names), ids: Seq(Entities),
         local: SUBSET Names, sources: SUBSET Docs, added: Seq(Entities),
         named: SUBSET Entities, skipped: Nat, raced: BOOLEAN]

\* Where a caller is tells what it still holds.
Placed(r) ==
    /\ r.pc = "idle" => r.named = {} /\ r.skipped = 0
    /\ r.pc # "idle" => r.queue # <<>>
    /\ r.pc \in {"resolve", "embed", "create", "append"} => r.triples # <<>> /\ Len(r.ids) <= 1
    /\ r.pc = "link" => r.triples # <<>> /\ Len(r.ids) = 2
    /\ r.pc \in {"idle", "write", "index", "publish"} => r.ids = <<>>
    /\ r.pc \in {"idle", "write"} => r.added = <<>>
    /\ r.pc = "publish" => r.added # <<>>

\* Every entity a caller has resolved is one its action names.
Tracked(r) ==
    /\ \A i \in 1..Len(r.ids) : r.ids[i] \in r.named
    /\ \A i \in 1..Len(r.added) : r.added[i] \in r.named
    /\ \A n \in r.local : IdOf[n] \in r.named

\* The entity is stored and its document list has the document.
Sourced(e, d) == e \in DOMAIN stored /\ tenants[Tenant].doc_index[e][d] > 0

\* Unless a restore came in between, what a caller has named so far is stored
\* and lists its document, and no triple was skipped.
Kept(r) ==
    ~r.raced => /\ r.skipped = 0
                /\ \A e \in r.named : Sourced(e, Head(r.queue))

Fits(r) == Placed(r) /\ Tracked(r) /\ Kept(r)

StoreFits == Mem!TypeOK /\ Mem!VersionsGood

CallersFit == task \in [Callers -> Task] /\ \A c \in Callers : Fits(task[c])

LandedFits ==
    /\ landed \subseteq Docs \X Entities
    /\ \A l \in landed : Sourced(l[2], l[1])

IndexFits == id_map \in [Entities -> Nat] /\ inner \in [Entities -> Nat]

IInv == StoreFits /\ CallersFit /\ LandedFits /\ IndexFits

\* Callers that have taken an internal id for e and not yet published it.
Publishing(e) == {c \in Callers : task[c].pc = "publish" /\ Head(task[c].added) = e}

\* Each of them owes the HNSW graph one node.
HitsCounted == \A e \in Entities : inner[e] + Cardinality(Publishing(e)) <= id_map[e]

\* Entities of the graph or of a snapshot that may become it.
EverStored ==
    DOMAIN stored \cup
    UNION {DOMAIN tenants[Tenant].snapshots[i].entities : i \in DOMAIN tenants[Tenant].snapshots}

\* The caller still has to index e.
Owes(r, e) == \E i \in 1..Len(r.added) : r.added[i] = e

\* The entity a caller appends to was stored when it was looked up.
Known(r) == r.pc = "append" => IdOf[Head(r.triples)[Len(r.ids) + 1]] \in EverStored

\* While nothing failed and no restore ran into an ingest, every entity can be
\* found or is owed by a caller.
FindableUnlessFailed ==
    /\ failures \in Nat
    /\ ~overlap => \A c \in Callers : ~task[c].raced /\ Known(task[c])
    /\ failures = 0 /\ ~overlap =>
          \A e \in EverStored : inner[e] > 0 \/ \E c \in Callers : Owes(task[c], e)

\* The caller is about to create e, or has created it and not yet taken an
\* internal id for it.
Creating(r, e) == /\ r.pc \in {"embed", "create"}
                  /\ IdOf[Head(r.triples)[Len(r.ids) + 1]] = e

Pending(r, e) == \E i \in 1..Len(r.added) :
                    r.added[i] = e /\ (r.pc = "publish" => i # 1)

Charged(r, e) == Creating(r, e) \/ Pending(r, e)

InCharge(e) == {c \in Callers : Charged(task[c], e)}

\* A caller takes no entity twice.
NoTwice(r) ==
    /\ \A i, j \in 1..Len(r.added) : r.added[i] = r.added[j] => i = j
    /\ \A i \in 1..Len(r.added) : ~Creating(r, r.added[i])

\* Without restores the internal ids of an entity and the callers that may
\* still take one are at most as many as the callers.
ChargesBounded ==
    /\ restores \in Nat
    /\ restores = 0 =>
          /\ \A c \in Callers : ~task[c].raced /\ NoTwice(task[c])
          /\ \A e \in Entities : e \notin DOMAIN stored => id_map[e] = 0
          /\ \A e \in Entities : id_map[e] + Cardinality(InCharge(e)) <= Cardinality(Callers)

-----------------------------------------------------------------------------
(***************************************************************************)
(* The store.                                                              *)
(***************************************************************************)

\* The definitions of the store, which Store and Mem both instantiate.
Calls == Mem!Next \/ UNCHANGED tenants

LEMMA Bounds == Mem!BoundsAssumption
BY EngineAssumption DEF Mem!BoundsAssumption

\* A call of the store by the engine is one that MemGraphStore makes.
LEMMA UpsertEntityIsCall ==
    ASSUME NEW e \in Entities, NEW sources \in SUBSET Docs,
           Store!upsert_entity(Tenant, e, sources)
    PROVE  Mem!upsert_entity(Tenant, e, sources) /\ Calls
<1>1. Mem!upsert_entity(Tenant, e, sources)
  BY DEF Store!upsert_entity, Mem!upsert_entity, Store!Listed, Mem!Listed, Store!Put, Mem!Put
<1> QED
  BY <1>1 DEF Calls, Mem!Next

LEMMA UpsertEdgeIsCall ==
    ASSUME NEW src \in Entities, NEW edge \in [dst: Entities, provenance: Docs],
           Store!upsert_edge(Tenant, src, edge)
    PROVE  Mem!upsert_edge(Tenant, src, edge) /\ Calls
<1>1. Mem!upsert_edge(Tenant, src, edge)
  BY DEF Store!upsert_edge, Mem!upsert_edge
<1> QED
  BY <1>1 DEF Calls, Mem!Next, Mem!Edge

LEMMA SnapshotIsCall ==
    ASSUME Store!snapshot(Tenant)
    PROVE  Mem!snapshot(Tenant) /\ Calls
<1>1. Mem!snapshot(Tenant)
  BY DEF Store!snapshot, Mem!snapshot, Store!PayloadOf, Mem!PayloadOf, Store!Put, Mem!Put
<1> QED
  BY <1>1 DEF Calls, Mem!Next

LEMMA RestoreIsCall ==
    ASSUME NEW snap \in DOMAIN tenants[Tenant].snapshots, Store!restore(Tenant, snap)
    PROVE  Mem!restore(Tenant, snap) /\ Calls
<1>1. Mem!restore(Tenant, snap)
  BY DEF Store!restore, Mem!restore
<1> QED
  BY <1>1 DEF Calls, Mem!Next

\* Calls keep the store as MemGraphStore_proofs shows.
LEMMA CallsKeepStore == ASSUME StoreFits, Calls PROVE StoreFits'
<1>1. [Mem!Next]_tenants
  BY DEF Calls
<1> QED
  BY <1>1, Bounds, Mem!NextTypeOK, Mem!NextGood DEF StoreFits

\* What the data of the tenant are made of.
LEMMA DataShape ==
    ASSUME StoreFits
    PROVE  /\ DOMAIN tenants = {Tenant}
           /\ tenants[Tenant].next_snap \in Nat
           /\ tenants[Tenant] \in Mem!TenantData(tenants[Tenant].next_snap)
           /\ DOMAIN stored \subseteq Entities
           /\ \A e \in DOMAIN stored : stored[e] \subseteq Docs
           /\ \A e \in Entities, d \in Docs : tenants[Tenant].doc_index[e][d] \in Nat
<1>1. /\ DOMAIN tenants = {Tenant}
      /\ tenants[Tenant].next_snap \in Nat
      /\ tenants[Tenant] \in Mem!TenantData(tenants[Tenant].next_snap)
  BY DEF StoreFits, Mem!TypeOK
<1>2. stored \in Mem!MapsOf(Entities, SUBSET Docs)
  BY <1>1 DEF Mem!TenantData, stored
<1>3. tenants[Tenant].doc_index \in [Entities -> [Docs -> Nat]]
  BY <1>1 DEF Mem!TenantData
<1> QED
  BY <1>1, <1>2, <1>3 DEF Mem!MapsOf

\* The document list of a stored entity has its sources.
LEMMA SourcesSourced ==
    ASSUME StoreFits, NEW e \in DOMAIN stored, NEW d \in stored[e]
    PROVE  Sourced(e, d)
<1>1. Mem!Good(Mem!PayloadOf(tenants[Tenant]))
  BY DEF StoreFits, Mem!VersionsGood, Mem!Versions
<1> QED
  BY <1>1 DEF Mem!Good, Mem!IndexCovers, Mem!PayloadOf, Sourced, stored

\* Whatever is sourced stays so.
Grows == \A e \in Entities, d \in Docs : Sourced(e, d) => Sourced(e, d)'

LEMMA UnchangedGrows == UNCHANGED tenants => Grows
BY DEF Grows, Sourced, stored

LEMMA UpsertEntityGrows ==
    ASSUME StoreFits, NEW e \in Entities, NEW sources \in SUBSET Docs,
           Mem!upsert_entity(Tenant, e, sources)
    PROVE  Grows /\ \A d \in sources : Sourced(e, d)'
<1> DEFINE data == tenants[Tenant]
<1>1. tenants'[Tenant] = [data EXCEPT !.doc_index[e] = Mem!Listed(@, sources),
                                      !.entities = Mem!Put(@, e, sources)]
  BY DataShape DEF Mem!upsert_entity
<1>2. /\ tenants'[Tenant].entities = Mem!Put(data.entities, e, sources)
      /\ tenants'[Tenant].doc_index = [data.doc_index EXCEPT ![e] = Mem!Listed(@, sources)]
  BY <1>1, DataShape DEF Mem!TenantData
<1>3. DOMAIN stored' = DOMAIN stored \cup {e}
  BY <1>2 DEF stored, Mem!Put
<1>4. data.doc_index \in [Entities -> [Docs -> Nat]]
  BY DataShape DEF Mem!TenantData
<1>5. \A f \in Entities, d \in Docs :
         tenants'[Tenant].doc_index[f][d]
             = IF f = e /\ d \in sources THEN data.doc_index[f][d] + 1 ELSE data.doc_index[f][d]
  BY <1>2, <1>4 DEF Mem!Listed
<1> QED
  BY <1>3, <1>4, <1>5, DataShape DEF Grows, Sourced

LEMMA UpsertEdgeGrows ==
    ASSUME StoreFits, NEW src, NEW edge, Mem!upsert_edge(Tenant, src, edge)
    PROVE  Grows
<1>1. /\ tenants'[Tenant].entities = tenants[Tenant].entities
      /\ tenants'[Tenant].doc_index = tenants[Tenant].doc_index
  BY DataShape DEF Mem!upsert_edge, Mem!TenantData
<1> QED
  BY <1>1 DEF Grows, Sourced, stored

LEMMA SnapshotGrows ==
    ASSUME StoreFits, Mem!snapshot(Tenant)
    PROVE  Grows
<1>1. /\ tenants'[Tenant].entities = tenants[Tenant].entities
      /\ tenants'[Tenant].doc_index = tenants[Tenant].doc_index
  BY DataShape DEF Mem!snapshot, Mem!TenantData
<1> QED
  BY <1>1 DEF Grows, Sourced, stored
-----------------------------------------------------------------------------
(***************************************************************************)
(* One caller moves on.                                                    *)
(***************************************************************************)

LEMMA TailType ==
    ASSUME NEW S, NEW s \in Seq(S), s # <<>>
    PROVE  Tail(s) \in Seq(S) /\ (Len(s) # 1 => Tail(s) # <<>>)
<1>1. Tail(s) \in Seq(S) /\ Len(Tail(s)) = Len(s) - 1 /\ Len(s) \in Nat
  OBVIOUS
<1>2. Len(s) # 1 => Len(Tail(s)) # 0
  BY <1>1
<1>3. Len(<<>>) = 0
  OBVIOUS
<1> QED
  BY ONLY <1>1, <1>2, <1>3, Zenon

LEMMA IdleFits == Idle \in Task /\ Fits(Idle)
BY DEF Idle, Task, Pcs, Fits, Placed, Tracked, Kept

\* What a caller keeps, it keeps while the store grows.
LEMMA KeptStays ==
    ASSUME Grows, NEW r \in Task, Placed(r), Kept(r)
    PROVE  Kept(r)'
<1>1. CASE r.pc = "idle"
  BY <1>1 DEF Placed, Kept
<1>2. CASE r.pc # "idle"
  <2>1. Head(r.queue) \in Docs /\ r.named \subseteq Entities
    BY <1>2 DEF Placed, Task
  <2> QED
    BY <2>1 DEF Grows, Kept
<1> QED
  BY <1>1, <1>2

\* The others are as they were: it suffices to look at the one that moved.
LEMMA MoveKeeps ==
    ASSUME CallersFit, Grows, NEW c \in Callers, NEW r \in Task, Goto(c, r),
           Placed(r), Tracked(r), Kept(r)'
    PROVE  CallersFit'
<1>1. task' = [task EXCEPT ![c] = r] /\ task' \in [Callers -> Task]
  BY DEF CallersFit, Goto
<1>2. ASSUME NEW k \in Callers PROVE Fits(task[k])'
  <2>1. CASE k = c
    <3>1. task'[k] = r
      BY <1>1, <2>1 DEF CallersFit
    <3> QED
      BY <3>1 DEF Fits, Placed, Tracked, Kept, Sourced, stored
  <2>2. CASE k # c
    <3>1. task'[k] = task[k] /\ task[k] \in Task /\ Fits(task[k])
      BY <1>1, <2>2 DEF CallersFit
    <3>2. PICK q \in Task : q = task[k]
      BY <3>1
    <3>3. Placed(q) /\ Tracked(q) /\ Kept(q)
      BY <3>1, <3>2 DEF Fits
    <3>4. Kept(q)'
      BY <3>3, KeptStays
    <3> QED
      BY <3>1, <3>2, <3>3, <3>4 DEF Fits, Placed, Tracked, Kept, Sourced, stored
  <2> QED
    BY <2>1, <2>2
<1> QED
  BY <1>1, <1>2 DEF CallersFit

\* A step that moves no caller only has to keep what is sourced.
LEMMA StandKeeps ==
    ASSUME CallersFit, Grows, UNCHANGED task
    PROVE  CallersFit'
<1>1. ASSUME NEW k \in Callers PROVE Fits(task[k])'
  <2>1. PICK q \in Task : q = task[k]
    BY DEF CallersFit
  <2>2. Placed(q) /\ Tracked(q) /\ Kept(q)
    BY <2>1 DEF CallersFit, Fits
  <2>3. Kept(q)'
    BY <2>2, KeptStays
  <2> QED
    BY <2>1, <2>2, <2>3 DEF Fits, Placed, Tracked, Kept, Sourced, stored
<1> QED
  BY <1>1 DEF CallersFit

LEMMA LandedKeeps ==
    ASSUME LandedFits, Grows, UNCHANGED landed
    PROVE  LandedFits'
BY DEF LandedFits, Grows, Sourced, stored

\* A call under way has a document.
LEMMA DocType ==
    ASSUME CallersFit, NEW c \in Callers, task[c].pc # "idle"
    PROVE  Doc(c) \in Docs
<1>1. task[c] \in Task /\ Placed(task[c])
  BY DEF CallersFit, Fits
<1> QED
  BY <1>1 DEF Placed, Task, Doc

\* A caller that resolves a name has one.
LEMMA NameType ==
    ASSUME CallersFit, NEW c \in Callers,
           task[c].pc \in {"resolve", "embed", "create", "append"}
    PROVE  /\ Name(c) \in Names /\ IdOf[Name(c)] \in Entities
           /\ (Len(task[c].ids) = 0 \/ Len(task[c].ids) = 1)
<1>1. task[c] \in Task /\ Placed(task[c])
  BY DEF CallersFit, Fits
<1>2. task[c].triples \in Seq(Names \X Names) /\ task[c].triples # <<>>
      /\ task[c].ids \in Seq(Entities) /\ Len(task[c].ids) <= 1
  BY <1>1 DEF Placed, Task
<1>3. Len(task[c].ids) = 0 \/ Len(task[c].ids) = 1
  <2>1. Len(task[c].ids) \in Nat /\ Len(task[c].ids) <= 1
    BY <1>2, LenProperties
  <2>2. \A n \in Nat : n <= 1 => n = 0 \/ n = 1
    OBVIOUS
  <2> QED
    BY <2>1, <2>2
<1>4. Head(task[c].triples) \in Names \X Names
  BY <1>2
<1>5. Head(task[c].triples)[1] \in Names /\ Head(task[c].triples)[2] \in Names
  BY <1>4
<1>6. Name(c) \in Names
  <2>1. Len(task[c].ids) + 1 = 1 \/ Len(task[c].ids) + 1 = 2
    BY <1>2, <1>3
  <2>2. CASE Len(task[c].ids) + 1 = 1
    BY <1>5, <2>2 DEF Name
  <2>3. CASE Len(task[c].ids) + 1 = 2
    BY <1>5, <2>3 DEF Name
  <2> QED
    BY <2>1, <2>2, <2>3
<1> QED
  BY <1>3, <1>6, EngineAssumption

\* Resolving a name leaves the call well formed.
LEMMA ResolvedFits ==
    ASSUME CallersFit, NEW c \in Callers, NEW r, r = Resolved(task[c], IdOf[Name(c)]),
           task[c].pc \in {"resolve", "embed", "create", "append"}
    PROVE  /\ r \in Task /\ Placed(r) /\ Tracked(r) /\ r.pc \in {"resolve", "link"}
           /\ r.named = task[c].named \cup {IdOf[Name(c)]}
           /\ r.queue = task[c].queue /\ r.added = task[c].added
           /\ r.skipped = task[c].skipped /\ r.raced = task[c].raced
           /\ r.triples = task[c].triples
<1> DEFINE id == IdOf[Name(c)]
<1>1. task[c] \in Task /\ Placed(task[c]) /\ Tracked(task[c])
  BY DEF CallersFit, Fits
<1>2. Name(c) \in Names /\ id \in Entities /\ (Len(task[c].ids) = 0 \/ Len(task[c].ids) = 1)
  BY NameType
<1>3. /\ r.pc = IF task[c].ids = <<>> THEN "resolve" ELSE "link"
      /\ r.ids = Append(task[c].ids, id)
      /\ r.local = task[c].local \cup {Name(c)}
      /\ r.named = task[c].named \cup {id}
      /\ r.sources = {}
      /\ r.queue = task[c].queue /\ r.triples = task[c].triples /\ r.added = task[c].added
      /\ r.skipped = task[c].skipped /\ r.raced = task[c].raced
  BY <1>1 DEF Resolved, Task, Name
<1>4. Append(task[c].ids, id) \in Seq(Entities) /\ r.pc \in {"resolve", "link"}
  BY <1>1, <1>2, <1>3 DEF Task
<1>5. r \in Task
  BY <1>1, <1>2, <1>4 DEF Task, Pcs, Resolved, Name
<1>6. Placed(r)
  <2>1. /\ task[c].ids \in Seq(Entities) /\ r.queue # <<>> /\ r.triples # <<>>
        /\ Len(r.ids) = Len(task[c].ids) + 1
    BY <1>1, <1>2, <1>3 DEF Placed, Task
  <2>2. task[c].ids = <<>> <=> Len(task[c].ids) = 0
    BY <2>1
  <2> QED
    BY <1>2, <1>3, <2>1, <2>2 DEF Placed
<1>7. Tracked(r)
  <2>1. ASSUME NEW i \in 1..Len(r.ids) PROVE r.ids[i] \in r.named
    <3>1. task[c].ids \in Seq(Entities) /\ Len(r.ids) = Len(task[c].ids) + 1
      BY <1>1, <1>3 DEF Task
    <3>2. CASE i = Len(task[c].ids) + 1
      BY <1>3, <3>1, <3>2
    <3>3. CASE i # Len(task[c].ids) + 1
      BY <1>1, <1>3, <3>1, <3>3 DEF Tracked
    <3> QED
      BY <3>2, <3>3
  <2> QED
    BY <1>1, <1>3, <2>1 DEF Tracked
<1> QED
  BY <1>3, <1>4, <1>5, <1>6, <1>7
-----------------------------------------------------------------------------
(***************************************************************************)
(* The actions.                                                            *)
(***************************************************************************)

\* A step of one caller that may call the store.
LEMMA StepKeeps ==
    ASSUME IInv, Calls, Grows, NEW c \in Callers, NEW r \in Task, Goto(c, r),
           Placed(r), Tracked(r), Kept(r)', UNCHANGED landed, IndexFits'
    PROVE  IInv'
<1>1. StoreFits'
  BY CallsKeepStore DEF IInv
<1>2. CallersFit'
  BY MoveKeeps DEF IInv
<1>3. LandedFits'
  BY LandedKeeps DEF IInv
<1> QED
  BY <1>1, <1>2, <1>3 DEF IInv

\* A step of one caller that leaves the store alone.
LEMMA LocalStepKeeps ==
    ASSUME IInv, UNCHANGED tenants, NEW c \in Callers, NEW r \in Task, Goto(c, r),
           Placed(r), Tracked(r), Kept(r), UNCHANGED landed, IndexFits'
    PROVE  IInv'
<1>1. Calls /\ Grows
  BY UnchangedGrows DEF Calls
<1>2. Kept(r)'
  BY <1>1, KeptStays
<1> QED
  BY <1>1, <1>2, StepKeeps

LEMMA IngestKeeps ==
    ASSUME IInv, NEW c \in Callers, NEW docs \in Batches, ingest(c, docs)
    PROVE  IInv'
<1> DEFINE r == [Idle EXCEPT !.pc = "write", !.queue = docs]
<1>1. docs \in Seq(Docs) /\ docs # <<>>
  BY EngineAssumption DEF ingest
<1>2. Idle \in Task /\ Tracked(Idle) /\ Idle.named = {} /\ Idle.skipped = 0
      /\ Idle.ids = <<>> /\ Idle.added = <<>>
  BY IdleFits DEF Fits, Idle
<1>5. r \in Task /\ Placed(r) /\ Tracked(r) /\ Kept(r)
  BY <1>1, <1>2 DEF Task, Pcs, Placed, Tracked, Kept
<1>3. Goto(c, r) /\ UNCHANGED <<tenants, landed, id_map, inner>>
  BY DEF ingest, indexVars, historyVars
<1>4. IndexFits'
  BY <1>3 DEF IInv, IndexFits
<1> QED
  BY <1>5, <1>3, <1>4, LocalStepKeeps

LEMMA AbortKeeps ==
    ASSUME IInv, NEW c \in Callers, Abort(c)
    PROVE  IInv'
<1>1. Goto(c, Idle) /\ UNCHANGED <<tenants, landed, id_map, inner>>
  BY DEF Abort, indexVars, historyVars
<1>2. Idle \in Task /\ Placed(Idle) /\ Tracked(Idle) /\ Kept(Idle)
  BY IdleFits DEF Fits
<1>3. IndexFits'
  BY <1>1 DEF IInv, IndexFits
<1> QED
  BY <1>1, <1>2, <1>3, LocalStepKeeps

LEMMA WriterStepKeeps ==
    ASSUME IInv, NEW c \in Callers, NEW action \in Actions, writer_step(c, action)
    PROVE  IInv'
<1> DEFINE r == [task[c] EXCEPT !.triples = action, !.pc = AfterTriples(action)]
<1>1. task[c] \in Task /\ Placed(task[c]) /\ Tracked(task[c]) /\ Kept(task[c])
      /\ task[c].pc = "write"
  BY DEF IInv, CallersFit, Fits, writer_step
<1>2. action \in Seq(Names \X Names)
  BY EngineAssumption
<1>3. AfterTriples(action) = IF action = <<>> THEN "index" ELSE "resolve"
  BY DEF AfterTriples
<1>4. r \in Task /\ Tracked(r) /\ Kept(r)
  BY <1>1, <1>2, <1>3 DEF Task, Pcs, Tracked, Kept
<1>5. Placed(r)
  <2>1. task[c].ids = <<>> /\ Len(<<>>) = 0 /\ task[c].queue # <<>>
    BY <1>1 DEF Placed
  <2> QED
    BY <1>1, <1>3, <2>1 DEF Placed, Task
<1>6. Goto(c, r) /\ UNCHANGED <<tenants, landed, id_map, inner>>
  BY DEF writer_step, indexVars, historyVars
<1>7. IndexFits'
  BY <1>6 DEF IInv, IndexFits
<1> QED
  BY <1>4, <1>5, <1>6, <1>7, LocalStepKeeps

\* A name that needs no write: seen before in this call, or stored with this
\* document among its sources.
LEMMA ResolveKeeps ==
    ASSUME IInv, NEW c \in Callers, resolve(c)
    PROVE  IInv'
<1> DEFINE q == task[c]
           id == IdOf[Name(c)]
<1>1. q \in Task /\ Placed(q) /\ Tracked(q) /\ Kept(q) /\ q.pc = "resolve"
  BY DEF IInv, CallersFit, Fits, resolve
<1>2. UNCHANGED <<tenants, landed, id_map, inner>>
  BY DEF resolve, indexVars, historyVars
<1>3. IndexFits'
  BY <1>2 DEF IInv, IndexFits
<1>4. Name(c) \in Names /\ id \in Entities
  BY <1>1, NameType DEF IInv
<1>5. ASSUME NEW r, r = Resolved(q, id), Goto(c, r), ~q.raced => Sourced(id, Doc(c))
      PROVE  IInv'
  <2>1. /\ r \in Task /\ Placed(r) /\ Tracked(r)
        /\ r.named = q.named \cup {id} /\ r.queue = q.queue
        /\ r.skipped = q.skipped /\ r.raced = q.raced
    BY <1>1, <1>5, ResolvedFits DEF IInv
  <2>2. Kept(r)
    BY <1>1, <1>5, <2>1 DEF Kept, Doc
  <2> QED
    BY <1>2, <1>3, <1>5, <2>1, <2>2, LocalStepKeeps
<1>6. CASE Name(c) \in q.local
  <2>1. Goto(c, Resolved(q, id))
    BY <1>6 DEF resolve
  <2>2. ~q.raced => Sourced(id, Doc(c))
    BY <1>1, <1>4, <1>6 DEF Tracked, Kept, Doc
  <2> QED
    BY <1>5, <2>1, <2>2
<1>7. CASE Name(c) \notin q.local /\ id \notin DOMAIN stored
  <2> DEFINE r == [q EXCEPT !.pc = "embed"]
  <2>1. Goto(c, r)
    BY <1>7 DEF resolve
  <2>2. r \in Task /\ Placed(r) /\ Tracked(r) /\ Kept(r)
    BY <1>1 DEF Task, Pcs, Placed, Tracked, Kept
  <2> QED
    BY <1>2, <1>3, <2>1, <2>2, LocalStepKeeps
<1>8. CASE Name(c) \notin q.local /\ id \in DOMAIN stored /\ Doc(c) \in stored[id]
  <2>1. Goto(c, Resolved(q, id))
    BY <1>8 DEF resolve
  <2>2. Sourced(id, Doc(c))
    BY <1>8, SourcesSourced DEF IInv
  <2> QED
    BY <1>5, <2>1, <2>2
<1>9. CASE Name(c) \notin q.local /\ id \in DOMAIN stored /\ Doc(c) \notin stored[id]
  <2> DEFINE r == [q EXCEPT !.pc = "append", !.sources = stored[id]]
  <2>1. Goto(c, r)
    BY <1>9 DEF resolve
  <2>2. stored[id] \subseteq Docs
    BY <1>9, DataShape DEF IInv
  <2>3. r \in Task /\ Placed(r) /\ Tracked(r) /\ Kept(r)
    BY <1>1, <2>2 DEF Task, Pcs, Placed, Tracked, Kept
  <2> QED
    BY <1>2, <1>3, <2>1, <2>3, LocalStepKeeps
<1> QED
  BY <1>6, <1>7, <1>8, <1>9

LEMMA EmbedKeeps ==
    ASSUME IInv, NEW c \in Callers, embed(c)
    PROVE  IInv'
<1> DEFINE r == [task[c] EXCEPT !.pc = "create"]
<1>1. task[c] \in Task /\ Placed(task[c]) /\ Tracked(task[c]) /\ Kept(task[c])
      /\ task[c].pc = "embed"
  BY DEF IInv, CallersFit, Fits, embed
<1>2. r \in Task /\ Placed(r) /\ Tracked(r) /\ Kept(r)
  BY <1>1 DEF Task, Pcs, Placed, Tracked, Kept
<1>3. Goto(c, r) /\ UNCHANGED <<tenants, landed, id_map, inner>>
  BY DEF embed, indexVars, historyVars
<1>4. IndexFits'
  BY <1>3 DEF IInv, IndexFits
<1> QED
  BY <1>2, <1>3, <1>4, LocalStepKeeps

\* The entity is written with the document among its sources, and so resolved.
LEMMA UpsertKeeps ==
    ASSUME IInv, NEW c \in Callers, NEW sources \in SUBSET Docs, Doc(c) \in sources,
           Store!upsert_entity(Tenant, IdOf[Name(c)], sources),
           task[c].pc \in {"create", "append"}, NEW added,
           added \in {task[c].added, Append(task[c].added, IdOf[Name(c)])},
           Goto(c, [Resolved(task[c], IdOf[Name(c)]) EXCEPT !.added = added]),
           UNCHANGED <<landed, id_map, inner>>
    PROVE  IInv'
<1> DEFINE q == task[c]
           s == Resolved(q, IdOf[Name(c)])
<1>1. q \in Task /\ Placed(q) /\ Tracked(q) /\ Kept(q)
  BY DEF IInv, CallersFit, Fits
<1>2. PICK e \in Entities, d \in Docs : e = IdOf[Name(c)] /\ d = Doc(c)
  BY NameType, DocType DEF IInv
<1>3. /\ s \in Task /\ Placed(s) /\ Tracked(s) /\ s.pc \in {"resolve", "link"}
      /\ s.named = q.named \cup {e} /\ s.queue = q.queue /\ s.added = q.added
      /\ s.skipped = q.skipped /\ s.raced = q.raced
  BY <1>2, ResolvedFits DEF IInv
<1>4. added \in Seq(Entities) /\ \A i \in 1..Len(added) : added[i] \in s.named
  <2>1. q.added \in Seq(Entities) /\ \A i \in 1..Len(q.added) : q.added[i] \in s.named
    BY <1>1, <1>3 DEF Task, Tracked
  <2>2. CASE added = q.added
    BY <2>1, <2>2
  <2>3. CASE added = Append(q.added, e)
    <3>1. added \in Seq(Entities) /\ Len(added) = Len(q.added) + 1
      BY <2>1, <2>3
    <3>2. ASSUME NEW i \in 1..Len(added) PROVE added[i] \in s.named
      <4>1. CASE i = Len(q.added) + 1
        BY <1>3, <2>1, <2>3, <4>1
      <4>2. CASE i # Len(q.added) + 1
        BY <2>1, <2>3, <3>1, <4>2
      <4> QED
        BY <4>1, <4>2
    <3> QED
      BY <3>1, <3>2
  <2> QED
    BY <1>2, <2>2, <2>3
<1>5. PICK r : r = [s EXCEPT !.added = added]
  OBVIOUS
<1>6. /\ r \in Task /\ r.named = q.named \cup {e} /\ r.queue = q.queue /\ r.raced = q.raced
      /\ r.skipped = q.skipped
  BY <1>3, <1>4, <1>5 DEF Task
<1>7. Placed(r) /\ Tracked(r)
  BY <1>3, <1>4, <1>5 DEF Placed, Tracked, Task
<1>8. Mem!upsert_entity(Tenant, e, sources) /\ Calls
  BY <1>2, UpsertEntityIsCall
<1>9. Grows /\ Sourced(e, d)'
  BY <1>2, <1>8, UpsertEntityGrows DEF IInv
<1>10. Kept(r)'
  <2>1. ~r.raced => r.skipped = 0 /\ \A f \in r.named : f = e \/ Sourced(f, d)
    BY <1>1, <1>2, <1>6 DEF Kept, Doc
  <2>2. d = Head(r.queue) /\ r.named \subseteq Entities
    BY <1>2, <1>6 DEF Doc, Task
  <2> QED
    BY <1>9, <2>1, <2>2 DEF Kept, Grows
<1>11. IndexFits'
  BY DEF IInv, IndexFits
<1>12. Goto(c, r)
  BY <1>5
<1> QED
  BY <1>6, <1>7, <1>8, <1>9, <1>10, <1>11, <1>12, StepKeeps

LEMMA CreateKeeps ==
    ASSUME IInv, NEW c \in Callers, create(c)
    PROVE  IInv'
<1>1. task[c].pc = "create" /\ Doc(c) \in Docs
  BY DocType DEF create, IInv
<1>2. /\ Store!upsert_entity(Tenant, IdOf[Name(c)], {Doc(c)})
      /\ UNCHANGED <<landed, id_map, inner>>
  BY DEF create, indexVars, historyVars
<1>3. PICK added : added = Append(task[c].added, IdOf[Name(c)])
  OBVIOUS
<1>4. Resolved(task[c], IdOf[Name(c)]).added = task[c].added
  BY <1>1, ResolvedFits DEF IInv
<1>5. Goto(c, [Resolved(task[c], IdOf[Name(c)]) EXCEPT !.added = added])
  BY <1>3, <1>4 DEF create
<1> QED
  BY <1>1, <1>2, <1>3, <1>5, UpsertKeeps

LEMMA AppendKeeps ==
    ASSUME IInv, NEW c \in Callers, append(c)
    PROVE  IInv'
<1>1. task[c].pc = "append" /\ Doc(c) \in Docs /\ task[c] \in Task
  BY DocType DEF append, IInv, CallersFit
<1>2. PICK sources \in SUBSET Docs : sources = task[c].sources \cup {Doc(c)}
  BY <1>1 DEF Task
<1>3. /\ Store!upsert_entity(Tenant, IdOf[Name(c)], sources)
      /\ UNCHANGED <<landed, id_map, inner>>
  BY <1>2 DEF append, indexVars, historyVars
<1>4. PICK added : added = task[c].added
  OBVIOUS
<1>5. /\ Resolved(task[c], IdOf[Name(c)]).added = task[c].added
      /\ Resolved(task[c], IdOf[Name(c)]) \in Task
  BY <1>1, ResolvedFits DEF IInv
<1>6. Resolved(task[c], IdOf[Name(c)])
         = [Resolved(task[c], IdOf[Name(c)]) EXCEPT !.added = added]
  BY <1>4, <1>5 DEF Task
<1>7. Goto(c, [Resolved(task[c], IdOf[Name(c)]) EXCEPT !.added = added])
  BY <1>6 DEF append
<1> QED
  BY <1>1, <1>2, <1>3, <1>4, <1>7, UpsertKeeps

\* The triple is behind it: the call takes the next one or turns to the index.
LEMMA AfterTripleFits ==
    ASSUME NEW q \in Task, Placed(q), Tracked(q), q.pc = "link", NEW r, r = AfterTriple(q)
    PROVE  /\ r \in Task /\ Placed(r) /\ Tracked(r)
           /\ r.named = q.named /\ r.queue = q.queue /\ r.raced = q.raced
           /\ r.skipped = q.skipped /\ r.added = q.added
<1>1. q.triples \in Seq(Names \X Names) /\ q.triples # <<>> /\ q.queue # <<>>
  BY DEF Placed, Task
<1>2. Tail(q.triples) \in Seq(Names \X Names)
  BY <1>1
<1>3. AfterTriples(Tail(q.triples)) = IF Tail(q.triples) = <<>> THEN "index" ELSE "resolve"
  BY DEF AfterTriples
<1>4. /\ r.triples = Tail(q.triples) /\ r.ids = <<>> /\ r.pc = AfterTriples(Tail(q.triples))
      /\ r.named = q.named /\ r.queue = q.queue /\ r.raced = q.raced
      /\ r.skipped = q.skipped /\ r.added = q.added /\ r.local = q.local
  BY DEF AfterTriple, Task
<1>5. r \in Task
  <2>1. <<>> \in Seq(Entities) /\ AfterTriples(Tail(q.triples)) \in Pcs
    BY <1>3 DEF Pcs
  <2> QED
    BY <1>2, <2>1 DEF AfterTriple, Task
<1>6. Placed(r)
  BY <1>1, <1>3, <1>4 DEF Placed
<1>7. Tracked(r)
  BY <1>4 DEF Tracked
<1> QED
  BY <1>4, <1>5, <1>6, <1>7

LEMMA LinkKeeps ==
    ASSUME IInv, NEW c \in Callers, link(c)
    PROVE  IInv'
<1>1. PICK q \in Task : q = task[c]
  BY DEF IInv, CallersFit
<1>2. Placed(q) /\ Tracked(q) /\ Kept(q) /\ q.pc = "link"
  BY <1>1 DEF IInv, CallersFit, Fits, link
<1>3. PICK r : r = AfterTriple(q)
  OBVIOUS
<1>4. /\ r \in Task /\ Placed(r) /\ Tracked(r)
      /\ r.named = q.named /\ r.queue = q.queue /\ r.raced = q.raced /\ r.skipped = q.skipped
  BY <1>2, <1>3, AfterTripleFits
<1>5. q.ids[1] \in Entities /\ q.ids[2] \in Entities
  <2>1. q.ids \in Seq(Entities) /\ Len(q.ids) = 2
    BY <1>2 DEF Placed, Task
  <2> QED
    BY <2>1
<1>6. Doc(c) \in Docs
  BY <1>1, <1>2, DocType DEF IInv
<1>7. PICK src \in Entities, edge \in [dst: Entities, provenance: Docs] :
         src = q.ids[1] /\ edge = TheEdge(c)
  BY <1>1, <1>5, <1>6 DEF TheEdge
<1>8. Store!upsert_edge(Tenant, src, edge)
  BY <1>1, <1>7 DEF link
<1>9. Calls /\ Grows
  BY <1>8, UpsertEdgeIsCall, UpsertEdgeGrows DEF IInv
<1>10. Kept(r)
  BY <1>2, <1>4 DEF Kept
<1>11. Kept(r)'
  BY <1>4, <1>9, <1>10, KeptStays
<1>12. Goto(c, r) /\ UNCHANGED <<landed, id_map, inner>>
  BY <1>1, <1>3 DEF link, indexVars, historyVars
<1>13. IndexFits'
  BY <1>12 DEF IInv, IndexFits
<1> QED
  BY <1>4, <1>9, <1>11, <1>12, <1>13, StepKeeps

\* Both ends of the triple are stored unless a restore came in between, so an
\* edge is only refused to a caller that raced one.
LEMMA LinkRefusedKeeps ==
    ASSUME IInv, NEW c \in Callers, link_refused(c)
    PROVE  IInv'
<1>1. PICK q \in Task : q = task[c]
  BY DEF IInv, CallersFit
<1>2. Placed(q) /\ Tracked(q) /\ Kept(q) /\ q.pc = "link"
  BY <1>1 DEF IInv, CallersFit, Fits, link_refused
<1>3. PICK s : s = AfterTriple(q)
  OBVIOUS
<1>4. /\ s \in Task /\ Placed(s) /\ Tracked(s)
      /\ s.named = q.named /\ s.queue = q.queue /\ s.raced = q.raced /\ s.skipped = q.skipped
  BY <1>2, <1>3, AfterTripleFits
<1>5. q.raced
  <2>1. Len(q.ids) = 2 /\ q.ids \in Seq(Entities)
    BY <1>2 DEF Placed, Task
  <2>2. q.ids[1] \in q.named /\ q.ids[2] \in q.named
    BY <1>2, <2>1 DEF Tracked
  <2>3. ~ (q.ids[1] \in DOMAIN stored /\ q.ids[2] \in DOMAIN stored)
    BY <1>1 DEF link_refused
  <2> QED
    BY <1>2, <2>2, <2>3 DEF Kept, Sourced
<1> DEFINE r == [s EXCEPT !.skipped = @ + 1]
<1>6. r \in Task /\ r.raced
  <2>1. s.skipped \in Nat /\ s.skipped + 1 \in Nat
    BY <1>4 DEF Task
  <2>2. PICK n \in Nat : n = s.skipped + 1
    BY <2>1
  <2>3. r = [s EXCEPT !.skipped = n]
    BY <2>2
  <2> QED
    BY <1>4, <1>5, <2>3 DEF Task
<1>7. Placed(r) /\ Tracked(r) /\ Kept(r)
  <2>1. s.pc # "idle"
    BY <1>2, <1>3 DEF AfterTriple, AfterTriples, Task
  <2> QED
    BY <1>4, <1>6, <2>1 DEF Placed, Tracked, Kept, Task
<1>8. Goto(c, r) /\ UNCHANGED <<tenants, landed, id_map, inner>>
  BY <1>1, <1>3 DEF link_refused, indexVars, historyVars
<1>9. IndexFits'
  BY <1>8 DEF IInv, IndexFits
<1> QED
  BY <1>6, <1>7, <1>8, <1>9, LocalStepKeeps

LEMMA IndexKeeps ==
    ASSUME IInv, NEW c \in Callers, index(c)
    PROVE  IInv'
<1> DEFINE q == task[c]
<1>1. q \in Task /\ Placed(q) /\ Tracked(q) /\ Kept(q) /\ q.pc = "index" /\ q.added # <<>>
  BY DEF IInv, CallersFit, Fits, index
<1>2. q.added \in Seq(Entities) /\ Head(q.added) \in Entities
  BY <1>1 DEF Task
<1>3. UNCHANGED <<tenants, landed>> /\ inner' = inner
  BY DEF index, historyVars
<1>4. CASE Head(q.added) \in DOMAIN stored
  <2> DEFINE r == [q EXCEPT !.pc = "publish"]
  <2>1. Goto(c, r) /\ id_map' = [id_map EXCEPT ![Head(q.added)] = @ + 1]
    BY <1>4 DEF index
  <2>2. r \in Task /\ Placed(r) /\ Tracked(r) /\ Kept(r)
    BY <1>1 DEF Task, Pcs, Placed, Tracked, Kept
  <2>3. IndexFits'
    BY <1>2, <1>3, <2>1 DEF IInv, IndexFits
  <2> QED
    BY <1>3, <2>1, <2>2, <2>3, LocalStepKeeps
<1>5. CASE Head(q.added) \notin DOMAIN stored
  <2> DEFINE r == [q EXCEPT !.added = Tail(@)]
  <2>1. Goto(c, r) /\ id_map' = id_map
    BY <1>5 DEF index
  <2>2. /\ Tail(q.added) \in Seq(Entities)
        /\ \A i \in 1..Len(Tail(q.added)) : Tail(q.added)[i] \in q.named
    BY <1>1, <1>2 DEF Tracked
  <2>3. r \in Task /\ Placed(r) /\ Tracked(r) /\ Kept(r)
    BY <1>1, <2>2 DEF Task, Placed, Tracked, Kept
  <2>4. IndexFits'
    BY <1>3, <2>1 DEF IInv, IndexFits
  <2> QED
    BY <1>3, <2>1, <2>3, <2>4, LocalStepKeeps
<1> QED
  BY <1>4, <1>5

LEMMA PublishKeeps ==
    ASSUME IInv, NEW c \in Callers, publish(c)
    PROVE  IInv'
<1> DEFINE q == task[c]
           r == [q EXCEPT !.pc = "index", !.added = Tail(@)]
<1>1. q \in Task /\ Placed(q) /\ Tracked(q) /\ Kept(q) /\ q.pc = "publish"
  BY DEF IInv, CallersFit, Fits, publish
<1>2. q.added \in Seq(Entities) /\ q.added # <<>> /\ Head(q.added) \in Entities
  BY <1>1 DEF Placed, Task
<1>3. /\ Tail(q.added) \in Seq(Entities)
      /\ \A i \in 1..Len(Tail(q.added)) : Tail(q.added)[i] \in q.named
  BY <1>1, <1>2 DEF Tracked
<1>4. r \in Task /\ Placed(r) /\ Tracked(r) /\ Kept(r)
  BY <1>1, <1>3 DEF Task, Pcs, Placed, Tracked, Kept
<1>5. /\ Goto(c, r) /\ UNCHANGED <<tenants, landed, id_map>>
      /\ inner' = [inner EXCEPT ![Head(q.added)] = @ + 1]
  BY DEF publish, historyVars
<1>6. IndexFits'
  BY <1>2, <1>5 DEF IInv, IndexFits
<1> QED
  BY <1>4, <1>5, <1>6, LocalStepKeeps

\* What an undisturbed document named lands with it.
LEMMA FinishKeeps ==
    ASSUME IInv, NEW c \in Callers, finish(c)
    PROVE  IInv'
<1> DEFINE q == task[c]
<1>1. q \in Task /\ Placed(q) /\ Kept(q) /\ q.pc = "index"
  BY DEF IInv, CallersFit, Fits, finish
<1>2. UNCHANGED <<tenants, id_map, inner>>
  BY DEF finish, indexVars
<1>3. q.queue \in Seq(Docs) /\ q.queue # <<>> /\ Doc(c) \in Docs /\ Doc(c) = Head(q.queue)
  BY <1>1 DEF Placed, Task, Doc
<1>4. LandedFits'
  <2>1. landed' = IF q.raced THEN landed ELSE landed \cup ({Doc(c)} \X q.named)
    BY DEF finish
  <2>2. ~q.raced => \A e \in q.named : e \in Entities /\ Sourced(e, Doc(c))
    BY <1>1, <1>3 DEF Kept, Task
  <2>3. \A e, d : Sourced(e, d) => Sourced(e, d)'
    BY <1>2 DEF Sourced, stored
  <2>4. LandedFits
    BY DEF IInv
  <2>5. landed' \subseteq Docs \X Entities
    BY <1>3, <2>1, <2>2, <2>4 DEF LandedFits
  <2>6. ASSUME NEW l \in landed' PROVE Sourced(l[2], l[1])
    BY <2>1, <2>2, <2>4, <2>6 DEF LandedFits
  <2> QED
    BY <1>2, <2>5, <2>6 DEF LandedFits, Sourced, stored
<1>5. ASSUME NEW r \in Task, Placed(r), Tracked(r), Kept(r), Goto(c, r)
      PROVE  CallersFit'
  <2>1. Grows
    BY <1>2, UnchangedGrows
  <2>2. Kept(r)'
    BY <1>5, <2>1, KeptStays
  <2> QED
    BY <1>5, <2>1, <2>2, MoveKeeps DEF IInv
<1>6. CallersFit'
  <2>1. CASE Len(q.queue) = 1
    <3>1. Goto(c, Idle)
      BY <2>1 DEF finish
    <3> QED
      BY <1>5, <3>1, IdleFits DEF Fits
  <2>2. CASE Len(q.queue) # 1
    <3> DEFINE r == [Idle EXCEPT !.pc = "write", !.queue = Tail(q.queue)]
    <3>1. Goto(c, r)
      BY <2>2 DEF finish
    <3>2. Tail(q.queue) \in Seq(Docs) /\ Tail(q.queue) # <<>>
      BY <1>3, <2>2, TailType
    <3>3. Idle \in Task /\ Tracked(Idle) /\ Idle.named = {} /\ Idle.skipped = 0
          /\ Idle.ids = <<>> /\ Idle.added = <<>>
      BY IdleFits DEF Fits, Idle
    <3>4. r \in Task /\ Placed(r) /\ Tracked(r) /\ Kept(r)
      BY <3>2, <3>3 DEF Task, Pcs, Placed, Tracked, Kept
    <3> QED
      BY <1>5, <3>1, <3>4
  <2> QED
    BY <2>1, <2>2
<1>7. StoreFits' /\ IndexFits'
  BY <1>2, CallsKeepStore DEF IInv, Calls, IndexFits
<1> QED
  BY <1>4, <1>6, <1>7 DEF IInv

LEMMA SnapshotKeeps ==
    ASSUME IInv, snapshot
    PROVE  IInv'
<1>1. Store!snapshot(Tenant) /\ UNCHANGED <<task, id_map, inner, landed>>
  BY DEF snapshot, indexVars, historyVars
<1>2. Calls /\ Grows
  BY <1>1, SnapshotIsCall, SnapshotGrows DEF IInv
<1>3. StoreFits' /\ CallersFit' /\ LandedFits'
  BY <1>1, <1>2, CallsKeepStore, StandKeeps, LandedKeeps DEF IInv
<1> QED
  BY <1>1, <1>3 DEF IInv, IndexFits

\* Every call under way is marked, and nothing has landed since.
LEMMA RestoreKeeps ==
    ASSUME IInv, NEW snap \in DOMAIN tenants[Tenant].snapshots, restore(snap)
    PROVE  IInv'
<1>1. /\ Store!restore(Tenant, snap) /\ landed' = {} /\ UNCHANGED <<id_map, inner>>
      /\ task' = [c \in Callers |-> [task[c] EXCEPT !.raced = task[c].pc # "idle"]]
  BY DEF restore, indexVars
<1>2. StoreFits'
  BY <1>1, RestoreIsCall, CallsKeepStore DEF IInv
<1>3. LandedFits' /\ IndexFits'
  BY <1>1 DEF IInv, LandedFits, IndexFits
<1>4. ASSUME NEW c \in Callers PROVE task'[c] \in Task /\ Fits(task[c])'
  <2>1. task[c] \in Task /\ Fits(task[c])
    BY DEF IInv, CallersFit
  <2>2. task'[c] = [task[c] EXCEPT !.raced = task[c].pc # "idle"]
    BY <1>1
  <2>3. (task[c].pc # "idle") \in BOOLEAN
    OBVIOUS
  <2>4. /\ task'[c] \in Task /\ task'[c].raced = (task[c].pc # "idle")
        /\ task'[c].pc = task[c].pc /\ task'[c].queue = task[c].queue
        /\ task'[c].triples = task[c].triples /\ task'[c].ids = task[c].ids
        /\ task'[c].local = task[c].local /\ task'[c].added = task[c].added
        /\ task'[c].named = task[c].named /\ task'[c].skipped = task[c].skipped
    BY <2>1, <2>2, <2>3 DEF Task
  <2>5. Placed(task[c])' /\ Tracked(task[c])'
    BY <2>1, <2>4 DEF Fits, Placed, Tracked
  <2>6. Kept(task[c])'
    BY <2>1, <2>4 DEF Fits, Placed, Kept
  <2> QED
    BY <2>4, <2>5, <2>6 DEF Fits
<1>5. CallersFit'
  BY <1>1, <1>4 DEF CallersFit
<1> QED
  BY <1>2, <1>3, <1>5 DEF IInv
-----------------------------------------------------------------------------
(***************************************************************************)
(* The invariant and what follows from it.                                 *)
(***************************************************************************)

LEMMA InitHolds == Init => IInv
<1> SUFFICES ASSUME Init PROVE IInv
  OBVIOUS
<1>1. Mem!Init
  BY DEF Init, Store!Init, Mem!Init, Store!EmptyTenant, Mem!EmptyTenant,
         Store!EmptyMap, Mem!EmptyMap
<1>2. StoreFits
  BY <1>1, Bounds, Mem!InitTypeOK, Mem!InitGood DEF StoreFits
<1>3. CallersFit
  BY IdleFits DEF Init, CallersFit
<1>4. LandedFits /\ IndexFits
  BY DEF Init, LandedFits, IndexFits
<1> QED
  BY <1>2, <1>3, <1>4 DEF IInv

\* Nothing changes.
LEMMA StutterKeeps == ASSUME IInv, UNCHANGED vars PROVE IInv'
<1>1. UNCHANGED <<tenants, task, landed, id_map, inner>>
  BY DEF vars, indexVars, historyVars
<1>2. Calls /\ Grows
  BY <1>1, UnchangedGrows DEF Calls
<1>3. StoreFits' /\ CallersFit' /\ LandedFits'
  BY <1>1, <1>2, CallsKeepStore, StandKeeps, LandedKeeps DEF IInv
<1> QED
  BY <1>1, <1>3 DEF IInv, IndexFits

LEMMA ProceedKeeps == ASSUME IInv, NEW c \in Callers, Proceed(c) PROVE IInv'
<1>1. (\E action \in Actions : writer_step(c, action)) => IInv'
  BY WriterStepKeeps
<1>2. writer_fails(c) \/ embed_fails(c) => IInv'
  BY AbortKeeps DEF writer_fails, embed_fails
<1>3. resolve(c) \/ embed(c) \/ create(c) \/ append(c) => IInv'
  BY ResolveKeeps, EmbedKeeps, CreateKeeps, AppendKeeps
<1>4. link(c) \/ link_refused(c) => IInv'
  BY LinkKeeps, LinkRefusedKeeps
<1>5. index(c) \/ publish(c) \/ finish(c) => IInv'
  BY IndexKeeps, PublishKeeps, FinishKeeps
<1> QED
  BY <1>1, <1>2, <1>3, <1>4, <1>5 DEF Proceed

LEMMA NextKeeps == IInv /\ [Next]_vars => IInv'
<1> SUFFICES ASSUME IInv, [Next]_vars PROVE IInv'
  OBVIOUS
<1>1. ASSUME NEW c \in Callers, NEW docs \in Batches, ingest(c, docs) PROVE IInv'
  BY <1>1, IngestKeeps
<1>2. ASSUME NEW c \in Callers, Proceed(c) PROVE IInv'
  BY <1>2, ProceedKeeps
<1>3. CASE snapshot
  BY <1>3, SnapshotKeeps
<1>4. ASSUME NEW snap \in DOMAIN tenants[Tenant].snapshots, restore(snap) PROVE IInv'
  BY <1>4, RestoreKeeps
<1>5. CASE UNCHANGED vars
  BY <1>5, StutterKeeps
<1> QED
  BY <1>1, <1>2, <1>3, <1>4, <1>5 DEF Next

LEMMA Inductive == Spec => []IInv
BY InitHolds, NextKeeps, PTL DEF Spec

\* Every caller is at one of its awaits with well-formed locals, for any
\* callers and documents (SageEngine::ingest).
THEOREM TypeCorrect == Spec => []TypeOK
<1>1. IInv => TypeOK
  <2> SUFFICES ASSUME IInv PROVE TypeOK
    OBVIOUS
  <2>1. ASSUME NEW c \in Callers
        PROVE  /\ task[c].pc \in Pcs /\ task[c].queue \in Seq(Docs)
               /\ task[c].triples \in Seq(Names \X Names)
               /\ task[c].ids \in Seq(Entities) /\ Len(task[c].ids) <= 2
               /\ task[c].local \subseteq Names /\ task[c].sources \subseteq Docs
               /\ task[c].added \in Seq(Entities)
    <3>1. PICK q \in Task : q = task[c]
      BY DEF IInv, CallersFit
    <3>2. Placed(q)
      BY <3>1 DEF IInv, CallersFit, Fits
    <3>3. Len(q.ids) \in Nat /\ Len(<<>>) = 0
      BY DEF Task
    <3>4. q.ids = <<>> \/ Len(q.ids) <= 1 \/ Len(q.ids) = 2
      BY <3>2 DEF Placed, Task, Pcs
    <3>5. Len(q.ids) <= 2
      <4>1. \A n \in Nat : n = 0 \/ n <= 1 \/ n = 2 => n <= 2
        OBVIOUS
      <4>2. Len(q.ids) = 0 \/ Len(q.ids) <= 1 \/ Len(q.ids) = 2
        BY ONLY <3>3, <3>4, Zenon
      <4> QED
        BY ONLY <3>3, <4>1, <4>2, Zenon
    <3> QED
      BY <3>1, <3>5 DEF Task
  <2> QED
    BY <2>1 DEF IInv, IndexFits, LandedFits, TypeOK, Pcs
<1> QED
  BY <1>1, Inductive, PTL

\* For any number of concurrent callers, any documents that name the same
\* entities and any restores: what an ingest that returned Ok named is stored
\* and lists its document (apply.rs, the "BUG FIX" comment).
THEOREM ProvenanceAlwaysReachable == Spec => []ProvenanceReachable
<1>1. IInv => ProvenanceReachable
  BY DEF IInv, LandedFits, Sourced, ProvenanceReachable
<1> QED
  BY <1>1, Inductive, PTL

\* For any callers: the store refuses an edge of the writer only where a
\* restore removed an end of it during the call (the triples_skipped of apply.rs).
THEOREM OnlyRestoresSkip == Spec => []SkippedOnlyByRestore
<1>1. IInv => SkippedOnlyByRestore
  BY DEF IInv, CallersFit, Fits, Kept, Task, SkippedOnlyByRestore
<1> QED
  BY <1>1, Inductive, PTL
-----------------------------------------------------------------------------
(***************************************************************************)
(* Hits of a search.                                                       *)
(***************************************************************************)

\* A caller between the halves of an insert has an entity at hand.
LEMMA PublishingType ==
    ASSUME IInv
    PROVE  \A e : IsFiniteSet(Publishing(e)) /\ Cardinality(Publishing(e)) \in Nat
<1> TAKE e
<1>1. Publishing(e) \subseteq Callers
  BY DEF Publishing
<1>2. IsFiniteSet(Publishing(e))
  BY <1>1, EngineAssumption, FS_Subset
<1> QED
  BY <1>2, FS_CardinalityType

\* Steps that neither begin nor end an insert.
LEMMA SamePublishing ==
    ASSUME IInv, HitsCounted, UNCHANGED indexVars,
           \A c \in Callers : \/ task'[c].pc # "publish" /\ task[c].pc # "publish"
                              \/ task'[c].pc = task[c].pc /\ task'[c].added = task[c].added
    PROVE  HitsCounted'
<1>1. ASSUME NEW e \in Entities PROVE Publishing(e)' = Publishing(e)
  BY DEF Publishing
<1> QED
  BY <1>1 DEF HitsCounted, indexVars

LEMMA MovePublishing ==
    ASSUME IInv, HitsCounted, NEW c \in Callers, NEW r, Goto(c, r), UNCHANGED indexVars,
           task[c].pc # "publish", r.pc # "publish"
    PROVE  HitsCounted'
<1>1. ASSUME NEW k \in Callers
      PROVE  \/ task'[k].pc # "publish" /\ task[k].pc # "publish"
             \/ task'[k].pc = task[k].pc /\ task'[k].added = task[k].added
  BY DEF Goto, IInv, CallersFit
<1> QED
  BY <1>1, SamePublishing

LEMMA IndexCounted ==
    ASSUME IInv, HitsCounted, NEW c \in Callers, index(c)
    PROVE  HitsCounted'
<1>1. PICK h : h = Head(task[c].added)
  OBVIOUS
<1>2. task[c] \in Task /\ task[c].pc = "index" /\ inner' = inner
  BY DEF IInv, CallersFit, index
<1>3. h \in Entities
  BY <1>1, <1>2 DEF index, Task
<1>4. CASE h \in DOMAIN stored
  <2>1. /\ id_map' = [id_map EXCEPT ![h] = @ + 1]
        /\ task' = [task EXCEPT ![c] = [task[c] EXCEPT !.pc = "publish"]]
    BY <1>1, <1>4 DEF index, Goto
  <2>2. task'[c].pc = "publish" /\ task'[c].added = task[c].added
    BY <1>2, <2>1 DEF IInv, CallersFit, Task
  <2>3. \A k \in Callers : k # c => task'[k] = task[k]
    BY <2>1 DEF IInv, CallersFit
  <2>4. ASSUME NEW e \in Entities
        PROVE  inner'[e] + Cardinality(Publishing(e)') <= id_map'[e]
    <3>1. /\ inner[e] \in Nat /\ id_map[e] \in Nat
          /\ inner[e] + Cardinality(Publishing(e)) <= id_map[e]
      BY DEF IInv, IndexFits, HitsCounted
    <3>2. IsFiniteSet(Publishing(e)) /\ Cardinality(Publishing(e)) \in Nat
      BY PublishingType
    <3>3. CASE e = h
      <4>1. Publishing(e)' = Publishing(e) \cup {c} /\ c \notin Publishing(e)
        BY <1>1, <1>2, <2>2, <2>3, <3>3 DEF Publishing
      <4>2. Cardinality(Publishing(e)') = Cardinality(Publishing(e)) + 1
        BY <3>2, <4>1, FS_AddElement
      <4>3. id_map'[e] = id_map[e] + 1
        BY <2>1, <3>3 DEF IInv, IndexFits
      <4> QED
        BY <1>2, <3>1, <3>2, <4>2, <4>3
    <3>4. CASE e # h
      <4>1. Publishing(e)' = Publishing(e)
        BY <1>1, <1>2, <2>2, <2>3, <3>4 DEF Publishing
      <4>2. id_map'[e] = id_map[e]
        BY <2>1, <3>4 DEF IInv, IndexFits
      <4> QED
        BY <1>2, <3>1, <4>1, <4>2
    <3> QED
      BY <3>3, <3>4
  <2> QED
    BY <2>4 DEF HitsCounted
<1>5. CASE h \notin DOMAIN stored
  <2> DEFINE r == [task[c] EXCEPT !.added = Tail(@)]
  <2>1. Goto(c, r) /\ UNCHANGED indexVars
    BY <1>1, <1>2, <1>5 DEF index, indexVars
  <2>2. r.pc = "index"
    BY <1>2 DEF Task
  <2> QED
    BY <1>2, <2>1, <2>2, MovePublishing
<1> QED
  BY <1>4, <1>5

LEMMA PublishCounted ==
    ASSUME IInv, HitsCounted, NEW c \in Callers, publish(c)
    PROVE  HitsCounted'
<1>1. PICK h : h = Head(task[c].added)
  OBVIOUS
<1>2. task[c] \in Task /\ Placed(task[c]) /\ task[c].pc = "publish"
  BY DEF IInv, CallersFit, Fits, publish
<1>3. h \in Entities
  BY <1>1, <1>2 DEF Placed, Task
<1>4. /\ inner' = [inner EXCEPT ![h] = @ + 1] /\ id_map' = id_map
      /\ task' = [task EXCEPT ![c] = [task[c] EXCEPT !.pc = "index", !.added = Tail(@)]]
  BY <1>1 DEF publish, Goto
<1>5. task'[c].pc = "index" /\ \A k \in Callers : k # c => task'[k] = task[k]
  BY <1>2, <1>4 DEF IInv, CallersFit, Task
<1>6. ASSUME NEW e \in Entities
      PROVE  inner'[e] + Cardinality(Publishing(e)') <= id_map'[e]
  <2>1. /\ inner[e] \in Nat /\ id_map[e] \in Nat
        /\ inner[e] + Cardinality(Publishing(e)) <= id_map[e]
    BY DEF IInv, IndexFits, HitsCounted
  <2>2. IsFiniteSet(Publishing(e)) /\ Cardinality(Publishing(e)) \in Nat
    BY PublishingType
  <2>3. CASE e = h
    <3>1. Publishing(e)' = Publishing(e) \ {c} /\ c \in Publishing(e)
      BY <1>1, <1>2, <1>5, <2>3 DEF Publishing
    <3>2. Cardinality(Publishing(e)') = Cardinality(Publishing(e)) - 1
      BY <2>2, <3>1, FS_RemoveElement
    <3>3. inner'[e] = inner[e] + 1
      BY <1>4, <2>3 DEF IInv, IndexFits
    <3> QED
      BY <1>4, <2>1, <2>2, <3>2, <3>3
  <2>4. CASE e # h
    <3>1. Publishing(e)' = Publishing(e)
      BY <1>1, <1>2, <1>5, <2>4 DEF Publishing
    <3>2. inner'[e] = inner[e]
      BY <1>4, <2>4 DEF IInv, IndexFits
    <3> QED
      BY <1>4, <2>1, <3>1, <3>2
  <2> QED
    BY <2>3, <2>4
<1> QED
  BY <1>6 DEF HitsCounted

\* While names are resolved and triples linked, no insert begins or ends.
LEMMA ResolvedCounted ==
    ASSUME IInv, HitsCounted, NEW c \in Callers,
           task[c].pc \in {"resolve", "embed", "create", "append"}, NEW added,
           Goto(c, [Resolved(task[c], IdOf[Name(c)]) EXCEPT !.added = added]),
           UNCHANGED indexVars
    PROVE  HitsCounted'
<1>1. PICK s \in Task : s = Resolved(task[c], IdOf[Name(c)]) /\ s.pc \in {"resolve", "link"}
  BY ResolvedFits DEF IInv
<1>2. PICK r : r = [s EXCEPT !.added = added]
  OBVIOUS
<1>3. r.pc = s.pc
  BY <1>2 DEF Task
<1> QED
  BY <1>1, <1>2, <1>3, MovePublishing

LEMMA AfterTripleCounted ==
    ASSUME IInv, HitsCounted, NEW c \in Callers, task[c].pc = "link", NEW n,
           Goto(c, [AfterTriple(task[c]) EXCEPT !.skipped = n]), UNCHANGED indexVars
    PROVE  HitsCounted'
<1>1. task[c] \in Task /\ Placed(task[c]) /\ Tracked(task[c])
  BY DEF IInv, CallersFit, Fits
<1>2. AfterTriple(task[c]) \in Task /\ AfterTriple(task[c]).pc \in {"index", "resolve"}
  BY <1>1, AfterTripleFits DEF AfterTriple, AfterTriples, Task
<1>3. [AfterTriple(task[c]) EXCEPT !.skipped = n].pc # "publish"
  BY <1>2 DEF Task
<1> QED
  BY <1>3, MovePublishing

LEMMA ProceedCounted ==
    ASSUME IInv, HitsCounted, NEW c \in Callers, Proceed(c)
    PROVE  HitsCounted'
<1>1. task[c] \in Task
  BY DEF IInv, CallersFit
<1>2. ASSUME NEW action \in Actions, writer_step(c, action) PROVE HitsCounted'
  <2> DEFINE r == [task[c] EXCEPT !.triples = action, !.pc = AfterTriples(action)]
  <2>1. r.pc # "publish" /\ task[c].pc # "publish" /\ Goto(c, r) /\ UNCHANGED indexVars
    BY <1>1, <1>2 DEF writer_step, AfterTriples, Task
  <2> QED
    BY <2>1, MovePublishing
<1>3. ASSUME writer_fails(c) \/ embed_fails(c) PROVE HitsCounted'
  <2>1. Idle.pc # "publish" /\ task[c].pc # "publish" /\ Goto(c, Idle) /\ UNCHANGED indexVars
    BY <1>3 DEF writer_fails, embed_fails, Abort, Idle
  <2> QED
    BY <2>1, MovePublishing
<1>4. ASSUME resolve(c) PROVE HitsCounted'
  <2>1. UNCHANGED indexVars /\ task[c].pc = "resolve"
    BY <1>4 DEF resolve
  <2>2. PICK r : Goto(c, r) /\ r \in {Resolved(task[c], IdOf[Name(c)]),
                    [task[c] EXCEPT !.pc = "embed"],
                    [task[c] EXCEPT !.pc = "append", !.sources = stored[IdOf[Name(c)]]]}
    BY <1>4 DEF resolve
  <2>3. Resolved(task[c], IdOf[Name(c)]).pc \in {"resolve", "link"}
    BY <2>1, ResolvedFits DEF IInv
  <2>4. r.pc # "publish"
    BY <1>1, <2>2, <2>3 DEF Task
  <2> QED
    BY <2>1, <2>2, <2>4, MovePublishing
<1>5. ASSUME embed(c) PROVE HitsCounted'
  <2> DEFINE r == [task[c] EXCEPT !.pc = "create"]
  <2>1. r.pc # "publish" /\ task[c].pc # "publish" /\ Goto(c, r) /\ UNCHANGED indexVars
    BY <1>1, <1>5 DEF embed, Task
  <2> QED
    BY <2>1, MovePublishing
<1>6. ASSUME create(c) PROVE HitsCounted'
  <2>1. UNCHANGED indexVars /\ task[c].pc = "create"
    BY <1>6 DEF create
  <2>2. PICK added :
           Goto(c, [Resolved(task[c], IdOf[Name(c)]) EXCEPT !.added = added])
    BY <1>6 DEF create
  <2> QED
    BY <2>1, <2>2, ResolvedCounted
<1>7. ASSUME append(c) PROVE HitsCounted'
  <2>1. UNCHANGED indexVars /\ task[c].pc = "append" /\ Goto(c, Resolved(task[c], IdOf[Name(c)]))
    BY <1>7 DEF append
  <2>2. Resolved(task[c], IdOf[Name(c)]).pc \in {"resolve", "link"}
    BY <2>1, ResolvedFits DEF IInv
  <2> QED
    BY <2>1, <2>2, MovePublishing
<1>8. ASSUME link(c) PROVE HitsCounted'
  <2>1. UNCHANGED indexVars /\ task[c].pc = "link" /\ Goto(c, AfterTriple(task[c]))
    BY <1>8 DEF link
  <2>2. AfterTriple(task[c]).pc # "publish"
    BY <1>1 DEF AfterTriple, AfterTriples, Task
  <2> QED
    BY <2>1, <2>2, MovePublishing
<1>9. ASSUME link_refused(c) PROVE HitsCounted'
  <2>1. UNCHANGED indexVars /\ task[c].pc = "link"
    BY <1>9 DEF link_refused
  <2>2. PICK n : Goto(c, [AfterTriple(task[c]) EXCEPT !.skipped = n])
    BY <1>9 DEF link_refused
  <2> QED
    BY <2>1, <2>2, AfterTripleCounted
<1>10. ASSUME finish(c) PROVE HitsCounted'
  <2>1. UNCHANGED indexVars /\ task[c].pc = "index"
    BY <1>10 DEF finish
  <2>2. PICK r : Goto(c, r) /\ r \in {Idle, [Idle EXCEPT !.pc = "write",
                                                         !.queue = Tail(task[c].queue)]}
    BY <1>10 DEF finish
  <2>3. Idle \in Task /\ Idle.pc = "idle"
    BY IdleFits DEF Idle
  <2>4. r.pc # "publish"
    BY <2>2, <2>3 DEF Task
  <2> QED
    BY <2>1, <2>2, <2>4, MovePublishing
<1> QED
  BY <1>2, <1>3, <1>4, <1>5, <1>6, <1>7, <1>8, <1>9, <1>10, IndexCounted, PublishCounted
     DEF Proceed

LEMMA NextCounted == IInv /\ HitsCounted /\ [Next]_vars => HitsCounted'
<1> SUFFICES ASSUME IInv, HitsCounted, [Next]_vars PROVE HitsCounted'
  OBVIOUS
<1>1. ASSUME NEW c \in Callers, NEW docs \in Batches, ingest(c, docs) PROVE HitsCounted'
  <2> DEFINE r == [Idle EXCEPT !.pc = "write", !.queue = docs]
  <2>1. r.pc # "publish" /\ task[c].pc # "publish" /\ Goto(c, r) /\ UNCHANGED indexVars
    BY <1>1 DEF ingest, Idle
  <2> QED
    BY <2>1, MovePublishing
<1>2. ASSUME NEW c \in Callers, Proceed(c) PROVE HitsCounted'
  BY <1>2, ProceedCounted
<1>3. CASE snapshot \/ UNCHANGED vars
  <2>1. UNCHANGED <<task, indexVars>>
    BY <1>3 DEF snapshot, vars
  <2> QED
    BY <2>1, SamePublishing
<1>4. ASSUME NEW snap \in DOMAIN tenants[Tenant].snapshots, restore(snap) PROVE HitsCounted'
  <2>1. /\ UNCHANGED indexVars
        /\ task' = [c \in Callers |-> [task[c] EXCEPT !.raced = task[c].pc # "idle"]]
    BY <1>4 DEF restore
  <2>2. ASSUME NEW c \in Callers
        PROVE  task'[c].pc = task[c].pc /\ task'[c].added = task[c].added
    BY <2>1 DEF IInv, CallersFit, Task
  <2> QED
    BY <2>1, <2>2, SamePublishing
<1> QED
  BY <1>1, <1>2, <1>3, <1>4 DEF Next

\* For any callers inserting at the same time: a search never finds an
\* internal id that has no entity yet (HnswIndex::insert and ::search).
THEOREM HitsAlwaysMapped == Spec => []HitsAreMapped
<1>1. Init => HitsCounted
  <2> SUFFICES ASSUME Init, NEW e \in Entities
               PROVE  inner[e] + Cardinality(Publishing(e)) <= id_map[e]
    BY DEF HitsCounted
  <2>1. Publishing(e) = {}
    BY DEF Init, Publishing, Idle
  <2> QED
    BY <2>1, FS_EmptySet DEF Init
<1>2. IInv /\ HitsCounted => HitsAreMapped
  <2> SUFFICES ASSUME IInv, HitsCounted, NEW e \in Entities PROVE inner[e] <= id_map[e]
    BY DEF HitsAreMapped
  <2>1. inner[e] \in Nat /\ id_map[e] \in Nat /\ Cardinality(Publishing(e)) \in Nat
        /\ inner[e] + Cardinality(Publishing(e)) <= id_map[e]
    BY PublishingType DEF IInv, IndexFits, HitsCounted
  <2> QED
    BY <2>1
<1> QED
  BY <1>1, <1>2, NextCounted, Inductive, PTL DEF Spec

-----------------------------------------------------------------------------
(***************************************************************************)
(* What searches can find.                                                 *)
(***************************************************************************)

\* What calls of the store add to the entities that are or may come back.
LEMMA UpsertEntityEver ==
    ASSUME StoreFits, NEW e \in Entities, NEW sources \in SUBSET Docs,
           Store!upsert_entity(Tenant, e, sources)
    PROVE  EverStored' = EverStored \cup {e}
<1> DEFINE data == tenants[Tenant]
<1>1. tenants'[Tenant] = [data EXCEPT !.doc_index[e] = Store!Listed(@, sources),
                                      !.entities = Store!Put(@, e, sources)]
  BY DataShape DEF Store!upsert_entity
<1>2. /\ tenants'[Tenant].entities = Store!Put(data.entities, e, sources)
      /\ tenants'[Tenant].snapshots = data.snapshots
  BY <1>1, DataShape DEF Mem!TenantData
<1>3. DOMAIN stored' = DOMAIN stored \cup {e}
  BY <1>2 DEF stored, Store!Put
<1> QED
  BY <1>2, <1>3 DEF EverStored

LEMMA UpsertEdgeEver ==
    ASSUME StoreFits, NEW src, NEW edge, Store!upsert_edge(Tenant, src, edge)
    PROVE  EverStored' = EverStored
<1>1. /\ tenants'[Tenant].entities = tenants[Tenant].entities
      /\ tenants'[Tenant].snapshots = tenants[Tenant].snapshots
  BY DataShape DEF Store!upsert_edge, Mem!TenantData
<1> QED
  BY <1>1 DEF EverStored, stored

LEMMA SnapshotEver ==
    ASSUME StoreFits, Store!snapshot(Tenant)
    PROVE  EverStored' = EverStored
<1> DEFINE data == tenants[Tenant]
<1>1. /\ tenants'[Tenant].entities = data.entities
      /\ tenants'[Tenant].snapshots
             = Store!Put(data.snapshots, data.next_snap, Store!PayloadOf(data))
  BY DataShape DEF Store!snapshot, Mem!TenantData
<1>2. DOMAIN data.snapshots = 0..(data.next_snap - 1) /\ data.next_snap \in Nat
  BY DataShape DEF Mem!TenantData
<1>3. data.next_snap \notin DOMAIN data.snapshots
  BY <1>2
<1>4. Store!PayloadOf(data).entities = data.entities
  BY DEF Store!PayloadOf
<1>5. /\ DOMAIN tenants'[Tenant].snapshots = DOMAIN data.snapshots \cup {data.next_snap}
      /\ tenants'[Tenant].snapshots[data.next_snap] = Store!PayloadOf(data)
      /\ \A i \in DOMAIN data.snapshots : tenants'[Tenant].snapshots[i] = data.snapshots[i]
  BY <1>1, <1>3 DEF Store!Put
<1> QED
  BY <1>1, <1>4, <1>5 DEF EverStored, stored

LEMMA RestoreEver ==
    ASSUME StoreFits, NEW snap \in DOMAIN tenants[Tenant].snapshots,
           Store!restore(Tenant, snap)
    PROVE  EverStored' \subseteq EverStored
<1>1. /\ tenants'[Tenant].entities = tenants[Tenant].snapshots[snap].entities
      /\ tenants'[Tenant].snapshots = tenants[Tenant].snapshots
  BY DataShape DEF Store!restore, Mem!TenantData
<1> QED
  BY <1>1 DEF EverStored, stored

LEMMA EverType == StoreFits => EverStored \subseteq Entities
<1> SUFFICES ASSUME StoreFits PROVE EverStored \subseteq Entities
  OBVIOUS
<1>1. tenants[Tenant].snapshots \in [0..(tenants[Tenant].next_snap - 1) -> Mem!Payload]
  BY DataShape DEF Mem!TenantData
<1>2. \A i \in DOMAIN tenants[Tenant].snapshots :
          tenants[Tenant].snapshots[i].entities \in Mem!MapsOf(Entities, SUBSET Docs)
  BY <1>1 DEF Mem!Payload
<1>3. \A f \in Mem!MapsOf(Entities, SUBSET Docs) : DOMAIN f \subseteq Entities
  BY DEF Mem!MapsOf
<1> QED
  BY <1>2, <1>3, DataShape DEF EverStored

\* One caller moves on, perhaps storing or publishing something: what it owed
\* and what it stored must be owed by it or findable afterwards.
LEMMA MoveFindable ==
    ASSUME IInv, FindableUnlessFailed, NEW c \in Callers, NEW r, Goto(c, r),
           overlap' = overlap, failures' = failures,
           EverStored \subseteq EverStored', EverStored' \subseteq Entities,
           ~overlap => ~r.raced /\ Known(r)',
           \A e \in Entities : inner[e] > 0 => inner'[e] > 0,
           failures = 0 /\ ~overlap =>
               /\ \A e \in EverStored' : e \in EverStored \/ Owes(r, e)
               /\ \A e \in Entities : Owes(task[c], e) => Owes(r, e) \/ inner'[e] > 0
    PROVE  FindableUnlessFailed'
<1>1. task'[c] = r /\ \A k \in Callers : k # c => task'[k] = task[k]
  BY DEF Goto, IInv, CallersFit
<1>2. ASSUME ~overlap, NEW k \in Callers PROVE ~task'[k].raced /\ Known(task[k])'
  <2>1. CASE k = c
    BY <1>1, <1>2, <2>1 DEF Known
  <2>2. CASE k # c
    BY <1>1, <1>2, <2>2 DEF Known, FindableUnlessFailed
  <2> QED
    BY <2>1, <2>2
<1>3. ASSUME failures = 0, ~overlap, NEW e \in EverStored'
      PROVE  inner'[e] > 0 \/ \E k \in Callers : Owes(task'[k], e)
  <2>1. CASE Owes(r, e)
    BY <1>1, <2>1
  <2>2. CASE ~Owes(r, e)
    <3>1. e \in EverStored /\ e \in Entities
      BY <1>3, <2>2
    <3>2. inner[e] > 0 \/ \E k \in Callers : Owes(task[k], e)
      BY <1>3, <3>1 DEF FindableUnlessFailed
    <3>3. ASSUME NEW k \in Callers, Owes(task[k], e)
          PROVE  inner'[e] > 0 \/ \E j \in Callers : Owes(task'[j], e)
      <4>1. CASE k = c
        BY <1>3, <2>2, <3>1, <3>3, <4>1
      <4>2. CASE k # c
        BY <1>1, <3>3, <4>2
      <4> QED
        BY <4>1, <4>2
    <3> QED
      BY <3>1, <3>2, <3>3
  <2> QED
    BY <2>1, <2>2
<1> QED
  BY <1>2, <1>3 DEF FindableUnlessFailed, Owes

\* The common case: nothing is stored, and the caller owes what it owed.
LEMMA SameFindable ==
    ASSUME IInv, FindableUnlessFailed, NEW c \in Callers, NEW r, Goto(c, r),
           overlap' = overlap, failures' = failures, inner' = inner,
           EverStored' = EverStored, r.pc # "append", r.raced = task[c].raced \/ ~r.raced,
           r.added = task[c].added
    PROVE  FindableUnlessFailed'
<1>1. EverStored' \subseteq Entities
  BY EverType DEF IInv
<1>2. ~overlap => ~r.raced /\ Known(r)'
  BY DEF Known, FindableUnlessFailed
<1>3. \A e \in Entities : Owes(task[c], e) => Owes(r, e)
  BY DEF Owes
<1> QED
  BY <1>1, <1>2, <1>3, MoveFindable

\* An entity the caller has just stored is one it owes, or was known before.
LEMMA UpsertFindable ==
    ASSUME IInv, FindableUnlessFailed, NEW c \in Callers, NEW sources \in SUBSET Docs,
           Store!upsert_entity(Tenant, IdOf[Name(c)], sources),
           task[c].pc \in {"create", "append"}, NEW added,
           \/ added = Append(task[c].added, IdOf[Name(c)])
           \/ added = task[c].added /\ task[c].pc = "append",
           Goto(c, [Resolved(task[c], IdOf[Name(c)]) EXCEPT !.added = added]),
           UNCHANGED <<inner, overlap, failures>>
    PROVE  FindableUnlessFailed'
<1>1. PICK q \in Task : q = task[c]
  BY DEF IInv, CallersFit
<1>2. PICK id \in Entities : id = IdOf[Name(c)]
  BY NameType DEF IInv
<1>3. PICK s \in Task : s = Resolved(task[c], id)
  BY <1>2, ResolvedFits DEF IInv
<1>4. s.pc \in {"resolve", "link"} /\ s.raced = q.raced
  BY <1>1, <1>2, <1>3, ResolvedFits DEF IInv
<1>5. PICK r : r = [s EXCEPT !.added = added]
  OBVIOUS
<1>6. r.pc = s.pc /\ r.raced = q.raced /\ r.added = added
  BY <1>4, <1>5 DEF Task
<1>7. Goto(c, r)
  BY <1>2, <1>3, <1>5
<1>8. EverStored' = EverStored \cup {id} /\ EverStored' \subseteq Entities
  BY <1>2, UpsertEntityEver, EverType DEF IInv
<1>9. ~overlap => ~r.raced /\ Known(r)'
  BY <1>1, <1>4, <1>6 DEF Known, FindableUnlessFailed
<1>10. \A e \in Entities : Owes(q, e) => Owes(r, e)
  <2>1. q.added \in Seq(Entities)
    BY DEF Task
  <2>2. added = Append(q.added, id) \/ added = q.added
    BY <1>1, <1>2
  <2> QED
    BY <1>6, <2>1, <2>2 DEF Owes
<1>11. ~overlap => id \in EverStored \/ Owes(r, id)
  <2>1. CASE added = Append(q.added, id)
    <3>1. q.added \in Seq(Entities)
      BY DEF Task
    <3>2. Len(added) = Len(q.added) + 1 /\ added[Len(q.added) + 1] = id
          /\ Len(q.added) + 1 \in 1..Len(added)
      BY <2>1, <3>1
    <3> QED
      BY <1>6, <3>2 DEF Owes
  <2>2. CASE q.pc = "append"
    BY <1>1, <1>2, <2>2 DEF FindableUnlessFailed, Known, Name
  <2> QED
    BY <1>1, <1>2, <2>1, <2>2
<1> QED
  BY <1>1, <1>7, <1>8, <1>9, <1>10, <1>11, MoveFindable

LEMMA AbortFindable ==
    ASSUME IInv, FindableUnlessFailed, NEW c \in Callers, Abort(c)
    PROVE  FindableUnlessFailed'
<1>1. /\ Goto(c, Idle) /\ failures' = failures + 1 /\ UNCHANGED <<tenants, overlap>>
  BY DEF Abort, historyVars
<1>2. failures' \in Nat /\ failures' # 0
  BY <1>1 DEF FindableUnlessFailed
<1>3. task'[c] = Idle /\ \A k \in Callers : k # c => task'[k] = task[k]
  BY <1>1 DEF Goto, IInv, CallersFit
<1>4. EverStored' = EverStored
  BY <1>1 DEF EverStored, stored
<1>5. ASSUME ~overlap, NEW k \in Callers PROVE ~task'[k].raced /\ Known(task[k])'
  <2>1. CASE k = c
    BY <1>3, <2>1 DEF Known, Idle
  <2>2. CASE k # c
    BY <1>3, <1>4, <1>5, <2>2 DEF Known, FindableUnlessFailed
  <2> QED
    BY <2>1, <2>2
<1> QED
  BY <1>1, <1>2, <1>5 DEF FindableUnlessFailed

LEMMA ResolveFindable ==
    ASSUME IInv, FindableUnlessFailed, NEW c \in Callers, resolve(c)
    PROVE  FindableUnlessFailed'
<1>1. task[c] \in Task /\ task[c].pc = "resolve"
      /\ UNCHANGED <<tenants, inner, overlap, failures>>
  BY DEF IInv, CallersFit, resolve, indexVars, countVars, historyVars
<1>2. PICK id \in Entities : id = IdOf[Name(c)]
  BY <1>1, NameType DEF IInv
<1>3. EverStored' = EverStored
  BY <1>1 DEF EverStored, stored
<1>4. CASE Goto(c, Resolved(task[c], id))
  <2>1. PICK r \in Task : r = Resolved(task[c], id) /\ r.pc \in {"resolve", "link"}
                          /\ r.raced = task[c].raced /\ r.added = task[c].added
    BY <1>1, <1>2, ResolvedFits DEF IInv
  <2> QED
    BY <1>1, <1>3, <1>4, <2>1, SameFindable
<1>5. CASE Goto(c, [task[c] EXCEPT !.pc = "embed"])
  <2>1. PICK r : r = [task[c] EXCEPT !.pc = "embed"]
    OBVIOUS
  <2>2. r.pc = "embed" /\ r.raced = task[c].raced /\ r.added = task[c].added
    BY <1>1, <2>1 DEF Task
  <2> QED
    BY <1>1, <1>3, <1>5, <2>1, <2>2, SameFindable
<1>6. CASE id \in DOMAIN stored
           /\ Goto(c, [task[c] EXCEPT !.pc = "append", !.sources = stored[id]])
  <2>1. PICK r : r = [task[c] EXCEPT !.pc = "append", !.sources = stored[id]]
    OBVIOUS
  <2>2. /\ r.pc = "append" /\ r.raced = task[c].raced /\ r.added = task[c].added
        /\ r.triples = task[c].triples /\ r.ids = task[c].ids
    BY <1>1, <2>1 DEF Task
  <2>3. id = IdOf[Head(r.triples)[Len(r.ids) + 1]]
    BY <1>2, <2>2 DEF Name
  <2>4. Known(r)'
    BY <1>3, <1>6, <2>3 DEF Known, EverStored
  <2>5. ~overlap => ~r.raced /\ Known(r)'
    BY <2>2, <2>4 DEF FindableUnlessFailed
  <2>6. \A e \in Entities : Owes(task[c], e) => Owes(r, e)
    BY <2>2 DEF Owes
  <2> QED
    BY <1>1, <1>3, <1>6, <2>1, <2>5, <2>6, EverType, MoveFindable DEF IInv
<1> QED
  BY <1>2, <1>4, <1>5, <1>6 DEF resolve

LEMMA IndexFindable ==
    ASSUME IInv, FindableUnlessFailed, NEW c \in Callers, index(c)
    PROVE  FindableUnlessFailed'
<1>1. PICK q \in Task : q = task[c]
  BY DEF IInv, CallersFit
<1>2. /\ q.pc = "index" /\ q.added # <<>> /\ Tracked(q) /\ Kept(q)
      /\ UNCHANGED <<tenants, inner, overlap, failures>>
  BY <1>1 DEF IInv, CallersFit, Fits, index, countVars, historyVars
<1>3. EverStored' = EverStored
  BY <1>2 DEF EverStored, stored
<1>4. CASE Head(q.added) \in DOMAIN stored
  <2>1. PICK r : r = [q EXCEPT !.pc = "publish"]
    OBVIOUS
  <2>2. r.pc = "publish" /\ r.raced = q.raced /\ r.added = q.added /\ Goto(c, r)
    BY <1>1, <1>4, <2>1 DEF Task, index
  <2> QED
    BY <1>1, <1>2, <1>3, <2>2, SameFindable
<1>5. CASE Head(q.added) \notin DOMAIN stored
  <2>1. q.raced
    <3>1. Head(q.added) = q.added[1] /\ 1 \in 1..Len(q.added)
      BY <1>2 DEF Task
    <3> QED
      BY <1>2, <1>5, <3>1 DEF Tracked, Kept, Sourced
  <2>2. overlap
    BY <1>1, <2>1 DEF FindableUnlessFailed
  <2> QED
    BY <1>2, <2>2 DEF FindableUnlessFailed
<1> QED
  BY <1>4, <1>5

LEMMA PublishFindable ==
    ASSUME IInv, FindableUnlessFailed, NEW c \in Callers, publish(c)
    PROVE  FindableUnlessFailed'
<1>1. PICK q \in Task : q = task[c]
  BY DEF IInv, CallersFit
<1>2. /\ q.pc = "publish" /\ Placed(q)
      /\ UNCHANGED <<tenants, overlap, failures>>
  BY <1>1 DEF IInv, CallersFit, Fits, publish, countVars, historyVars
<1>3. q.added \in Seq(Entities) /\ q.added # <<>> /\ Head(q.added) \in Entities
  BY <1>2 DEF Placed, Task
<1>4. PICK r : r = [q EXCEPT !.pc = "index", !.added = Tail(@)]
  OBVIOUS
<1>5. r.pc = "index" /\ r.raced = q.raced /\ r.added = Tail(q.added) /\ Goto(c, r)
  BY <1>1, <1>4 DEF Task, publish
<1>6. EverStored' = EverStored
  BY <1>2 DEF EverStored, stored
<1>7. inner' = [inner EXCEPT ![Head(q.added)] = @ + 1]
  BY <1>1 DEF publish
<1>8. \A e \in Entities : (inner[e] > 0 => inner'[e] > 0) /\ inner'[Head(q.added)] > 0
  BY <1>3, <1>7 DEF IInv, IndexFits
<1>9. \A e \in Entities : Owes(q, e) => e = Head(q.added) \/ Owes(r, e)
  <2> SUFFICES ASSUME NEW e \in Entities, NEW i \in 1..Len(q.added), q.added[i] = e
               PROVE  e = Head(q.added) \/ Owes(r, e)
    BY DEF Owes
  <2>1. CASE i = 1
    BY <1>3, <2>1
  <2>2. CASE i # 1
    <3>1. i - 1 \in 1..Len(Tail(q.added)) /\ Tail(q.added)[i - 1] = q.added[i]
      BY <1>3, <2>2
    <3> QED
      BY <1>5, <3>1 DEF Owes
  <2> QED
    BY <2>1, <2>2
<1>10. ~overlap => ~r.raced /\ Known(r)'
  BY <1>1, <1>5 DEF Known, FindableUnlessFailed
<1> QED
  BY <1>1, <1>2, <1>5, <1>6, <1>8, <1>9, <1>10, EverType, MoveFindable DEF IInv

\* Steps that store nothing new and leave what is owed alone.
LEMMA LinkFindable ==
    ASSUME IInv, FindableUnlessFailed, NEW c \in Callers, link(c) \/ link_refused(c)
    PROVE  FindableUnlessFailed'
<1>1. PICK q \in Task : q = task[c]
  BY DEF IInv, CallersFit
<1>2. /\ q.pc = "link" /\ Placed(q) /\ Tracked(q)
      /\ UNCHANGED <<inner, overlap, failures>>
  BY <1>1 DEF IInv, CallersFit, Fits, link, link_refused, indexVars, countVars, historyVars
<1>3. PICK s \in Task : s = AfterTriple(q) /\ s.added = q.added /\ s.raced = q.raced
  BY <1>2, AfterTripleFits
<1>4. s.pc # "append"
  BY <1>3 DEF AfterTriple, AfterTriples, Task
<1>5. CASE link(c)
  <2>1. EverStored' = EverStored
    BY <1>5, UpsertEdgeEver DEF link, IInv
  <2>2. Goto(c, s)
    BY <1>1, <1>3, <1>5 DEF link
  <2> QED
    BY <1>1, <1>2, <1>3, <1>4, <2>1, <2>2, SameFindable
<1>6. CASE link_refused(c)
  <2>1. EverStored' = EverStored
    BY <1>6 DEF link_refused, EverStored, stored
  <2>2. PICK r : r = [s EXCEPT !.skipped = @ + 1]
    OBVIOUS
  <2>3. Goto(c, r)
    BY <1>1, <1>3, <1>6, <2>2 DEF link_refused
  <2>4. r.pc = s.pc /\ r.added = s.added /\ r.raced = s.raced
    BY <2>2 DEF Task
  <2> QED
    BY <1>1, <1>2, <1>3, <1>4, <2>1, <2>3, <2>4, SameFindable
<1> QED
  BY <1>5, <1>6

LEMMA ProceedFindable ==
    ASSUME IInv, FindableUnlessFailed, NEW c \in Callers, Proceed(c)
    PROVE  FindableUnlessFailed'
<1>1. PICK q \in Task : q = task[c] /\ Placed(q)
  BY DEF IInv, CallersFit, Fits
<1>2. UNCHANGED tenants => EverStored' = EverStored
  BY DEF EverStored, stored
<1>3. ASSUME NEW action \in Actions, writer_step(c, action) PROVE FindableUnlessFailed'
  <2>1. PICK r : r = [q EXCEPT !.triples = action, !.pc = AfterTriples(action)]
    OBVIOUS
  <2>2. r.pc # "append" /\ r.raced = q.raced /\ r.added = q.added
    BY <2>1 DEF AfterTriples, Task
  <2>3. Goto(c, r) /\ UNCHANGED <<tenants, inner, overlap, failures>>
    BY <1>1, <1>3, <2>1 DEF writer_step, indexVars, countVars, historyVars
  <2> QED
    BY <1>1, <1>2, <2>2, <2>3, SameFindable
<1>4. ASSUME embed(c) PROVE FindableUnlessFailed'
  <2>1. PICK r : r = [q EXCEPT !.pc = "create"]
    OBVIOUS
  <2>2. r.pc # "append" /\ r.raced = q.raced /\ r.added = q.added
    BY <2>1 DEF Task
  <2>3. Goto(c, r) /\ UNCHANGED <<tenants, inner, overlap, failures>>
    BY <1>1, <1>4, <2>1 DEF embed, indexVars, countVars, historyVars
  <2> QED
    BY <1>1, <1>2, <2>2, <2>3, SameFindable
<1>5. ASSUME create(c) PROVE FindableUnlessFailed'
  <2>1. /\ task[c].pc = "create" /\ Store!upsert_entity(Tenant, IdOf[Name(c)], {Doc(c)})
        /\ UNCHANGED <<inner, overlap, failures>>
    BY <1>5 DEF create, indexVars, countVars, historyVars
  <2>2. Resolved(task[c], IdOf[Name(c)]).added = task[c].added /\ Doc(c) \in Docs
    BY <2>1, ResolvedFits, DocType DEF IInv
  <2>3. PICK added : added = Append(task[c].added, IdOf[Name(c)])
    OBVIOUS
  <2>4. Goto(c, [Resolved(task[c], IdOf[Name(c)]) EXCEPT !.added = added])
    BY <1>5, <2>2, <2>3 DEF create
  <2>5. PICK sources \in SUBSET Docs : sources = {Doc(c)}
    BY <2>2
  <2>6. Store!upsert_entity(Tenant, IdOf[Name(c)], sources)
    BY <2>1, <2>5
  <2> QED
    BY <2>1, <2>3, <2>4, <2>6, UpsertFindable
<1>6. ASSUME append(c) PROVE FindableUnlessFailed'
  <2>1. task[c].pc = "append" /\ Doc(c) \in Docs /\ UNCHANGED <<inner, overlap, failures>>
    BY <1>6, DocType DEF append, indexVars, countVars, historyVars, IInv
  <2>2. PICK sources \in SUBSET Docs : sources = task[c].sources \cup {Doc(c)}
    BY <1>1, <2>1 DEF Task
  <2>3. Store!upsert_entity(Tenant, IdOf[Name(c)], sources)
    BY <1>6, <2>2 DEF append
  <2>4. PICK added : added = task[c].added
    OBVIOUS
  <2>5. /\ Resolved(task[c], IdOf[Name(c)]).added = task[c].added
        /\ Resolved(task[c], IdOf[Name(c)]) \in Task
    BY <2>1, ResolvedFits DEF IInv
  <2>6. Resolved(task[c], IdOf[Name(c)])
           = [Resolved(task[c], IdOf[Name(c)]) EXCEPT !.added = added]
    BY <2>4, <2>5 DEF Task
  <2>7. Goto(c, [Resolved(task[c], IdOf[Name(c)]) EXCEPT !.added = added])
    BY <1>6, <2>6 DEF append
  <2> QED
    BY <2>1, <2>3, <2>4, <2>7, UpsertFindable
<1>7. ASSUME finish(c) PROVE FindableUnlessFailed'
  <2>1. q.added = <<>> /\ UNCHANGED <<tenants, inner, overlap, failures>>
    BY <1>1, <1>7 DEF finish, indexVars, countVars
  <2>2. PICK r : Goto(c, r) /\ r \in {Idle, [Idle EXCEPT !.pc = "write",
                                                         !.queue = Tail(task[c].queue)]}
    BY <1>7 DEF finish
  <2>3. Idle \in Task /\ Idle.pc = "idle" /\ Idle.added = <<>> /\ ~Idle.raced
    BY IdleFits DEF Idle
  <2>4. r.pc # "append" /\ r.added = <<>> /\ ~r.raced
    BY <2>2, <2>3 DEF Task
  <2> QED
    BY <1>1, <1>2, <2>1, <2>2, <2>4, SameFindable
<1> QED
  BY <1>3, <1>4, <1>5, <1>6, <1>7, AbortFindable, ResolveFindable, LinkFindable,
     IndexFindable, PublishFindable DEF Proceed, writer_fails, embed_fails

\* Nobody moves.
LEMMA StandFindable ==
    ASSUME IInv, FindableUnlessFailed, UNCHANGED <<task, inner, overlap, failures>>,
           EverStored' = EverStored
    PROVE  FindableUnlessFailed'
BY DEF FindableUnlessFailed, Known, Owes

LEMMA NextFindable == IInv /\ FindableUnlessFailed /\ [Next]_vars => FindableUnlessFailed'
<1> SUFFICES ASSUME IInv, FindableUnlessFailed, [Next]_vars PROVE FindableUnlessFailed'
  OBVIOUS
<1>1. UNCHANGED tenants => EverStored' = EverStored
  BY DEF EverStored, stored
<1>2. ASSUME NEW c \in Callers, NEW docs \in Batches, ingest(c, docs)
      PROVE  FindableUnlessFailed'
  <2>1. PICK q \in Task : q = task[c] /\ Placed(q) /\ q.pc = "idle"
    BY <1>2 DEF IInv, CallersFit, Fits, ingest
  <2>2. PICK r : r = [Idle EXCEPT !.pc = "write", !.queue = docs]
    OBVIOUS
  <2>3. Idle \in Task /\ Idle.added = <<>> /\ ~Idle.raced
    BY IdleFits DEF Idle
  <2>4. r.pc = "write" /\ r.added = <<>> /\ ~r.raced /\ q.added = <<>>
    BY <2>1, <2>2, <2>3 DEF Task, Placed
  <2>5. Goto(c, r) /\ UNCHANGED <<tenants, inner, overlap, failures>>
    BY <1>2, <2>2 DEF ingest, indexVars, historyVars
  <2> QED
    BY <1>1, <2>1, <2>4, <2>5, SameFindable
<1>3. ASSUME NEW c \in Callers, Proceed(c) PROVE FindableUnlessFailed'
  BY <1>3, ProceedFindable
<1>4. CASE snapshot
  <2>1. Store!snapshot(Tenant) /\ UNCHANGED <<task, inner, overlap, failures>>
    BY <1>4 DEF snapshot, indexVars, countVars, historyVars
  <2> QED
    BY <2>1, SnapshotEver, StandFindable DEF IInv
<1>5. ASSUME NEW snap \in DOMAIN tenants[Tenant].snapshots, restore(snap)
      PROVE  FindableUnlessFailed'
  <2>1. /\ Store!restore(Tenant, snap) /\ UNCHANGED <<inner, failures>>
        /\ overlap' = (overlap \/ ~Quiet)
        /\ task' = [c \in Callers |-> [task[c] EXCEPT !.raced = task[c].pc # "idle"]]
    BY <1>5 DEF restore, indexVars
  <2>2. EverStored' \subseteq EverStored
    BY <2>1, RestoreEver DEF IInv
  <2>3. ASSUME NEW c \in Callers
        PROVE  /\ task'[c].raced = (task[c].pc # "idle") /\ task'[c].pc = task[c].pc
               /\ task'[c].added = task[c].added
    BY <2>1 DEF IInv, CallersFit, Task
  <2>4. ASSUME ~overlap', NEW c \in Callers PROVE ~task'[c].raced /\ Known(task[c])'
    <3>1. task[c].pc = "idle"
      BY <2>1, <2>4 DEF Quiet
    <3> QED
      BY <2>3, <3>1 DEF Known
  <2>5. ASSUME failures = 0, ~overlap', NEW e \in EverStored'
        PROVE  inner[e] > 0 \/ \E c \in Callers : Owes(task'[c], e)
    <3>1. inner[e] > 0 \/ \E c \in Callers : Owes(task[c], e)
      BY <2>1, <2>2, <2>5 DEF FindableUnlessFailed
    <3> QED
      BY <2>3, <3>1 DEF Owes
  <2> QED
    BY <2>1, <2>4, <2>5 DEF FindableUnlessFailed, Owes
<1>6. CASE UNCHANGED vars
  <2>1. UNCHANGED <<tenants, task, inner, overlap, failures>>
    BY <1>6 DEF vars, indexVars, countVars, historyVars
  <2> QED
    BY <1>1, <2>1, StandFindable
<1> QED
  BY <1>2, <1>3, <1>4, <1>5, <1>6 DEF Next

\* For any callers that create and index the same entities at the same time:
\* if nothing failed and no restore ran into an ingest, every stored entity
\* can be found between ingests (engine.rs, "Auto-index newly-added entities").
THEOREM StoredAlwaysIndexed == Spec => []StoredIsIndexed
<1>1. Init => FindableUnlessFailed
  <2> SUFFICES ASSUME Init PROVE FindableUnlessFailed
    OBVIOUS
  <2>1. tenants[Tenant] = Store!EmptyTenant
    BY DEF Init, Store!Init
  <2>2. EverStored = {}
    BY <2>1 DEF EverStored, stored, Store!EmptyTenant, Store!EmptyMap
  <2> QED
    BY <2>2 DEF Init, FindableUnlessFailed, Known, Idle
<1>2. IInv /\ FindableUnlessFailed => StoredIsIndexed
  <2> SUFFICES ASSUME IInv, FindableUnlessFailed, failures = 0, ~overlap, Quiet,
                      NEW e \in DOMAIN stored
               PROVE  inner[e] > 0
    BY DEF StoredIsIndexed
  <2>1. inner[e] > 0 \/ \E c \in Callers : Owes(task[c], e)
    BY DEF FindableUnlessFailed, EverStored
  <2>2. ASSUME NEW c \in Callers PROVE ~Owes(task[c], e)
    <3>1. task[c].added = <<>>
      BY DEF Quiet, IInv, CallersFit, Fits, Placed
    <3>2. Len(<<>>) = 0
      OBVIOUS
    <3> QED
      BY <3>1, <3>2 DEF Owes
  <2> QED
    BY <2>1, <2>2
<1> QED
  BY <1>1, <1>2, NextFindable, Inductive, PTL DEF Spec

-----------------------------------------------------------------------------
(***************************************************************************)
(* How often an entity is indexed.                                         *)
(***************************************************************************)

LEMMA InChargeType ==
    \A e : /\ IsFiniteSet(InCharge(e)) /\ Cardinality(InCharge(e)) \in Nat
           /\ Cardinality(InCharge(e)) <= Cardinality(Callers)
           /\ Cardinality(Callers) \in Nat
<1> TAKE e
<1>1. InCharge(e) \subseteq Callers /\ IsFiniteSet(Callers)
  BY EngineAssumption DEF InCharge
<1>2. IsFiniteSet(InCharge(e)) /\ Cardinality(InCharge(e)) <= Cardinality(Callers)
  BY <1>1, FS_Subset
<1> QED
  BY <1>1, <1>2, FS_CardinalityType

\* One caller moves on and takes charge of nothing but entities that nobody
\* has indexed yet.
LEMMA MoveCharged ==
    ASSUME IInv, ChargesBounded, NEW c \in Callers, NEW r, Goto(c, r),
           restores' = restores, id_map' = id_map, DOMAIN stored \subseteq DOMAIN stored',
           restores = 0 =>
               /\ ~r.raced /\ NoTwice(r)
               /\ \A e \in Entities : Charged(r, e) => Charged(task[c], e) \/ id_map[e] = 0
    PROVE  ChargesBounded'
<1>1. task'[c] = r /\ \A k \in Callers : k # c => task'[k] = task[k]
  BY DEF Goto, IInv, CallersFit
<1>2. ASSUME restores = 0, NEW k \in Callers PROVE ~task'[k].raced /\ NoTwice(task'[k])
  BY <1>1, <1>2 DEF ChargesBounded
<1>3. ASSUME restores = 0, NEW e \in Entities
      PROVE  id_map[e] + Cardinality(InCharge(e)') <= Cardinality(Callers)
  <2>1. /\ IsFiniteSet(InCharge(e)) /\ Cardinality(InCharge(e)) \in Nat
        /\ Cardinality(Callers) \in Nat /\ id_map[e] \in Nat
        /\ id_map[e] + Cardinality(InCharge(e)) <= Cardinality(Callers)
    BY <1>3, InChargeType DEF ChargesBounded, IInv, IndexFits
  <2>2. CASE id_map[e] = 0
    <3>1. InCharge(e)' \subseteq Callers /\ IsFiniteSet(Callers)
      BY EngineAssumption DEF InCharge
    <3>2. Cardinality(InCharge(e)') \in Nat /\ Cardinality(InCharge(e)') <= Cardinality(Callers)
      BY <3>1, FS_Subset, FS_CardinalityType
    <3> QED
      BY <2>1, <2>2, <3>2
  <2>3. CASE id_map[e] # 0
    <3>1. Charged(r, e) => Charged(task[c], e)
      BY <1>3, <2>3
    <3>2. InCharge(e)' \subseteq InCharge(e)
      <4> SUFFICES ASSUME NEW k \in Callers, Charged(task'[k], e) PROVE Charged(task[k], e)
        BY DEF InCharge, Charged, Creating, Pending
      <4> QED
        BY <1>1, <3>1
    <3>3. Cardinality(InCharge(e)') \in Nat
          /\ Cardinality(InCharge(e)') <= Cardinality(InCharge(e))
      BY <2>1, <3>2, FS_Subset, FS_CardinalityType
    <3> QED
      BY <2>1, <3>3
  <2> QED
    BY <2>2, <2>3
<1> QED
  BY <1>2, <1>3 DEF ChargesBounded, NoTwice, Creating

\* A caller that is not creating anything and owes what it owed, or nothing.
LEMMA IdleCharged ==
    ASSUME IInv, ChargesBounded, NEW c \in Callers, NEW r, Goto(c, r),
           restores' = restores, id_map' = id_map, DOMAIN stored \subseteq DOMAIN stored',
           r.raced = task[c].raced \/ ~r.raced,
           r.added = task[c].added \/ r.added = <<>>,
           r.pc \notin {"embed", "create", "publish"}, task[c].pc # "publish"
    PROVE  ChargesBounded'
<1>1. Len(<<>>) = 0
  OBVIOUS
<1>2. \A e : ~Creating(r, e)
  BY DEF Creating
<1>3. restores = 0 => ~r.raced /\ NoTwice(task[c])
  BY DEF ChargesBounded
<1>4. CASE r.added = task[c].added
  <2>1. restores = 0 => NoTwice(r)
    BY <1>2, <1>3, <1>4 DEF NoTwice
  <2>2. \A e \in Entities : Charged(r, e) => Charged(task[c], e)
    BY <1>2, <1>4 DEF Charged, Pending
  <2> QED
    BY <1>3, <2>1, <2>2, MoveCharged
<1>5. CASE r.added = <<>>
  <2>1. NoTwice(r) /\ \A e \in Entities : ~Charged(r, e)
    BY <1>1, <1>2, <1>5 DEF NoTwice, Charged, Pending
  <2> QED
    BY <1>3, <2>1, MoveCharged
<1> QED
  BY <1>4, <1>5

LEMMA ResolveCharged ==
    ASSUME IInv, ChargesBounded, NEW c \in Callers, resolve(c)
    PROVE  ChargesBounded'
<1>1. PICK q \in Task : q = task[c] /\ Placed(q) /\ Tracked(q) /\ Kept(q)
  BY DEF IInv, CallersFit, Fits
<1>2. q.pc = "resolve" /\ UNCHANGED <<tenants, id_map, restores>>
  BY <1>1 DEF resolve, indexVars, countVars
<1>3. PICK id \in Entities : id = IdOf[Name(c)]
  BY <1>1, <1>2, NameType DEF IInv
<1>4. DOMAIN stored \subseteq DOMAIN stored'
  BY <1>2 DEF stored
<1>5. CASE Goto(c, Resolved(task[c], id))
  <2>1. PICK r \in Task : r = Resolved(task[c], id) /\ r.pc \in {"resolve", "link"}
                          /\ r.raced = task[c].raced /\ r.added = task[c].added
    BY <1>1, <1>2, <1>3, ResolvedFits DEF IInv
  <2> QED
    BY <1>1, <1>2, <1>4, <1>5, <2>1, IdleCharged
<1>6. CASE Goto(c, [task[c] EXCEPT !.pc = "append", !.sources = stored[id]])
  <2>1. PICK r : r = [task[c] EXCEPT !.pc = "append", !.sources = stored[id]]
    OBVIOUS
  <2>2. r.pc = "append" /\ r.raced = task[c].raced /\ r.added = task[c].added
    BY <1>1, <2>1 DEF Task
  <2> QED
    BY <1>1, <1>2, <1>4, <1>6, <2>1, <2>2, IdleCharged
<1>7. CASE id \notin DOMAIN stored /\ Goto(c, [task[c] EXCEPT !.pc = "embed"])
  <2>1. PICK r : r = [q EXCEPT !.pc = "embed"]
    OBVIOUS
  <2>2. /\ r.pc = "embed" /\ r.raced = q.raced /\ r.added = q.added
        /\ r.triples = q.triples /\ r.ids = q.ids
    BY <2>1 DEF Task
  <2>3. \A e : Creating(r, e) <=> e = id
    BY <1>1, <1>3, <2>2 DEF Creating, Name
  <2>4. \A e : Pending(r, e) => Pending(q, e)
    BY <1>2, <2>2 DEF Pending
  <2>5. ASSUME restores = 0
        PROVE  /\ ~r.raced /\ NoTwice(r)
               /\ \A e \in Entities : Charged(r, e) => Charged(q, e) \/ id_map[e] = 0
    <3>1. ~q.raced /\ NoTwice(q) /\ id_map[id] = 0
      BY <1>1, <1>7, <2>5 DEF ChargesBounded
    <3>2. \A i \in 1..Len(q.added) : q.added[i] \in DOMAIN stored
      BY <1>1, <3>1 DEF Tracked, Kept, Sourced
    <3>3. NoTwice(r)
      BY <1>7, <2>2, <2>3, <3>1, <3>2 DEF NoTwice
    <3> QED
      BY <2>2, <2>3, <2>4, <3>1, <3>3 DEF Charged
  <2>6. Goto(c, r)
    BY <1>1, <1>7, <2>1
  <2> QED
    BY <1>1, <1>2, <1>4, <2>5, <2>6, MoveCharged
<1> QED
  BY <1>3, <1>5, <1>6, <1>7 DEF resolve

LEMMA EmbedCharged ==
    ASSUME IInv, ChargesBounded, NEW c \in Callers, embed(c)
    PROVE  ChargesBounded'
<1>1. PICK q \in Task : q = task[c]
  BY DEF IInv, CallersFit
<1>2. q.pc = "embed" /\ UNCHANGED <<tenants, id_map, restores>>
  BY <1>1 DEF embed, indexVars, countVars
<1>3. PICK r : r = [q EXCEPT !.pc = "create"]
  OBVIOUS
<1>4. /\ r.pc = "create" /\ r.raced = q.raced /\ r.added = q.added
      /\ r.triples = q.triples /\ r.ids = q.ids
  BY <1>3 DEF Task
<1>5. \A e : (Creating(r, e) <=> Creating(q, e)) /\ (Pending(r, e) <=> Pending(q, e))
  BY <1>2, <1>4 DEF Creating, Pending
<1>6. restores = 0 => ~r.raced /\ NoTwice(r)
  BY <1>1, <1>4, <1>5 DEF ChargesBounded, NoTwice
<1>7. Goto(c, r) /\ DOMAIN stored \subseteq DOMAIN stored'
  BY <1>1, <1>2, <1>3 DEF embed, stored
<1> QED
  BY <1>1, <1>2, <1>5, <1>6, <1>7, MoveCharged DEF Charged

LEMMA CreateCharged ==
    ASSUME IInv, ChargesBounded, NEW c \in Callers, create(c)
    PROVE  ChargesBounded'
<1>1. PICK q \in Task : q = task[c] /\ q.pc = "create"
  BY DEF IInv, CallersFit, create
<1>2. PICK id \in Entities : id = IdOf[Name(c)]
  BY <1>1, NameType DEF IInv
<1>3. PICK s \in Task : s = Resolved(q, id)
  BY <1>1, <1>2, ResolvedFits DEF IInv
<1>4. s.pc \in {"resolve", "link"} /\ s.raced = q.raced /\ s.added = q.added
  BY <1>1, <1>2, <1>3, ResolvedFits DEF IInv
<1>5. PICK r : r = [s EXCEPT !.added = Append(@, id)]
  OBVIOUS
<1>6. r.pc = s.pc /\ r.raced = q.raced /\ r.added = Append(q.added, id)
  BY <1>4, <1>5 DEF Task
<1>7. Goto(c, r) /\ id_map' = id_map /\ restores' = restores
  BY <1>1, <1>2, <1>3, <1>5 DEF create, indexVars, countVars
<1>8. DOMAIN stored \subseteq DOMAIN stored'
  <2>1. Store!upsert_entity(Tenant, id, {Doc(c)})
    BY <1>2 DEF create
  <2>2. tenants'[Tenant].entities = Store!Put(tenants[Tenant].entities, id, {Doc(c)})
    BY <2>1, DataShape DEF IInv, Store!upsert_entity, Mem!TenantData
  <2> QED
    BY <2>2 DEF stored, Store!Put
<1>9. q.added \in Seq(Entities) /\ Creating(q, id)
  BY <1>1, <1>2 DEF Task, Creating, Name
<1>10. /\ Len(r.added) = Len(q.added) + 1 /\ r.added[Len(q.added) + 1] = id
       /\ \A i \in 1..Len(q.added) : r.added[i] = q.added[i]
       /\ Len(q.added) \in Nat
  BY <1>6, <1>9
<1>11. \A e : ~Creating(r, e)
  BY <1>4, <1>6 DEF Creating
<1>12. restores = 0 => ~r.raced /\ NoTwice(r)
  <2> SUFFICES ASSUME restores = 0 PROVE ~r.raced /\ NoTwice(r)
    OBVIOUS
  <2>1. ~q.raced /\ NoTwice(q)
    BY <1>1 DEF ChargesBounded
  <2>2. \A i \in 1..Len(q.added) : q.added[i] # id
    BY <1>9, <2>1 DEF NoTwice
  <2>3. ASSUME NEW i \in 1..Len(r.added), NEW j \in 1..Len(r.added), r.added[i] = r.added[j]
        PROVE  i = j
    <3>1. CASE i = Len(q.added) + 1 /\ j = Len(q.added) + 1
      BY <3>1
    <3>2. CASE i = Len(q.added) + 1 /\ j # Len(q.added) + 1
      BY <1>10, <2>2, <2>3, <3>2
    <3>3. CASE i # Len(q.added) + 1 /\ j = Len(q.added) + 1
      BY <1>10, <2>2, <2>3, <3>3
    <3>4. CASE i # Len(q.added) + 1 /\ j # Len(q.added) + 1
      <4>1. i \in 1..Len(q.added) /\ j \in 1..Len(q.added)
        BY <1>10, <3>4
      <4> QED
        BY <1>10, <2>1, <2>3, <4>1 DEF NoTwice
    <3> QED
      BY <3>1, <3>2, <3>3, <3>4
  <2> QED
    BY <1>6, <1>11, <2>1, <2>3 DEF NoTwice
<1>13. \A e \in Entities : Charged(r, e) => Charged(q, e)
  <2> SUFFICES ASSUME NEW e \in Entities, NEW i \in 1..Len(r.added), r.added[i] = e
               PROVE  Charged(q, e)
    BY <1>11 DEF Charged, Pending
  <2>1. CASE i = Len(q.added) + 1
    BY <1>9, <1>10, <2>1 DEF Charged
  <2>2. CASE i # Len(q.added) + 1
    <3>1. i \in 1..Len(q.added) /\ q.added[i] = e
      BY <1>10, <2>2
    <3> QED
      BY <1>1, <3>1 DEF Charged, Pending
  <2> QED
    BY <2>1, <2>2
<1> QED
  BY <1>1, <1>7, <1>8, <1>12, <1>13, MoveCharged

LEMMA AppendCharged ==
    ASSUME IInv, ChargesBounded, NEW c \in Callers, append(c)
    PROVE  ChargesBounded'
<1>1. task[c].pc = "append" /\ id_map' = id_map /\ restores' = restores
  BY DEF append, indexVars, countVars
<1>2. PICK id \in Entities : id = IdOf[Name(c)]
  BY <1>1, NameType DEF IInv
<1>3. PICK r \in Task : r = Resolved(task[c], id) /\ r.pc \in {"resolve", "link"}
                        /\ r.raced = task[c].raced /\ r.added = task[c].added
  BY <1>1, <1>2, ResolvedFits DEF IInv
<1>4. DOMAIN stored \subseteq DOMAIN stored'
  <2>1. Store!upsert_entity(Tenant, id, task[c].sources \cup {Doc(c)})
    BY <1>2 DEF append
  <2>2. tenants'[Tenant].entities
            = Store!Put(tenants[Tenant].entities, id, task[c].sources \cup {Doc(c)})
    BY <2>1, DataShape DEF IInv, Store!upsert_entity, Mem!TenantData
  <2> QED
    BY <2>2 DEF stored, Store!Put
<1>5. Goto(c, r)
  BY <1>2, <1>3 DEF append
<1> QED
  BY <1>1, <1>3, <1>4, <1>5, IdleCharged

LEMMA LinkCharged ==
    ASSUME IInv, ChargesBounded, NEW c \in Callers, link(c) \/ link_refused(c)
    PROVE  ChargesBounded'
<1>1. PICK q \in Task : q = task[c] /\ q.pc = "link" /\ Placed(q) /\ Tracked(q)
  BY DEF IInv, CallersFit, Fits, link, link_refused
<1>2. id_map' = id_map /\ restores' = restores
  BY DEF link, link_refused, indexVars, countVars
<1>3. PICK s \in Task : s = AfterTriple(q) /\ s.added = q.added /\ s.raced = q.raced
  BY <1>1, AfterTripleFits
<1>4. s.pc \in {"index", "resolve"}
  BY <1>3 DEF AfterTriple, AfterTriples, Task
<1>5. CASE link(c)
  <2>1. tenants'[Tenant].entities = tenants[Tenant].entities
    BY <1>5, DataShape DEF IInv, link, Store!upsert_edge, Mem!TenantData
  <2>2. DOMAIN stored \subseteq DOMAIN stored'
    BY <2>1 DEF stored
  <2>3. Goto(c, s)
    BY <1>1, <1>3, <1>5 DEF link
  <2> QED
    BY <1>1, <1>2, <1>3, <1>4, <2>2, <2>3, IdleCharged
<1>6. CASE link_refused(c)
  <2>1. DOMAIN stored \subseteq DOMAIN stored'
    BY <1>6 DEF link_refused, stored
  <2>2. PICK r : r = [s EXCEPT !.skipped = @ + 1]
    OBVIOUS
  <2>3. Goto(c, r)
    BY <1>1, <1>3, <1>6, <2>2 DEF link_refused
  <2>4. r.pc = s.pc /\ r.added = s.added /\ r.raced = s.raced
    BY <2>2 DEF Task
  <2> QED
    BY <1>1, <1>2, <1>3, <1>4, <2>1, <2>3, <2>4, IdleCharged
<1> QED
  BY <1>5, <1>6

\* An internal id is taken, and the caller is no longer in charge.
LEMMA IndexCharged ==
    ASSUME IInv, ChargesBounded, NEW c \in Callers, index(c)
    PROVE  ChargesBounded'
<1>1. PICK q \in Task : q = task[c] /\ Tracked(q) /\ Kept(q)
  BY DEF IInv, CallersFit, Fits
<1>2. q.pc = "index" /\ q.added # <<>> /\ UNCHANGED <<tenants, restores>>
  BY <1>1 DEF index, countVars
<1>3. PICK h \in Entities : h = Head(q.added)
  BY <1>2 DEF Task
<1>4. q.added \in Seq(Entities) /\ q.added[1] = h /\ 1 \in 1..Len(q.added)
  BY <1>2, <1>3 DEF Task
<1>5. CASE h \in DOMAIN stored
  <2>1. PICK r : r = [q EXCEPT !.pc = "publish"]
    OBVIOUS
  <2>2. r.pc = "publish" /\ r.raced = q.raced /\ r.added = q.added
    BY <2>1 DEF Task
  <2>3. Goto(c, r) /\ id_map' = [id_map EXCEPT ![h] = @ + 1]
    BY <1>1, <1>3, <1>5, <2>1 DEF index
  <2>4. task'[c] = r /\ \A k \in Callers : k # c => task'[k] = task[k]
    BY <2>3 DEF Goto, IInv, CallersFit
  <2>5. \A e : ~Creating(r, e) /\ ~Creating(q, e)
    BY <1>2, <2>2 DEF Creating
  <2>6. \A e : Pending(r, e) => Pending(q, e)
    BY <1>2, <2>2 DEF Pending
  <2>7. ASSUME restores = 0, NEW k \in Callers PROVE ~task'[k].raced /\ NoTwice(task'[k])
    <3>1. CASE k = c
      BY <1>1, <2>2, <2>4, <2>5, <2>7, <3>1 DEF ChargesBounded, NoTwice
    <3>2. CASE k # c
      BY <2>4, <2>7, <3>2 DEF ChargesBounded
    <3> QED
      BY <3>1, <3>2
  <2>8. ASSUME restores = 0, NEW e \in Entities
        PROVE  id_map'[e] + Cardinality(InCharge(e)') <= Cardinality(Callers)
    <3>1. /\ IsFiniteSet(InCharge(e)) /\ Cardinality(InCharge(e)) \in Nat
          /\ Cardinality(Callers) \in Nat /\ id_map[e] \in Nat
          /\ id_map[e] + Cardinality(InCharge(e)) <= Cardinality(Callers)
      BY <2>8, InChargeType DEF ChargesBounded, IInv, IndexFits
    <3>2. InCharge(e)' \subseteq InCharge(e)
      <4> SUFFICES ASSUME NEW k \in Callers, Charged(task'[k], e) PROVE Charged(task[k], e)
        BY DEF InCharge, Charged, Creating, Pending
      <4> QED
        BY <1>1, <2>4, <2>5, <2>6 DEF Charged
    <3>3. CASE e = h
      <4>1. c \in InCharge(e)
        BY <1>1, <1>2, <1>4, <3>3 DEF InCharge, Charged, Pending
      <4>2. c \notin InCharge(e)'
        <5>1. NoTwice(q)
          BY <1>1, <2>8 DEF ChargesBounded
        <5>2. ~Pending(r, e)
          BY <1>4, <2>2, <3>3, <5>1 DEF Pending, NoTwice
        <5>3. ~Charged(task'[c], e)
          BY <2>4, <2>5, <5>2 DEF Charged
        <5> QED
          BY <5>3 DEF InCharge, Charged, Creating, Pending
      <4>3. InCharge(e)' \subseteq InCharge(e) \ {c}
        BY <3>2, <4>2
      <4>4. /\ IsFiniteSet(InCharge(e) \ {c})
            /\ Cardinality(InCharge(e) \ {c}) = Cardinality(InCharge(e)) - 1
        BY <3>1, <4>1, FS_RemoveElement
      <4>5. Cardinality(InCharge(e)') \in Nat
            /\ Cardinality(InCharge(e)') <= Cardinality(InCharge(e) \ {c})
        BY <4>3, <4>4, FS_Subset, FS_CardinalityType
      <4>6. id_map'[e] = id_map[e] + 1
        BY <2>3, <3>3 DEF IInv, IndexFits
      <4> QED
        BY <3>1, <4>4, <4>5, <4>6
    <3>4. CASE e # h
      <4>1. Cardinality(InCharge(e)') \in Nat
            /\ Cardinality(InCharge(e)') <= Cardinality(InCharge(e))
        BY <3>1, <3>2, FS_Subset, FS_CardinalityType
      <4>2. id_map'[e] = id_map[e]
        BY <2>3, <3>4 DEF IInv, IndexFits
      <4> QED
        BY <3>1, <4>1, <4>2
    <3> QED
      BY <3>3, <3>4
  <2>9. ASSUME restores = 0, NEW e \in Entities, e \notin DOMAIN stored PROVE id_map'[e] = 0
    BY <1>5, <2>3, <2>9 DEF ChargesBounded, IInv, IndexFits
  <2> QED
    BY <1>2, <2>7, <2>8, <2>9 DEF ChargesBounded, NoTwice, Creating, stored
<1>6. CASE h \notin DOMAIN stored
  <2>1. q.raced
    BY <1>1, <1>4, <1>6 DEF Tracked, Kept, Sourced
  <2> QED
    BY <1>1, <1>2, <2>1 DEF ChargesBounded
<1> QED
  BY <1>5, <1>6

LEMMA PublishCharged ==
    ASSUME IInv, ChargesBounded, NEW c \in Callers, publish(c)
    PROVE  ChargesBounded'
<1>1. PICK q \in Task : q = task[c] /\ Placed(q)
  BY DEF IInv, CallersFit, Fits
<1>2. q.pc = "publish" /\ UNCHANGED <<tenants, id_map, restores>>
  BY <1>1 DEF publish, countVars
<1>3. q.added \in Seq(Entities) /\ q.added # <<>>
  BY <1>1, <1>2 DEF Placed, Task
<1>4. PICK r : r = [q EXCEPT !.pc = "index", !.added = Tail(@)]
  OBVIOUS
<1>5. r.pc = "index" /\ r.raced = q.raced /\ r.added = Tail(q.added) /\ Goto(c, r)
  BY <1>1, <1>4 DEF Task, publish
<1>6. \A i \in 1..Len(r.added) : i + 1 \in 1..Len(q.added) /\ r.added[i] = q.added[i + 1]
                                 /\ i + 1 # 1
  BY <1>3, <1>5
<1>7. \A e : ~Creating(r, e)
  BY <1>5 DEF Creating
<1>8. \A e : Charged(r, e) => Charged(q, e)
  BY <1>6, <1>7 DEF Charged, Pending
<1>9. restores = 0 => ~r.raced /\ NoTwice(r)
  <2> SUFFICES ASSUME restores = 0 PROVE ~r.raced /\ NoTwice(r)
    OBVIOUS
  <2>1. ~q.raced /\ NoTwice(q)
    BY <1>1 DEF ChargesBounded
  <2>2. ASSUME NEW i \in 1..Len(r.added), NEW j \in 1..Len(r.added), r.added[i] = r.added[j]
        PROVE  i = j
    <3>1. q.added[i + 1] = q.added[j + 1] /\ i + 1 \in 1..Len(q.added) /\ j + 1 \in 1..Len(q.added)
      BY <1>6, <2>2
    <3>2. i + 1 = j + 1
      BY <2>1, <3>1 DEF NoTwice
    <3> QED
      BY <3>2
  <2> QED
    BY <1>5, <1>7, <2>1, <2>2 DEF NoTwice
<1>10. DOMAIN stored \subseteq DOMAIN stored'
  BY <1>2 DEF stored
<1> QED
  BY <1>1, <1>2, <1>5, <1>8, <1>9, <1>10, MoveCharged

LEMMA ProceedCharged ==
    ASSUME IInv, ChargesBounded, NEW c \in Callers, Proceed(c)
    PROVE  ChargesBounded'
<1>1. PICK q \in Task : q = task[c]
  BY DEF IInv, CallersFit
<1>2. UNCHANGED tenants => DOMAIN stored \subseteq DOMAIN stored'
  BY DEF stored
<1>3. Idle \in Task /\ Idle.pc = "idle" /\ Idle.added = <<>> /\ ~Idle.raced
  BY IdleFits DEF Idle
<1>4. ASSUME NEW action \in Actions, writer_step(c, action) PROVE ChargesBounded'
  <2>1. PICK r : r = [q EXCEPT !.triples = action, !.pc = AfterTriples(action)]
    OBVIOUS
  <2>2. r.pc \in {"index", "resolve"} /\ r.raced = q.raced /\ r.added = q.added
    BY <2>1 DEF AfterTriples, Task
  <2>3. Goto(c, r) /\ q.pc = "write" /\ UNCHANGED <<tenants, id_map, restores>>
    BY <1>1, <1>4, <2>1 DEF writer_step, indexVars, countVars
  <2> QED
    BY <1>1, <1>2, <2>2, <2>3, IdleCharged
<1>5. ASSUME writer_fails(c) \/ embed_fails(c) PROVE ChargesBounded'
  <2>1. /\ Goto(c, Idle) /\ task[c].pc # "publish"
        /\ UNCHANGED <<tenants, id_map, restores>>
    BY <1>5 DEF writer_fails, embed_fails, Abort, indexVars
  <2> QED
    BY <1>2, <1>3, <2>1, IdleCharged
<1>6. ASSUME finish(c) PROVE ChargesBounded'
  <2>1. task[c].pc = "index" /\ UNCHANGED <<tenants, id_map, restores>>
    BY <1>6 DEF finish, indexVars, countVars
  <2>2. PICK r : Goto(c, r) /\ r \in {Idle, [Idle EXCEPT !.pc = "write",
                                                         !.queue = Tail(task[c].queue)]}
    BY <1>6 DEF finish
  <2>3. r.pc \in {"idle", "write"} /\ r.added = <<>> /\ ~r.raced
    BY <1>3, <2>2 DEF Task
  <2> QED
    BY <1>2, <2>1, <2>2, <2>3, IdleCharged
<1> QED
  BY <1>4, <1>5, <1>6, ResolveCharged, EmbedCharged, CreateCharged, AppendCharged,
     LinkCharged, IndexCharged, PublishCharged DEF Proceed

\* Nobody moves, and no entity is gone.
LEMMA StandCharged ==
    ASSUME IInv, ChargesBounded, UNCHANGED <<task, id_map, restores>>,
           DOMAIN stored \subseteq DOMAIN stored'
    PROVE  ChargesBounded'
<1>1. \A e : InCharge(e)' = InCharge(e)
  BY DEF InCharge, Charged, Creating, Pending
<1> QED
  BY <1>1 DEF ChargesBounded, NoTwice, Creating

LEMMA NextCharged == IInv /\ ChargesBounded /\ [Next]_vars => ChargesBounded'
<1> SUFFICES ASSUME IInv, ChargesBounded, [Next]_vars PROVE ChargesBounded'
  OBVIOUS
<1>1. ASSUME NEW c \in Callers, NEW docs \in Batches, ingest(c, docs) PROVE ChargesBounded'
  <2>1. PICK r : r = [Idle EXCEPT !.pc = "write", !.queue = docs]
    OBVIOUS
  <2>2. Idle \in Task /\ Idle.added = <<>> /\ ~Idle.raced
    BY IdleFits DEF Idle
  <2>3. r.pc = "write" /\ r.added = <<>> /\ ~r.raced
    BY <2>1, <2>2 DEF Task
  <2>4. Goto(c, r) /\ task[c].pc = "idle" /\ UNCHANGED <<tenants, id_map, restores>>
    BY <1>1, <2>1 DEF ingest, indexVars
  <2>5. DOMAIN stored \subseteq DOMAIN stored'
    BY <2>4 DEF stored
  <2> QED
    BY <2>3, <2>4, <2>5, IdleCharged
<1>2. ASSUME NEW c \in Callers, Proceed(c) PROVE ChargesBounded'
  BY <1>2, ProceedCharged
<1>3. CASE snapshot
  <2>1. Store!snapshot(Tenant) /\ UNCHANGED <<task, id_map, restores>>
    BY <1>3 DEF snapshot, indexVars, countVars
  <2>2. tenants'[Tenant].entities = tenants[Tenant].entities
    BY <2>1, DataShape DEF IInv, Store!snapshot, Mem!TenantData
  <2> QED
    BY <2>1, <2>2, StandCharged DEF stored
<1>4. ASSUME NEW snap \in DOMAIN tenants[Tenant].snapshots, restore(snap) PROVE ChargesBounded'
  <2>1. restores' = restores + 1
    BY <1>4 DEF restore
  <2>2. restores' \in Nat /\ restores' # 0
    BY <2>1 DEF ChargesBounded
  <2> QED
    BY <2>2 DEF ChargesBounded
<1>5. CASE UNCHANGED vars
  BY <1>5, StandCharged DEF vars, indexVars, countVars, stored
<1> QED
  BY <1>1, <1>2, <1>3, <1>4, <1>5 DEF Next

\* For any callers, documents and spellings: without restores an entity is
\* indexed at most once per caller (HnswIndex::insert, called by ingest).
THEOREM OnlyRacesReindex == Spec => []ReindexedOnlyByRaces
<1>1. Init => ChargesBounded
  <2> SUFFICES ASSUME Init PROVE ChargesBounded
    OBVIOUS
  <2>1. Len(<<>>) = 0
    OBVIOUS
  <2>2. \A c \in Callers : /\ ~task[c].raced /\ NoTwice(task[c])
                           /\ \A e : ~Charged(task[c], e)
    BY <2>1 DEF Init, Idle, NoTwice, Charged, Creating, Pending
  <2>3. \A e : 0 + Cardinality(InCharge(e)) <= Cardinality(Callers)
    BY InChargeType
  <2> QED
    BY <2>2, <2>3 DEF Init, ChargesBounded
<1>2. IInv /\ ChargesBounded => ReindexedOnlyByRaces
  <2> SUFFICES ASSUME IInv, ChargesBounded, restores = 0, NEW e \in Entities
               PROVE  id_map[e] <= Cardinality(Callers)
    BY DEF ReindexedOnlyByRaces
  <2>1. /\ id_map[e] \in Nat /\ Cardinality(InCharge(e)) \in Nat
        /\ Cardinality(Callers) \in Nat
        /\ id_map[e] + Cardinality(InCharge(e)) <= Cardinality(Callers)
    BY InChargeType DEF ChargesBounded, IInv, IndexFits
  <2> QED
    BY <2>1
<1> QED
  BY <1>1, <1>2, NextCharged, Inductive, PTL DEF Spec
=============================================================================
