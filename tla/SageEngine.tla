----------------------------- MODULE SageEngine -----------------------------
(***************************************************************************)
(* SageEngine (sage-runtime/src/engine.rs) with the writer's apply step    *)
(* (sage-writer/src/apply.rs) and the vector index (sage-embed/src/        *)
(* hnsw_index.rs) over a MemGraphStore.                                    *)
(*                                                                         *)
(* An engine is shared behind &self, so several ingest calls run at the    *)
(* same time, each a process that lets the others in at every await: the   *)
(* LLM call of the writer, every store call, and the embedder.  Snapshot   *)
(* and restore come in between, from whoever evolves the graph.  Names are *)
(* hashed to entities with their case folded, so two names may share an    *)
(* entity; what the LLM extracts from a document is any of Actions, the    *)
(* triples that survive the sanitizer.  The embedder is attached, so every *)
(* entity the writer creates carries an embedding.                         *)
(***************************************************************************)
EXTENDS Naturals, Sequences, FiniteSets

CONSTANTS
    Tenant,       \* the engine's tenant
    Entities, Docs,
    Names,        \* entity names the LLM may extract
    IdOf,         \* name_to_id: [Names -> Entities]
    Callers,      \* concurrent callers of ingest
    Actions,      \* what the LLM may extract: sequences of pairs of names
    Batches,      \* the document lists passed to ingest
    MaxIngests,   \* bound on the number of ingest calls
    MaxFailures,  \* bound on the failures of the LLM and of the embedder
    MaxRestores,  \* bound on the number of restores
    MaxListed, MaxEdges, MaxSnaps  \* the bounds of MemGraphStore

ASSUME EngineAssumption ==
    /\ IsFiniteSet(Callers)
    /\ IdOf \in [Names -> Entities]
    /\ Actions \subseteq Seq(Names \X Names)
    /\ Batches \subseteq Seq(Docs)
    /\ MaxIngests \in Nat /\ MaxFailures \in Nat /\ MaxRestores \in Nat
    /\ MaxListed \in Nat /\ MaxEdges \in Nat /\ MaxSnaps \in Nat

VARIABLES
    tenants,   \* the store
    task,      \* task[c]: where caller c is in its ingest call
    id_map,    \* HnswIndex.id_map: how many internal ids stand for an entity
    inner,     \* the HNSW graph: how many of those a search can find
    ingests, failures, restores,  \* how many so far, for the bounds
    landed,    \* history: <<d, e>> once the ingest of d, which names e, returned Ok
    overlap    \* history: some restore ran while an ingest was under way

Store == INSTANCE MemGraphStore WITH Tenants <- {Tenant}

indexVars == <<id_map, inner>>
countVars == <<ingests, failures, restores>>
historyVars == <<landed, overlap>>
vars == <<tenants, task, indexVars, countVars, historyVars>>

stored == tenants[Tenant].entities

-----------------------------------------------------------------------------
(***************************************************************************)
(* A caller of ingest.  pc names the await it is suspended in:             *)
(*   write    the writer's LLM call                                        *)
(*   resolve  get_entity for the next name of the triple at the head       *)
(*   embed    the embedder, for an entity that is not stored yet           *)
(*   create   upsert_entity of that new entity                             *)
(*   append   upsert_entity of an existing one, with the new provenance    *)
(*   link     upsert_edge between the two entities of the triple           *)
(*   index    get_entity for the next entity to index                      *)
(*   publish  between the two halves of HnswIndex::insert                  *)
(***************************************************************************)
Idle == [pc      |-> "idle",
         queue   |-> <<>>,     \* documents left, the current one first
         triples |-> <<>>,     \* triples of the current action left
         ids     |-> <<>>,     \* entities resolved for the first of them
         local   |-> {},       \* names resolved by this apply call
         sources |-> {},       \* source_docs as get_entity returned them
         added   |-> <<>>,     \* added_entity_ids left to index
         named   |-> {},       \* history: entities this action names
         skipped |-> 0,        \* triples_skipped
         raced   |-> FALSE]    \* history: a restore ran since the call started

Quiet == \A c \in Callers : task[c].pc = "idle"

Doc(c) == Head(task[c].queue)
Name(c) == Head(task[c].triples)[Len(task[c].ids) + 1]

Goto(c, r) == task' = [task EXCEPT ![c] = r]

\* The name is resolved: go on to the other end of the triple, or link them.
Resolved(r, id) ==
    [r EXCEPT !.ids = Append(@, id),
              !.local = @ \cup {Head(r.triples)[Len(r.ids) + 1]},
              !.named = @ \cup {id},
              !.sources = {},
              !.pc = IF r.ids = <<>> THEN "resolve" ELSE "link"]

\* Seeded fault: the call returns without indexing what it added.
AfterTriples_returns(triples) == IF triples = <<>> THEN "done" ELSE "resolve"

\* Where apply_action goes for its next triple: the next one, or the index.
AfterTriples(triples) == IF triples = <<>> THEN "index" ELSE "resolve"

Init ==
    /\ Store!Init
    /\ task = [c \in Callers |-> Idle]
    /\ id_map = [e \in Entities |-> 0]
    /\ inner = [e \in Entities |-> 0]
    /\ ingests = 0 /\ failures = 0 /\ restores = 0
    /\ landed = {} /\ overlap = FALSE

-----------------------------------------------------------------------------
ingest(c, docs) ==
    /\ task[c].pc = "idle"
    /\ ingests < MaxIngests
    /\ docs # <<>>
    /\ ingests' = ingests + 1
    /\ Goto(c, [Idle EXCEPT !.pc = "write", !.queue = docs])
    /\ UNCHANGED <<tenants, indexVars, failures, restores, historyVars>>

\* The first error ends the call: documents already ingested stay, the
\* entities this document already stored stay, the rest is never looked at.
Abort(c) ==
    /\ failures < MaxFailures
    /\ failures' = failures + 1
    /\ Goto(c, Idle)
    /\ UNCHANGED <<tenants, indexVars, ingests, restores, historyVars>>

writer_step(c, action) ==
    /\ task[c].pc = "write"
    /\ Goto(c, [task[c] EXCEPT !.triples = action, !.pc = AfterTriples(action)])
    /\ UNCHANGED <<tenants, indexVars, countVars, historyVars>>

\* The LLM fails, or its answer is not JSON.
writer_fails(c) == task[c].pc = "write" /\ Abort(c)

\* Seeded fault: an entity that exists is left alone, as before the bug fix.
resolve_keeps_existing(c) ==
    LET r == task[c]
        id == IdOf[Name(c)] IN
    /\ r.pc = "resolve"
    /\ Goto(c, IF Name(c) \in r.local \/ id \in DOMAIN stored THEN Resolved(r, id)
               ELSE [r EXCEPT !.pc = "embed"])
    /\ UNCHANGED <<tenants, indexVars, countVars, historyVars>>

\* Seeded fault: an entity that exists is created once more.
resolve_recreates(c) ==
    LET r == task[c]
        id == IdOf[Name(c)] IN
    /\ r.pc = "resolve"
    /\ Goto(c, IF Name(c) \in r.local THEN Resolved(r, id) ELSE [r EXCEPT !.pc = "embed"])
    /\ UNCHANGED <<tenants, indexVars, countVars, historyVars>>

\* A name seen before in this call is not looked up again.  Left out is the
\* arm for EntityRef::Existing: no policy of the repository emits one.
resolve(c) ==
    LET r == task[c]
        id == IdOf[Name(c)] IN
    /\ r.pc = "resolve"
    /\ Goto(c, IF Name(c) \in r.local THEN Resolved(r, id)
               ELSE IF id \notin DOMAIN stored THEN [r EXCEPT !.pc = "embed"]
               ELSE IF Doc(c) \in stored[id] THEN Resolved(r, id)
               ELSE [r EXCEPT !.pc = "append", !.sources = stored[id]])
    /\ UNCHANGED <<tenants, indexVars, countVars, historyVars>>

embed(c) ==
    /\ task[c].pc = "embed"
    /\ Goto(c, [task[c] EXCEPT !.pc = "create"])
    /\ UNCHANGED <<tenants, indexVars, countVars, historyVars>>

\* Seeded fault: an entity that cannot be embedded is not stored, and the
\* triple goes on as if it were.
embed_fails_tolerated(c) ==
    /\ task[c].pc = "embed"
    /\ Goto(c, Resolved(task[c], IdOf[Name(c)]))
    /\ UNCHANGED <<tenants, indexVars, countVars, historyVars>>

embed_fails(c) == task[c].pc = "embed" /\ Abort(c)

\* Seeded fault: the new entity is missing from added_entity_ids.
create_unreported(c) ==
    LET id == IdOf[Name(c)] IN
    /\ task[c].pc = "create"
    /\ Store!upsert_entity(Tenant, id, {Doc(c)})
    /\ Goto(c, Resolved(task[c], id))
    /\ UNCHANGED <<indexVars, countVars, historyVars>>

\* The entity was missing when it was looked up.
create(c) ==
    LET id == IdOf[Name(c)] IN
    /\ task[c].pc = "create"
    /\ Store!upsert_entity(Tenant, id, {Doc(c)})
    /\ Goto(c, [Resolved(task[c], id) EXCEPT !.added = Append(@, id)])
    /\ UNCHANGED <<indexVars, countVars, historyVars>>

\* The entity is written back as it was read, with one more source.
append(c) ==
    LET id == IdOf[Name(c)] IN
    /\ task[c].pc = "append"
    /\ Store!upsert_entity(Tenant, id, task[c].sources \cup {Doc(c)})
    /\ Goto(c, Resolved(task[c], id))
    /\ UNCHANGED <<indexVars, countVars, historyVars>>

AfterTriple(r) ==
    [r EXCEPT !.triples = Tail(@), !.ids = <<>>, !.pc = AfterTriples(Tail(r.triples))]

TheEdge(c) == [dst |-> task[c].ids[2], provenance |-> Doc(c)]

link(c) ==
    /\ task[c].pc = "link"
    /\ Store!upsert_edge(Tenant, task[c].ids[1], TheEdge(c))
    /\ Goto(c, AfterTriple(task[c]))
    /\ UNCHANGED <<indexVars, countVars, historyVars>>

\* A refused edge is counted and forgotten.
link_refused(c) ==
    /\ task[c].pc = "link"
    /\ ~ (task[c].ids[1] \in DOMAIN stored /\ task[c].ids[2] \in DOMAIN stored)
    /\ Goto(c, [AfterTriple(task[c]) EXCEPT !.skipped = @ + 1])
    /\ UNCHANGED <<tenants, indexVars, countVars, historyVars>>

\* Seeded fault: the vector is searchable before its id is mapped.
index_publishes_first(c) ==
    LET r == task[c]
        e == Head(r.added) IN
    /\ r.pc = "index"
    /\ r.added # <<>>
    /\ inner' = [inner EXCEPT ![e] = @ + 1]
    /\ Goto(c, [r EXCEPT !.pc = "publish"])
    /\ UNCHANGED <<tenants, id_map, countVars, historyVars>>

\* Seeded fault: waits for an entity that a restore removed.
index_waits_for_entity(c) ==
    LET r == task[c]
        e == Head(r.added) IN
    /\ r.pc = "index"
    /\ r.added # <<>>
    /\ e \in DOMAIN stored
    /\ id_map' = [id_map EXCEPT ![e] = @ + 1]
    /\ Goto(c, [r EXCEPT !.pc = "publish"])
    /\ UNCHANGED <<tenants, inner, countVars, historyVars>>

\* HnswIndex::insert takes an internal id first; entities gone by now are skipped.
index(c) ==
    LET r == task[c]
        e == Head(r.added) IN
    /\ r.pc = "index"
    /\ r.added # <<>>
    /\ IF e \in DOMAIN stored
       THEN /\ id_map' = [id_map EXCEPT ![e] = @ + 1]
            /\ Goto(c, [r EXCEPT !.pc = "publish"])
       ELSE /\ Goto(c, [r EXCEPT !.added = Tail(@)])
            /\ UNCHANGED id_map
    /\ UNCHANGED <<tenants, inner, countVars, historyVars>>

\* ... and becomes visible to searches afterwards, outside the lock.
publish(c) ==
    LET r == task[c]
        e == Head(r.added) IN
    /\ r.pc = "publish"
    /\ inner' = [inner EXCEPT ![e] = @ + 1]
    /\ Goto(c, [r EXCEPT !.pc = "index", !.added = Tail(@)])
    /\ UNCHANGED <<tenants, id_map, countVars, historyVars>>

\* The document is done: take the next one, or return the report.
finish(c) ==
    LET r == task[c] IN
    /\ r.pc = "index"
    /\ r.added = <<>>
    /\ Goto(c, IF Len(r.queue) = 1 THEN Idle
               ELSE [Idle EXCEPT !.pc = "write", !.queue = Tail(r.queue)])
    /\ landed' = IF r.raced THEN landed ELSE landed \cup ({Doc(c)} \X r.named)
    /\ UNCHANGED <<tenants, indexVars, countVars, overlap>>

-----------------------------------------------------------------------------
snapshot ==
    /\ Store!snapshot(Tenant)
    /\ UNCHANGED <<task, indexVars, countVars, historyVars>>

\* The graph is rolled back; the vector index is not told.
restore(snap) ==
    /\ restores < MaxRestores
    /\ restores' = restores + 1
    /\ Store!restore(Tenant, snap)
    /\ task' = [c \in Callers |-> [task[c] EXCEPT !.raced = task[c].pc # "idle"]]
    /\ landed' = {}
    /\ overlap' = (overlap \/ ~Quiet)
    /\ UNCHANGED <<indexVars, ingests, failures>>

-----------------------------------------------------------------------------
\* An ingest call under way takes its next step.
Proceed(c) ==
    \/ \E action \in Actions : writer_step(c, action)
    \/ writer_fails(c)
    \/ resolve(c) \/ embed(c) \/ embed_fails(c) \/ create(c) \/ append(c)
    \/ link(c) \/ link_refused(c)
    \/ index(c) \/ publish(c) \/ finish(c)

Next ==
    \/ \E c \in Callers :
          \/ \E docs \in Batches : ingest(c, docs)
          \/ Proceed(c)
    \/ snapshot
    \/ \E snap \in DOMAIN tenants[Tenant].snapshots : restore(snap)

Spec == Init /\ [][Next]_vars

\* The runtime polls every ready task, the store never blocks for good, and
\* every LLM client and embedder answers or fails: a caller is never stuck.
Fairness == \A c \in Callers : WF_vars(Proceed(c))

FairSpec == Spec /\ Fairness

-----------------------------------------------------------------------------
(***************************************************************************)
(* Properties.                                                             *)
(***************************************************************************)

\* Every caller is at one of its awaits with well-formed locals.
TypeOK ==
    /\ \A c \in Callers :
         /\ task[c].pc \in {"idle", "write", "resolve", "embed", "create", "append",
                            "link", "index", "publish"}
         /\ task[c].queue \in Seq(Docs)
         /\ task[c].triples \in Seq(Names \X Names)
         /\ task[c].ids \in Seq(Entities) /\ Len(task[c].ids) <= 2
         /\ task[c].local \subseteq Names
         /\ task[c].sources \subseteq Docs
         /\ task[c].added \in Seq(Entities)
    /\ id_map \in [Entities -> Nat]
    /\ inner \in [Entities -> Nat]
    /\ landed \subseteq Docs \X Entities

\* Once an ingest returned Ok, docs_of_entity of every entity it names lists
\* the document, whatever other callers did to the same entity between this
\* one's reads and writes (apply.rs, the "BUG FIX" comment and the test
\* shared_entity_accumulates_source_docs_across_docs).
ProvenanceReachable ==
    \A l \in landed :
        /\ l[2] \in DOMAIN stored
        /\ tenants[Tenant].doc_index[l[2]][l[1]] > 0

\* If nothing failed and no restore ran into an ingest, then between ingests
\* a search can find every stored entity (engine.rs, "Auto-index
\* newly-added entities"), also those two callers created at once.
StoredIsIndexed ==
    (failures = 0 /\ ~overlap /\ Quiet) => \A e \in DOMAIN stored : inner[e] > 0

\* The engine's test says it without a condition on failures
\* (vector_index_it.rs:56, "every embedded entity must be auto-indexed"):
\* between ingests, a search can find every entity of a document whose
\* ingest returned Ok.
EveryEmbeddedEntityIndexed ==
    (~overlap /\ Quiet) => \A l \in landed : inner[l[2]] > 0

\* A search first asks the HNSW graph and then maps each hit through id_map:
\* it never finds an internal id that has no entity yet.
HitsAreMapped == \A e \in Entities : inner[e] <= id_map[e]

\* Without restores an entity is indexed again only by callers that raced to
\* create it: no caller indexes the same entity twice, however many documents
\* name it and under whichever spelling.
ReindexedOnlyByRaces ==
    restores = 0 => \A e \in Entities : id_map[e] <= Cardinality(Callers)

\* Both ends of a triple are resolved, and so stored, before it is linked:
\* a triple is only ever skipped because a restore removed one of them.
SkippedOnlyByRestore == \A c \in Callers : task[c].skipped > 0 => task[c].raced

\* A document counts once for an entity it is a source of, as in the reader's
\* sum over source documents (gfm_reader.rs, step 5 of its pipeline).
ListedOnce ==
    \A e \in Entities, d \in Docs : tenants[Tenant].doc_index[e][d] <= 1

\* Every call of ingest comes back.
IngestReturns == \A c \in Callers : task[c].pc # "idle" ~> task[c].pc = "idle"
=============================================================================
