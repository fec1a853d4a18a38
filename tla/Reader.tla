------------------------------- MODULE Reader -------------------------------
(***************************************************************************)
(* The read path: HeuristicReader and GfmReader (sage-reader/src), with    *)
(* the plan cache of LlmQueryPlanner, an HnswIndex that only grows, and    *)
(* EvalRunner (sage-eval/src/runner.rs) on top.  A read is many calls to   *)
(* the store, the planner and the embedder, and at each of them writers,   *)
(* restores and other reads come in between: they are any calls of         *)
(* MemGraphStore and HnswIndex::insert, whoever makes them (SageEngine     *)
(* says who).                                                              *)
(***************************************************************************)
EXTENDS QueryPlan, Metrics, Maps, GfmLayer

CONSTANTS
    Tenant, Docs,
    Readers,      \* tasks that read
    KindOf,       \* [gfm, embeds, indexed : BOOLEAN, planner : {"llm", "heuristic", "own"}]
    Runs,         \* Runs[r]: sequences of samples q, k, truth, triples
    EvalK,        \* k of the EvalRunner
    NarrowK, MaxSeeds,      \* narrow_k, max_subgraph_seeds
    HiddenDim,              \* hidden_dim of the layer of a GfmReader
    InitTenant, InitIndex,  \* the store and the index before the first read
    MaxReads,     \* bound on the runs
    MaxWrites,    \* bound on the calls of others
    MaxListed, MaxEdges, MaxSnaps  \* the bounds of MemGraphStore

VARIABLES
    tenants,   \* the store
    id_map,    \* HnswIndex.id_map: how many internal ids stand for an entity
    inner,     \* how many of those a search can find
    cache,     \* the plan cache: a map from questions to plans
    reading,   \* reading[r]: where reader r is
    planned,   \* history: the questions the LLM has made a plan for
    reads, writes

vars == <<tenants, id_map, inner, cache, reading, planned, reads, writes>>

Store == INSTANCE MemGraphStore WITH Tenants <- {Tenant}

\* What a reader is asked: triples are those an evaluation scores with it.
Samples == [q : Questions, k : Nat, truth : Seq(Docs), triples : Seq(Nat)]

ReaderKinds == [gfm : BOOLEAN, embeds : BOOLEAN, indexed : BOOLEAN, planner : {"llm", "heuristic", "own"}]

\* The store starts in a state that its calls can lead to: well formed, with
\* no dangling edge and no unlisted source in the graph or a snapshot of it.
ASSUME ReaderAssumption ==
    /\ IsFiniteSet(Entities) /\ IsFiniteSet(Docs) /\ Docs # {}
    /\ "none" \notin Questions
    /\ KindOf \in [Readers -> ReaderKinds]
    /\ \A r \in Readers : Runs[r] \subseteq Seq(Samples) \ {<<>>}
    /\ EvalK \in Nat /\ NarrowK \in Nat \ {0} /\ MaxSeeds \in Nat
    /\ MaxListed \in Nat /\ MaxEdges \in Nat /\ MaxSnaps \in Nat
    /\ HiddenDim \in Nat \ {0}
    /\ InitIndex \in [Entities -> Nat]
    /\ InitTenant.next_snap \in Nat /\ InitTenant \in Store!TenantData(InitTenant.next_snap)
    /\ \A v \in {InitTenant} \cup {InitTenant.snapshots[i] : i \in DOMAIN InitTenant.snapshots} :
          Store!EdgesAnchored(v) /\ Store!IndexCovers(v)

graph == tenants[Tenant]
stored == DOMAIN graph.entities
Listings == {listing \in Entities \X Docs : graph.doc_index[listing[1]][listing[2]] > 0}

Nothing == [docs |-> <<>>, entities |-> <<>>, subgraph |-> [entities |-> {}, edges |-> {}]]

-----------------------------------------------------------------------------
(***************************************************************************)
(* A reader.  pc names the await it is suspended in, or its next step:     *)
(*   ask         the LLM call of the planner                               *)
(*   embed       the embedder                                              *)
(*   candidates  the index search, or all_entities                         *)
(*   fetch       get_entity for the hits                                   *)
(*   adjacent    neighbors of the entities (GfmReader)                     *)
(*   score       scoring the candidates                                    *)
(*   list        docs_of_entity for the entities that are left             *)
(*   hop         k_hop                                                     *)
(*   read        the read has returned, its sample is not counted yet      *)
(***************************************************************************)
NoneOf == [e \in Entities |-> 0]

Idle == [pc |-> "idle", queue |-> <<>>, report |-> <<>>, result |-> "none",
         plan |-> [constraints |-> {}],
         hits |-> NoneOf, candidates |-> NoneOf,  \* how often each entity is there
         left |-> <<>>, edges |-> {},
         met |-> {}, scores |-> [d \in Docs |-> 0],  \* doc_scores
         out |-> Nothing,
         known |-> {},       \* history: the questions planned when this read began,
         asked |-> "none",   \* ... the question it asked the LLM,
         alive |-> {},       \* ... the entities stored at some time of this read,
         listed |-> {},      \* ... the documents listed, by entity,
         restored |-> FALSE, \* ... a restore ran,
         twice |-> {},       \* ... the entities that were in the index twice,
         unembedded |-> FALSE]

Init ==
    /\ tenants = [t \in {Tenant} |-> InitTenant]
    /\ id_map = InitIndex /\ inner = InitIndex
    /\ cache = EmptyMap /\ planned = {}
    /\ reading = [r \in Readers |-> Idle]
    /\ reads = 0 /\ writes = 0

At(r, pc) == reading[r].pc = pc
Sample(r) == Head(reading[r].queue)

Go(r, next) ==
    /\ reading' = [reading EXCEPT ![r] = next]
    /\ UNCHANGED <<tenants, id_map, inner, reads, writes>>

PlansKept == UNCHANGED <<cache, planned>>

Planned(r, record, plan) ==
    [record EXCEPT !.plan = plan,
                   !.pc = IF KindOf[r].embeds /\ ~KindOf[r].gfm THEN "embed" ELSE "candidates"]

\* read begins: a cached plan is taken, a missing one is asked for.
Begun(r, record, q) ==
    LET fresh == [record EXCEPT !.asked = "none", !.known = planned, !.alive = stored, !.listed = Listings,
                                !.restored = FALSE, !.edges = {}, !.out = Nothing,
                                !.hits = NoneOf, !.candidates = NoneOf, !.met = {},
                                !.twice = {e \in Entities : inner[e] > 1},
                                !.scores = [d \in Docs |-> 0]] IN
    CASE KindOf[r].planner = "heuristic" -> {Planned(r, fresh, plan_sync[q])}
      [] KindOf[r].planner = "own" -> {Planned(r, fresh, plan) : plan \in OwnPlans}
      [] KindOf[r].planner = "llm" ->
            {IF q \in DOMAIN cache THEN Planned(r, fresh, cache[q])
             ELSE [fresh EXCEPT !.pc = "ask", !.asked = q]}

\* EvalRunner::run, or engine.query for a run of one sample.
run(r, samples) ==
    /\ reading[r].pc \in {"idle", "done"} /\ reads < MaxReads
    /\ reads' = reads + 1
    /\ \E next \in Begun(r, [Idle EXCEPT !.queue = samples], Head(samples).q) :
          reading' = [reading EXCEPT ![r] = next]
    /\ UNCHANGED <<tenants, id_map, inner, cache, planned, writes>>

\* Seeded fault: the plan is not kept.
plan_answered_uncached(r, raw) ==
    /\ At(r, "ask")
    /\ planned' = planned \cup {Sample(r).q}
    /\ Go(r, Planned(r, reading[r], build_plan[Sample(r).q][raw]))
    /\ UNCHANGED cache

plan_answered(r, raw) ==
    LET plan == build_plan[Sample(r).q][raw] IN
    /\ At(r, "ask")
    /\ cache' = Put(cache, Sample(r).q, plan)
    /\ planned' = planned \cup {Sample(r).q}
    /\ Go(r, Planned(r, reading[r], plan))

\* The LLM fails, or there is no JSON in its answer: the next read asks again.
plan_fallback(r) ==
    /\ At(r, "ask")
    /\ Go(r, Planned(r, reading[r], plan_sync[Sample(r).q]))
    /\ PlansKept

\* The first error ends the run.
Aborted(record) == [Idle EXCEPT !.pc = "done", !.result = "err", !.report = record.report]

Returned(record, out) == [record EXCEPT !.pc = "read", !.out = out]

embed(r) ==
    /\ At(r, "embed")
    /\ Go(r, [reading[r] EXCEPT !.pc = IF KindOf[r].gfm THEN "adjacent" ELSE "candidates"])
    /\ PlansKept

embed_fails(r) ==
    /\ At(r, "embed")
    /\ Go(r, [Aborted(reading[r]) EXCEPT !.unembedded = TRUE])
    /\ PlansKept

Narrows(r) ==
    /\ KindOf[r].indexed /\ KindOf[r].embeds /\ ~KindOf[r].gfm
    /\ \E e \in Entities : id_map[e] > 0

HitCount(hits) == FoldFunction(+, 0, hits)

\* At most narrow_k hits; the search is approximate and may miss some.
search(r, hits) ==
    /\ At(r, "candidates") /\ Narrows(r)
    /\ \A e \in Entities : hits[e] <= inner[e]
    /\ HitCount(hits) <= NarrowK
    /\ Go(r, IF hits = NoneOf THEN Returned(reading[r], Nothing)
             ELSE [reading[r] EXCEPT !.pc = "fetch", !.hits = hits])
    /\ PlansKept

all_entities(r) ==
    /\ At(r, "candidates") /\ ~Narrows(r)
    /\ Go(r, IF stored = {} THEN Returned(reading[r], Nothing)
             ELSE [reading[r] EXCEPT !.pc = IF KindOf[r].gfm THEN "embed" ELSE "score",
                                     !.candidates = [e \in Entities |-> IF e \in stored THEN 1 ELSE 0],
                                     !.hits = [e \in Entities |-> IF e \in stored THEN 1 ELSE 0]])
    /\ PlansKept

\* A hit that is not stored any more is dropped.
get_entity(r, e) ==
    LET record == [reading[r] EXCEPT !.hits[e] = @ - 1,
                                     !.candidates[e] = IF e \in stored THEN @ + 1 ELSE @] IN
    /\ At(r, "fetch") /\ reading[r].hits[e] > 0
    /\ Go(r, IF record.hits # NoneOf THEN record
             ELSE IF record.candidates = NoneOf THEN Returned(record, Nothing)
             ELSE [record EXCEPT !.pc = "score"])
    /\ PlansKept

\* Seeded fault: an edge to an entity that was stored later is taken, too.
neighbors_unfiltered(r, e) ==
    LET record == reading[r]
        near == {graph.out_edges[e][i].dst : i \in DOMAIN graph.out_edges[e]}
        rest == [record.hits EXCEPT ![e] = 0] IN
    /\ At(r, "adjacent") /\ record.hits[e] > 0
    /\ Go(r, [record EXCEPT !.hits = rest, !.edges = @ \cup ({e} \X near),
                            !.pc = IF rest = NoneOf THEN "score" ELSE @])
    /\ PlansKept

\* GfmReader: only edges between rows go into the view.
neighbors(r, e) ==
    LET record == reading[r]
        near == {graph.out_edges[e][i].dst : i \in DOMAIN graph.out_edges[e]}
        rows == {v \in Entities : record.candidates[v] > 0}
        rest == [record.hits EXCEPT ![e] = 0] IN
    /\ At(r, "adjacent") /\ record.hits[e] > 0
    /\ Go(r, [record EXCEPT !.hits = rest, !.edges = @ \cup ({e} \X (near \cap rows)),
                            !.pc = IF rest = NoneOf THEN "score" ELSE @])
    /\ PlansKept

-----------------------------------------------------------------------------
Weight(r, e) == softmax_entry[Sample(r).q][KindOf[r].embeds][reading[r].plan][e]

\* Sorted by value, the highest first, whatever comes first among equals.
Ranked(S, value) ==
    {s \in [1..Cardinality(S) -> S] :
        \A i, j \in DOMAIN s : i < j => s[i] # s[j] /\ value[s[i]] >= value[s[j]]}

\* The candidates the reader returns, one for each time it has them.
Kept(r) ==
    {c \in Entities \X (1..NarrowK) :
        c[2] <= reading[r].candidates[c[1]] /\ (KindOf[r].gfm \/ Weight(r, c[1]) > 0)}

\* GfmReader: the entities it has are the rows; an edge whose end has no row
\* would point behind the last one.  How often an edge is there, and in which
\* order, only makes other numbers.
View(r) ==
    LET rows == SetToSeq({e \in Entities : reading[r].candidates[e] > 0})
        RowOf(e) == IF \E i \in DOMAIN rows : rows[i] = e
                    THEN (CHOOSE i \in DOMAIN rows : rows[i] = e) - 1 ELSE Len(rows)
        edges == SetToSeq(reading[r].edges) IN
    [n_nodes |-> Len(rows), deg |-> Len(rows),
     edges |-> [i \in DOMAIN edges |-> <<RowOf(edges[i][1]), RowOf(edges[i][2])>>]]

\* Each row is the embedded question, weighed by the row's probability.
Seeded(view) ==
    [p \in 1..(view.n_nodes * HiddenDim) |-> <<Input((p - 1) \div HiddenDim, (p - 1) % HiddenDim)>>]

Forwarded(r) == layer_forward(1, View(r), HiddenDim, Seeded(View(r)))

\* The layer's weights are opaque, so a GfmReader ranks all rows in any order.
score(r) ==
    /\ At(r, "score")
    /\ PlansKept
    /\ IF KindOf[r].gfm /\ ~Forwarded(r).ok THEN Go(r, Aborted(reading[r]))
       ELSE \E ranked \in Ranked(Kept(r), [c \in Kept(r) |-> IF KindOf[r].gfm THEN 0 ELSE Weight(r, c[1])]) :
               LET entities == [i \in DOMAIN ranked |-> ranked[i][1]] IN
               Go(r, IF entities = <<>> THEN Returned(reading[r], Nothing)
                     ELSE [reading[r] EXCEPT !.pc = "list", !.left = entities, !.out.entities = entities])

\* The heuristic reader adds an entity's probability once per listing.
Counted(r, e) ==
    [reading[r] EXCEPT
        !.left = Tail(@),
        !.met = @ \cup {d \in Docs : graph.doc_index[e][d] > 0},
        !.scores = [d \in Docs |-> IF KindOf[r].gfm THEN 0
                                   ELSE @[d] + Weight(r, e) * graph.doc_index[e][d]]]

docs_of_entity(r) ==
    /\ At(r, "list")
    /\ LET record == Counted(r, Head(reading[r].left)) IN
       IF record.left # <<>> THEN Go(r, record)
       ELSE \E docs \in Ranked(record.met, record.scores) :
               LET out == [record.out EXCEPT !.docs = SubSeq(docs, 1, Smaller(Max({Sample(r).k, 1}), Len(docs)))]
               IN Go(r, IF KindOf[r].gfm THEN Returned(record, out)
                        ELSE [record EXCEPT !.pc = "hop", !.out = out])
    /\ PlansKept

\* One hop, all under one read lock.
k_hop(seeds) ==
    LET edges == UNION {{<<e, graph.out_edges[e][i].dst>> : i \in DOMAIN graph.out_edges[e]} : e \in seeds} IN
    [entities |-> (seeds \cup {edge[2] : edge \in edges}) \cap stored, edges |-> edges]

Seeds(out) == ToSet(SubSeq(out.entities, 1, Smaller(MaxSeeds, Len(out.entities))))

hop(r) ==
    /\ At(r, "hop")
    /\ LET out == reading[r].out IN
       Go(r, Returned(reading[r], [out EXCEPT !.subgraph = k_hop(Seeds(out))]))
    /\ PlansKept

Measured(sample, retrieved) ==
    [recall |-> recall_at_k(retrieved, sample.truth, EvalK),
     precision |-> precision_at_k(retrieved, sample.truth, EvalK),
     f1 |-> f1_at_k(retrieved, sample.truth, EvalK),
     mrr |-> mrr(retrieved, sample.truth),
     reward |-> compute_reward(retrieved, sample.truth, sample.triples)]

\* The sample is measured; the run goes on with the next one, or reports.
measure(r) ==
    /\ At(r, "read")
    /\ LET record == [reading[r] EXCEPT !.report = Append(@, Measured(Sample(r), reading[r].out.docs)),
                                        !.queue = Tail(@)] IN
       IF record.queue = <<>> THEN Go(r, [Idle EXCEPT !.pc = "done", !.result = "ok", !.report = record.report])
       ELSE \E next \in Begun(r, record, Head(record.queue).q) : Go(r, next)
    /\ PlansKept

-----------------------------------------------------------------------------
(***************************************************************************)
(* Everyone else.                                                          *)
(***************************************************************************)
Witnessed(restores) ==
    reading' = [r \in Readers |->
        IF reading[r].pc \in {"idle", "done"} THEN reading[r]
        ELSE [reading[r] EXCEPT !.alive = @ \cup stored', !.listed = @ \cup Listings',
                                !.restored = @ \/ restores,
                                !.twice = @ \cup {e \in Entities : inner'[e] > 1}]]

Write(restores) ==
    /\ writes < MaxWrites /\ writes' = writes + 1
    /\ Witnessed(restores)
    /\ UNCHANGED <<cache, planned, reads>>

upsert(e, sources) ==
    /\ Store!upsert_entity(Tenant, e, sources)
    /\ UNCHANGED <<id_map, inner>> /\ Write(FALSE)

\* No reader looks at the provenance.
link(e, dst) ==
    /\ Store!upsert_edge(Tenant, e, [dst |-> dst, provenance |-> CHOOSE d \in Docs : TRUE])
    /\ UNCHANGED <<id_map, inner>> /\ Write(FALSE)

restore(snap) ==
    /\ Store!restore(Tenant, snap)
    /\ UNCHANGED <<id_map, inner>> /\ Write(TRUE)

\* HnswIndex::insert takes an id, and only then hands the vector over, for any
\* entity: a restore may have removed the one the engine has just stored.
reserve(e) ==
    /\ id_map' = [id_map EXCEPT ![e] = @ + 1]
    /\ UNCHANGED <<tenants, inner>> /\ Write(FALSE)

publish(e) ==
    /\ inner[e] < id_map[e]
    /\ inner' = [inner EXCEPT ![e] = @ + 1]
    /\ UNCHANGED <<tenants, id_map, cache, planned, reads, writes>>
    /\ Witnessed(FALSE)

Others ==
    \/ \E e \in Entities : \/ \E sources \in SUBSET Docs \ {{}} : upsert(e, sources)
                           \/ \E dst \in Entities : link(e, dst)
                           \/ reserve(e) \/ publish(e)
    \/ \E snap \in DOMAIN graph.snapshots : restore(snap)

HitsWithin == [Entities -> 0..NarrowK]

Step(r) ==
    \/ \E raw \in LlmPlans : plan_answered(r, raw)
    \/ plan_fallback(r) \/ embed(r) \/ embed_fails(r) \/ all_entities(r)
    \/ \E hits \in HitsWithin : search(r, hits)
    \/ \E e \in Entities : get_entity(r, e) \/ neighbors(r, e)
    \/ score(r) \/ docs_of_entity(r) \/ hop(r) \/ measure(r)

Next == (\E r \in Readers : Step(r) \/ \E samples \in Runs[r] : run(r, samples)) \/ Others

Spec == Init /\ [][Next]_vars

-----------------------------------------------------------------------------
(***************************************************************************)
(* Properties.                                                             *)
(***************************************************************************)
\* An entity that is returned was stored at some time of the read, and a
\* document was then listed for one of them: hits of an index that a restore
\* has left behind are dropped.
FromTheStore(r) ==
    LET out == reading[r].out IN
    /\ ToSet(out.entities) \subseteq reading[r].alive
    /\ \A d \in ToSet(out.docs) : \E e \in ToSet(out.entities) : <<e, d>> \in reading[r].listed

\* Without a restore in between, what is returned fits together: the entities
\* it starts from are in the subgraph, and both ends of each of its edges,
\* although they were read one after the other while others wrote.
FitsTogether(r) ==
    LET out == reading[r].out IN
    ~KindOf[r].gfm /\ ~reading[r].restored =>
        /\ Seeds(out) \subseteq out.subgraph.entities
        /\ \A edge \in out.subgraph.edges : {edge[1], edge[2]} \subseteq out.subgraph.entities

\* An entity is returned more than once only if the index had it twice.
CountedOnce(r) ==
    \A i, j \in DOMAIN reading[r].out.entities :
        i # j /\ reading[r].out.entities[i] = reading[r].out.entities[j] =>
            reading[r].out.entities[i] \in reading[r].twice

\* "such entities are then suppressed": none that violates a hard constraint
\* is returned by the heuristic reader.
ConstraintsHold(r) ==
    ~KindOf[r].gfm =>
        \A i \in DOMAIN reading[r].out.entities :
            ~violates_hard_constraints(reading[r].out.entities[i], reading[r].plan)

\* What a read returns is sound, however the graph, the index and the plan
\* cache change while it runs, and it fails only with the embedder: never
\* because what it gathered step by step does not fit the layer.
ReadSound ==
    \A r \in Readers :
        /\ At(r, "read") => FromTheStore(r) /\ FitsTogether(r) /\ CountedOnce(r) /\ ConstraintsHold(r)
        /\ reading[r].result = "err" => reading[r].unembedded

\* A plan the LLM made is kept: a read that begins when the question has one
\* does not ask again, whatever failed or overlapped before; only readers that
\* asked before there was any may replace it.
PlansReused ==
    \A r \in Readers : reading[r].asked # "none" => reading[r].asked \notin reading[r].known

Honest(m) ==
    /\ \A x \in {m.recall, m.precision, m.f1, m.mrr, m.reward.r_rec, m.reward.r_pre,
                 m.reward.rep_penalty} : x[2] > 0 /\ AtMost(x, One)
    /\ AtMost(m.f1, m.recall) \/ AtMost(m.f1, m.precision)
    /\ AtMost(m.recall, m.f1) \/ AtMost(m.precision, m.f1)
    /\ m.recall[1] > 0 <=> EvalK > 0 /\ AtMost(<<1, Max({EvalK, 1})>>, m.mrr)

\* What an evaluation reports of a read stays between 0 and 1; F1 lies between
\* precision and recall; a hit within k shows in recall and in the reciprocal
\* rank, or in neither; and the reward's recovery, which counts the list as
\* it is, is no more than 1, since a read never returns a document twice.
MetricsHonest ==
    \A r \in Readers : \A i \in DOMAIN reading[r].report : Honest(reading[r].report[i])
=============================================================================
