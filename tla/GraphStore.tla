----------------------------- MODULE GraphStore -----------------------------
(***************************************************************************)
(* What the GraphStore trait promises (sage-core/src/graph.rs): every call *)
(* takes effect at once, and a tenant's graph is entities, outgoing edges, *)
(* and an index from entities to the documents that mention them.          *)
(*                                                                         *)
(* An entity is reduced to its source_docs, an edge to its target and its  *)
(* provenance: names, descriptions, embeddings and weights are opaque to   *)
(* the store.  Calls that return Err leave the state alone.                *)
(***************************************************************************)
EXTENDS Naturals, Sequences, Maps

CONSTANTS
    Tenants,   \* TenantId
    Entities,  \* EntityId
    Docs       \* DocId

VARIABLES
    graph,     \* graph[t]: the tenant's current graph
    snaps      \* snaps[t]: graphs saved by snapshot; SnapshotId i is entry i+1

storeVars == <<graph, snaps>>

Edge == [dst: Entities, provenance: Docs]

Graph == [entities: MapsOf(Entities, SUBSET Docs),
          out_edges: [Entities -> Seq(Edge)],
          doc_index: [Entities -> SUBSET Docs]]

EmptyGraph == [entities  |-> EmptyMap,
               out_edges |-> [e \in Entities |-> <<>>],
               doc_index |-> [e \in Entities |-> {}]]

-----------------------------------------------------------------------------
(***************************************************************************)
(* The effect of each write on one tenant's graph.                         *)
(***************************************************************************)

\* The entity is replaced; the documents it names join the index for good.
WithEntity(g, e, sources) ==
    [g EXCEPT !.entities = Put(@, e, sources),
              !.doc_index[e] = @ \cup sources]

\* Edges are appended: repeating an edge stores it twice.
WithEdge(g, src, edge) ==
    [g EXCEPT !.out_edges[src] = Append(@, edge)]

HasEndpoints(g, src, edge) ==
    src \in DOMAIN g.entities /\ edge.dst \in DOMAIN g.entities

-----------------------------------------------------------------------------
Init ==
    /\ graph = [t \in Tenants |-> EmptyGraph]
    /\ snaps = [t \in Tenants |-> <<>>]

upsert_entity(t, e, sources) ==
    /\ graph' = [graph EXCEPT ![t] = WithEntity(@, e, sources)]
    /\ UNCHANGED snaps

\* Edges whose endpoints are not both stored are refused.
upsert_edge(t, src, edge) ==
    /\ HasEndpoints(graph[t], src, edge)
    /\ graph' = [graph EXCEPT ![t] = WithEdge(@, src, edge)]
    /\ UNCHANGED snaps

snapshot(t) ==
    /\ snaps' = [snaps EXCEPT ![t] = Append(@, graph[t])]
    /\ UNCHANGED graph

restore(t, i) ==
    /\ i \in 1..Len(snaps[t])
    /\ graph' = [graph EXCEPT ![t] = snaps[t][i]]
    /\ UNCHANGED snaps

Next ==
    \E t \in Tenants :
        \/ \E e \in Entities, sources \in SUBSET Docs : upsert_entity(t, e, sources)
        \/ \E src \in Entities, edge \in Edge : upsert_edge(t, src, edge)
        \/ snapshot(t)
        \/ \E i \in 1..Len(snaps[t]) : restore(t, i)

Spec == Init /\ [][Next]_storeVars
=============================================================================
