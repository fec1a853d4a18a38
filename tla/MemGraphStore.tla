--------------------------- MODULE MemGraphStore ---------------------------
(***************************************************************************)
(* MemGraphStore (sage-graph/src/mem.rs).  All tenants sit behind one      *)
(* RwLock and every call runs to completion under it, so a call is one     *)
(* step.  Unlike the promise in GraphStore, doc_index is a list that       *)
(* repeats a document every time an upsert names it: how often each        *)
(* document is listed is kept here, because the reader adds an entity's    *)
(* probability to a document once per listing.                             *)
(***************************************************************************)
EXTENDS Naturals, Sequences, Maps

CONSTANTS
    Tenants, Entities, Docs,
    MaxListed,  \* bound on how often one document is listed for one entity
    MaxEdges,   \* bound on the outgoing edges of one entity
    MaxSnaps    \* bound on the snapshots of one tenant

ASSUME BoundsAssumption ==
    MaxListed \in Nat /\ MaxEdges \in Nat /\ MaxSnaps \in Nat

VARIABLE tenants  \* TenantId -> TenantData

Edge == [dst: Entities, provenance: Docs]

\* What a snapshot copies out of the tenant.
Payload == [entities: MapsOf(Entities, SUBSET Docs),
            out_edges: [Entities -> Seq(Edge)],
            doc_index: [Entities -> [Docs -> Nat]]]

EmptyTenant ==
    [entities  |-> EmptyMap,
     out_edges |-> [e \in Entities |-> <<>>],
     doc_index |-> [e \in Entities |-> [d \in Docs |-> 0]],
     snapshots |-> EmptyMap,
     next_snap |-> 0]

PayloadOf(data) == [entities  |-> data.entities,
                    out_edges |-> data.out_edges,
                    doc_index |-> data.doc_index]

Init == tenants = [t \in Tenants |-> EmptyTenant]

-----------------------------------------------------------------------------
(***************************************************************************)
(* Seeded faults: what each call would do with a plausible bug.  They are  *)
(* not part of Next; each must make TLC refute one property below.         *)
(***************************************************************************)

\* Forgets to check that the target of the edge is stored.
upsert_edge_unchecked_dst(t, src, edge) ==
    LET data == tenants[t] IN
    /\ src \in DOMAIN data.entities
    /\ Len(data.out_edges[src]) < MaxEdges
    /\ tenants' = [tenants EXCEPT ![t] =
           [data EXCEPT !.out_edges[src] = Append(@, edge)]]

\* Indexes the documents of an entity only when it is first stored.
upsert_entity_indexes_once(t, e, sources) ==
    LET data == tenants[t] IN
    /\ tenants' = [tenants EXCEPT ![t] =
           [data EXCEPT !.doc_index[e] = IF e \in DOMAIN data.entities THEN @
                                         ELSE [d \in Docs |-> IF d \in sources THEN 1 ELSE 0],
                        !.entities = Put(@, e, sources)]]

\* Hands out the same SnapshotId again.
snapshot_reuses_id(t) ==
    LET data == tenants[t] IN
    /\ data.next_snap < MaxSnaps
    /\ tenants' = [tenants EXCEPT ![t] =
           [data EXCEPT !.snapshots = Put(@, data.next_snap, PayloadOf(data))]]

\* Puts the whole tenant back as it was, the later snapshots included.
restore_drops_snapshots(t, snap) ==
    LET data == tenants[t] IN
    /\ snap \in DOMAIN data.snapshots
    /\ tenants' = [tenants EXCEPT ![t] =
           [data EXCEPT !.entities = data.snapshots[snap].entities,
                        !.out_edges = data.snapshots[snap].out_edges,
                        !.doc_index = data.snapshots[snap].doc_index,
                        !.snapshots = [i \in 0..(snap - 1) |-> @[i]],
                        !.next_snap = snap]]

\* Leaves the document index as it was.
restore_keeps_doc_index(t, snap) ==
    LET data == tenants[t] IN
    /\ snap \in DOMAIN data.snapshots
    /\ tenants' = [tenants EXCEPT ![t] =
           [data EXCEPT !.entities = data.snapshots[snap].entities,
                        !.out_edges = data.snapshots[snap].out_edges]]

-----------------------------------------------------------------------------
(***************************************************************************)
(* The calls.  A writer only builds source_docs without repetitions, so it *)
(* is a set.                                                               *)
(***************************************************************************)

\* Every source document is pushed onto the list, listed already or not.
Listed(listing, sources) ==
    [d \in Docs |-> IF d \in sources THEN listing[d] + 1 ELSE listing[d]]

upsert_entity(t, e, sources) ==
    LET data == tenants[t] IN
    /\ \A d \in sources : data.doc_index[e][d] < MaxListed
    /\ tenants' = [tenants EXCEPT ![t] =
           [data EXCEPT !.doc_index[e] = Listed(@, sources),
                        !.entities = Put(@, e, sources)]]

upsert_edge(t, src, edge) ==
    LET data == tenants[t] IN
    /\ src \in DOMAIN data.entities
    /\ edge.dst \in DOMAIN data.entities
    /\ Len(data.out_edges[src]) < MaxEdges
    /\ tenants' = [tenants EXCEPT ![t] =
           [data EXCEPT !.out_edges[src] = Append(@, edge)]]

snapshot(t) ==
    LET data == tenants[t] IN
    /\ data.next_snap < MaxSnaps
    /\ tenants' = [tenants EXCEPT ![t] =
           [data EXCEPT !.snapshots = Put(@, data.next_snap, PayloadOf(data)),
                        !.next_snap = @ + 1]]

\* The saved snapshots and their counter survive a restore.
restore(t, snap) ==
    LET data == tenants[t] IN
    /\ snap \in DOMAIN data.snapshots
    /\ tenants' = [tenants EXCEPT ![t] =
           [data EXCEPT !.entities = data.snapshots[snap].entities,
                        !.out_edges = data.snapshots[snap].out_edges,
                        !.doc_index = data.snapshots[snap].doc_index]]

Next ==
    \E t \in Tenants :
        \/ \E e \in Entities, sources \in SUBSET Docs : upsert_entity(t, e, sources)
        \/ \E src \in Entities, edge \in Edge : upsert_edge(t, src, edge)
        \/ snapshot(t)
        \/ \E snap \in DOMAIN tenants[t].snapshots : restore(t, snap)

Spec == Init /\ [][Next]_tenants

-----------------------------------------------------------------------------
(***************************************************************************)
(* Properties.                                                             *)
(***************************************************************************)

\* The data of a tenant that took n snapshots.
TenantData(n) ==
    [entities: MapsOf(Entities, SUBSET Docs),
     out_edges: [Entities -> Seq(Edge)],
     doc_index: [Entities -> [Docs -> Nat]],
     snapshots: [0..(n - 1) -> Payload],
     next_snap: {n}]

\* Every tenant holds well-formed data, and its snapshot ids are exactly those
\* below next_snap (TenantData and SnapshotPayload of mem.rs).
TypeOK ==
    /\ DOMAIN tenants = Tenants
    /\ \A t \in Tenants :
         /\ tenants[t].next_snap \in Nat
         /\ tenants[t] \in TenantData(tenants[t].next_snap)

\* Everything of a tenant that is or may become its graph.
Versions(t) ==
    {PayloadOf(tenants[t])} \cup {tenants[t].snapshots[i] : i \in DOMAIN tenants[t].snapshots}

\* Both ends of every edge are stored.
EdgesAnchored(v) ==
    \A e \in Entities : \A i \in DOMAIN v.out_edges[e] :
        e \in DOMAIN v.entities /\ v.out_edges[e][i].dst \in DOMAIN v.entities

\* The index lists every document that a stored entity names as a source.
IndexCovers(v) ==
    \A e \in DOMAIN v.entities : \A d \in v.entities[e] : v.doc_index[e][d] > 0

\* However upserts, snapshots and restores follow each other, an edge never
\* points from or to an entity that is not stored: k_hop, which skips
\* missing entities, then returns both ends of every edge it returns.
NoDanglingEdge == \A t \in Tenants : \A v \in Versions(t) : EdgesAnchored(v)

\* docs_of_entity lists every document an entity names as a source, although
\* the two are kept apart and restored apart: a document recorded by the
\* writer is reachable through the entities it mentions.
DocIndexCoversSources == \A t \in Tenants : \A v \in Versions(t) : IndexCovers(v)

\* A snapshot, once taken, is never changed or dropped: not by later writes,
\* not by later snapshots, not by restoring another one.
SnapshotsKept ==
    [][\A t \in Tenants : \A i \in DOMAIN tenants[t].snapshots :
          /\ i \in DOMAIN tenants'[t].snapshots
          /\ tenants'[t].snapshots[i] = tenants[t].snapshots[i]]_tenants

\* The graph a payload stands for, with the listings of a document merged.
GraphOf(v) ==
    [entities  |-> v.entities,
     out_edges |-> v.out_edges,
     doc_index |-> [e \in Entities |-> {d \in Docs : v.doc_index[e][d] > 0}]]

SnapsOf(data) == [i \in 1..data.next_snap |-> GraphOf(data.snapshots[i - 1])]

Promise == INSTANCE GraphStore WITH
    graph <- [t \in Tenants |-> GraphOf(PayloadOf(tenants[t]))],
    snaps <- [t \in Tenants |-> SnapsOf(tenants[t])]

\* Up to how often a document is listed, MemGraphStore is a GraphStore: every
\* call has exactly the effect the trait promises.
ImplementsGraphStore == Promise!Spec
=============================================================================
