------------------------ MODULE MemGraphStore_proofs ------------------------
(***************************************************************************)
(* Proofs about MemGraphStore, for any tenants, entities, documents and    *)
(* bounds: its data stays well formed, no version of the graph has a       *)
(* dangling edge or an unlisted source, snapshots are kept, and every call *)
(* does what GraphStore promises.                                          *)
(***************************************************************************)
EXTENDS MemGraphStore, TLAPS

-----------------------------------------------------------------------------
(***************************************************************************)
(* Maps and listings.                                                      *)
(***************************************************************************)

\* The map with no key is a map of any type.
LEMMA EmptyMapType ==
    ASSUME NEW K, NEW V
    PROVE  EmptyMap \in MapsOf(K, V)
BY DEF EmptyMap, MapsOf

\* Putting a key into a map leaves it a map of the same type.
LEMMA PutType ==
    ASSUME NEW K, NEW V, NEW f \in MapsOf(K, V), NEW k \in K, NEW v \in V
    PROVE  Put(f, k, v) \in MapsOf(K, V)
<1>1. PICK D \in SUBSET K : f \in [D -> V]
  BY DEF MapsOf
<1>2. D \cup {k} \in SUBSET K
  OBVIOUS
<1>3. Put(f, k, v) \in [D \cup {k} -> V]
  BY <1>1 DEF Put
<1> QED
  BY <1>2, <1>3 DEF MapsOf

\* Listing documents once more keeps the counts natural numbers.
LEMMA ListedType ==
    ASSUME NEW listing \in [Docs -> Nat], NEW sources \in SUBSET Docs
    PROVE  Listed(listing, sources) \in [Docs -> Nat]
BY DEF Listed

-----------------------------------------------------------------------------
(***************************************************************************)
(* Well-formed data.                                                       *)
(***************************************************************************)

\* What a snapshot copies out of well-formed data is a well-formed payload.
LEMMA PayloadType ==
    ASSUME NEW n, NEW data \in TenantData(n)
    PROVE  PayloadOf(data) \in Payload
BY DEF TenantData, PayloadOf, Payload

\* A call of one tenant keeps the others: it suffices that the new data of
\* this tenant are well formed.
LEMMA OneTenantType ==
    ASSUME TypeOK, NEW t \in Tenants, NEW n \in Nat, NEW new \in TenantData(n),
           tenants' = [tenants EXCEPT ![t] = new]
    PROVE  TypeOK'
<1>1. DOMAIN tenants' = Tenants
  BY DEF TypeOK
<1>2. ASSUME NEW u \in Tenants
      PROVE  tenants'[u].next_snap \in Nat /\ tenants'[u] \in TenantData(tenants'[u].next_snap)
  <2>1. CASE u = t
    <3>1. tenants'[u] = new /\ new.next_snap = n
      BY <2>1 DEF TypeOK, TenantData
    <3> QED
      BY <3>1
  <2>2. CASE u # t
    <3>1. tenants'[u] = tenants[u]
      BY <2>2 DEF TypeOK
    <3> QED
      BY <3>1 DEF TypeOK
  <2> QED
    BY <2>1, <2>2
<1> QED
  BY <1>1, <1>2 DEF TypeOK, TenantData, Payload, MapsOf, Edge

LEMMA InitTypeOK == Init => TypeOK
<1> SUFFICES ASSUME Init PROVE TypeOK
  OBVIOUS
<1>1. EmptyTenant.next_snap = 0 /\ EmptyTenant \in TenantData(0)
  <2>1. EmptyMap \in MapsOf(Entities, SUBSET Docs) /\ EmptyMap \in [0..(0 - 1) -> Payload]
    BY EmptyMapType DEF EmptyMap
  <2>2. [e \in Entities |-> <<>>] \in [Entities -> Seq(Edge)]
    OBVIOUS
  <2> QED
    BY <2>1, <2>2 DEF EmptyTenant, TenantData
<1> QED
  BY <1>1 DEF Init, TypeOK

\* Each call keeps the data well formed.
LEMMA NextTypeOK == TypeOK /\ [Next]_tenants => TypeOK'
<1> SUFFICES ASSUME TypeOK, [Next]_tenants PROVE TypeOK'
  OBVIOUS
<1>1. ASSUME NEW t \in Tenants, NEW e \in Entities, NEW sources \in SUBSET Docs,
             upsert_entity(t, e, sources)
      PROVE  TypeOK'
  <2> DEFINE data == tenants[t]
             new == [data EXCEPT !.doc_index[e] = Listed(@, sources),
                                 !.entities = Put(@, e, sources)]
  <2>1. data \in TenantData(data.next_snap) /\ data.next_snap \in Nat
    BY DEF TypeOK
  <2>2. Put(data.entities, e, sources) \in MapsOf(Entities, SUBSET Docs)
    BY <2>1, PutType DEF TenantData
  <2>3. Listed(data.doc_index[e], sources) \in [Docs -> Nat]
    BY <2>1, ListedType DEF TenantData
  <2>4. new \in TenantData(data.next_snap)
    BY <2>1, <2>2, <2>3 DEF TenantData
  <2>5. tenants' = [tenants EXCEPT ![t] = new]
    BY <1>1 DEF upsert_entity
  <2> QED
    BY <2>1, <2>4, <2>5, OneTenantType
<1>2. ASSUME NEW t \in Tenants, NEW src \in Entities, NEW edge \in Edge,
             upsert_edge(t, src, edge)
      PROVE  TypeOK'
  <2> DEFINE data == tenants[t]
             new == [data EXCEPT !.out_edges[src] = Append(@, edge)]
  <2>1. data \in TenantData(data.next_snap) /\ data.next_snap \in Nat
    BY DEF TypeOK
  <2>2. data.out_edges \in [Entities -> Seq(Edge)]
    BY <2>1 DEF TenantData
  <2>3. Append(data.out_edges[src], edge) \in Seq(Edge)
    BY <2>2
  <2>4. new \in TenantData(data.next_snap)
    BY <2>1, <2>3 DEF TenantData
  <2>5. tenants' = [tenants EXCEPT ![t] = new]
    BY <1>2 DEF upsert_edge
  <2> QED
    BY <2>1, <2>4, <2>5, OneTenantType
<1>3. ASSUME NEW t \in Tenants, snapshot(t)
      PROVE  TypeOK'
  <2> DEFINE data == tenants[t]
             n == data.next_snap
             new == [data EXCEPT !.snapshots = Put(@, data.next_snap, PayloadOf(data)),
                                 !.next_snap = @ + 1]
  <2>1. data \in TenantData(n) /\ n \in Nat
    BY DEF TypeOK
  <2>2. PayloadOf(data) \in Payload
    BY <2>1, PayloadType
  <2>3. Put(data.snapshots, n, PayloadOf(data)) \in [0..n -> Payload]
    BY <2>1, <2>2 DEF TenantData, Put
  <2>4. n + 1 \in Nat /\ (n + 1) - 1 = n
    BY <2>1
  <2>5. new \in TenantData(n + 1)
    BY <2>1, <2>3, <2>4 DEF TenantData
  <2>6. tenants' = [tenants EXCEPT ![t] = new]
    BY <1>3 DEF snapshot
  <2> QED
    BY <2>4, <2>5, <2>6, OneTenantType
<1>4. ASSUME NEW t \in Tenants, NEW snap \in DOMAIN tenants[t].snapshots, restore(t, snap)
      PROVE  TypeOK'
  <2> DEFINE data == tenants[t]
             v == data.snapshots[snap]
             new == [data EXCEPT !.entities = v.entities,
                                 !.out_edges = v.out_edges,
                                 !.doc_index = v.doc_index]
  <2>1. data \in TenantData(data.next_snap) /\ data.next_snap \in Nat
    BY DEF TypeOK
  <2>2. v \in Payload
    BY <2>1 DEF TenantData
  <2>3. new \in TenantData(data.next_snap)
    BY <2>1, <2>2 DEF TenantData, Payload
  <2>4. tenants' = [tenants EXCEPT ![t] = new]
    BY <1>4 DEF restore
  <2> QED
    BY <2>1, <2>3, <2>4, OneTenantType
<1>5. CASE UNCHANGED tenants
  BY <1>5 DEF TypeOK, TenantData, Payload, MapsOf, Edge
<1> QED
  BY <1>1, <1>2, <1>3, <1>4, <1>5 DEF Next

\* Every tenant's data is always well formed, and its snapshots are numbered
\* from 0 without gaps.
THEOREM TypeCorrect == Spec => []TypeOK
BY InitTypeOK, NextTypeOK, PTL DEF Spec

-----------------------------------------------------------------------------
(***************************************************************************)
(* Consistency of every version.  A restore brings a saved version back,   *)
(* so what holds of the graph is inductive only together with the same of  *)
(* every snapshot: hence the invariant speaks of all versions.             *)
(***************************************************************************)

Good(v) == EdgesAnchored(v) /\ IndexCovers(v)

VersionsGood == \A t \in Tenants : \A v \in Versions(t) : Good(v)

\* It suffices that each version after a call is an old one or good.
LEMMA OneTenantGood ==
    ASSUME TypeOK, VersionsGood, NEW t \in Tenants, NEW new,
           tenants' = [tenants EXCEPT ![t] = new],
           PayloadOf(new) \in Versions(t) \/ Good(PayloadOf(new)),
           \A i \in DOMAIN new.snapshots : new.snapshots[i] \in Versions(t)
    PROVE  VersionsGood'
<1> SUFFICES ASSUME NEW u \in Tenants, NEW v \in Versions(u)' PROVE Good(v)
  BY DEF VersionsGood, Good, EdgesAnchored, IndexCovers
<1>1. CASE u = t
  <2>1. tenants'[u] = new
    BY <1>1 DEF TypeOK
  <2>2. v = PayloadOf(new) \/ \E i \in DOMAIN new.snapshots : v = new.snapshots[i]
    BY <2>1 DEF Versions, PayloadOf
  <2>3. v \in Versions(t) \/ Good(v)
    BY <2>2
  <2> QED
    BY <2>3 DEF VersionsGood
<1>2. CASE u # t
  <2>1. tenants'[u] = tenants[u]
    BY <1>2 DEF TypeOK
  <2>2. v \in Versions(u)
    BY <2>1 DEF Versions, PayloadOf
  <2> QED
    BY <2>2 DEF VersionsGood
<1> QED
  BY <1>1, <1>2

LEMMA InitGood == Init => VersionsGood
<1> SUFFICES ASSUME Init, NEW t \in Tenants, NEW v \in Versions(t) PROVE Good(v)
  BY DEF VersionsGood
<1>1. tenants[t] = EmptyTenant
  BY DEF Init
<1>2. v = PayloadOf(EmptyTenant)
  BY <1>1 DEF Versions, EmptyTenant, EmptyMap
<1>3. v.entities = EmptyMap /\ v.out_edges = [e \in Entities |-> <<>>]
  BY <1>2 DEF PayloadOf, EmptyTenant
<1> QED
  BY <1>3 DEF Good, EdgesAnchored, IndexCovers, EmptyMap

\* Storing an entity keeps its documents listed and removes no end of an edge.
LEMMA UpsertEntityGood ==
    ASSUME TypeOK, VersionsGood, NEW t \in Tenants, NEW e \in Entities,
           NEW sources \in SUBSET Docs, upsert_entity(t, e, sources)
    PROVE  VersionsGood'
<1> DEFINE data == tenants[t]
           new == [data EXCEPT !.doc_index[e] = Listed(@, sources),
                               !.entities = Put(@, e, sources)]
           old == PayloadOf(data)
           v == PayloadOf(new)
<1>1. data \in TenantData(data.next_snap)
  BY DEF TypeOK
<1>2. Good(old)
  BY DEF VersionsGood, Versions
<1>3. /\ v.entities = Put(old.entities, e, sources)
      /\ v.out_edges = old.out_edges
      /\ v.doc_index = [old.doc_index EXCEPT ![e] = Listed(@, sources)]
      /\ new.snapshots = data.snapshots
  BY <1>1 DEF TenantData, PayloadOf
<1>4. old.doc_index \in [Entities -> [Docs -> Nat]] /\ old.entities \in MapsOf(Entities, SUBSET Docs)
  BY <1>1 DEF TenantData, PayloadOf
<1> HIDE DEF v, old
<1>5. EdgesAnchored(v)
  BY <1>2, <1>3 DEF Good, EdgesAnchored, Put
<1>6. IndexCovers(v)
  <2> SUFFICES ASSUME NEW f \in DOMAIN v.entities, NEW d \in v.entities[f]
               PROVE  v.doc_index[f][d] > 0
    BY DEF IndexCovers
  <2>1. f \in Entities /\ v.entities[f] \subseteq Docs
    BY <1>3, <1>4 DEF Put, MapsOf
  <2>2. old.doc_index[f][d] \in Nat
    BY <1>4, <2>1
  <2>3. CASE f = e
    <3>1. d \in sources
      BY <1>3, <2>3 DEF Put
    <3>2. v.doc_index[f][d] = old.doc_index[f][d] + 1
      BY <1>3, <1>4, <2>3, <3>1 DEF Listed
    <3> QED
      BY <2>2, <3>2
  <2>4. CASE f # e
    <3>1. f \in DOMAIN old.entities /\ d \in old.entities[f]
      BY <1>3, <2>4 DEF Put
    <3>2. v.doc_index[f] = old.doc_index[f]
      BY <1>3, <1>4, <2>1, <2>4
    <3> QED
      BY <1>2, <3>1, <3>2 DEF Good, IndexCovers
  <2> QED
    BY <2>3, <2>4
<1>7. Good(PayloadOf(new))
  BY <1>5, <1>6 DEF Good, v
<1>8. \A i \in DOMAIN new.snapshots : new.snapshots[i] \in Versions(t)
  BY <1>3 DEF Versions
<1>9. tenants' = [tenants EXCEPT ![t] = new]
  BY DEF upsert_entity
<1> HIDE DEF new
<1> QED
  BY <1>7, <1>8, <1>9, OneTenantGood

\* A new edge joins two entities that are stored.
LEMMA UpsertEdgeGood ==
    ASSUME TypeOK, VersionsGood, NEW t \in Tenants, NEW src \in Entities,
           NEW edge \in Edge, upsert_edge(t, src, edge)
    PROVE  VersionsGood'
<1> DEFINE data == tenants[t]
           new == [data EXCEPT !.out_edges[src] = Append(@, edge)]
           old == PayloadOf(data)
           v == PayloadOf(new)
<1>1. data \in TenantData(data.next_snap)
  BY DEF TypeOK
<1>2. Good(old)
  BY DEF VersionsGood, Versions
<1>3. /\ v.entities = old.entities
      /\ v.out_edges = [old.out_edges EXCEPT ![src] = Append(@, edge)]
      /\ v.doc_index = old.doc_index
      /\ new.snapshots = data.snapshots
  BY <1>1 DEF TenantData, PayloadOf
<1>4. old.out_edges \in [Entities -> Seq(Edge)]
  BY <1>1 DEF TenantData, PayloadOf
<1>5. src \in DOMAIN old.entities /\ edge.dst \in DOMAIN old.entities
  BY DEF upsert_edge, PayloadOf
<1> HIDE DEF v, old
<1>6. EdgesAnchored(v)
  <2> SUFFICES ASSUME NEW f \in Entities, NEW i \in DOMAIN v.out_edges[f]
               PROVE  f \in DOMAIN v.entities /\ v.out_edges[f][i].dst \in DOMAIN v.entities
    BY DEF EdgesAnchored
  <2>1. CASE f = src
    <3>1. v.out_edges[f] = Append(old.out_edges[f], edge) /\ old.out_edges[f] \in Seq(Edge)
      BY <1>3, <1>4, <2>1
    <3>2. i \in 1..(Len(old.out_edges[f]) + 1)
      BY <3>1
    <3>3. CASE i \in 1..Len(old.out_edges[f])
      <4>1. v.out_edges[f][i] = old.out_edges[f][i] /\ i \in DOMAIN old.out_edges[f]
        BY <3>1, <3>3
      <4> QED
        BY <1>2, <1>3, <4>1 DEF Good, EdgesAnchored
    <3>4. CASE i = Len(old.out_edges[f]) + 1
      <4>1. v.out_edges[f][i] = edge
        BY <3>1, <3>4
      <4> QED
        BY <1>3, <1>5, <2>1, <4>1
    <3> QED
      BY <3>1, <3>2, <3>3, <3>4
  <2>2. CASE f # src
    <3>1. v.out_edges[f] = old.out_edges[f]
      BY <1>3, <1>4, <2>2
    <3> QED
      BY <1>2, <1>3, <3>1 DEF Good, EdgesAnchored
  <2> QED
    BY <2>1, <2>2
<1>7. Good(PayloadOf(new))
  BY <1>2, <1>3, <1>6 DEF Good, IndexCovers, v
<1>8. \A i \in DOMAIN new.snapshots : new.snapshots[i] \in Versions(t)
  BY <1>3 DEF Versions
<1>9. tenants' = [tenants EXCEPT ![t] = new]
  BY DEF upsert_edge
<1> HIDE DEF new
<1> QED
  BY <1>7, <1>8, <1>9, OneTenantGood

\* A snapshot is a copy of the graph.
LEMMA SnapshotGood ==
    ASSUME TypeOK, VersionsGood, NEW t \in Tenants, snapshot(t)
    PROVE  VersionsGood'
<1> DEFINE data == tenants[t]
           new == [data EXCEPT !.snapshots = Put(@, data.next_snap, PayloadOf(data)),
                               !.next_snap = @ + 1]
<1>1. data \in TenantData(data.next_snap)
  BY DEF TypeOK
<1>2. PayloadOf(new) = PayloadOf(data) /\ new.snapshots = Put(data.snapshots, data.next_snap, PayloadOf(data))
  BY <1>1 DEF TenantData, PayloadOf
<1>3. PayloadOf(new) \in Versions(t)
  BY <1>2 DEF Versions
<1>4. \A i \in DOMAIN new.snapshots : new.snapshots[i] \in Versions(t)
  BY <1>2 DEF Versions, Put
<1>5. tenants' = [tenants EXCEPT ![t] = new]
  BY DEF snapshot
<1> HIDE DEF new
<1> QED
  BY <1>3, <1>4, <1>5, OneTenantGood

\* A restore brings back a version that was good when it was saved.
LEMMA RestoreGood ==
    ASSUME TypeOK, VersionsGood, NEW t \in Tenants,
           NEW snap \in DOMAIN tenants[t].snapshots, restore(t, snap)
    PROVE  VersionsGood'
<1> DEFINE data == tenants[t]
           v == data.snapshots[snap]
           new == [data EXCEPT !.entities = v.entities,
                               !.out_edges = v.out_edges,
                               !.doc_index = v.doc_index]
<1>1. data \in TenantData(data.next_snap)
  BY DEF TypeOK
<1>2. v \in Payload
  BY <1>1 DEF TenantData
<1>3. PayloadOf(new) = v /\ new.snapshots = data.snapshots
  BY <1>1, <1>2 DEF TenantData, PayloadOf, Payload
<1>4. PayloadOf(new) \in Versions(t)
  BY <1>3 DEF Versions
<1>5. \A i \in DOMAIN new.snapshots : new.snapshots[i] \in Versions(t)
  BY <1>3 DEF Versions
<1>6. tenants' = [tenants EXCEPT ![t] = new]
  BY DEF restore
<1> HIDE DEF new
<1> QED
  BY <1>4, <1>5, <1>6, OneTenantGood

LEMMA NextGood == TypeOK /\ VersionsGood /\ [Next]_tenants => VersionsGood'
<1>1. ASSUME TypeOK, VersionsGood, UNCHANGED tenants PROVE VersionsGood'
  BY <1>1 DEF VersionsGood, Versions, PayloadOf, Good, EdgesAnchored, IndexCovers
<1> QED
  BY <1>1, UpsertEntityGood, UpsertEdgeGood, SnapshotGood, RestoreGood DEF Next

LEMMA AlwaysGood == Spec => []VersionsGood
BY InitGood, NextGood, TypeCorrect, PTL DEF Spec

\* No edge of the graph, nor of any snapshot that could become the graph, has
\* an end that is not stored.
THEOREM NoDanglingEdgeEver == Spec => []NoDanglingEdge
<1>1. VersionsGood => NoDanglingEdge
  BY DEF VersionsGood, Good, NoDanglingEdge
<1> QED
  BY <1>1, AlwaysGood, PTL

\* Every source document of an entity is found through that entity.
THEOREM SourcesAlwaysIndexed == Spec => []DocIndexCoversSources
<1>1. VersionsGood => DocIndexCoversSources
  BY DEF VersionsGood, Good, DocIndexCoversSources
<1> QED
  BY <1>1, AlwaysGood, PTL

-----------------------------------------------------------------------------
\* No step changes or drops a snapshot that was taken.
THEOREM SnapshotsAlwaysKept == Spec => SnapshotsKept
<1> DEFINE Kept == \A t \in Tenants : \A i \in DOMAIN tenants[t].snapshots :
                       /\ i \in DOMAIN tenants'[t].snapshots
                       /\ tenants'[t].snapshots[i] = tenants[t].snapshots[i]
<1>1. TypeOK /\ [Next]_tenants => [Kept]_tenants
  <2> SUFFICES ASSUME TypeOK, NEW t \in Tenants, Next, NEW u \in Tenants,
                      NEW i \in DOMAIN tenants[u].snapshots
               PROVE  /\ i \in DOMAIN tenants'[u].snapshots
                      /\ tenants'[u].snapshots[i] = tenants[u].snapshots[i]
    OBVIOUS
  <2>1. tenants[u] \in TenantData(tenants[u].next_snap) /\ tenants[u].next_snap \in Nat
    BY DEF TypeOK
  <2>2. CASE \E e \in Entities, sources \in SUBSET Docs : upsert_entity(u, e, sources)
    <3>1. tenants'[u].snapshots = tenants[u].snapshots
      BY <2>1, <2>2 DEF upsert_entity, TypeOK, TenantData
    <3> QED
      BY <3>1
  <2>3. CASE \E src \in Entities, edge \in Edge : upsert_edge(u, src, edge)
    <3>1. tenants'[u].snapshots = tenants[u].snapshots
      BY <2>1, <2>3 DEF upsert_edge, TypeOK, TenantData
    <3> QED
      BY <3>1
  <2>4. CASE snapshot(u)
    <3>1. tenants'[u].snapshots =
              Put(tenants[u].snapshots, tenants[u].next_snap, PayloadOf(tenants[u]))
      BY <2>1, <2>4 DEF snapshot, TypeOK, TenantData
    <3>2. i # tenants[u].next_snap
      BY <2>1 DEF TenantData
    <3> QED
      BY <3>1, <3>2 DEF Put
  <2>5. CASE \E snap \in DOMAIN tenants[u].snapshots : restore(u, snap)
    <3>1. tenants'[u].snapshots = tenants[u].snapshots
      BY <2>1, <2>5 DEF restore, TypeOK, TenantData
    <3> QED
      BY <3>1
  <2>6. CASE tenants'[u] = tenants[u]
    BY <2>6
  <2>7. \A w \in Tenants : w # u =>
            /\ \A e \in Entities, sources \in SUBSET Docs :
                  upsert_entity(w, e, sources) => tenants'[u] = tenants[u]
            /\ \A src \in Entities, edge \in Edge :
                  upsert_edge(w, src, edge) => tenants'[u] = tenants[u]
            /\ snapshot(w) => tenants'[u] = tenants[u]
            /\ \A snap \in DOMAIN tenants[w].snapshots :
                  restore(w, snap) => tenants'[u] = tenants[u]
    BY DEF upsert_entity, upsert_edge, snapshot, restore, TypeOK
  <2> QED
    BY <2>2, <2>3, <2>4, <2>5, <2>6, <2>7 DEF Next
<1> QED
  BY <1>1, TypeCorrect, PTL DEF Spec, SnapshotsKept

-----------------------------------------------------------------------------
(***************************************************************************)
(* MemGraphStore implements GraphStore.                                    *)
(***************************************************************************)

graph == [t \in Tenants |-> GraphOf(PayloadOf(tenants[t]))]
snaps == [t \in Tenants |-> SnapsOf(tenants[t])]

\* A call of one tenant changes the graph and the snapshots of that tenant.
LEMMA OneTenantMapped ==
    ASSUME TypeOK, NEW t \in Tenants, NEW new, tenants' = [tenants EXCEPT ![t] = new]
    PROVE  /\ graph' = [graph EXCEPT ![t] = GraphOf(PayloadOf(new))]
           /\ snaps' = [snaps EXCEPT ![t] = SnapsOf(new)]
<1>1. \A u \in Tenants : tenants'[u] = IF u = t THEN new ELSE tenants[u]
  BY DEF TypeOK
<1>2. graph' = [u \in Tenants |-> GraphOf(PayloadOf(tenants'[u]))]
  BY DEF graph, GraphOf, PayloadOf
<1>3. snaps' = [u \in Tenants |-> SnapsOf(tenants'[u])]
  BY DEF snaps, SnapsOf, GraphOf
<1>4. ASSUME NEW u \in Tenants
      PROVE  /\ GraphOf(PayloadOf(tenants'[u])) = IF u = t THEN GraphOf(PayloadOf(new)) ELSE graph[u]
             /\ SnapsOf(tenants'[u]) = IF u = t THEN SnapsOf(new) ELSE snaps[u]
  <2>1. CASE u = t
    BY <1>1, <2>1
  <2>2. CASE u # t
    <3>1. tenants'[u] = tenants[u]
      BY <1>1, <2>2
    <3> QED
      BY <2>2, <3>1 DEF graph, snaps
  <2> QED
    BY <2>1, <2>2
<1>5. graph = [u \in Tenants |-> graph[u]] /\ snaps = [u \in Tenants |-> snaps[u]]
  BY DEF graph, snaps
<1> QED
  BY <1>2, <1>3, <1>4, <1>5

\* A sequence tabulated one entry further is the sequence with an entry more.
LEMMA TabulateAppend ==
    ASSUME NEW n \in Nat, NEW f, NEW x,
           NEW g, g = [i \in 1..(n + 1) |-> IF i = n + 1 THEN x ELSE f[i]]
    PROVE  g = Append([i \in 1..n |-> f[i]], x)
<1> DEFINE s == [i \in 1..n |-> f[i]]
           S == {f[i] : i \in 1..n} \cup {x}
<1>1. s \in Seq(S) /\ Len(s) = n
  OBVIOUS
<1>2. g \in Seq(S) /\ Len(g) = n + 1
  OBVIOUS
<1>3. Append(s, x) \in Seq(S) /\ Len(Append(s, x)) = n + 1
  BY <1>1
<1>4. \A i \in 1..(n + 1) : g[i] = Append(s, x)[i]
  BY <1>1
<1> QED
  BY <1>2, <1>3, <1>4

\* Each call has the effect the trait promises.
LEMMA UpsertEntityMapped ==
    ASSUME TypeOK, NEW t \in Tenants, NEW e \in Entities,
           NEW sources \in SUBSET Docs, upsert_entity(t, e, sources)
    PROVE  Promise!upsert_entity(t, e, sources)
<1> DEFINE data == tenants[t]
           new == [data EXCEPT !.doc_index[e] = Listed(@, sources),
                               !.entities = Put(@, e, sources)]
           old == PayloadOf(data)
           v == PayloadOf(new)
<1>1. data \in TenantData(data.next_snap)
  BY DEF TypeOK
<1>2. /\ v.entities = Put(old.entities, e, sources)
      /\ v.out_edges = old.out_edges
      /\ v.doc_index = [old.doc_index EXCEPT ![e] = Listed(@, sources)]
      /\ new.snapshots = data.snapshots /\ new.next_snap = data.next_snap
  BY <1>1 DEF TenantData, PayloadOf
<1>3. old.doc_index \in [Entities -> [Docs -> Nat]]
  BY <1>1 DEF TenantData, PayloadOf
<1>4. SnapsOf(new) = SnapsOf(data)
  BY <1>2 DEF SnapsOf
<1>5. tenants' = [tenants EXCEPT ![t] = new]
  BY DEF upsert_entity
<1> HIDE DEF v, old, new
<1>6. GraphOf(v) = Promise!WithEntity(GraphOf(old), e, sources)
  <2>1. GraphOf(v).doc_index = [GraphOf(old).doc_index EXCEPT ![e] = @ \cup sources]
    <3>1. ASSUME NEW f \in Entities
          PROVE  GraphOf(v).doc_index[f]
                   = IF f = e THEN GraphOf(old).doc_index[f] \cup sources ELSE GraphOf(old).doc_index[f]
      <4>1. \A d \in Docs : old.doc_index[f][d] \in Nat
        BY <1>3
      <4>2. \A d \in Docs : v.doc_index[f][d] =
                IF f = e /\ d \in sources THEN old.doc_index[f][d] + 1 ELSE old.doc_index[f][d]
        BY <1>2, <1>3 DEF Listed
      <4> QED
        BY <4>1, <4>2 DEF GraphOf
    <3>2. /\ GraphOf(v).doc_index = [f \in Entities |-> GraphOf(v).doc_index[f]]
          /\ GraphOf(old).doc_index = [f \in Entities |-> GraphOf(old).doc_index[f]]
      BY DEF GraphOf
    <3> QED
      BY <3>1, <3>2
  <2>2. /\ GraphOf(v).entities = Put(GraphOf(old).entities, e, sources)
        /\ GraphOf(v).out_edges = GraphOf(old).out_edges
    BY <1>2 DEF GraphOf
  <2> QED
    BY <2>1, <2>2 DEF GraphOf, Promise!WithEntity, Promise!Put, Put
<1>7. graph' = [graph EXCEPT ![t] = Promise!WithEntity(@, e, sources)]
  BY <1>5, <1>6, OneTenantMapped DEF graph, v, old
<1>8. snaps' = snaps
  BY <1>4, <1>5, OneTenantMapped DEF snaps
<1> QED
  BY <1>7, <1>8 DEF Promise!upsert_entity, graph, snaps

LEMMA UpsertEdgeMapped ==
    ASSUME TypeOK, NEW t \in Tenants, NEW src \in Entities,
           NEW edge \in Edge, upsert_edge(t, src, edge)
    PROVE  Promise!upsert_edge(t, src, edge)
<1> DEFINE data == tenants[t]
           new == [data EXCEPT !.out_edges[src] = Append(@, edge)]
           old == PayloadOf(data)
           v == PayloadOf(new)
<1>1. data \in TenantData(data.next_snap)
  BY DEF TypeOK
<1>2. /\ v.entities = old.entities
      /\ v.out_edges = [old.out_edges EXCEPT ![src] = Append(@, edge)]
      /\ v.doc_index = old.doc_index
      /\ new.snapshots = data.snapshots /\ new.next_snap = data.next_snap
  BY <1>1 DEF TenantData, PayloadOf
<1>3. SnapsOf(new) = SnapsOf(data)
  BY <1>2 DEF SnapsOf
<1>4. tenants' = [tenants EXCEPT ![t] = new]
  BY DEF upsert_edge
<1>5. Promise!HasEndpoints(GraphOf(old), src, edge)
  BY DEF upsert_edge, Promise!HasEndpoints, GraphOf, PayloadOf
<1> HIDE DEF v, old, new
<1>6. GraphOf(v) = Promise!WithEdge(GraphOf(old), src, edge)
  <2>1. /\ GraphOf(v).entities = GraphOf(old).entities
        /\ GraphOf(v).out_edges = [GraphOf(old).out_edges EXCEPT ![src] = Append(@, edge)]
        /\ GraphOf(v).doc_index = GraphOf(old).doc_index
    BY <1>2 DEF GraphOf
  <2> QED
    BY <2>1 DEF GraphOf, Promise!WithEdge
<1>7. graph' = [graph EXCEPT ![t] = Promise!WithEdge(GraphOf(old), src, edge)]
  <2>1. graph' = [graph EXCEPT ![t] = GraphOf(v)]
    BY <1>4, OneTenantMapped DEF v
  <2> QED
    BY <1>6, <2>1
<1>8. snaps' = snaps
  BY <1>3, <1>4, OneTenantMapped DEF snaps
<1>9. graph[t] = GraphOf(old)
  BY DEF graph, old
<1> QED
  BY <1>5, <1>7, <1>8, <1>9 DEF Promise!upsert_edge, graph, snaps

LEMMA SnapshotMapped ==
    ASSUME TypeOK, NEW t \in Tenants, snapshot(t)
    PROVE  Promise!snapshot(t)
<1> DEFINE data == tenants[t]
           n == data.next_snap
           new == [data EXCEPT !.snapshots = Put(@, data.next_snap, PayloadOf(data)),
                               !.next_snap = @ + 1]
<1>1. data \in TenantData(n) /\ n \in Nat
  BY DEF TypeOK
<1>2. /\ PayloadOf(new) = PayloadOf(data)
      /\ new.snapshots = Put(data.snapshots, n, PayloadOf(data))
      /\ new.next_snap = n + 1
  BY <1>1 DEF TenantData, PayloadOf
<1>3. tenants' = [tenants EXCEPT ![t] = new]
  BY DEF snapshot
<1>4. DOMAIN data.snapshots = 0..(n - 1)
  BY <1>1 DEF TenantData
<1> HIDE DEF new
<1>5. SnapsOf(new) = Append(SnapsOf(data), GraphOf(PayloadOf(data)))
  <2> DEFINE f == [i \in 1..n |-> GraphOf(data.snapshots[i - 1])]
             x == GraphOf(PayloadOf(data))
  <2>1. ASSUME NEW i \in 1..(n + 1)
        PROVE  GraphOf(new.snapshots[i - 1]) = IF i = n + 1 THEN x ELSE f[i]
    <3>1. CASE i = n + 1
      <4>1. new.snapshots[i - 1] = PayloadOf(data)
        BY <1>1, <1>2, <3>1 DEF Put
      <4> QED
        BY <3>1, <4>1
    <3>2. CASE i # n + 1
      <4>1. i \in 1..n /\ i - 1 \in 0..(n - 1) /\ i - 1 # n
        BY <1>1, <3>2
      <4>2. new.snapshots[i - 1] = data.snapshots[i - 1]
        BY <1>2, <1>4, <4>1 DEF Put
      <4> QED
        BY <3>2, <4>1, <4>2
    <3> QED
      BY <3>1, <3>2
  <2>2. SnapsOf(new) = [i \in 1..(n + 1) |-> GraphOf(new.snapshots[i - 1])]
    BY <1>2 DEF SnapsOf
  <2>3. SnapsOf(data) = [i \in 1..n |-> f[i]]
    BY DEF SnapsOf
  <2> HIDE DEF f, x, n
  <2>4. SnapsOf(new) = [i \in 1..(n + 1) |-> IF i = n + 1 THEN x ELSE f[i]]
    BY <2>1, <2>2
  <2>5. n \in Nat
    BY <1>1 DEF n
  <2>6. SnapsOf(new) = Append(SnapsOf(data), x)
    BY <2>3, <2>4, <2>5, TabulateAppend
  <2> QED
    BY <2>6 DEF x
<1>6. graph' = graph
  BY <1>2, <1>3, OneTenantMapped DEF graph
<1>7. snaps' = [snaps EXCEPT ![t] = Append(snaps[t], graph[t])]
  <2>1. snaps' = [snaps EXCEPT ![t] = SnapsOf(new)]
    BY <1>3, OneTenantMapped
  <2>2. snaps[t] = SnapsOf(data) /\ graph[t] = GraphOf(PayloadOf(data))
    BY DEF graph, snaps
  <2>3. SnapsOf(new) = Append(snaps[t], graph[t])
    BY <1>5, <2>2
  <2> QED
    BY <2>1, <2>3
<1> QED
  BY <1>6, <1>7 DEF Promise!snapshot, graph, snaps

LEMMA RestoreMapped ==
    ASSUME TypeOK, NEW t \in Tenants, NEW snap \in DOMAIN tenants[t].snapshots, restore(t, snap)
    PROVE  snap + 1 \in 1..Len(snaps[t]) /\ Promise!restore(t, snap + 1)
<1> DEFINE data == tenants[t]
           v == data.snapshots[snap]
           new == [data EXCEPT !.entities = v.entities,
                               !.out_edges = v.out_edges,
                               !.doc_index = v.doc_index]
<1>1. data \in TenantData(data.next_snap) /\ data.next_snap \in Nat
  BY DEF TypeOK
<1>2. v \in Payload /\ snap \in 0..(data.next_snap - 1)
  BY <1>1 DEF TenantData
<1>3. /\ PayloadOf(new) = v
      /\ new.snapshots = data.snapshots /\ new.next_snap = data.next_snap
  BY <1>1, <1>2 DEF TenantData, PayloadOf, Payload
<1>4. tenants' = [tenants EXCEPT ![t] = new]
  BY DEF restore
<1> HIDE DEF new
<1>5. SnapsOf(new) = SnapsOf(data)
  BY <1>3 DEF SnapsOf
<1>6. snap + 1 \in 1..data.next_snap /\ (snap + 1) - 1 = snap
  BY <1>1, <1>2
<1>7. snaps[t] = SnapsOf(data)
  BY DEF snaps
<1>8. snap + 1 \in 1..Len(snaps[t]) /\ snaps[t][snap + 1] = GraphOf(v)
  BY <1>1, <1>6, <1>7 DEF SnapsOf
<1>9. graph' = [graph EXCEPT ![t] = snaps[t][snap + 1]]
  <2>1. graph' = [graph EXCEPT ![t] = GraphOf(PayloadOf(new))]
    BY <1>4, OneTenantMapped
  <2>2. GraphOf(PayloadOf(new)) = snaps[t][snap + 1]
    BY <1>3, <1>8
  <2> QED
    BY <2>1, <2>2
<1>10. snaps' = snaps
  BY <1>4, <1>5, OneTenantMapped DEF snaps
<1> QED
  BY <1>8, <1>9, <1>10 DEF Promise!restore, graph, snaps

LEMMA InitMapped == Init => Promise!Init
<1> SUFFICES ASSUME Init PROVE Promise!Init
  OBVIOUS
<1>1. \A t \in Tenants : tenants[t] = EmptyTenant
  BY DEF Init
<1>2. GraphOf(PayloadOf(EmptyTenant)) = Promise!EmptyGraph
  <2>1. EmptyMap = Promise!EmptyMap
    BY DEF EmptyMap, Promise!EmptyMap
  <2>2. [e \in Entities |-> {d \in Docs : [f \in Entities |-> [c \in Docs |-> 0]][e][d] > 0}]
          = [e \in Entities |-> {}]
    OBVIOUS
  <2> QED
    BY <2>1, <2>2 DEF EmptyTenant, PayloadOf, GraphOf, Promise!EmptyGraph
<1>3. SnapsOf(EmptyTenant) = <<>>
  BY DEF SnapsOf, EmptyTenant
<1> QED
  BY <1>1, <1>2, <1>3 DEF Promise!Init

LEMMA NextMapped == TypeOK /\ [Next]_tenants => [Promise!Next]_Promise!storeVars
<1> SUFFICES ASSUME TypeOK, [Next]_tenants PROVE [Promise!Next]_Promise!storeVars
  OBVIOUS
<1>1. ASSUME NEW t \in Tenants, NEW e \in Entities, NEW sources \in SUBSET Docs,
             upsert_entity(t, e, sources)
      PROVE  Promise!Next
  BY <1>1, UpsertEntityMapped DEF Promise!Next
<1>2. ASSUME NEW t \in Tenants, NEW src \in Entities, NEW edge \in Edge,
             upsert_edge(t, src, edge)
      PROVE  Promise!Next
  <2>1. edge \in Promise!Edge
    BY DEF Edge, Promise!Edge
  <2> QED
    BY <1>2, <2>1, UpsertEdgeMapped DEF Promise!Next
<1>3. ASSUME NEW t \in Tenants, snapshot(t) PROVE Promise!Next
  BY <1>3, SnapshotMapped DEF Promise!Next
<1>4. ASSUME NEW t \in Tenants, NEW snap \in DOMAIN tenants[t].snapshots, restore(t, snap)
      PROVE  Promise!Next
  BY <1>4, RestoreMapped DEF Promise!Next, snaps
<1>5. CASE UNCHANGED tenants
  BY <1>5 DEF Promise!storeVars, GraphOf, PayloadOf, SnapsOf
<1> QED
  BY <1>1, <1>2, <1>3, <1>4, <1>5 DEF Next

\* Up to repeated listings of a document, MemGraphStore does what the trait
\* promises, for any number of tenants, entities, edges and snapshots.
THEOREM Refinement == Spec => ImplementsGraphStore
<1>1. Spec => Promise!Spec
  BY InitMapped, NextMapped, TypeCorrect, PTL DEF Spec, Promise!Spec
<1> QED
  BY <1>1 DEF ImplementsGraphStore
=============================================================================
