---------------------------- MODULE Reader_proofs ----------------------------
(***************************************************************************)
(* Proofs about the read path, for any store, index, readers, plans and    *)
(* runs: what a read returns is sound, a plan is asked for once, and what  *)
(* an evaluation reports is honest.                                        *)
(* Before them, about the message-passing layers for any graph and shape:  *)
(* the flat buffers hold what the formula of the layers says.              *)
(***************************************************************************)
EXTENDS MessagePassing, Induction_proofs, FiniteSetTheorems, SequenceTheorems, TLAPS

Mem == INSTANCE MemGraphStore_proofs WITH Tenants <- {Tenant}

-----------------------------------------------------------------------------
(***************************************************************************)
(* A layer: the flat buffers of the code hold what Formula says of the     *)
(* graph.                                                                  *)
(***************************************************************************)

\* Rows of d columns fill a buffer exactly.
LEMMA RowsFill ==
    \A n \in Nat, d \in Nat \ {0} : n * d \in Nat /\ (n * d) % d = 0 /\ (n * d) \div d = n
OBVIOUS

\* A number of the code is in one place of one row.
LEMMA PlaceSplits ==
    ASSUME NEW d \in Nat \ {0}, NEW v \in Nat, NEW j \in 0..(d - 1)
    PROVE  (v * d + j) \div d = v /\ (v * d + j) % d = j /\ v * d + j \in Nat
OBVIOUS

LEMMA PlaceOf ==
    ASSUME NEW n \in Nat, NEW d \in Nat \ {0}, NEW p \in 1..(n * d)
    PROVE  /\ (p - 1) \div d \in 0..(n - 1) /\ (p - 1) % d \in 0..(d - 1)
           /\ p = ((p - 1) \div d) * d + ((p - 1) % d) + 1
OBVIOUS

LEMMA PlaceIn ==
    ASSUME NEW n \in Nat, NEW d \in Nat \ {0}, NEW v \in 0..(n - 1), NEW j \in 0..(d - 1)
    PROVE  v * d + j + 1 \in 1..(n * d)
OBVIOUS

\* Row v of rows laid out flat is that of node v.
LEMMA RowOfFlat ==
    ASSUME NEW n \in Nat, NEW d \in Nat \ {0}, NEW rows, NEW v \in 0..(n - 1),
           rows[v] = [c \in 1..d |-> rows[v][c]]
    PROVE  Row(Flat(n, d, rows), v, d) = rows[v]
<1>1. ASSUME NEW c \in 1..d PROVE Flat(n, d, rows)[v * d + c] = rows[v][c]
  <2>1. c - 1 \in 0..(d - 1) /\ v \in Nat /\ v * d + (c - 1) + 1 = v * d + c
    BY <1>1
  <2>2. v * d + c \in 1..(n * d) /\ (v * d + c) - 1 = v * d + (c - 1)
    BY <2>1, PlaceIn
  <2>3. (v * d + (c - 1)) \div d = v /\ (v * d + (c - 1)) % d = c - 1 /\ (c - 1) + 1 = c
    BY <2>1, PlaceSplits
  <2> HIDE DEF Flat
  <2> QED
    BY <2>2, <2>3 DEF Flat
<1> QED
  BY <1>1 DEF Row

\* A buffer of n rows of d columns.
Buffer(n, d, X) == [1..(n * d) -> X]

LEMMA AddedRow ==
    ASSUME NEW n \in Nat, NEW d \in Nat \ {0}, NEW S, NEW dst \in Buffer(n, d, Seq(S)),
           NEW m \in Nat, NEW src \in Buffer(m, d, Seq(S)), NEW i \in 1..m, NEW row
    PROVE  /\ add_row(dst, d, row, Row(src, i - 1, d)) \in Buffer(n, d, Seq(S))
           /\ \A p \in 1..(n * d) :
                 add_row(dst, d, row, Row(src, i - 1, d))[p]
                   = IF (p - 1) \div d = row THEN dst[p] \o src[(i - 1) * d + ((p - 1) % d) + 1] ELSE dst[p]
<1> DEFINE from(p) == src[(i - 1) * d + ((p - 1) % d) + 1]
           new == add_row(dst, d, row, Row(src, i - 1, d))
<1>1. ASSUME NEW p \in 1..(n * d)
      PROVE  Row(src, i - 1, d)[((p - 1) % d) + 1] = from(p) /\ from(p) \in Seq(S)
  <2> DEFINE j == (p - 1) % d
  <2>1. j \in 0..(d - 1)
    BY PlaceOf
  <2> HIDE DEF j
  <2>2. j + 1 \in 1..d /\ (i - 1) * d + j + 1 = (i - 1) * d + (j + 1) /\ i - 1 \in 0..(m - 1)
    BY <2>1
  <2>3. (i - 1) * d + j + 1 \in 1..(m * d)
    BY <2>1, <2>2, PlaceIn
  <2>4. Row(src, i - 1, d)[j + 1] = src[(i - 1) * d + j + 1]
    BY <2>2 DEF Row
  <2>5. src[(i - 1) * d + j + 1] \in Seq(S)
    BY <2>3 DEF Buffer
  <2> QED
    BY <2>4, <2>5 DEF j
<1>2. DOMAIN dst = 1..(n * d) /\ \A p \in 1..(n * d) : dst[p] \in Seq(S)
  BY DEF Buffer
<1> HIDE DEF from
<1>3. new = [p \in 1..(n * d) |-> IF (p - 1) \div d = row THEN dst[p] \o from(p) ELSE dst[p]]
  BY <1>1, <1>2 DEF add_row
<1>4. \A p \in 1..(n * d) : dst[p] \o from(p) \in Seq(S)
  BY <1>1, <1>2, ConcatProperties
<1> HIDE DEF new
<1>5. new \in Buffer(n, d, Seq(S))
  BY <1>2, <1>3, <1>4 DEF Buffer
<1>6. \A p \in 1..(n * d) : new[p] = IF (p - 1) \div d = row THEN dst[p] \o from(p) ELSE dst[p]
  BY <1>3
<1> QED
  BY <1>5, <1>6 DEF new, from

\* The rows come one after the other.
LEMMA RowsAdded ==
    ASSUME NEW n \in Nat, NEW d \in Nat \ {0}, NEW S, NEW dst \in Buffer(n, d, Seq(S)),
           NEW src, NEW indices, Len(indices) \in Nat, src \in Buffer(Len(indices), d, Seq(S))
    PROVE  LET A == added_rows(dst, d, indices, src) IN
           /\ A \in [0..Len(indices) -> Buffer(n, d, Seq(S))] /\ A[0] = dst
           /\ \A i \in 1..Len(indices) : A[i] = add_row(A[i - 1], d, indices[i], Row(src, i - 1, d))
<1> DEFINE N == Len(indices)
           X == Buffer(n, d, Seq(S))
           Add(i, h) == add_row(h, d, indices[i], Row(src, i - 1, d))
           step == [i \in 1..N |-> [h \in X |-> Add(i, h)]]
           F(after) == [i \in 0..N |-> IF i = 0 THEN dst ELSE Add(i, after[i - 1])]
           f == CHOOSE after : after = F(after)
<1>1. N \in Nat /\ dst \in X
  OBVIOUS
<1>2. \A i \in 1..N : \A h \in X : step[i][h] = Add(i, h) /\ step[i][h] \in X
  <2>1. \A i \in 1..N : \A h \in X : Add(i, h) \in X
    BY <1>1, AddedRow
  <2> QED
    BY <2>1
<1>3. added_rows(dst, d, indices, src) = f
  BY DEF added_rows
<1> HIDE DEF N, X, Add, step
<1>4. PICK g \in Recursive(X, dst, N, step) : TRUE
  BY <1>1, <1>2, RecursionExists
<1>5. \A i \in 1..N : i - 1 \in 0..N
  BY <1>1
<1>6. g = F(g)
  <2>1. \A i \in 1..N : g[i] = Add(i, g[i - 1])
    BY <1>2, <1>4, <1>5 DEF Recursive
  <2>2. \A i \in 0..N : i # 0 => i \in 1..N
    BY <1>1
  <2>3. \A i \in 0..N : g[i] = IF i = 0 THEN dst ELSE Add(i, g[i - 1])
    BY <1>4, <2>1, <2>2 DEF Recursive
  <2> QED
    BY <1>4, <2>3 DEF Recursive
<1>7. f = F(f)
  <2> HIDE DEF F
  <2> QED
    BY <1>6
<1> HIDE DEF f
<1>8. f = [i \in 0..N |-> f[i]] /\ f[0] = dst /\ \A i \in 1..N : f[i] = Add(i, f[i - 1])
  <2>1. \A i \in 1..N : i \in 0..N /\ i # 0
    BY <1>1
  <2>2. 0 \in 0..N
    BY <1>1
  <2>3. f = [i \in 0..N |-> f[i]]
    BY <1>7
  <2>4. \A i \in 0..N : f[i] = IF i = 0 THEN dst ELSE Add(i, f[i - 1])
    BY <1>7
  <2> QED
    BY <2>1, <2>2, <2>3, <2>4
<1>9. \A i \in 1..N : f[i - 1] \in X => f[i] = step[i][f[i - 1]]
  BY <1>2, <1>8
<1>10. f \in Recursive(X, dst, N, step)
  BY <1>1, <1>2, <1>8, <1>9, RecursionTyped
<1>11. f \in [0..N -> X]
  BY <1>10 DEF Recursive
<1> QED
  BY <1>3, <1>8, <1>11 DEF N, X, Add

\* Sum is the sum of the messages into v so far, edge by edge.
Sums(l, edges, rows, v, j, sum) ==
    /\ sum[0] = NoSum /\ sum[Len(edges)] = Arriving(l, edges, rows, v, j)
    /\ \A i \in 1..Len(edges) :
          sum[i] = IF edges[i][2] # v THEN sum[i - 1]
                   ELSE sum[i - 1] \o message(l, edges[i][1], v, j, rows[edges[i][1]])

LEMMA MessageIsOne ==
    ASSUME NEW l, NEW u, NEW v, NEW j, NEW row
    PROVE  LET m == message(l, u, v, j, row) IN m = <<m[1]>> /\ m \in Seq({m[1]})
BY DEF message, Term

LEMMA SumsExist ==
    ASSUME NEW l, NEW edges, Len(edges) \in Nat, NEW rows, NEW v, NEW j
    PROVE  \E sum : Sums(l, edges, rows, v, j, sum)
<1> DEFINE N == Len(edges)
           msg == [i \in 1..N |-> message(l, edges[i][1], v, j, rows[edges[i][1]])]
           S == {msg[i][1] : i \in 1..N}
           X == Seq(S)
           More(i, s) == IF edges[i][2] # v THEN s ELSE s \o msg[i]
           step == [i \in 1..N |-> [s \in X |-> More(i, s)]]
           F(sum) == [i \in 0..N |-> IF i = 0 THEN NoSum ELSE IF edges[i][2] # v THEN sum[i - 1]
                         ELSE sum[i - 1] \o message(l, edges[i][1], v, j, rows[edges[i][1]])]
           f == CHOOSE sum : sum = F(sum)
<1>1. N \in Nat /\ NoSum \in X
  BY DEF NoSum
<1>2. ASSUME NEW i \in 1..N PROVE msg[i] \in X
  <2>1. msg[i] = <<msg[i][1]>>
    BY MessageIsOne
  <2>2. msg[i][1] \in S
    OBVIOUS
  <2> HIDE DEF msg, S
  <2>3. <<msg[i][1]>> \in Seq(S)
    BY <2>2
  <2> QED
    BY <2>1, <2>3
<1>3. Arriving(l, edges, rows, v, j) = f[N]
  BY DEF Arriving
<1>4. \A i \in 1..N : msg[i] = message(l, edges[i][1], v, j, rows[edges[i][1]])
  OBVIOUS
<1> HIDE DEF N, msg, S
<1>5. \A i \in 1..N : \A s \in X : step[i][s] = More(i, s) /\ step[i][s] \in X
  BY <1>2, ConcatProperties
<1> HIDE DEF X, step
<1>6. PICK g \in Recursive(X, NoSum, N, step) : TRUE
  BY <1>1, <1>5, RecursionExists
<1>7. \A i \in 1..N : i - 1 \in 0..N
  BY <1>1
<1>8. \A i \in 0..N : i # 0 => i \in 1..N
  BY <1>1
<1>9. g = F(g)
  <2>1. \A i \in 1..N : g[i] = More(i, g[i - 1])
    BY <1>5, <1>6, <1>7 DEF Recursive
  <2>2. \A i \in 0..N : g[i] = F(g)[i]
    BY <1>4, <1>6, <1>8, <2>1 DEF Recursive
  <2> QED
    BY <1>6, <2>2 DEF Recursive
<1>10. f = F(f)
  <2> HIDE DEF F
  <2> QED
    BY <1>9
<1> HIDE DEF f
<1>11. Sums(l, edges, rows, v, j, f)
  <2>1. \A i \in 1..N : i \in 0..N /\ i # 0
    BY <1>1
  <2>2. 0 \in 0..N
    BY <1>1
  <2> QED
    BY <1>3, <1>10, <2>1, <2>2 DEF Sums, N
<1> QED
  BY <1>11

\* Edges between n nodes.
EdgesOf(n) == Seq((0..(n - 1)) \X (0..(n - 1)))

\* rows has a row of d numbers for each node.
RowsFit(n, d, rows) == \A v \in 0..(n - 1) : rows[v] = [c \in 1..d |-> rows[v][c]]

LEMMA MessagesSent ==
    ASSUME NEW n \in Nat, NEW d \in Nat \ {0}, NEW edges \in EdgesOf(n),
           NEW rows, RowsFit(n, d, rows), NEW l
    PROVE  LET src == messages(l, edges, d, Flat(n, d, rows)) IN
           /\ \E S : src \in Buffer(Len(edges), d, Seq(S))
           /\ \A i \in 1..Len(edges), j \in 0..(d - 1) :
                 src[(i - 1) * d + j + 1]
                 = message(l, edges[i][1], edges[i][2], j, rows[edges[i][1]])
<1> DEFINE m == Len(edges)
           h == Flat(n, d, rows)
           src == messages(l, edges, d, h)
           Msg(i, j) == message(l, edges[i][1], edges[i][2], j, Row(h, edges[i][1], d))
<1>1. m \in Nat
      /\ \A i \in 1..m : edges[i][1] \in 0..(n - 1)
  BY LenProperties, ElementOfSeq DEF EdgesOf
<1>2. src = [p \in 1..(m * d) |-> Msg(((p - 1) \div d) + 1, (p - 1) % d)]
  BY DEF messages
<1> HIDE DEF m
<1>3. ASSUME NEW i \in 1..m PROVE Row(h, edges[i][1], d) = rows[edges[i][1]]
  <2> DEFINE u == edges[i][1]
  <2>1. u \in 0..(n - 1)
    BY <1>1
  <2> HIDE DEF u
  <2>2. rows[u] = [c \in 1..d |-> rows[u][c]]
    BY <2>1 DEF RowsFit
  <2>3. Row(h, u, d) = rows[u]
    BY <2>1, <2>2, RowOfFlat
  <2> QED
    BY <2>3 DEF u
<1> DEFINE S == {src[p][1] : p \in 1..(m * d)}
<1>4. src \in Buffer(m, d, Seq(S))
  <2>1. ASSUME NEW p \in 1..(m * d) PROVE src[p] = <<src[p][1]>>
    <3>1. src[p] = Msg(((p - 1) \div d) + 1, (p - 1) % d)
      BY <1>2
    <3>2. Msg(((p - 1) \div d) + 1, (p - 1) % d) = <<Msg(((p - 1) \div d) + 1, (p - 1) % d)[1]>>
      BY MessageIsOne
    <3> HIDE DEF src, Msg
    <3> QED
      BY <3>1, <3>2
  <2>2. \A p \in 1..(m * d) : src[p][1] \in S
    OBVIOUS
  <2>3. src = [p \in 1..(m * d) |-> src[p]]
    BY <1>2
  <2> HIDE DEF S, src
  <2>4. \A p \in 1..(m * d) : <<src[p][1]>> \in Seq(S)
    BY <2>2
  <2>5. \A p \in 1..(m * d) : src[p] \in Seq(S)
    BY <2>1, <2>4
  <2> QED
    BY <2>3, <2>5 DEF Buffer
<1>5. ASSUME NEW i \in 1..m, NEW j \in 0..(d - 1)
      PROVE  src[(i - 1) * d + j + 1] = message(l, edges[i][1], edges[i][2], j, rows[edges[i][1]])
  <2>1. i - 1 \in 0..(m - 1) /\ i - 1 \in Nat /\ (i - 1) + 1 = i
    BY <1>1
  <2>2. (i - 1) * d + j + 1 \in 1..(m * d) /\ ((i - 1) * d + j + 1) - 1 = (i - 1) * d + j
    BY <1>1, <2>1, PlaceIn, PlaceSplits
  <2>3. ((i - 1) * d + j) \div d = i - 1 /\ ((i - 1) * d + j) % d = j
    BY <1>1, <2>1, PlaceSplits
  <2> HIDE DEF Msg, src
  <2>4. src[(i - 1) * d + j + 1] = Msg(i, j)
    BY <1>2, <2>1, <2>2, <2>3
  <2> QED
    BY <1>3, <2>4 DEF Msg
<1> HIDE DEF src, S
<1> QED
  BY <1>4, <1>5 DEF src, m

\* What the kernel has added up at a place when it has gone through all edges.
LEMMA KernelSums ==
    ASSUME NEW n \in Nat, NEW d \in Nat \ {0}, NEW edges \in EdgesOf(n),
           NEW rows, RowsFit(n, d, rows), NEW l
    PROVE  LET aggr == scatter_add_rows(Zeros(n * d), d, dst_indices(edges),
                                        messages(l, edges, d, Flat(n, d, rows))) IN
           /\ aggr.ok
           /\ \A p \in 1..(n * d) :
                 aggr.dst[p] = Arriving(l, edges, rows, (p - 1) \div d, (p - 1) % d)
<1> DEFINE m == Len(edges)
           indices == dst_indices(edges)
           src == messages(l, edges, d, Flat(n, d, rows))
           A == added_rows(Zeros(n * d), d, indices, src)
           aggr == scatter_add_rows(Zeros(n * d), d, indices, src)
<1>1. /\ m \in Nat /\ DOMAIN edges = 1..m
      /\ \A i \in 1..m : edges[i][1] \in 0..(n - 1) /\ edges[i][2] \in 0..(n - 1)
  BY LenProperties, ElementOfSeq DEF EdgesOf
<1>2. indices = [i \in 1..m |-> edges[i][2]] /\ Len(indices) = m
  BY <1>1 DEF dst_indices
<1>3. PICK S : src \in Buffer(m, d, Seq(S))
  <2> HIDE DEF src
  <2> QED
    BY MessagesSent DEF src
<1>4. \A i \in 1..m, j \in 0..(d - 1) :
         src[(i - 1) * d + j + 1] = message(l, edges[i][1], edges[i][2], j, rows[edges[i][1]])
  <2> HIDE DEF src
  <2> QED
    BY MessagesSent DEF src
<1>5. n * d \in Nat /\ m * d \in Nat
  BY <1>1
<1>6. Zeros(n * d) \in Buffer(n, d, Seq(S)) /\ Len(Zeros(n * d)) = n * d
      /\ \A p \in 1..(n * d) : Zeros(n * d)[p] = NoSum
  BY <1>5 DEF Zeros, Buffer, NoSum
<1> HIDE DEF indices, src, m
<1>7. /\ A \in [0..m -> Buffer(n, d, Seq(S))] /\ A[0] = Zeros(n * d)
      /\ \A i \in 1..m : A[i] = add_row(A[i - 1], d, indices[i], Row(src, i - 1, d))
  <2>1. Len(indices) \in Nat /\ src \in Buffer(Len(indices), d, Seq(S))
    BY <1>1, <1>2, <1>3
  <2>2. /\ A \in [0..Len(indices) -> Buffer(n, d, Seq(S))] /\ A[0] = Zeros(n * d)
        /\ \A i \in 1..Len(indices) : A[i] = add_row(A[i - 1], d, indices[i], Row(src, i - 1, d))
    BY <1>6, <2>1, RowsAdded
  <2> QED
    BY <1>2, <2>2
<1> HIDE DEF A
<1>8. aggr.ok /\ aggr.dst = A[m]
  <2>1. Len(src) = m * d
    BY <1>3, <1>5 DEF Buffer
  <2>2. (n * d) % d = 0 /\ (n * d) \div d = n
    BY RowsFill
  <2>3. {i \in DOMAIN indices : indices[i] >= (n * d) \div d} = {}
    BY <1>1, <1>2, <2>2
  <2> QED
    BY <1>1, <1>2, <1>6, <2>1, <2>2, <2>3 DEF scatter_add_rows, A
<1>9. ASSUME NEW p \in 1..(n * d)
      PROVE  A[m][p] = Arriving(l, edges, rows, (p - 1) \div d, (p - 1) % d)
  <2> DEFINE v == (p - 1) \div d
             j == (p - 1) % d
  <2>1. v \in 0..(n - 1) /\ j \in 0..(d - 1)
    BY <1>1, PlaceOf
  <2>2. PICK sum : Sums(l, edges, rows, v, j, sum)
    BY <1>1, SumsExist DEF m
  <2> DEFINE T == {i \in Nat : i <= m => A[i][p] = sum[i]}
  <2>3. 0 \in T
    BY <1>6, <1>7, <2>2 DEF Sums
  <2>4. ASSUME NEW k \in Nat, k \in T PROVE k + 1 \in T
    <3> SUFFICES ASSUME k + 1 <= m PROVE A[k + 1][p] = sum[k + 1]
      OBVIOUS
    <3> DEFINE i == k + 1
    <3>1. i \in 1..m /\ i - 1 = k /\ k \in 0..m /\ A[k][p] = sum[k]
      BY <1>1, <2>4
    <3> HIDE DEF i
    <3>2. A[i] = add_row(A[k], d, indices[i], Row(src, i - 1, d)) /\ A[k] \in Buffer(n, d, Seq(S))
      BY <1>7, <3>1
    <3>3. A[i][p] = IF v = indices[i] THEN A[k][p] \o src[(i - 1) * d + j + 1] ELSE A[k][p]
      <4> DEFINE before == A[k]
                 row == indices[i]
      <4>1. before \in Buffer(n, d, Seq(S)) /\ A[i] = add_row(before, d, row, Row(src, i - 1, d))
        BY <3>2
      <4> HIDE DEF before, row
      <4>2. add_row(before, d, row, Row(src, i - 1, d))[p]
              = IF (p - 1) \div d = row THEN before[p] \o src[(i - 1) * d + ((p - 1) % d) + 1] ELSE before[p]
        <5>1. m \in Nat /\ i \in 1..m /\ before \in Buffer(n, d, Seq(S)) /\ src \in Buffer(m, d, Seq(S))
          BY <1>1, <1>3, <3>1, <4>1
        <5>2. \A q \in 1..(n * d) :
                 add_row(before, d, row, Row(src, i - 1, d))[q]
                   = IF (q - 1) \div d = row THEN before[q] \o src[(i - 1) * d + ((q - 1) % d) + 1] ELSE before[q]
          BY ONLY <5>1, AddedRow, n \in Nat, d \in Nat \ {0}
        <5> QED
          BY <5>2
      <4> QED
        BY <4>1, <4>2 DEF before, row
    <3>4. indices[i] = edges[i][2]
          /\ src[(i - 1) * d + j + 1] = message(l, edges[i][1], edges[i][2], j, rows[edges[i][1]])
      BY <1>2, <1>4, <2>1, <3>1
    <3>5. sum[i] = IF edges[i][2] # v THEN sum[k]
                   ELSE sum[k] \o message(l, edges[i][1], v, j, rows[edges[i][1]])
      BY <2>2, <3>1 DEF Sums, m
    <3> HIDE DEF v, j
    <3>6. A[i][p] = sum[i]
      BY <3>1, <3>3, <3>4, <3>5
    <3> QED
      BY <3>6 DEF i
  <2> HIDE DEF T
  <2>5. m \in T
    BY <1>1, <2>3, <2>4, Induction
  <2> QED
    BY <1>1, <2>2, <2>5 DEF T, Sums, m
<1> QED
  BY <1>8, <1>9 DEF indices, src

\* A graph of n nodes as a layer takes it.
Fits(g, n) == g.n_nodes = n /\ g.deg = n /\ g.edges \in EdgesOf(n)

\* A layer maps the rows of the nodes, laid out flat, to their next rows.
LEMMA LayerFollows ==
    ASSUME NEW n \in Nat, NEW d \in Nat \ {0}, NEW g, Fits(g, n),
           NEW rows, RowsFit(n, d, rows), NEW l
    PROVE  /\ layer_forward(l, g, d, Flat(n, d, rows)) = Passed(Flat(n, d, NextRows(l, g, d, rows)))
           /\ RowsFit(n, d, NextRows(l, g, d, rows))
<1> DEFINE h == Flat(n, d, rows)
           next == NextRows(l, g, d, rows)
           aggr == scatter_add_rows(Zeros(n * d), d, dst_indices(g.edges), messages(l, g.edges, d, h))
           New(p) == normed(l, (p - 1) % d, Row(h, (p - 1) \div d, d), Row(aggr.dst, (p - 1) \div d, d))
           out == [p \in 1..(n * d) |-> New(p)]
<1>1. /\ g.n_nodes = n /\ g.edges \in EdgesOf(n) /\ n * d \in Nat
      /\ \A i \in DOMAIN g.edges : g.edges[i][1] \in 0..(n - 1) /\ g.edges[i][2] \in 0..(n - 1)
  BY LenProperties, ElementOfSeq, RowsFill DEF Fits, EdgesOf
<1>2. g.deg = n /\ Len(h) = n * d /\ InBounds(n, g.edges)
  BY <1>1 DEF Fits, Flat, InBounds
<1>3. aggr.ok /\ \A p \in 1..(n * d) :
                    aggr.dst[p] = Arriving(l, g.edges, rows, (p - 1) \div d, (p - 1) % d)
  <2> HIDE DEF aggr
  <2> QED
    BY <1>1, KernelSums DEF aggr, h
<1>4. layer_forward(l, g, d, h) = Passed(out)
  BY <1>1, <1>2, <1>3 DEF layer_forward, Passed
<1> HIDE DEF aggr, h
<1>5. ASSUME NEW p \in 1..(n * d) PROVE New(p) = next[(p - 1) \div d][((p - 1) % d) + 1]
  <2> DEFINE v == (p - 1) \div d
             j == (p - 1) % d
  <2>0. v \in 0..(n - 1) /\ j \in 0..(d - 1)
    BY PlaceOf
  <2> HIDE DEF v, j
  <2>1. v \in 0..(n - 1) /\ j \in 0..(d - 1) /\ j + 1 \in 1..d /\ (j + 1) - 1 = j
    BY <2>0
  <2>2. Row(h, v, d) = rows[v]
    <3>1. rows[v] = [c \in 1..d |-> rows[v][c]]
      BY <2>1 DEF RowsFit
    <3> QED
      BY <2>1, <3>1, RowOfFlat DEF h
  <2>3. ASSUME NEW c \in 1..d PROVE aggr.dst[v * d + c] = Arriving(l, g.edges, rows, v, c - 1)
    <3>1. c - 1 \in 0..(d - 1) /\ v \in Nat /\ v * d + (c - 1) + 1 = v * d + c
          /\ (v * d + c) - 1 = v * d + (c - 1)
      BY <1>1, <2>1
    <3>2. v * d + c \in 1..(n * d)
      BY <1>1, <2>1, <3>1, PlaceIn
    <3>3. (v * d + (c - 1)) \div d = v /\ (v * d + (c - 1)) % d = c - 1
      BY <1>1, <3>1, PlaceSplits
    <3> QED
      BY <1>3, <3>1, <3>2, <3>3
  <2>4. Row(aggr.dst, v, d) = [k \in 1..d |-> Arriving(l, g.edges, rows, v, k - 1)]
    BY <2>3 DEF Row
  <2>5. next[v][j + 1] = normed(l, j, rows[v], [k \in 1..d |-> Arriving(l, g.edges, rows, v, k - 1)])
    BY <1>1, <2>1 DEF NextRows
  <2> HIDE DEF next
  <2> QED
    BY <2>2, <2>4, <2>5 DEF v, j
<1>6. out = Flat(n, d, next)
  <2> HIDE DEF New, next
  <2> QED
    BY <1>5 DEF Flat
<1>7. RowsFit(n, d, next)
  BY <1>1 DEF RowsFit, NextRows
<1> QED
  BY <1>4, <1>6, <1>7 DEF h

-----------------------------------------------------------------------------
(***************************************************************************)
(* The stack.                                                              *)
(***************************************************************************)

\* Nothing that is added up is empty: each number is the result of one
\* operation.
Ones(n, d, rows) == \A v \in 0..(n - 1), c \in 1..d : rows[v][c] = <<rows[v][c][1]>>

\* The rows that Formula speaks of.
Layers(g, d, L, h) ==
    /\ h[0] = FirstRows(g, d)
    /\ \A l \in 1..L : h[l] = NextRows(l, g, d, h[l - 1])

LEMMA FormulaSteps ==
    ASSUME NEW g, NEW d, NEW L \in Nat
    PROVE  \E h : Layers(g, d, L, h) /\ Formula(g, d, L) = [l \in 0..L |-> Flat(g.n_nodes, d, h[l])]
<1> DEFINE first == FirstRows(g, d)
           Stepped(l, before) == NextRows(l, g, d, before)
           F(h) == [l \in 0..L |-> IF l = 0 THEN first ELSE Stepped(l, h[l - 1])]
           f == CHOOSE h : h = F(h)
           Built(n) == \E h : /\ h = [l \in 0..n |-> h[l]] /\ h[0] = first
                             /\ \A l \in 1..n : h[l] = Stepped(l, h[l - 1])
           T == {n \in Nat : Built(n)}
<1>1. Formula(g, d, L) = [l \in 0..L |-> Flat(g.n_nodes, d, f[l])]
  BY DEF Formula
<1>2. Layers(g, d, L, f) <=> f[0] = first /\ \A l \in 1..L : f[l] = Stepped(l, f[l - 1])
  BY DEF Layers
<1> HIDE DEF first, Stepped
<1>3. Built(0)
  <2> DEFINE h == [l \in 0..0 |-> first]
  <2>1. h = [l \in 0..0 |-> h[l]] /\ h[0] = first /\ \A l \in 1..0 : h[l] = Stepped(l, h[l - 1])
    OBVIOUS
  <2> HIDE DEF h
  <2> QED
    BY <2>1
<1>4. ASSUME NEW n \in Nat, Built(n) PROVE Built(n + 1)
  <2>1. PICK h : /\ h = [l \in 0..n |-> h[l]] /\ h[0] = first
                 /\ \A l \in 1..n : h[l] = Stepped(l, h[l - 1])
    BY <1>4
  <2> DEFINE k == [l \in 0..(n + 1) |-> IF l = n + 1 THEN Stepped(n + 1, h[n]) ELSE h[l]]
  <2>2. k = [l \in 0..(n + 1) |-> k[l]] /\ k[0] = first
    BY <2>1
  <2>3. ASSUME NEW l \in 1..(n + 1) PROVE k[l] = Stepped(l, k[l - 1])
    <3>1. l \in 0..(n + 1) /\ l - 1 \in 0..(n + 1) /\ l - 1 # n + 1
      BY <2>3
    <3>2. k[l - 1] = h[l - 1]
      BY <3>1
    <3>3. CASE l = n + 1
      BY <3>1, <3>2, <3>3
    <3>4. CASE l # n + 1
      <4>1. l \in 1..n
        BY <2>3, <3>4
      <4> QED
        BY <2>1, <3>1, <3>2, <3>4, <4>1
    <3> QED
      BY <3>3, <3>4
  <2> HIDE DEF k
  <2>4. \E q : /\ q = [l \in 0..(n + 1) |-> q[l]] /\ q[0] = first
               /\ \A l \in 1..(n + 1) : q[l] = Stepped(l, q[l - 1])
    BY <2>2, <2>3
  <2> QED
    BY <2>4
<1>5. Built(L)
  <2> HIDE DEF Built
  <2>1. 0 \in T /\ \A n \in Nat : n \in T => n + 1 \in T
    BY <1>3, <1>4
  <2> HIDE DEF T
  <2>2. L \in T
    BY <2>1, Induction
  <2> QED
    BY <2>2 DEF T
<1>6. PICK h : h = [l \in 0..L |-> h[l]] /\ h[0] = first /\ \A l \in 1..L : h[l] = Stepped(l, h[l - 1])
  BY <1>5
<1>7. h = F(h)
  <2>1. \A l \in 0..L : l # 0 => l \in 1..L
    OBVIOUS
  <2>2. \A l \in 0..L : h[l] = IF l = 0 THEN first ELSE Stepped(l, h[l - 1])
    BY <1>6, <2>1
  <2> QED
    BY <1>6, <2>2
<1>8. f = F(f)
  <2> HIDE DEF F
  <2> QED
    BY <1>7
<1> HIDE DEF f
<1>9. f[0] = first /\ \A l \in 1..L : f[l] = Stepped(l, f[l - 1])
  <2>1. 0 \in 0..L /\ \A l \in 1..L : l \in 0..L /\ l # 0
    OBVIOUS
  <2> QED
    BY <1>8, <2>1
<1> QED
  BY <1>1, <1>2, <1>9

\* The rows fit after each layer.
LEMMA LayersFit ==
    ASSUME NEW n \in Nat, NEW d \in Nat \ {0}, NEW g, g.n_nodes = n, NEW L \in Nat,
           NEW h, Layers(g, d, L, h)
    PROVE  \A l \in 0..L : RowsFit(n, d, h[l]) /\ Ones(n, d, h[l])
<1>1. RowsFit(n, d, h[0]) /\ Ones(n, d, h[0])
  BY DEF Layers, FirstRows, RowsFit, Ones
<1>2. ASSUME NEW l \in 1..L PROVE RowsFit(n, d, h[l]) /\ Ones(n, d, h[l])
  <2>1. h[l] = NextRows(l, g, d, h[l - 1])
    BY DEF Layers
  <2> DEFINE Cell(v, c) == normed(l, c - 1, h[l - 1][v],
                                  [k \in 1..d |-> Arriving(l, g.edges, h[l - 1], v, k - 1)])
  <2>2. h[l] = [v \in 0..(n - 1) |-> [c \in 1..d |-> Cell(v, c)]]
    BY <2>1 DEF NextRows
  <2>3. \A v, c : Cell(v, c) = <<Cell(v, c)[1]>>
    BY DEF normed, Term
  <2> HIDE DEF Cell
  <2> QED
    BY <2>2, <2>3 DEF RowsFit, Ones
<1> QED
  BY <1>1, <1>2

\* What the bases of the identity head amount to.
LEMMA NoBias ==
    ASSUME NEW dim \in Nat, NEW layers \in Nat, NEW k_bases \in Nat, NEW l \in 1..layers
    PROVE  schema_bias_for_layer(identity(dim, layers, k_bases), l) = Zeros(dim)
<1> DEFINE head == identity(dim, layers, k_bases)
           bases == head.schema_bases[l]
           N == Len(bases)
           share(x) == IF x = NoSum THEN NoSum ELSE Term("share", N, <<>>, x)
           F(j, sum) == [k \in 0..N |-> IF k = 0 THEN NoSum ELSE sum[k - 1] \o share(bases[k][j])]
           f(j) == CHOOSE sum : sum = F(j, sum)
<1>1. bases = [k \in 1..k_bases |-> Zeros(dim)] /\ N = k_bases /\ DOMAIN head.p_feature = 1..dim
  BY DEF identity
<1>2. schema_bias_for_layer(head, l) = [j \in 1..dim |-> f(j)[N]]
  BY <1>1 DEF schema_bias_for_layer
<1> HIDE DEF bases, N, head
<1>3. ASSUME NEW j \in 1..dim PROVE f(j)[N] = NoSum
  <2>1. \A k \in 1..N : share(bases[k][j]) = NoSum
    BY <1>1 DEF Zeros
  <2> DEFINE zero == [k \in 0..N |-> NoSum]
  <2>2. NoSum \o NoSum = NoSum
    BY DEF NoSum
  <2> HIDE DEF share
  <2>3. zero = F(j, zero)
    <3>1. \A k \in 0..N : k # 0 => k \in 1..N /\ k - 1 \in 0..N
      BY <1>1
    <3>2. \A k \in 0..N : F(j, zero)[k] = NoSum
      BY <2>1, <2>2, <3>1
    <3> QED
      BY <3>2
  <2> DEFINE g == f(j)
  <2>4. g = F(j, g)
    <3> HIDE DEF F
    <3> QED
      BY <2>3
  <2> HIDE DEF g
  <2> DEFINE T == {k \in Nat : k <= N => g[k] = NoSum}
  <2>5. 0 \in T
    <3>1. 0 \in 0..N
      BY <1>1
    <3> QED
      BY <2>4, <3>1
  <2>6. ASSUME NEW k \in Nat, k \in T PROVE k + 1 \in T
    <3> SUFFICES ASSUME k + 1 <= N PROVE g[k + 1] = NoSum
      OBVIOUS
    <3>1. k + 1 \in 0..N /\ k + 1 # 0 /\ k + 1 \in 1..N /\ (k + 1) - 1 = k /\ g[k] = NoSum
      BY <1>1, <2>6
    <3>2. g[k + 1] = g[k] \o share(bases[k + 1][j])
      BY <2>4, <3>1
    <3> QED
      BY <2>1, <2>2, <3>1, <3>2
  <2> HIDE DEF T
  <2>7. N \in T
    BY <1>1, <2>5, <2>6, Induction
  <2> QED
    BY <1>1, <2>7 DEF T, g
<1> HIDE DEF f
<1> QED
  BY <1>2, <1>3 DEF Zeros, head

\* The loop of the context channel.
LEMMA ContextSteps ==
    ASSUME NEW x, NEW h, x.num_layers \in Nat
    PROVE  \E after :
              /\ after[0] = Passed(h) /\ after[x.num_layers] = context_channel(x, h)
              /\ \A l \in 1..x.num_layers :
                    after[l] = IF after[l - 1].ok THEN layer_forward(l, x, x.d, after[l - 1].dst) ELSE after[l - 1]
<1> DEFINE L == x.num_layers
           Then(l, before) == IF before.ok THEN layer_forward(l, x, x.d, before.dst) ELSE before
           F(after) == [l \in 0..L |-> IF l = 0 THEN Passed(h)
                          ELSE IF after[l - 1].ok THEN layer_forward(l, x, x.d, after[l - 1].dst) ELSE after[l - 1]]
           f == CHOOSE after : after = F(after)
           Built(n) == \E after : /\ after = [l \in 0..n |-> after[l]] /\ after[0] = Passed(h)
                                  /\ \A l \in 1..n : after[l] = Then(l, after[l - 1])
           T == {n \in Nat : Built(n)}
<1>1. context_channel(x, h) = f[L]
  BY DEF context_channel
<1>2. \A l, before : Then(l, before) = IF before.ok THEN layer_forward(l, x, x.d, before.dst) ELSE before
  OBVIOUS
<1> HIDE DEF Then
<1>3. Built(0)
  <2> DEFINE g == [l \in 0..0 |-> Passed(h)]
  <2>1. g = [l \in 0..0 |-> g[l]] /\ g[0] = Passed(h) /\ \A l \in 1..0 : g[l] = Then(l, g[l - 1])
    OBVIOUS
  <2> HIDE DEF g
  <2> QED
    BY <2>1
<1>4. ASSUME NEW n \in Nat, Built(n) PROVE Built(n + 1)
  <2>1. PICK g : /\ g = [l \in 0..n |-> g[l]] /\ g[0] = Passed(h)
                 /\ \A l \in 1..n : g[l] = Then(l, g[l - 1])
    BY <1>4
  <2> DEFINE k == [l \in 0..(n + 1) |-> IF l = n + 1 THEN Then(n + 1, g[n]) ELSE g[l]]
  <2>2. k = [l \in 0..(n + 1) |-> k[l]] /\ k[0] = Passed(h)
    BY <2>1
  <2>3. ASSUME NEW l \in 1..(n + 1) PROVE k[l] = Then(l, k[l - 1])
    <3>1. l \in 0..(n + 1) /\ l - 1 \in 0..(n + 1) /\ l - 1 # n + 1
      BY <2>3
    <3>2. k[l - 1] = g[l - 1]
      BY <3>1
    <3>3. CASE l = n + 1
      BY <3>1, <3>2, <3>3
    <3>4. CASE l # n + 1
      <4>1. l \in 1..n
        BY <2>3, <3>4
      <4> QED
        BY <2>1, <3>1, <3>2, <3>4, <4>1
    <3> QED
      BY <3>3, <3>4
  <2> HIDE DEF k
  <2> QED
    BY <2>2, <2>3
<1>5. Built(L)
  <2> HIDE DEF Built
  <2>1. 0 \in T /\ \A n \in Nat : n \in T => n + 1 \in T
    BY <1>3, <1>4
  <2> HIDE DEF T
  <2>2. L \in T
    BY <2>1, Induction
  <2> QED
    BY <2>2 DEF T
<1>6. PICK g : g = [l \in 0..L |-> g[l]] /\ g[0] = Passed(h) /\ \A l \in 1..L : g[l] = Then(l, g[l - 1])
  BY <1>5
<1>7. g = F(g)
  <2>1. \A l \in 0..L : l # 0 => l \in 1..L
    OBVIOUS
  <2>2. \A l \in 0..L : g[l] = F(g)[l]
    BY <1>2, <1>6, <2>1
  <2> QED
    BY <1>6, <2>2
<1>8. f = F(f)
  <2> HIDE DEF F
  <2> QED
    BY <1>7
<1> HIDE DEF f
<1>9. /\ f[0] = Passed(h)
      /\ \A l \in 1..L : f[l] = IF f[l - 1].ok THEN layer_forward(l, x, x.d, f[l - 1].dst) ELSE f[l - 1]
  <2>1. 0 \in 0..L /\ \A l \in 1..L : l \in 0..L /\ l # 0
    OBVIOUS
  <2> QED
    BY <1>8, <2>1
<1> QED
  BY <1>1, <1>9

\* The loop of the schema channel.
LEMMA SchemaSteps ==
    ASSUME NEW x, NEW head, NEW h, x.num_layers \in Nat
    PROVE  \E after :
              /\ after[0] = Passed(h) /\ after[x.num_layers] = schema_channel(x, head, h)
              /\ \A l \in 1..x.num_layers :
                    after[l] = IF after[l - 1].ok THEN primed_forward(head, l, x, after[l - 1].dst) ELSE after[l - 1]
<1> DEFINE L == x.num_layers
           Then(l, before) == IF before.ok THEN primed_forward(head, l, x, before.dst) ELSE before
           F(after) == [l \in 0..L |-> IF l = 0 THEN Passed(h)
                          ELSE IF after[l - 1].ok THEN primed_forward(head, l, x, after[l - 1].dst) ELSE after[l - 1]]
           f == CHOOSE after : after = F(after)
           Built(n) == \E after : /\ after = [l \in 0..n |-> after[l]] /\ after[0] = Passed(h)
                                  /\ \A l \in 1..n : after[l] = Then(l, after[l - 1])
           T == {n \in Nat : Built(n)}
<1>1. schema_channel(x, head, h) = f[L]
  BY DEF schema_channel
<1>2. \A l, before : Then(l, before) = IF before.ok THEN primed_forward(head, l, x, before.dst) ELSE before
  OBVIOUS
<1> HIDE DEF Then
<1>3. Built(0)
  <2> DEFINE g == [l \in 0..0 |-> Passed(h)]
  <2>1. g = [l \in 0..0 |-> g[l]] /\ g[0] = Passed(h) /\ \A l \in 1..0 : g[l] = Then(l, g[l - 1])
    OBVIOUS
  <2> HIDE DEF g
  <2> QED
    BY <2>1
<1>4. ASSUME NEW n \in Nat, Built(n) PROVE Built(n + 1)
  <2>1. PICK g : /\ g = [l \in 0..n |-> g[l]] /\ g[0] = Passed(h)
                 /\ \A l \in 1..n : g[l] = Then(l, g[l - 1])
    BY <1>4
  <2> DEFINE k == [l \in 0..(n + 1) |-> IF l = n + 1 THEN Then(n + 1, g[n]) ELSE g[l]]
  <2>2. k = [l \in 0..(n + 1) |-> k[l]] /\ k[0] = Passed(h)
    BY <2>1
  <2>3. ASSUME NEW l \in 1..(n + 1) PROVE k[l] = Then(l, k[l - 1])
    <3>1. l \in 0..(n + 1) /\ l - 1 \in 0..(n + 1) /\ l - 1 # n + 1
      BY <2>3
    <3>2. k[l - 1] = g[l - 1]
      BY <3>1
    <3>3. CASE l = n + 1
      BY <3>1, <3>2, <3>3
    <3>4. CASE l # n + 1
      <4>1. l \in 1..n
        BY <2>3, <3>4
      <4> QED
        BY <2>1, <3>1, <3>2, <3>4, <4>1
    <3> QED
      BY <3>3, <3>4
  <2> HIDE DEF k
  <2> QED
    BY <2>2, <2>3
<1>5. Built(L)
  <2> HIDE DEF Built
  <2>1. 0 \in T /\ \A n \in Nat : n \in T => n + 1 \in T
    BY <1>3, <1>4
  <2> HIDE DEF T
  <2>2. L \in T
    BY <2>1, Induction
  <2> QED
    BY <2>2 DEF T
<1>6. PICK g : g = [l \in 0..L |-> g[l]] /\ g[0] = Passed(h) /\ \A l \in 1..L : g[l] = Then(l, g[l - 1])
  BY <1>5
<1>7. g = F(g)
  <2>1. \A l \in 0..L : l # 0 => l \in 1..L
    OBVIOUS
  <2>2. \A l \in 0..L : g[l] = F(g)[l]
    BY <1>2, <1>6, <2>1
  <2> QED
    BY <1>6, <2>2
<1>8. f = F(f)
  <2> HIDE DEF F
  <2> QED
    BY <1>7
<1> HIDE DEF f
<1>9. /\ f[0] = Passed(h)
      /\ \A l \in 1..L : f[l] = IF f[l - 1].ok THEN primed_forward(head, l, x, f[l - 1].dst) ELSE f[l - 1]
  <2>1. 0 \in 0..L /\ \A l \in 1..L : l \in 0..L /\ l # 0
    OBVIOUS
  <2> QED
    BY <1>8, <2>1
<1> QED
  BY <1>1, <1>9

\* One layer, of the rows the input has.
LEMMA OneLayer ==
    ASSUME NEW n \in Nat, NEW d \in Nat \ {0}, NEW g, Fits(g, n)
    PROVE  layer_forward(1, g, d, Flat(n, d, FirstRows(g, d))) = Passed(Formula(g, d, 1)[1])
<1>1. RowsFit(n, d, FirstRows(g, d)) /\ g.n_nodes = n
  BY DEF Fits, RowsFit, FirstRows
<1>2. layer_forward(1, g, d, Flat(n, d, FirstRows(g, d)))
        = Passed(Flat(n, d, NextRows(1, g, d, FirstRows(g, d))))
  BY <1>1, LayerFollows
<1>3. \A L \in Nat : \E h : /\ Layers(g, d, L, h)
                            /\ Formula(g, d, L) = [l \in 0..L |-> Flat(g.n_nodes, d, h[l])]
  BY FormulaSteps
<1> DEFINE L == 1
<1>4. L \in Nat
  OBVIOUS
<1> HIDE DEF L
<1>5. PICK h : Layers(g, d, L, h) /\ Formula(g, d, L) = [l \in 0..L |-> Flat(n, d, h[l])]
  BY <1>1, <1>3, <1>4
<1>6. h[1] = NextRows(1, g, d, FirstRows(g, d))
  BY <1>5 DEF Layers, L
<1>7. Formula(g, d, 1)[1] = Flat(n, d, h[1])
  BY <1>5 DEF L
<1> QED
  BY <1>2, <1>6, <1>7

\* Through both channels go the rows that Formula speaks of, if every layer
\* takes them and a bias is nothing.
LEMMA ContextFollows ==
    ASSUME NEW n \in Nat, NEW x, x.d \in Nat \ {0}, Fits(x, n), x.num_layers \in Nat,
           NEW h, Layers(x, x.d, x.num_layers, h)
    PROVE  context_channel(x, Flat(n, x.d, FirstRows(x, x.d))) = Passed(Flat(n, x.d, h[x.num_layers]))
<1> DEFINE L == x.num_layers
           d == x.d
           Good(l) == Passed(Flat(n, d, h[l]))
<1>1. PICK after :
         /\ after[0] = Passed(Flat(n, d, FirstRows(x, d)))
         /\ after[L] = context_channel(x, Flat(n, d, FirstRows(x, d)))
         /\ \A l \in 1..L : after[l] = IF after[l - 1].ok THEN layer_forward(l, x, d, after[l - 1].dst)
                                       ELSE after[l - 1]
  BY ContextSteps
<1>2. \A l \in 1..L : Good(l - 1).ok /\ layer_forward(l, x, d, Good(l - 1).dst) = Good(l)
  <2> SUFFICES ASSUME NEW l \in 1..L
               PROVE  layer_forward(l, x, d, Flat(n, d, h[l - 1])) = Good(l)
    BY DEF Passed
  <2>1. l - 1 \in 0..L /\ x.n_nodes = n
    BY DEF Fits
  <2>2. RowsFit(n, d, h[l - 1])
    BY <2>1, LayersFit
  <2>3. h[l] = NextRows(l, x, d, h[l - 1])
    BY DEF Layers
  <2> QED
    BY <2>2, <2>3, LayerFollows
<1>3. after[0] = Good(0)
  BY <1>1 DEF Layers
<1> HIDE DEF Good
<1> DEFINE T == {l \in Nat : l <= L => after[l] = Good(l)}
<1>4. 0 \in T
  BY <1>3
<1>5. ASSUME NEW l \in Nat, l \in T PROVE l + 1 \in T
  <2> SUFFICES ASSUME l + 1 <= L PROVE after[l + 1] = Good(l + 1)
    OBVIOUS
  <2>1. l + 1 \in 1..L /\ (l + 1) - 1 = l /\ after[l] = Good(l)
    BY <1>5
  <2> QED
    BY <1>1, <1>2, <2>1
<1> HIDE DEF T
<1>6. L \in T
  BY <1>4, <1>5, Induction
<1> QED
  BY <1>1, <1>6 DEF T, Good

\* The bias of the identity head changes no number; it fails on rows that are
\* not as long as its own.
LEMMA BiasIsNothing ==
    ASSUME NEW n \in Nat, NEW d \in Nat \ {0}, NEW g, g.n_nodes = n,
           NEW rows, RowsFit(n, d, rows), Ones(n, d, rows),
           NEW dim \in Nat, NEW layers \in Nat, NEW k_bases \in Nat, NEW l
    PROVE  LET head == identity(dim, layers, k_bases) IN
           /\ l \notin 1..layers \/ n = 0 \/ dim = d =>
                 biased(head, l, g, d, Flat(n, d, rows)) = Passed(Flat(n, d, rows))
           /\ l \in 1..layers /\ n # 0 /\ dim # d => ~biased(head, l, g, d, Flat(n, d, rows)).ok
<1> DEFINE head == identity(dim, layers, k_bases)
           h == Flat(n, d, rows)
           bias == schema_bias_for_layer(head, l)
           indices == [i \in 1..n |-> i - 1]
           src == [p \in 1..(n * Len(bias)) |-> bias[((p - 1) % Len(bias)) + 1]]
<1>1. HasBias(head, l) <=> l \in 1..layers
  BY DEF HasBias, identity
<1>2. ~HasBias(head, l) => biased(head, l, g, d, h) = Passed(h)
  BY DEF biased
<1>3. HasBias(head, l) => biased(head, l, g, d, h) = scatter_add_rows(h, d, indices, src)
  BY DEF biased
<1>4. n * d \in Nat /\ (n * d) % d = 0 /\ (n * d) \div d = n /\ n * dim \in Nat
  BY RowsFill
<1>5. Len(h) = n * d /\ Len(indices) = n /\ DOMAIN indices = 1..n
  BY <1>4 DEF Flat
<1>6. ASSUME l \in 1..layers PROVE bias = Zeros(dim) /\ Len(bias) = dim /\ Len(src) = n * dim
  <2>1. bias = Zeros(dim)
    BY <1>6, NoBias
  <2>2. Len(bias) = dim
    BY <2>1 DEF Zeros
  <2> HIDE DEF bias
  <2> QED
    BY <1>4, <2>1, <2>2
<1> HIDE DEF head, h, bias
<1>7. ASSUME l \in 1..layers, n # 0, dim # d PROVE ~biased(head, l, g, d, h).ok
  <2>1. n * dim # n * d
    BY <1>7
  <2>2. Len(src) # Len(indices) * d
    BY <1>5, <1>6, <1>7, <2>1
  <2> HIDE DEF src, indices
  <2>3. scatter_add_rows(h, d, indices, src) = Failure(h)
    BY <1>4, <1>5, <2>2 DEF scatter_add_rows
  <2> QED
    BY <1>1, <1>3, <1>7, <2>3 DEF Failure
<1>8. ASSUME l \in 1..layers, n = 0 \/ dim = d PROVE scatter_add_rows(h, d, indices, src) = Passed(h)
  <2> DEFINE S == {h[p][1] : p \in 1..(n * d)}
             A == added_rows(h, d, indices, src)
  <2>1. n * dim = n * d
    BY <1>8
  <2>2. src = [p \in 1..(n * d) |-> NoSum]
    <3>1. ASSUME NEW p \in 1..(n * dim) PROVE bias[((p - 1) % Len(bias)) + 1] = NoSum
      <4>1. dim # 0
        BY <3>1
      <4>2. ((p - 1) % dim) + 1 \in 1..dim
        BY <4>1, PlaceOf
      <4> QED
        BY <1>6, <1>8, <4>2 DEF Zeros
    <3>2. src = [p \in 1..(n * dim) |-> bias[((p - 1) % Len(bias)) + 1]]
      BY <1>6, <1>8
    <3> QED
      BY <2>1, <3>1, <3>2
  <2> HIDE DEF src
  <2>3. src \in Buffer(n, d, Seq(S)) /\ Len(src) = n * d
    BY <1>4, <2>2 DEF Buffer, NoSum
  <2>4. ASSUME NEW p \in 1..(n * d) PROVE h[p] = <<h[p][1]>>
    <3> DEFINE v == (p - 1) \div d
               c == ((p - 1) % d) + 1
    <3>1. v \in 0..(n - 1) /\ (p - 1) % d \in 0..(d - 1)
      BY PlaceOf
    <3>2. h[p] = rows[v][c]
      BY DEF h, Flat
    <3> HIDE DEF v
    <3>3. c \in 1..d
      BY <3>1
    <3> HIDE DEF c
    <3> QED
      BY <3>1, <3>2, <3>3 DEF Ones
  <2>5. h = [p \in 1..(n * d) |-> h[p]]
    BY DEF h, Flat
  <2>6. \A p \in 1..(n * d) : h[p] \in Seq(S)
    <3>1. \A p \in 1..(n * d) : h[p][1] \in S
      OBVIOUS
    <3> HIDE DEF S
    <3>2. \A p \in 1..(n * d) : <<h[p][1]>> \in Seq(S)
      BY <3>1
    <3> QED
      BY <2>4, <3>2
  <2>7. h \in Buffer(n, d, Seq(S))
    BY <2>5, <2>6 DEF Buffer
  <2> HIDE DEF S, indices
  <2>8. /\ A \in [0..n -> Buffer(n, d, Seq(S))] /\ A[0] = h
        /\ \A i \in 1..n : A[i] = add_row(A[i - 1], d, indices[i], Row(src, i - 1, d))
    <3>1. Len(indices) \in Nat /\ src \in Buffer(Len(indices), d, Seq(S))
      BY <1>5, <2>3
    <3>2. /\ A \in [0..Len(indices) -> Buffer(n, d, Seq(S))] /\ A[0] = h
          /\ \A i \in 1..Len(indices) : A[i] = add_row(A[i - 1], d, indices[i], Row(src, i - 1, d))
      BY <2>7, <3>1, RowsAdded
    <3> QED
      BY <1>5, <3>2
  <2>9. scatter_add_rows(h, d, indices, src) = Passed(A[n])
    <3>1. {i \in DOMAIN indices : indices[i] >= (n * d) \div d} = {}
      BY <1>4, <1>5 DEF indices
    <3> QED
      BY <1>4, <1>5, <2>3, <3>1 DEF scatter_add_rows, Passed
  <2> HIDE DEF A
  <2> DEFINE T == {i \in Nat : i <= n => A[i] = h}
  <2>10. 0 \in T
    BY <2>8
  <2>11. ASSUME NEW k \in Nat, k \in T PROVE k + 1 \in T
    <3> SUFFICES ASSUME k + 1 <= n PROVE A[k + 1] = h
      OBVIOUS
    <3> DEFINE i == k + 1
    <3>1. i \in 1..n /\ i - 1 = k /\ A[k] = h
      BY <2>11
    <3> HIDE DEF i
    <3>2. A[i] = add_row(h, d, indices[i], Row(src, i - 1, d))
      BY <2>8, <3>1
    <3>3. /\ add_row(h, d, indices[i], Row(src, i - 1, d)) \in Buffer(n, d, Seq(S))
          /\ \A p \in 1..(n * d) :
                add_row(h, d, indices[i], Row(src, i - 1, d))[p]
                = IF (p - 1) \div d = indices[i] THEN h[p] \o src[(i - 1) * d + ((p - 1) % d) + 1] ELSE h[p]
      <4> DEFINE row == indices[i]
                 new == add_row(h, d, row, Row(src, i - 1, d))
      <4> HIDE DEF row
      <4>1. n \in Nat /\ i \in 1..n /\ h \in Buffer(n, d, Seq(S)) /\ src \in Buffer(n, d, Seq(S))
        BY <2>3, <2>7, <3>1
      <4>2. new \in Buffer(n, d, Seq(S))
        BY ONLY <4>1, AddedRow, d \in Nat \ {0}
      <4>3. \A p \in 1..(n * d) :
               add_row(h, d, row, Row(src, i - 1, d))[p]
                 = IF (p - 1) \div d = row THEN h[p] \o src[(i - 1) * d + ((p - 1) % d) + 1] ELSE h[p]
        BY ONLY <4>1, AddedRow, d \in Nat \ {0}
      <4> QED
        BY <4>2, <4>3 DEF row
    <3>4. ASSUME NEW p \in 1..(n * d) PROVE A[i][p] = h[p]
      <4> DEFINE j == (p - 1) % d
      <4>1. j \in 0..(d - 1)
        BY PlaceOf
      <4> HIDE DEF j
      <4>2. i - 1 \in 0..(n - 1)
        BY <3>1
      <4>3. (i - 1) * d + j + 1 \in 1..(n * d)
        BY <4>1, <4>2, PlaceIn
      <4>4. src[(i - 1) * d + j + 1] = NoSum
        BY <2>2, <4>3
      <4>5. h[p] \o NoSum = h[p]
        <5>1. <<h[p][1]>> \o NoSum = <<h[p][1]>>
          BY DEF NoSum
        <5> QED
          BY <2>4, <5>1
      <4> QED
        BY <3>2, <3>3, <4>4, <4>5 DEF j
    <3>5. A[i] = h
      BY <2>5, <3>2, <3>3, <3>4 DEF Buffer
    <3> QED
      BY <3>5 DEF i
  <2> HIDE DEF T
  <2>12. n \in T
    BY <2>10, <2>11, Induction
  <2> QED
    BY <2>9, <2>12 DEF T
<1> QED
  BY <1>1, <1>2, <1>3, <1>7, <1>8 DEF head, h

LEMMA SchemaFollows ==
    ASSUME NEW n \in Nat, NEW x, x.d \in Nat \ {0}, Fits(x, n), x.num_layers \in Nat,
           NEW h, Layers(x, x.d, x.num_layers, h),
           NEW dim \in Nat, NEW layers \in Nat, NEW k_bases \in Nat,
           layers = 0 \/ n = 0 \/ dim = x.d
    PROVE  schema_channel(x, identity(dim, layers, k_bases), Flat(n, x.d, FirstRows(x, x.d)))
             = Passed(Flat(n, x.d, h[x.num_layers]))
<1> DEFINE L == x.num_layers
           d == x.d
           head == identity(dim, layers, k_bases)
           Good(l) == Passed(Flat(n, d, h[l]))
<1>1. PICK after :
         /\ after[0] = Passed(Flat(n, d, FirstRows(x, d)))
         /\ after[L] = schema_channel(x, head, Flat(n, d, FirstRows(x, d)))
         /\ \A l \in 1..L : after[l] = IF after[l - 1].ok THEN primed_forward(head, l, x, after[l - 1].dst)
                                       ELSE after[l - 1]
  BY SchemaSteps
<1>2. \A l \in 1..L : Good(l - 1).ok /\ primed_forward(head, l, x, Good(l - 1).dst) = Good(l)
  <2> SUFFICES ASSUME NEW l \in 1..L
               PROVE  primed_forward(head, l, x, Flat(n, d, h[l - 1])) = Good(l)
    BY DEF Passed
  <2>1. l - 1 \in 0..L /\ x.n_nodes = n
    BY DEF Fits
  <2>2. RowsFit(n, d, h[l - 1]) /\ Ones(n, d, h[l - 1])
    BY <2>1, LayersFit
  <2>3. h[l] = NextRows(l, x, d, h[l - 1])
    BY DEF Layers
  <2>4. layer_forward(l, x, d, Flat(n, d, h[l - 1])) = Good(l)
    BY <2>2, <2>3, LayerFollows
  <2>5. l \notin 1..layers \/ n = 0 \/ dim = d
    OBVIOUS
  <2> HIDE DEF head, d
  <2>6. biased(head, l, x, d, Flat(n, d, h[l - 1])) = Passed(Flat(n, d, h[l - 1]))
    BY <2>1, <2>2, <2>5, BiasIsNothing DEF head, d
  <2> HIDE DEF Good
  <2> QED
    BY <2>4, <2>6 DEF primed_forward, Passed, d
<1>3. after[0] = Good(0)
  BY <1>1 DEF Layers
<1> HIDE DEF Good, head
<1> DEFINE T == {l \in Nat : l <= L => after[l] = Good(l)}
<1>4. 0 \in T
  BY <1>3
<1>5. ASSUME NEW l \in Nat, l \in T PROVE l + 1 \in T
  <2> SUFFICES ASSUME l + 1 <= L PROVE after[l + 1] = Good(l + 1)
    OBVIOUS
  <2>1. l + 1 \in 1..L /\ (l + 1) - 1 = l /\ after[l] = Good(l)
    BY <1>5
  <2> QED
    BY <1>1, <1>2, <2>1
<1> HIDE DEF T
<1>6. L \in T
  BY <1>4, <1>5, Induction
<1> QED
  BY <1>1, <1>6 DEF T, Good, head

\* A channel whose first layer fails has failed.
LEMMA FirstFails ==
    ASSUME NEW L \in Nat \ {0}, NEW after, ~after[1].ok,
           \A l \in 2..L : ~after[l - 1].ok => after[l] = after[l - 1]
    PROVE  ~after[L].ok
<1> DEFINE T == {l \in Nat : l + 1 <= L => ~after[l + 1].ok}
<1>1. 0 \in T
  OBVIOUS
<1>2. ASSUME NEW l \in Nat, l \in T PROVE l + 1 \in T
  <2> SUFFICES ASSUME l + 2 <= L PROVE ~after[l + 2].ok
    BY DEF T
  <2>1. l + 2 \in 2..L /\ (l + 2) - 1 = l + 1 /\ l + 1 <= L
    OBVIOUS
  <2>2. ~after[l + 1].ok
    BY <1>2, <2>1
  <2> QED
    BY <2>1, <2>2
<1> HIDE DEF T
<1>3. L - 1 \in T
  BY <1>1, <1>2, Induction
<1> QED
  BY <1>3 DEF T

LEMMA ContextFails ==
    ASSUME NEW x, x.num_layers \in Nat \ {0}, NEW h, ~layer_forward(1, x, x.d, h).ok
    PROVE  ~context_channel(x, h).ok
<1> DEFINE L == x.num_layers
<1>1. PICK after :
         /\ after[0] = Passed(h) /\ after[L] = context_channel(x, h)
         /\ \A l \in 1..L : after[l] = IF after[l - 1].ok THEN layer_forward(l, x, x.d, after[l - 1].dst)
                                       ELSE after[l - 1]
  BY ContextSteps
<1>2. 1 \in 1..L /\ after[0].ok /\ after[0].dst = h
  BY <1>1 DEF Passed
<1>3. ~after[1].ok
  BY <1>1, <1>2
<1>4. \A l \in 2..L : ~after[l - 1].ok => after[l] = after[l - 1]
  BY <1>1
<1> QED
  BY <1>1, <1>3, <1>4, FirstFails

LEMMA SchemaFails ==
    ASSUME NEW x, x.num_layers \in Nat \ {0}, NEW head, NEW h, ~biased(head, 1, x, x.d, h).ok
    PROVE  ~schema_channel(x, head, h).ok
<1> DEFINE L == x.num_layers
<1>1. PICK after :
         /\ after[0] = Passed(h) /\ after[L] = schema_channel(x, head, h)
         /\ \A l \in 1..L : after[l] = IF after[l - 1].ok THEN primed_forward(head, l, x, after[l - 1].dst)
                                       ELSE after[l - 1]
  BY SchemaSteps
<1>2. 1 \in 1..L /\ after[0].ok /\ after[0].dst = h
  BY <1>1 DEF Passed
<1>3. ~after[1].ok
  BY <1>1, <1>2 DEF primed_forward
<1>4. \A l \in 2..L : ~after[l - 1].ok => after[l] = after[l - 1]
  BY <1>1
<1> QED
  BY <1>1, <1>3, <1>4, FirstFails

\* A layer takes nothing that does not fit.
LEMMA LayerTakesOnly ==
    ASSUME NEW l, NEW g, NEW d, NEW h, layer_forward(l, g, d, h).ok
    PROVE  d # 0 /\ g.deg = g.n_nodes /\ InBounds(g.n_nodes, g.edges)
BY DEF layer_forward, Failure, scatter_add_rows

\* The input of the first layer, by rows.
LEMMA InputIsFlat ==
    ASSUME NEW n \in Nat, NEW d \in Nat \ {0}, NEW g, g.n_nodes = n
    PROVE  [p \in 1..(n * d) |-> <<Input((p - 1) \div d, (p - 1) % d)>>] = Flat(n, d, FirstRows(g, d))
<1> SUFFICES ASSUME NEW p \in 1..(n * d)
             PROVE  Flat(n, d, FirstRows(g, d))[p] = <<Input((p - 1) \div d, (p - 1) % d)>>
  BY DEF Flat
<1> DEFINE v == (p - 1) \div d
           j == (p - 1) % d
<1>1. v \in 0..(n - 1) /\ j \in 0..(d - 1)
  BY PlaceOf
<1>2. Flat(n, d, FirstRows(g, d))[p] = FirstRows(g, d)[v][j + 1]
  BY DEF Flat
<1> HIDE DEF v, j
<1>3. FirstRows(g, d)[v][j + 1] = <<Input(v, (j + 1) - 1)>> /\ (j + 1) - 1 = j
  BY <1>1 DEF FirstRows
<1> QED
  BY <1>2, <1>3 DEF v, j

\* The identity head multiplies by one.
LEMMA CalibratedIsInput ==
    ASSUME NEW x, NEW n \in Nat, x.n_nodes = n, x.d \in Nat \ {0}, x.len = n * x.d,
           NEW dim \in Nat \ {0}, NEW layers, NEW k_bases
    PROVE  calibrate(identity(dim, layers, k_bases), InputState(x)) = Flat(n, x.d, FirstRows(x, x.d))
<1> DEFINE d == x.d
           head == identity(dim, layers, k_bases)
           h == InputState(x)
<1>1. h = [p \in 1..(n * d) |-> <<Input((p - 1) \div d, (p - 1) % d)>>]
  BY DEF InputState
<1>2. h = Flat(n, d, FirstRows(x, d))
  BY <1>1, InputIsFlat
<1>3. head.p_feature = [j \in 1..dim |-> Unit] /\ Len(head.p_feature) = dim
  BY DEF identity
<1> HIDE DEF head, h
<1>4. ASSUME NEW p \in 1..(n * d)
      PROVE  Times(head.p_feature[((p - 1) % Len(head.p_feature)) + 1], h[p]) = h[p]
  <2>1. ((p - 1) % dim) + 1 \in 1..dim
    BY PlaceOf
  <2> QED
    BY <1>3, <2>1 DEF Times
<1>5. h = [p \in 1..(n * d) |-> h[p]]
  BY <1>1
<1>6. calibrate(head, h) = h
  BY <1>4, <1>5 DEF calibrate
<1> QED
  BY <1>2, <1>6 DEF head, h

LEMMA InputIs ==
    ASSUME NEW x \in Inputs
    PROVE  /\ x.n_nodes \in Nat /\ x.edges \in Seq(Nat \X Nat) /\ x.deg \in Nat /\ x.d \in Nat
           /\ x.len \in Nat /\ x.num_layers \in Nat \ {0}
           /\ x.head.dim \in Nat /\ x.head.num_layers \in Nat /\ x.head.k_bases \in Nat
BY GfmAssumption

\* Edges in bounds are edges between the nodes.
LEMMA BoundEdges ==
    ASSUME NEW n \in Nat, NEW edges \in Seq(Nat \X Nat), InBounds(n, edges)
    PROVE  edges \in EdgesOf(n)
<1>1. Len(edges) \in Nat /\ edges = [i \in 1..Len(edges) |-> edges[i]] /\ DOMAIN edges = 1..Len(edges)
  OBVIOUS
<1>2. ASSUME NEW i \in 1..Len(edges) PROVE edges[i] \in (0..(n - 1)) \X (0..(n - 1))
  <2>1. edges[i] \in Nat \X Nat
    BY ElementOfSeq
  <2>2. edges[i][1] < n /\ edges[i][2] < n
    BY <1>1 DEF InBounds
  <2> QED
    BY <2>1, <2>2
<1> QED
  BY <1>1, <1>2 DEF EdgesOf

\* What fits goes through, and comes out as Formula says.
LEMMA StackFollows ==
    ASSUME NEW x \in Inputs, FitsTogetherWith(x)
    PROVE  forward(x).result = "ok" /\ FollowsFormula(x)
<1> DEFINE n == x.n_nodes
           d == x.d
           L == x.num_layers
           head == identity(x.head.dim, x.head.num_layers, x.head.k_bases)
           first == Flat(n, d, FirstRows(x, d))
<1>1. n \in Nat /\ d \in Nat \ {0} /\ x.len = n * d /\ L \in Nat \ {0} /\ x.head.dim \in Nat \ {0}
      /\ x.head.num_layers \in Nat /\ x.head.k_bases \in Nat
  BY InputIs DEF FitsTogetherWith
<1>2. x.head.num_layers = 0 \/ n = 0 \/ x.head.dim = d
  BY <1>1 DEF FitsTogetherWith
<1>3. Fits(x, n)
  BY <1>1, InputIs, BoundEdges DEF Fits, FitsTogetherWith
<1>4. PICK h : Layers(x, d, L, h) /\ Formula(x, d, L) = [l \in 0..L |-> Flat(n, d, h[l])]
  BY <1>1, FormulaSteps
<1> DEFINE out == Flat(n, d, h[L])
<1>5. calibrate(head, InputState(x)) = first
  BY <1>1, CalibratedIsInput
<1>6. context_channel(x, first) = Passed(out)
  BY <1>1, <1>3, <1>4, ContextFollows
<1>7. schema_channel(x, head, first) = Passed(out)
  BY <1>1, <1>2, <1>3, <1>4, SchemaFollows
<1>8. Formula(x, d, L)[L] = out
  BY <1>1, <1>4
<1>9. forward(x) = Channels(x, head)
  BY <1>1 DEF forward
<1> HIDE DEF head, first, out
<1>10. Channels(x, head) = [result |-> "ok", out |-> [p \in DOMAIN out |-> out[p] \o Scaled(out[p])]]
  BY <1>5, <1>6, <1>7 DEF Channels, Passed
<1> QED
  BY <1>8, <1>9, <1>10 DEF FollowsFormula

\* Nothing else goes through.
LEMMA StackTakesOnly ==
    ASSUME NEW x \in Inputs, forward(x).result = "ok"
    PROVE  FitsTogetherWith(x)
<1> DEFINE n == x.n_nodes
           d == x.d
           head == identity(x.head.dim, x.head.num_layers, x.head.k_bases)
           h == calibrate(head, InputState(x))
<1>1. x.len = n * d /\ x.head.dim # 0 /\ forward(x) = Channels(x, head)
  BY DEF forward, Ended
<1> HIDE DEF head, h
<1>2. context_channel(x, h).ok /\ schema_channel(x, head, h).ok
  BY <1>1 DEF Channels, Ended, h
<1>3. x.num_layers \in Nat \ {0}
  BY InputIs
<1>4. layer_forward(1, x, d, h).ok
  BY <1>2, <1>3, ContextFails
<1>5. d # 0 /\ x.deg = n /\ InBounds(n, x.edges)
  BY <1>4, LayerTakesOnly
<1>6. n \in Nat /\ d \in Nat \ {0} /\ x.head.dim \in Nat \ {0}
      /\ x.head.num_layers \in Nat /\ x.head.k_bases \in Nat
  BY <1>1, <1>5, InputIs
<1>7. ASSUME n > 0, x.head.num_layers > 0 PROVE x.head.dim = d
  <2>1. biased(head, 1, x, d, h).ok
    BY <1>2, <1>3, SchemaFails
  <2>2. h = Flat(n, d, FirstRows(x, d))
    BY <1>1, <1>6, CalibratedIsInput DEF h, head
  <2>3. RowsFit(n, d, FirstRows(x, d)) /\ Ones(n, d, FirstRows(x, d))
    BY DEF RowsFit, Ones, FirstRows
  <2>4. 1 \in 1..x.head.num_layers /\ n # 0
    BY <1>6, <1>7
  <2> QED
    BY <1>6, <2>1, <2>2, <2>3, <2>4, BiasIsNothing DEF head
<1> QED
  BY <1>1, <1>5, <1>6, <1>7 DEF FitsTogetherWith

-----------------------------------------------------------------------------
(***************************************************************************)
(* What an evaluation makes of a list of documents.                        *)
(***************************************************************************)

LEMMA Multiples ==
    \A x, y, z \in Nat : x <= y => x * z \in Nat /\ y * z \in Nat /\ x * z <= y * z
OBVIOUS

\* F1 of two fractions no larger than 1 lies between them.
LEMMA Between ==
    ASSUME NEW a \in Nat, NEW b \in Nat \ {0}, NEW c \in Nat, NEW d \in Nat \ {0},
           a <= b, c <= d, a + c # 0
    PROVE  LET f1 == <<2 * a * c, a * d + c * b>> IN
           /\ f1 \in Nat \X Nat /\ f1[2] > 0 /\ AtMost(f1, One)
           /\ AtMost(f1, <<c, d>>) \/ AtMost(f1, <<a, b>>)
           /\ AtMost(<<c, d>>, f1) \/ AtMost(<<a, b>>, f1)
<1> DEFINE x == a * d
           y == c * b
           z == a * c
<1>1. x \in Nat /\ y \in Nat /\ z \in Nat
  OBVIOUS
<1>2. z <= x /\ z <= y
  <2>1. c * a <= d * a /\ a * c <= b * c
    BY Multiples
  <2> QED
    BY <2>1
<1>3. x + y > 0
  <2>1. CASE a # 0
    <3>1. 1 * d <= a * d
      BY <2>1, Multiples
    <3> QED
      BY <1>1, <3>1
  <2>2. CASE c # 0
    <3>1. 1 * b <= c * b
      BY <2>2, Multiples
    <3> QED
      BY <1>1, <3>1
  <2> QED
    BY <2>1, <2>2
<1>4. 2 * a * c = 2 * z
  OBVIOUS
<1>5. 2 * z * d = 2 * (c * x) /\ 2 * z * b = 2 * (a * y)
  OBVIOUS
<1>6. /\ c * (x + y) = c * x + c * y /\ a * (x + y) = a * x + a * y
      /\ c * x \in Nat /\ c * y \in Nat /\ a * x \in Nat /\ a * y \in Nat
  BY <1>1
<1>7. CASE x <= y
  <2>1. c * x <= c * y /\ a * x <= a * y
    <3>1. x * c <= y * c /\ x * a <= y * a
      BY <1>1, <1>7, Multiples
    <3> QED
      BY <1>1, <3>1
  <2> HIDE DEF x, y, z
  <2>2. 2 * z * d <= c * (x + y) /\ a * (x + y) <= 2 * z * b
    BY <1>5, <1>6, <2>1
  <2> QED
    BY <1>1, <1>2, <1>3, <1>4, <2>2 DEF AtMost, One, x, y
<1>8. CASE y <= x
  <2>1. c * y <= c * x /\ a * y <= a * x
    <3>1. y * c <= x * c /\ y * a <= x * a
      BY <1>1, <1>8, Multiples
    <3> QED
      BY <1>1, <3>1
  <2> HIDE DEF x, y, z
  <2>2. 2 * z * b <= a * (x + y) /\ c * (x + y) <= 2 * z * d
    BY <1>5, <1>6, <2>1
  <2> QED
    BY <1>1, <1>2, <1>3, <1>4, <2>2 DEF AtMost, One, x, y
<1> QED
  BY <1>1, <1>7, <1>8

\* A sequence has no more elements than places.
LEMMA Elements ==
    ASSUME NEW S, NEW s \in Seq(S)
    PROVE  /\ IsFiniteSet(ToSet(s)) /\ Cardinality(ToSet(s)) \in Nat
           /\ Cardinality(ToSet(s)) <= Len(s) /\ Len(s) \in Nat
<1>1. Len(s) \in Nat /\ DOMAIN s = 1..Len(s) /\ s \in [1..Len(s) -> S]
  BY LenProperties
<1>2. s \in Surjection(1..Len(s), ToSet(s))
  BY <1>1 DEF Surjection, ToSet
<1>3. IsFiniteSet(1..Len(s)) /\ Cardinality(1..Len(s)) = Len(s)
  BY <1>1, FS_Interval
<1>4. IsFiniteSet(ToSet(s)) /\ Cardinality(ToSet(s)) <= Len(s)
  BY <1>2, <1>3, FS_Surjection
<1> QED
  BY <1>1, <1>4, FS_CardinalityType

LEMMA Extremes ==
    /\ \A n \in Nat : Max({n, 1}) \in Nat /\ Max({n, 1}) >= n /\ Max({n, 1}) >= 1
                      /\ (n > 0 => Max({n, 1}) = n)
    /\ \A S \in SUBSET Nat : S # {} => Min(S) \in S /\ \A x \in S : Min(S) <= x
<1>1. ASSUME NEW n \in Nat
      PROVE  Max({n, 1}) \in Nat /\ Max({n, 1}) >= n /\ Max({n, 1}) >= 1 /\ (n > 0 => Max({n, 1}) = n)
  <2>1. \E x \in {n, 1} : \A y \in {n, 1} : x >= y
    OBVIOUS
  <2>2. Max({n, 1}) \in {n, 1} /\ \A y \in {n, 1} : Max({n, 1}) >= y
    BY <2>1 DEF Max
  <2> QED
    BY <2>2
<1>2. ASSUME NEW S \in SUBSET Nat, S # {}
      PROVE  Min(S) \in S /\ \A x \in S : Min(S) <= x
  <2> DEFINE less == {p \in Nat \X Nat : p[1] < p[2]}
  <2>1. OpToRel(<, Nat) = less
    BY DEF OpToRel
  <2>2. PICK x \in S : \A y \in S : <<y, x>> \notin less
    BY <1>2, <2>1, NatLessThanWellFounded, WFMin
  <2>3. ASSUME NEW y \in S PROVE x <= y
    <3>1. x \in Nat /\ y \in Nat /\ ~(y < x)
      BY <2>2
    <3> QED
      BY <3>1
  <2> QED
    BY <2>3 DEF Min
<1> QED
  BY <1>1, <1>2

Fraction == Nat \X Nat

Reports ==
    {m \in [recall : Fraction, precision : Fraction, f1 : Fraction, mrr : Fraction,
            reward : [r_rec : Fraction, r_pre : Fraction, rep_penalty : Fraction]] : Honest(m)}

\* No document is there twice.
Distinct(docs) == \A i, j \in DOMAIN docs : docs[i] = docs[j] => i = j

\* Some of the first k documents is in S.
HitWithin(docs, S, k) == \E i \in DOMAIN docs : i <= k /\ docs[i] \in S

LEMMA FoundWithin ==
    ASSUME NEW docs \in Seq(Docs), NEW truth \in Seq(Docs), NEW k \in Nat
    PROVE  /\ Found(docs, truth, k) \in Nat
           /\ Found(docs, truth, k) <= Len(truth)
           /\ Found(docs, truth, k) <= Smaller(Len(docs), k)
           /\ Found(docs, truth, k) > 0 <=> HitWithin(docs, ToSet(truth), k)
<1> DEFINE n == Smaller(k, Len(docs))
           cut == SubSeq(docs, 1, n)
           both == ToSet(cut) \cap ToSet(truth)
<1>1. Len(docs) \in Nat /\ DOMAIN docs = 1..Len(docs) /\ \A i \in 1..Len(docs) : docs[i] \in Docs
  BY LenProperties, ElementOfSeq
<1>2. n \in Nat /\ n <= Len(docs) /\ n <= k /\ n = Smaller(Len(docs), k)
      /\ \A i \in 1..Len(docs) : i <= k <=> i \in 1..n
  BY <1>1 DEF Smaller
<1> HIDE DEF n
<1>3. cut \in Seq(Docs) /\ Len(cut) = n /\ \A i \in 1..n : cut[i] = docs[i]
  <2>1. 1 \in Int /\ n \in Int /\ \A i \in 1..n : docs[i] \in Docs
    BY <1>1, <1>2
  <2>2. /\ SubSeq(docs, 1, n) \in Seq(Docs)
        /\ Len(SubSeq(docs, 1, n)) = IF 1 <= n THEN n - 1 + 1 ELSE 0
        /\ \A i \in 1..(n - 1 + 1) : SubSeq(docs, 1, n)[i] = docs[1 + i - 1]
    BY <2>1, SubSeqProperties
  <2> QED
    BY <1>2, <2>2
<1>4. ToSet(cut) = {docs[i] : i \in 1..n}
  <2>1. DOMAIN cut = 1..n
    BY <1>3, LenProperties
  <2> QED
    BY <1>3, <2>1 DEF ToSet
<1> HIDE DEF cut
<1>5. /\ IsFiniteSet(ToSet(cut)) /\ Cardinality(ToSet(cut)) \in Nat /\ Cardinality(ToSet(cut)) <= n
      /\ IsFiniteSet(ToSet(truth)) /\ Cardinality(ToSet(truth)) \in Nat
      /\ Cardinality(ToSet(truth)) <= Len(truth) /\ Len(truth) \in Nat
  BY <1>3, Elements
<1>6. /\ IsFiniteSet(both) /\ Cardinality(both) \in Nat
      /\ Cardinality(both) <= Cardinality(ToSet(cut)) /\ Cardinality(both) <= Cardinality(ToSet(truth))
  <2>1. both \in SUBSET ToSet(cut) /\ both \in SUBSET ToSet(truth)
    OBVIOUS
  <2> QED
    BY <1>5, <2>1, FS_Subset, FS_CardinalityType
<1>7. Cardinality(both) > 0 <=> both # {}
  BY <1>6, FS_EmptySet
<1>8. both # {} <=> HitWithin(docs, ToSet(truth), k)
  BY <1>1, <1>2, <1>4 DEF HitWithin
<1>9. Found(docs, truth, k) = Cardinality(both)
  BY DEF Found, cut, n
<1> QED
  BY <1>2, <1>5, <1>6, <1>7, <1>8, <1>9

LEMMA FirstHit ==
    ASSUME NEW docs \in Seq(Docs), NEW truth \in Seq(Docs)
    PROVE  /\ mrr(docs, truth) \in Fraction /\ mrr(docs, truth)[2] > 0 /\ AtMost(mrr(docs, truth), One)
           /\ \A k \in Nat \ {0} : AtMost(<<1, k>>, mrr(docs, truth)) <=> HitWithin(docs, ToSet(truth), k)
<1> DEFINE ranks == {i \in DOMAIN docs : docs[i] \in ToSet(truth)}
<1>1. DOMAIN docs = 1..Len(docs) /\ Len(docs) \in Nat
  BY LenProperties
<1>2. ranks \in SUBSET Nat /\ \A i \in ranks : i >= 1
  BY <1>1
<1>3. CASE ranks = {}
  <2>1. mrr(docs, truth) = <<0, 1>>
    BY <1>3 DEF mrr, None
  <2> QED
    BY <1>3, <2>1 DEF HitWithin, AtMost, One, Fraction
<1>4. CASE ranks # {}
  <2>1. mrr(docs, truth) = <<1, Min(ranks)>>
    BY <1>4 DEF mrr
  <2>2. Min(ranks) \in ranks /\ \A i \in ranks : Min(ranks) <= i
    BY <1>2, <1>4, Extremes
  <2>4. Min(ranks) \in Nat /\ Min(ranks) >= 1
    BY <1>2, <2>2
  <2>3. ASSUME NEW k \in Nat \ {0} PROVE Min(ranks) <= k <=> HitWithin(docs, ToSet(truth), k)
    <3>1. HitWithin(docs, ToSet(truth), k) <=> \E i \in ranks : i <= k
      BY DEF HitWithin
    <3> HIDE DEF ranks
    <3>2. \A i \in ranks : i \in Nat
      BY <1>2
    <3> QED
      BY <2>2, <2>4, <3>1, <3>2
  <2> HIDE DEF ranks
  <2> QED
    BY <2>1, <2>3, <2>4 DEF AtMost, One, Fraction
<1> QED
  BY <1>3, <1>4

LEMMA HitsBounded ==
    ASSUME NEW docs \in Seq(Docs), Distinct(docs), NEW truth \in Seq(Docs)
    PROVE  Hits(docs, truth) \in Nat /\ Hits(docs, truth) <= Len(docs) /\ Hits(docs, truth) <= Len(truth)
<1>1. DOMAIN docs = 1..Len(docs) /\ Len(docs) \in Nat
  BY LenProperties
<1>2. IsFiniteSet(1..Len(docs)) /\ Cardinality(1..Len(docs)) = Len(docs)
  <2>1. \A n \in Nat : IsFiniteSet(1..n) /\ Cardinality(1..n) = n
    BY ONLY FS_Interval
  <2> QED
    BY <1>1, <2>1
<1> DEFINE ranks == {i \in DOMAIN docs : docs[i] \in ToSet(truth)}
           f == [i \in ranks |-> docs[i]]
<1>3. ranks \in SUBSET (1..Len(docs))
  BY <1>1
<1>4. IsFiniteSet(ranks) /\ Cardinality(ranks) <= Len(docs) /\ Cardinality(ranks) \in Nat
  BY <1>2, <1>3, FS_Subset, FS_CardinalityType
<1>5. /\ IsFiniteSet(ToSet(truth)) /\ Cardinality(ToSet(truth)) \in Nat
      /\ Cardinality(ToSet(truth)) <= Len(truth) /\ Len(truth) \in Nat
  BY Elements
<1>6. f \in Injection(ranks, ToSet(truth))
  BY DEF Injection, IsInjective, Distinct
<1>7. Cardinality(ranks) <= Cardinality(ToSet(truth))
  BY <1>5, <1>6, FS_Injection
<1> QED
  BY <1>4, <1>5, <1>7 DEF Hits

\* What an evaluation makes of documents without repetition is honest.
LEMMA MeasuredHonestly ==
    ASSUME NEW sample \in Samples, NEW docs \in Seq(Docs), Distinct(docs)
    PROVE  Measured(sample, docs) \in Reports
<1> DEFINE truth == sample.truth
           triples == sample.triples
           found == Found(docs, truth, EvalK)
           cut == Max({Smaller(Len(docs), EvalK), 1})
           rec == recall_at_k(docs, truth, EvalK)
           pre == precision_at_k(docs, truth, EvalK)
           f1 == f1_at_k(docs, truth, EvalK)
           rr == mrr(docs, truth)
           reward == compute_reward(docs, truth, triples)
<1>1. truth \in Seq(Docs) /\ triples \in Seq(Nat)
  BY DEF Samples
<1> HIDE DEF truth, triples
<1>2. EvalK \in Nat
  BY ReaderAssumption
<1>3. Len(docs) \in Nat /\ Len(truth) \in Nat /\ Len(triples) \in Nat
  BY <1>1, LenProperties
<1>4. Smaller(Len(docs), EvalK) \in Nat
  BY <1>2, <1>3 DEF Smaller
<1>5. cut \in Nat /\ cut >= 1 /\ cut >= Smaller(Len(docs), EvalK)
  BY <1>4, Extremes
<1>6. /\ found \in Nat /\ found <= Len(truth) /\ found <= cut
      /\ found > 0 <=> HitWithin(docs, ToSet(truth), EvalK)
  <2>1. /\ found \in Nat /\ found <= Len(truth) /\ found <= Smaller(Len(docs), EvalK)
        /\ found > 0 <=> HitWithin(docs, ToSet(truth), EvalK)
    BY <1>1, <1>2, FoundWithin
  <2> HIDE DEF found, cut
  <2> QED
    BY <1>4, <1>5, <2>1
<1>7. Len(truth) = 0 <=> truth = <<>>
  BY <1>1
<1>8. /\ rec \in Fraction /\ rec[2] > 0 /\ rec[1] <= rec[2]
      /\ rec[1] > 0 <=> found > 0
  <2>1. CASE truth = <<>>
    <3>1. rec = <<0, 1>>
      BY <2>1 DEF recall_at_k, None
    <3>2. found = 0
      BY <1>3, <1>6, <1>7, <2>1
    <3> QED
      BY <3>1, <3>2 DEF Fraction
  <2>2. CASE truth # <<>>
    <3>1. rec = <<found, Len(truth)>>
      BY <2>2 DEF recall_at_k
    <3> QED
      BY <1>3, <1>6, <1>7, <2>2, <3>1 DEF Fraction
  <2> QED
    BY <2>1, <2>2
<1>9. pre \in Fraction /\ pre[2] > 0 /\ pre[1] <= pre[2]
  <2>1. CASE EvalK = 0
    <3>1. pre = <<0, 1>>
      BY <2>1 DEF precision_at_k, None
    <3> QED
      BY <3>1 DEF Fraction
  <2>2. CASE EvalK # 0
    <3>1. pre = <<found, cut>>
      BY <2>2 DEF precision_at_k
    <3> QED
      BY <1>5, <1>6, <3>1 DEF Fraction
  <2> QED
    BY <2>1, <2>2
<1>10. /\ f1 \in Fraction /\ f1[2] > 0 /\ AtMost(f1, One)
       /\ AtMost(f1, rec) \/ AtMost(f1, pre)
       /\ AtMost(rec, f1) \/ AtMost(pre, f1)
  <2>1. PICK a \in Nat, b \in Nat : pre = <<a, b>>
    BY <1>9 DEF Fraction
  <2>2. PICK c \in Nat, d \in Nat : rec = <<c, d>>
    BY <1>8 DEF Fraction
  <2>3. a <= b /\ c <= d /\ b # 0 /\ d # 0
    BY <1>8, <1>9, <2>1, <2>2
  <2>4. f1 = IF a + c = 0 THEN None ELSE <<2 * a * c, a * d + c * b>>
    BY <2>1, <2>2 DEF f1_at_k
  <2> HIDE DEF f1, rec, pre
  <2>5. CASE a + c = 0
    <3>1. f1 = <<0, 1>> /\ a = 0 /\ c = 0
      BY <2>4, <2>5 DEF None
    <3> QED
      BY <2>1, <2>2, <3>1 DEF AtMost, One, Fraction
  <2>6. CASE a + c # 0
    <3>1. f1 = <<2 * a * c, a * d + c * b>>
      BY <2>4, <2>6
    <3>2. LET x == <<2 * a * c, a * d + c * b>> IN
          /\ x \in Nat \X Nat /\ x[2] > 0 /\ AtMost(x, One)
          /\ AtMost(x, <<c, d>>) \/ AtMost(x, <<a, b>>)
          /\ AtMost(<<c, d>>, x) \/ AtMost(<<a, b>>, x)
      BY <2>3, <2>6, Between
    <3> QED
      BY <2>1, <2>2, <3>1, <3>2 DEF Fraction
  <2> QED
    BY <2>5, <2>6
<1>11. /\ rr \in Fraction /\ rr[2] > 0 /\ AtMost(rr, One)
       /\ EvalK > 0 => (AtMost(<<1, EvalK>>, rr) <=> found > 0)
  BY <1>1, <1>2, <1>6, FirstHit
<1>12. Hits(docs, truth) \in Nat /\ Hits(docs, truth) <= Len(docs) /\ Hits(docs, truth) <= Len(truth)
  BY <1>1, HitsBounded
<1>13. \A x \in {reward.r_rec, reward.r_pre, reward.rep_penalty} :
          x \in Fraction /\ x[2] > 0 /\ x[1] <= x[2]
  <2>1. recovery(docs, truth) \in Fraction /\ recovery(docs, truth)[2] > 0
        /\ recovery(docs, truth)[1] <= recovery(docs, truth)[2]
    BY <1>3, <1>7, <1>12 DEF recovery, None, Fraction
  <2>2. Len(docs) = 0 <=> docs = <<>>
    OBVIOUS
  <2>3. precision(docs, truth) \in Fraction /\ precision(docs, truth)[2] > 0
        /\ precision(docs, truth)[1] <= precision(docs, truth)[2]
    BY <1>3, <1>12, <2>2 DEF precision, None, Fraction
  <2>4. Len(triples) = 0 <=> triples = <<>>
    BY <1>1
  <2>5. Cardinality(ToSet(triples)) \in Nat /\ Cardinality(ToSet(triples)) <= Len(triples)
    BY <1>1, Elements
  <2>6. repetition_penalty(triples) \in Fraction /\ repetition_penalty(triples)[2] > 0
        /\ repetition_penalty(triples)[1] <= repetition_penalty(triples)[2]
    BY <1>3, <2>4, <2>5 DEF repetition_penalty, None, Fraction
  <2> QED
    BY <2>1, <2>3, <2>6 DEF compute_reward
<1>14. \A x \in Fraction : x[1] <= x[2] => AtMost(x, One)
  BY DEF AtMost, One, Fraction
<1>15. EvalK = 0 => found = 0
  BY <1>2, <1>6, <1>3, LenProperties DEF HitWithin
<1>16. EvalK > 0 => Max({EvalK, 1}) = EvalK
  BY <1>2, Extremes
<1>17. Measured(sample, docs) =
         [recall |-> rec, precision |-> pre, f1 |-> f1, mrr |-> rr, reward |-> reward]
  BY DEF Measured, truth, triples
<1>18. reward = [r_rec |-> reward.r_rec, r_pre |-> reward.r_pre, rep_penalty |-> reward.rep_penalty]
  BY DEF compute_reward
<1> HIDE DEF rec, pre, f1, rr, reward, found
<1>19. rec[1] > 0 <=> EvalK > 0 /\ AtMost(<<1, Max({EvalK, 1})>>, rr)
  BY <1>2, <1>6, <1>8, <1>11, <1>15, <1>16
<1>20. \A x \in {rec, pre, f1, rr, reward.r_rec, reward.r_pre, reward.rep_penalty} :
          x \in Fraction /\ x[2] > 0 /\ AtMost(x, One)
  BY <1>8, <1>9, <1>10, <1>11, <1>13, <1>14
<1> DEFINE m == [recall |-> rec, precision |-> pre, f1 |-> f1, mrr |-> rr, reward |-> reward]
<1>21. Honest(m)
  BY <1>10, <1>19, <1>20 DEF Honest
<1>22. reward \in [r_rec : Fraction, r_pre : Fraction, rep_penalty : Fraction]
  BY <1>18, <1>20
<1> QED
  BY <1>17, <1>20, <1>21, <1>22 DEF Reports

-----------------------------------------------------------------------------
(***************************************************************************)
(* The inductive invariant, reader by reader.  R is the record of a reader *)
(* of the kind K, and S, L and D are the entities stored, the documents    *)
(* listed and the entities indexed twice at this time.                     *)
(***************************************************************************)

Places == {"idle", "ask", "embed", "candidates", "fetch", "adjacent", "score", "list", "hop", "read", "done"}

Active(R) == R.pc \notin {"idle", "done"}

\* The entities a reader has.
Rows(R) == {e \in Entities : R.candidates[e] > 0}

Shape(R) ==
    /\ DOMAIN R = DOMAIN Idle /\ R.pc \in Places
    /\ R.queue \in Seq(Samples) /\ R.report \in Seq(Reports)
    /\ R.hits \in [Entities -> Nat] /\ R.candidates \in [Entities -> Nat]
    /\ R.left \in Seq(Entities) /\ R.met \in SUBSET Docs
    /\ DOMAIN R.out = {"docs", "entities", "subgraph"}
    /\ R.out.docs \in Seq(Docs) /\ R.out.entities \in Seq(Entities)
    /\ R.restored \in BOOLEAN

EmptyHanded(R) ==
    R.hits = NoneOf /\ R.candidates = NoneOf /\ R.edges = {} /\ R.met = {} /\ R.out = Nothing

Placed(K, R) ==
    /\ R.queue # <<>>
    /\ R.pc # "ask" => R.plan \in Plans
    /\ R.pc \in {"ask", "candidates"} \/ (R.pc = "embed" /\ ~K.gfm) => EmptyHanded(R)
    /\ R.pc \in {"embed", "fetch", "adjacent", "score"} => R.met = {} /\ R.out = Nothing
    /\ R.pc \in {"fetch", "hop"} => ~K.gfm
    /\ R.pc = "adjacent" => K.gfm
    /\ R.pc = "list" => R.left # <<>> /\ R.out.docs = <<>>

\* What was there at some time of the read includes what is there now.
Watched(R, S, L, D) == S \subseteq R.alive /\ L \subseteq R.listed /\ D \subseteq R.twice

\* An entity a reader has was stored when it got it, and is until a restore.
Gathered(K, R, S) ==
    /\ Rows(R) \subseteq R.alive
    /\ ~R.restored => Rows(R) \subseteq S
    /\ R.edges \subseteq Rows(R) \X Rows(R)
    /\ K.gfm => \A e \in Entities : R.hits[e] > 0 => R.candidates[e] > 0
    /\ \A e \in Entities : R.candidates[e] > 1 => e \in R.twice
    /\ R.pc = "fetch" => \A e \in Entities : R.hits[e] + R.candidates[e] > 1 => e \in R.twice

\* What it is about to return comes from there.
Answered(K, R) ==
    /\ ToSet(R.out.entities) \subseteq Rows(R)
    /\ \A i, j \in DOMAIN R.out.entities :
          i # j /\ R.out.entities[i] = R.out.entities[j] => R.out.entities[i] \in R.twice
    /\ ~K.gfm => \A e \in ToSet(R.out.entities) : ~violates_hard_constraints(e, R.plan)
    /\ \A d \in R.met : \E e \in ToSet(R.out.entities) : <<e, d>> \in R.listed
    /\ ToSet(R.out.docs) \subseteq R.met /\ Distinct(R.out.docs)
    /\ R.pc = "list" => ToSet(R.left) \subseteq ToSet(R.out.entities)
    /\ R.pc = "read" /\ ~K.gfm /\ ~R.restored =>
          /\ Seeds(R.out) \subseteq R.out.subgraph.entities
          /\ \A edge \in R.out.subgraph.edges : {edge[1], edge[2]} \subseteq R.out.subgraph.entities

Sound(K, R, S, L, D) ==
    /\ Shape(R)
    /\ Active(R) => Placed(K, R) /\ Watched(R, S, L, D) /\ Gathered(K, R, S) /\ Answered(K, R)
    /\ R.asked # "none" => R.asked \notin R.known
    /\ R.result = "err" => R.unembedded

Doubles == {e \in Entities : inner[e] > 1}

ReadersFit ==
    /\ DOMAIN reading = Readers
    /\ \A r \in Readers : Sound(KindOf[r], reading[r], stored, Listings, Doubles)

CacheFits ==
    /\ planned \subseteq DOMAIN cache /\ planned \subseteq Questions
    /\ \A q \in DOMAIN cache : q \in Questions /\ cache[q] \in Plans

IndexTyped == id_map \in [Entities -> Nat] /\ inner \in [Entities -> Nat]

StoreFits == Mem!TypeOK /\ Mem!VersionsGood

IInv == StoreFits /\ IndexTyped /\ CacheFits /\ ReadersFit

-----------------------------------------------------------------------------
(***************************************************************************)
(* Steps of a reader.                                                      *)
(***************************************************************************)

LEMMA Kinds ==
    ASSUME NEW r \in Readers
    PROVE  KindOf[r].gfm \in BOOLEAN /\ KindOf[r].embeds \in BOOLEAN
           /\ KindOf[r].planner \in {"llm", "heuristic", "own"}
BY ReaderAssumption DEF ReaderKinds

LEMMA IdleShape ==
    /\ Shape(Idle) /\ ~Active(Idle) /\ Idle.asked = "none" /\ Idle.result = "none"
    /\ EmptyHanded(Idle)
<1>1. NoneOf \in [Entities -> Nat]
  BY DEF NoneOf
<1>2. /\ <<>> \in Seq(Samples) /\ <<>> \in Seq(Reports) /\ <<>> \in Seq(Entities) /\ <<>> \in Seq(Docs)
  OBVIOUS
<1> QED
  BY <1>1, <1>2 DEF Idle, Shape, Active, Places, Nothing, EmptyHanded

\* A read that has nothing yet is sound if its plan is.
LEMMA StartsSound ==
    ASSUME NEW K, NEW R, NEW S, NEW L, NEW D,
           Shape(R), R.queue # <<>>, EmptyHanded(R), Watched(R, S, L, D),
           R.pc \in {"ask", "candidates"} \/ (R.pc = "embed" /\ ~K.gfm),
           R.pc # "ask" => R.plan \in Plans,
           R.asked # "none" => R.asked \notin R.known,
           R.result = "err" => R.unembedded
    PROVE  Sound(K, R, S, L, D)
<1>1. Rows(R) = {} /\ \A e \in Entities : R.hits[e] = 0 /\ R.candidates[e] = 0
  BY DEF Rows, EmptyHanded, NoneOf
<1>2. Placed(K, R)
  BY DEF Placed, EmptyHanded
<1>3. Gathered(K, R, S)
  BY <1>1 DEF Gathered, EmptyHanded
<1>4. /\ ToSet(R.out.entities) = {} /\ DOMAIN R.out.entities = {}
      /\ ToSet(R.out.docs) = {} /\ DOMAIN R.out.docs = {}
  BY DEF EmptyHanded, Nothing, ToSet
<1>5. Answered(K, R)
  BY <1>4 DEF Answered, EmptyHanded, Distinct
<1> QED
  BY <1>2, <1>3, <1>5 DEF Sound

LEMMA AbortSound ==
    ASSUME NEW K, NEW R, NEW S, NEW L, NEW D, Shape(R), NEW N,
           N = [Aborted(R) EXCEPT !.unembedded = TRUE]
    PROVE  Sound(K, N, S, L, D)
<1>1. DOMAIN N = DOMAIN Idle /\ N.pc = "done" /\ N.unembedded = TRUE /\ N.report = R.report
      /\ N.queue = Idle.queue /\ N.hits = Idle.hits /\ N.candidates = Idle.candidates
      /\ N.left = Idle.left /\ N.met = Idle.met /\ N.out = Idle.out /\ N.restored = Idle.restored
      /\ N.asked = Idle.asked
  BY DEF Aborted, Idle
<1>2. Shape(N)
  BY <1>1, IdleShape DEF Shape, Places
<1> QED
  BY <1>1, <1>2, IdleShape DEF Sound, Active

\* One reader goes on; the store, the index and the other readers stay.
LEMMA GoKeeps ==
    ASSUME IInv, NEW r \in Readers, NEW next, Go(r, next),
           Sound(KindOf[r], next, stored, Listings, Doubles), CacheFits'
    PROVE  IInv'
<1>1. tenants' = tenants /\ id_map' = id_map /\ inner' = inner /\ reading' = [reading EXCEPT ![r] = next]
  BY DEF Go
<1>2. StoreFits'
  BY <1>1 DEF IInv, StoreFits, Mem!TypeOK, Mem!VersionsGood, Mem!Versions, Mem!PayloadOf
<1>3. IndexTyped'
  BY <1>1 DEF IInv, IndexTyped
<1>4. stored' = stored /\ Listings' = Listings /\ Doubles' = Doubles
  BY <1>1 DEF stored, graph, Listings, Doubles
<1>5. DOMAIN reading' = Readers
      /\ \A u \in Readers : reading'[u] = IF u = r THEN next ELSE reading[u]
  BY <1>1 DEF IInv, ReadersFit
<1>6. ASSUME NEW u \in Readers
      PROVE  Sound(KindOf[u], reading'[u], stored, Listings, Doubles)
  BY <1>5 DEF IInv, ReadersFit
<1>7. ReadersFit'
  BY <1>4, <1>5, <1>6 DEF ReadersFit
<1> QED
  BY <1>2, <1>3, <1>7 DEF IInv

LEMMA CacheStays ==
    ASSUME IInv, PlansKept
    PROVE  CacheFits'
BY DEF IInv, PlansKept, CacheFits

LEMMA ReaderIs ==
    ASSUME IInv, NEW r \in Readers
    PROVE  LET R == reading[r] IN
           /\ Sound(KindOf[r], R, stored, Listings, Doubles) /\ Shape(R)
           /\ Active(R) => /\ Placed(KindOf[r], R) /\ Watched(R, stored, Listings, Doubles)
                           /\ Gathered(KindOf[r], R, stored) /\ Answered(KindOf[r], R)
                           /\ Sample(r) \in Samples
<1>1. Sound(KindOf[r], reading[r], stored, Listings, Doubles)
  BY DEF IInv, ReadersFit
<1>2. Active(reading[r]) => Sample(r) \in Samples
  BY <1>1, HeadTailProperties DEF Sound, Shape, Placed, Sample
<1> QED
  BY <1>1, <1>2 DEF Sound

\* The planner has decided.
LEMMA PlannedSound ==
    ASSUME NEW r \in Readers, NEW R, NEW plan \in Plans, NEW S, NEW L, NEW D,
           Shape(R), R.queue # <<>>, EmptyHanded(R), Watched(R, S, L, D),
           R.asked # "none" => R.asked \notin R.known,
           R.result = "err" => R.unembedded
    PROVE  Sound(KindOf[r], Planned(r, R, plan), S, L, D)
<1> DEFINE N == Planned(r, R, plan)
           pc == IF KindOf[r].embeds /\ ~KindOf[r].gfm THEN "embed" ELSE "candidates"
<1>1. DOMAIN R = DOMAIN Idle
  BY DEF Shape
<1>2. /\ DOMAIN N = DOMAIN Idle /\ N.pc = pc /\ N.plan = plan
      /\ N.queue = R.queue /\ N.report = R.report /\ N.hits = R.hits /\ N.candidates = R.candidates
      /\ N.left = R.left /\ N.edges = R.edges /\ N.met = R.met /\ N.out = R.out
      /\ N.restored = R.restored /\ N.alive = R.alive /\ N.listed = R.listed /\ N.twice = R.twice
      /\ N.asked = R.asked /\ N.known = R.known /\ N.result = R.result /\ N.unembedded = R.unembedded
  BY <1>1 DEF Planned, Idle
<1> HIDE DEF N
<1>3. Shape(N)
  BY <1>2 DEF Shape, Places
<1>4. EmptyHanded(N) /\ Watched(N, S, L, D)
  BY <1>2 DEF EmptyHanded, Watched
<1>5. N.pc \in {"ask", "candidates"} \/ (N.pc = "embed" /\ ~KindOf[r].gfm)
  BY <1>2
<1>6. Sound(KindOf[r], N, S, L, D)
  BY <1>2, <1>3, <1>4, <1>5, StartsSound
<1> QED
  BY <1>6 DEF N

LEMMA PlansIncluded ==
    /\ OwnPlans \subseteq Plans
    /\ \A q \in Questions : plan_sync[q] \in Plans
    /\ \A q \in Questions, raw \in LlmPlans : build_plan[q][raw] \in Plans
BY DEF Plans

LEMMA PlanAnsweredKeeps ==
    ASSUME IInv, NEW r \in Readers, NEW raw \in LlmPlans, plan_answered(r, raw)
    PROVE  IInv'
<1> DEFINE q == Sample(r).q
           plan == build_plan[q][raw]
<1>1. reading[r].pc = "ask" /\ Active(reading[r])
  BY DEF plan_answered, At, Active
<1>2. q \in Questions
  BY <1>1, ReaderIs DEF Samples
<1>3. plan \in Plans
  BY <1>2, PlansIncluded
<1>4. Sound(KindOf[r], Planned(r, reading[r], plan), stored, Listings, Doubles)
  BY <1>1, <1>3, ReaderIs, PlannedSound DEF Placed, Sound
<1>5. /\ cache' = Put(cache, q, plan) /\ planned' = planned \cup {q}
      /\ Go(r, Planned(r, reading[r], plan))
  BY DEF plan_answered
<1> HIDE DEF q, plan
<1>6. CacheFits'
  BY <1>2, <1>3, <1>5 DEF IInv, CacheFits, Put
<1> QED
  BY <1>4, <1>5, <1>6, GoKeeps

LEMMA PlanFallbackKeeps ==
    ASSUME IInv, NEW r \in Readers, plan_fallback(r)
    PROVE  IInv'
<1> DEFINE plan == plan_sync[Sample(r).q]
<1>1. reading[r].pc = "ask" /\ Active(reading[r])
  BY DEF plan_fallback, At, Active
<1>2. plan \in Plans
  BY <1>1, ReaderIs, PlansIncluded DEF Samples
<1>3. Sound(KindOf[r], Planned(r, reading[r], plan), stored, Listings, Doubles)
  BY <1>1, <1>2, ReaderIs, PlannedSound DEF Placed, Sound
<1>4. Go(r, Planned(r, reading[r], plan)) /\ CacheFits'
  BY CacheStays DEF plan_fallback
<1> QED
  BY <1>3, <1>4, GoKeeps

\* A read begins with nothing, watching the store from the start.
LEMMA BeginsSound ==
    ASSUME IInv, NEW r \in Readers, NEW R, Shape(R), R.queue # <<>>,
           NEW q \in Questions, R.result = "err" => R.unembedded,
           NEW next \in Begun(r, R, q)
    PROVE  Sound(KindOf[r], next, stored, Listings, Doubles)
<1> DEFINE fresh == [R EXCEPT !.asked = "none", !.known = planned, !.alive = stored, !.listed = Listings,
                              !.restored = FALSE, !.edges = {}, !.out = Nothing,
                              !.hits = NoneOf, !.candidates = NoneOf, !.met = {},
                              !.twice = {e \in Entities : inner[e] > 1},
                              !.scores = [d \in Docs |-> 0]]
           asking == [fresh EXCEPT !.pc = "ask", !.asked = q]
<1>1. DOMAIN R = DOMAIN Idle
  BY DEF Shape
<1>2. /\ DOMAIN fresh = DOMAIN Idle /\ fresh.pc = R.pc
      /\ fresh.queue = R.queue /\ fresh.report = R.report /\ fresh.left = R.left
      /\ fresh.hits = NoneOf /\ fresh.candidates = NoneOf /\ fresh.edges = {} /\ fresh.met = {}
      /\ fresh.out = Nothing /\ fresh.restored = FALSE
      /\ fresh.alive = stored /\ fresh.listed = Listings /\ fresh.twice = Doubles
      /\ fresh.asked = "none" /\ fresh.known = planned
      /\ fresh.result = R.result /\ fresh.unembedded = R.unembedded
  BY <1>1 DEF Idle, Doubles
<1>3. /\ DOMAIN asking = DOMAIN Idle /\ asking.pc = "ask" /\ asking.asked = q
      /\ asking.queue = R.queue /\ asking.report = R.report /\ asking.left = R.left
      /\ asking.hits = NoneOf /\ asking.candidates = NoneOf /\ asking.edges = {} /\ asking.met = {}
      /\ asking.out = Nothing /\ asking.restored = FALSE
      /\ asking.alive = stored /\ asking.listed = Listings /\ asking.twice = Doubles
      /\ asking.known = planned
      /\ asking.result = R.result /\ asking.unembedded = R.unembedded
  BY <1>1 DEF Idle, Doubles
<1>4. \/ \E plan \in Plans : next = Planned(r, fresh, plan)
      \/ q \notin DOMAIN cache /\ next = asking
  <2>1. CASE KindOf[r].planner = "heuristic"
    BY <2>1, PlansIncluded DEF Begun
  <2>2. CASE KindOf[r].planner = "own"
    BY <2>2, PlansIncluded DEF Begun
  <2>3. CASE KindOf[r].planner = "llm"
    <3>1. next = IF q \in DOMAIN cache THEN Planned(r, fresh, cache[q]) ELSE asking
      BY <2>3 DEF Begun
    <3>2. q \in DOMAIN cache => cache[q] \in Plans
      BY DEF IInv, CacheFits
    <3> QED
      BY <3>1, <3>2
  <2> QED
    BY <2>1, <2>2, <2>3, Kinds
<1> HIDE DEF fresh, asking
<1>5. NoneOf \in [Entities -> Nat]
  BY DEF NoneOf
<1>6. /\ {} \in SUBSET Docs /\ <<>> \in Seq(Docs) /\ <<>> \in Seq(Entities)
      /\ DOMAIN Nothing = {"docs", "entities", "subgraph"}
      /\ Nothing.docs = <<>> /\ Nothing.entities = <<>>
  BY DEF Nothing
<1>7. Shape(fresh) /\ EmptyHanded(fresh) /\ Watched(fresh, stored, Listings, Doubles)
  BY <1>2, <1>5, <1>6 DEF Shape, EmptyHanded, Watched
<1>8. Shape(asking) /\ EmptyHanded(asking) /\ Watched(asking, stored, Listings, Doubles)
  BY <1>3, <1>5, <1>6 DEF Shape, EmptyHanded, Watched, Places
<1>9. CASE \E plan \in Plans : next = Planned(r, fresh, plan)
  BY <1>2, <1>7, <1>9, PlannedSound
<1>10. CASE q \notin DOMAIN cache /\ next = asking
  <2>1. q \notin planned
    BY <1>10 DEF IInv, CacheFits
  <2>2. Sound(KindOf[r], asking, stored, Listings, Doubles)
    BY <1>3, <1>8, <2>1, StartsSound
  <2> QED
    BY <1>10, <2>2
<1> QED
  BY <1>4, <1>9, <1>10

LEMMA RunKeeps ==
    ASSUME IInv, NEW r \in Readers, NEW samples \in Runs[r], run(r, samples)
    PROVE  IInv'
<1> DEFINE R == [Idle EXCEPT !.queue = samples]
<1>1. samples \in Seq(Samples) /\ samples # <<>>
  BY ReaderAssumption
<1>2. Head(samples).q \in Questions
  <2>1. \A s \in Seq(Samples) : s # <<>> => Head(s) \in Samples
    BY HeadTailProperties
  <2> QED
    BY <1>1, <2>1 DEF Samples
<1>3. /\ DOMAIN R = DOMAIN Idle /\ R.queue = samples /\ R.pc = Idle.pc /\ R.report = Idle.report
      /\ R.hits = Idle.hits /\ R.candidates = Idle.candidates /\ R.left = Idle.left /\ R.met = Idle.met
      /\ R.out = Idle.out /\ R.restored = Idle.restored /\ R.result = "none"
  BY DEF Idle
<1> HIDE DEF R
<1>4. Shape(R)
  BY <1>1, <1>3, IdleShape DEF Shape
<1>5. PICK next \in Begun(r, R, Head(samples).q) : reading' = [reading EXCEPT ![r] = next]
  BY DEF run, R
<1>6. Sound(KindOf[r], next, stored, Listings, Doubles)
  BY <1>1, <1>2, <1>3, <1>4, BeginsSound
<1>7. tenants' = tenants /\ id_map' = id_map /\ inner' = inner /\ cache' = cache /\ planned' = planned
  BY DEF run
<1>8. StoreFits' /\ IndexTyped' /\ CacheFits'
  BY <1>7 DEF IInv, StoreFits, Mem!TypeOK, Mem!VersionsGood, Mem!Versions, Mem!PayloadOf, IndexTyped, CacheFits
<1>9. stored' = stored /\ Listings' = Listings /\ Doubles' = Doubles
  BY <1>7 DEF stored, graph, Listings, Doubles
<1>10. /\ DOMAIN reading' = Readers
       /\ \A u \in Readers : Sound(KindOf[u], reading'[u], stored, Listings, Doubles)
  <2>1. DOMAIN reading' = Readers
        /\ \A u \in Readers : reading'[u] = IF u = r THEN next ELSE reading[u]
    BY <1>5 DEF IInv, ReadersFit
  <2>2. ASSUME NEW u \in Readers
        PROVE  Sound(KindOf[u], reading'[u], stored, Listings, Doubles)
    BY <1>6, <2>1 DEF IInv, ReadersFit
  <2> QED
    BY <2>1, <2>2
<1> QED
  BY <1>8, <1>9, <1>10 DEF IInv, ReadersFit

\* What a step that only moves on leaves as it was.
SameRead(N, R) ==
    /\ DOMAIN N = DOMAIN R
    /\ N.queue = R.queue /\ N.report = R.report /\ N.plan = R.plan
    /\ N.left = R.left /\ N.met = R.met /\ N.out = R.out /\ N.restored = R.restored
    /\ N.alive = R.alive /\ N.listed = R.listed /\ N.twice = R.twice
    /\ N.asked = R.asked /\ N.known = R.known /\ N.result = R.result /\ N.unembedded = R.unembedded

\* Before there is an answer, a step is sound if what is gathered is.
LEMMA GathersSound ==
    ASSUME NEW K, NEW R, NEW N, NEW S, NEW L, NEW D, Sound(K, R, S, L, D), Active(R),
           SameRead(N, R), R.out = Nothing, R.met = {}, R.plan \in Plans,
           N.hits \in [Entities -> Nat], N.candidates \in [Entities -> Nat],
           Gathered(K, N, S),
           \/ N.pc = "score"
           \/ N.pc = "fetch" /\ ~K.gfm
           \/ N.pc \in {"adjacent", "embed"} /\ K.gfm
           \/ N.pc = "read" /\ N.out = Nothing
    PROVE  Sound(K, N, S, L, D)
<1>1. Shape(R) /\ Placed(K, R) /\ Watched(R, S, L, D) /\ Answered(K, R)
  BY DEF Sound
<1>2. Shape(N)
  BY <1>1 DEF Shape, SameRead, Places
<1>3. Placed(K, N) /\ Watched(N, S, L, D)
  BY <1>1 DEF Placed, Watched, SameRead
<1>4. /\ N.out.entities = <<>> /\ N.out.docs = <<>> /\ N.out.subgraph.edges = {} /\ N.met = {}
  BY DEF SameRead, Nothing
<1>5. ToSet(<<>>) = {} /\ Seeds(N.out) = {}
  <2>1. ToSet(<<>>) = {}
    BY DEF ToSet
  <2>2. Smaller(MaxSeeds, Len(N.out.entities)) = 0
    BY <1>4, ReaderAssumption DEF Smaller
  <2>3. SubSeq(N.out.entities, 1, 0) = <<>>
    BY SubSeqEmpty
  <2>4. Seeds(N.out) = ToSet(<<>>)
    BY <2>2, <2>3 DEF Seeds
  <2> QED
    BY <2>1, <2>4
<1>6. Answered(K, N)
  BY <1>4, <1>5 DEF Answered, Distinct
<1> QED
  BY <1>2, <1>3, <1>6 DEF Sound, SameRead

LEMMA EmbedKeeps ==
    ASSUME IInv, NEW r \in Readers, embed(r)
    PROVE  IInv'
<1> DEFINE R == reading[r]
           N == [R EXCEPT !.pc = IF KindOf[r].gfm THEN "adjacent" ELSE "candidates"]
<1>1. R.pc = "embed" /\ Active(R)
  BY DEF embed, At, Active
<1>2. Shape(R) /\ Placed(KindOf[r], R) /\ Watched(R, stored, Listings, Doubles)
      /\ Gathered(KindOf[r], R, stored) /\ Sound(KindOf[r], R, stored, Listings, Doubles)
  BY <1>1, ReaderIs
<1>3. /\ SameRead(N, R) /\ N.hits = R.hits /\ N.candidates = R.candidates /\ N.edges = R.edges
      /\ N.pc = IF KindOf[r].gfm THEN "adjacent" ELSE "candidates"
  BY <1>2 DEF Shape, SameRead, Idle
<1> HIDE DEF N
<1>4. CASE KindOf[r].gfm
  <2>1. Gathered(KindOf[r], N, stored)
    BY <1>1, <1>2, <1>3, <1>4 DEF Gathered, Rows, SameRead
  <2>2. Sound(KindOf[r], N, stored, Listings, Doubles)
    BY <1>1, <1>2, <1>3, <1>4, <2>1, GathersSound DEF Placed, Shape
  <2> QED
    BY <2>2, CacheStays, GoKeeps DEF embed, N
<1>5. CASE ~KindOf[r].gfm
  <2>1. Shape(N)
    BY <1>2, <1>3, <1>5 DEF Shape, SameRead, Places
  <2>2. EmptyHanded(N) /\ Watched(N, stored, Listings, Doubles)
    BY <1>1, <1>2, <1>3, <1>5 DEF Placed, EmptyHanded, Watched, SameRead
  <2>3. Sound(KindOf[r], N, stored, Listings, Doubles)
    BY <1>1, <1>2, <1>3, <1>5, <2>1, <2>2, StartsSound DEF Placed, SameRead, Sound
  <2> QED
    BY <2>3, CacheStays, GoKeeps DEF embed, N
<1> QED
  BY <1>4, <1>5

LEMMA EmbedFailsKeeps ==
    ASSUME IInv, NEW r \in Readers, embed_fails(r)
    PROVE  IInv'
<1>1. Sound(KindOf[r], [Aborted(reading[r]) EXCEPT !.unembedded = TRUE], stored, Listings, Doubles)
  BY ReaderIs, AbortSound
<1> QED
  BY <1>1, CacheStays, GoKeeps DEF embed_fails

LEMMA SearchKeeps ==
    ASSUME IInv, NEW r \in Readers, NEW hits \in HitsWithin, search(r, hits)
    PROVE  IInv'
<1> DEFINE R == reading[r]
           N == IF hits = NoneOf THEN Returned(R, Nothing) ELSE [R EXCEPT !.pc = "fetch", !.hits = hits]
<1>1. R.pc = "candidates" /\ Active(R)
  BY DEF search, At, Active
<1>2. Shape(R) /\ Placed(KindOf[r], R) /\ Watched(R, stored, Listings, Doubles)
      /\ Gathered(KindOf[r], R, stored) /\ Sound(KindOf[r], R, stored, Listings, Doubles)
  BY <1>1, ReaderIs
<1>3. EmptyHanded(R) /\ R.plan \in Plans /\ R.out = Nothing /\ R.met = {}
  BY <1>1, <1>2 DEF Placed, EmptyHanded
<1>4. /\ SameRead(N, R) /\ N.hits = hits /\ N.candidates = NoneOf /\ N.edges = {}
      /\ N.pc = IF hits = NoneOf THEN "read" ELSE "fetch"
  <2>1. CASE hits = NoneOf
    BY <1>2, <1>3, <2>1 DEF Shape, SameRead, Idle, Returned, EmptyHanded
  <2>2. CASE hits # NoneOf
    BY <1>2, <1>3, <2>2 DEF Shape, SameRead, Idle, EmptyHanded
  <2> QED
    BY <2>1, <2>2
<1>5. ~KindOf[r].gfm /\ \A e \in Entities : hits[e] <= inner[e]
  BY DEF search, Narrows
<1>6. hits \in [Entities -> Nat] /\ NoneOf \in [Entities -> Nat]
  BY ReaderAssumption DEF HitsWithin, NoneOf
<1>7. \A e \in Entities : hits[e] > 1 => e \in R.twice
  <2>1. \A e \in Entities : hits[e] > 1 => e \in Doubles
    BY <1>5, <1>6 DEF Doubles, IInv, IndexTyped
  <2> QED
    BY <1>2, <2>1 DEF Watched
<1> HIDE DEF N
<1>8. Gathered(KindOf[r], N, stored)
  <2>1. Rows(N) = {} /\ \A e \in Entities : N.candidates[e] = 0
    BY <1>4 DEF Rows, NoneOf
  <2> QED
    BY <1>4, <1>5, <1>6, <1>7, <2>1 DEF Gathered, SameRead
<1>9. Sound(KindOf[r], N, stored, Listings, Doubles)
  <2>1. (N.pc = "fetch" /\ ~KindOf[r].gfm) \/ (N.pc = "read" /\ N.out = Nothing)
    BY <1>3, <1>4, <1>5 DEF SameRead
  <2> QED
    BY <1>1, <1>2, <1>3, <1>4, <1>6, <1>8, <2>1, GathersSound
<1> QED
  BY <1>9, CacheStays, GoKeeps DEF search, N

LEMMA AllEntitiesKeeps ==
    ASSUME IInv, NEW r \in Readers, all_entities(r)
    PROVE  IInv'
<1> DEFINE R == reading[r]
           once == [e \in Entities |-> IF e \in stored THEN 1 ELSE 0]
           N == IF stored = {} THEN Returned(R, Nothing)
                ELSE [R EXCEPT !.pc = IF KindOf[r].gfm THEN "embed" ELSE "score",
                               !.candidates = [e \in Entities |-> IF e \in stored THEN 1 ELSE 0],
                               !.hits = [e \in Entities |-> IF e \in stored THEN 1 ELSE 0]]
<1>1. R.pc = "candidates" /\ Active(R)
  BY DEF all_entities, At, Active
<1>2. Shape(R) /\ Placed(KindOf[r], R) /\ Watched(R, stored, Listings, Doubles)
      /\ Gathered(KindOf[r], R, stored) /\ Sound(KindOf[r], R, stored, Listings, Doubles)
  BY <1>1, ReaderIs
<1>3. EmptyHanded(R) /\ R.plan \in Plans /\ R.out = Nothing /\ R.met = {}
  BY <1>1, <1>2 DEF Placed, EmptyHanded
<1>4. Go(r, N) /\ CacheFits'
  BY CacheStays DEF all_entities
<1>5. CASE stored = {}
  <2>1. /\ SameRead(N, R) /\ N.hits = R.hits /\ N.candidates = R.candidates /\ N.edges = R.edges
        /\ N.pc = "read" /\ N.out = Nothing
    BY <1>2, <1>3, <1>5 DEF Shape, SameRead, Idle, Returned
  <2> HIDE DEF N
  <2>2. Gathered(KindOf[r], N, stored)
    BY <1>2, <2>1 DEF Gathered, Rows, SameRead
  <2>3. Sound(KindOf[r], N, stored, Listings, Doubles)
    BY <1>1, <1>2, <1>3, <2>1, <2>2, GathersSound DEF Shape
  <2> QED
    BY <1>4, <2>3, GoKeeps
<1>6. CASE stored # {}
  <2>1. /\ SameRead(N, R) /\ N.hits = once /\ N.candidates = once /\ N.edges = {}
        /\ N.pc = IF KindOf[r].gfm THEN "embed" ELSE "score"
    BY <1>2, <1>3, <1>6 DEF Shape, SameRead, Idle, EmptyHanded
  <2> HIDE DEF N
  <2>2. once \in [Entities -> Nat]
    OBVIOUS
  <2>3. /\ Rows(N) \subseteq stored
        /\ \A e \in Entities : N.candidates[e] <= 1 /\ (N.hits[e] > 0 => N.candidates[e] > 0)
    BY <2>1 DEF Rows
  <2>4. Gathered(KindOf[r], N, stored)
    BY <1>2, <2>1, <2>2, <2>3 DEF Gathered, Watched, SameRead
  <2>5. Sound(KindOf[r], N, stored, Listings, Doubles)
    <3>1. N.pc = "score" \/ (N.pc = "embed" /\ KindOf[r].gfm)
      BY <2>1, Kinds
    <3> HIDE DEF R, once
    <3>2. N.hits \in [Entities -> Nat] /\ N.candidates \in [Entities -> Nat]
      BY <2>1, <2>2
    <3> QED
      BY <1>1, <1>2, <1>3, <2>1, <2>4, <3>1, <3>2, GathersSound
  <2> QED
    BY <1>4, <2>5, GoKeeps
<1> QED
  BY <1>5, <1>6

LEMMA GetEntityKeeps ==
    ASSUME IInv, NEW r \in Readers, NEW e \in Entities, get_entity(r, e)
    PROVE  IInv'
<1> DEFINE R == reading[r]
           record == [R EXCEPT !.hits[e] = @ - 1,
                               !.candidates[e] = IF e \in stored THEN @ + 1 ELSE @]
           N == IF record.hits # NoneOf THEN record
                ELSE IF record.candidates = NoneOf THEN Returned(record, Nothing)
                ELSE [record EXCEPT !.pc = "score"]
<1>1. R.pc = "fetch" /\ Active(R) /\ R.hits[e] > 0
  BY DEF get_entity, At, Active
<1>2. Shape(R) /\ Placed(KindOf[r], R) /\ Watched(R, stored, Listings, Doubles)
      /\ Gathered(KindOf[r], R, stored) /\ Sound(KindOf[r], R, stored, Listings, Doubles)
  BY <1>1, ReaderIs
<1>3. R.plan \in Plans /\ R.out = Nothing /\ R.met = {} /\ ~KindOf[r].gfm
  BY <1>1, <1>2 DEF Placed
<1>4. Go(r, N) /\ CacheFits'
  BY CacheStays DEF get_entity
<1> DEFINE hits == [R.hits EXCEPT ![e] = @ - 1]
           candidates == [R.candidates EXCEPT ![e] = IF e \in stored THEN @ + 1 ELSE @]
<1>5. /\ SameRead(record, R) /\ record.hits = hits /\ record.candidates = candidates
      /\ record.edges = R.edges /\ record.pc = "fetch"
  BY <1>1, <1>2 DEF Shape, SameRead, Idle
<1> HIDE DEF record
<1>6. /\ SameRead(N, R) /\ N.hits = hits /\ N.candidates = candidates /\ N.edges = R.edges
      /\ \/ N.pc = "fetch" \/ N.pc = "score"
         \/ N.pc = "read" /\ N.out = Nothing
  <2>1. CASE record.hits # NoneOf
    BY <1>5, <2>1
  <2>2. CASE record.hits = NoneOf /\ record.candidates = NoneOf
    BY <1>2, <1>3, <1>5, <2>2 DEF Shape, SameRead, Idle, Returned
  <2>3. CASE record.hits = NoneOf /\ record.candidates # NoneOf
    BY <1>2, <1>5, <2>3 DEF Shape, SameRead, Idle
  <2> QED
    BY <2>1, <2>2, <2>3
<1>7. hits \in [Entities -> Nat] /\ candidates \in [Entities -> Nat]
  BY <1>1, <1>2 DEF Shape
<1>8. \A x \in Entities : /\ x # e => hits[x] = R.hits[x] /\ candidates[x] = R.candidates[x]
                          /\ R.hits[x] \in Nat /\ R.candidates[x] \in Nat
  BY <1>2 DEF Shape
<1>9. hits[e] = R.hits[e] - 1 /\ candidates[e] = IF e \in stored THEN R.candidates[e] + 1 ELSE R.candidates[e]
  BY <1>2 DEF Shape
<1> HIDE DEF N, hits, candidates
<1>10. Gathered(KindOf[r], N, stored)
  <2>1. Rows(R) \subseteq Rows(N) /\ Rows(N) \subseteq Rows(R) \cup ({e} \cap stored)
    BY <1>6, <1>8, <1>9 DEF Rows
  <2>2. stored \subseteq R.alive
    BY <1>2 DEF Watched
  <2>3. \A x \in Entities : N.hits[x] + N.candidates[x] <= R.hits[x] + R.candidates[x]
                            /\ N.candidates[x] <= R.hits[x] + R.candidates[x]
                            /\ N.candidates[x] \in Nat /\ N.hits[x] \in Nat
    BY <1>1, <1>6, <1>7, <1>8, <1>9
  <2>4. \A x \in Entities : N.hits[x] + N.candidates[x] > 1 \/ N.candidates[x] > 1 => x \in R.twice
    BY <1>1, <1>2, <1>8, <2>3 DEF Gathered
  <2> QED
    BY <1>2, <1>3, <1>6, <2>1, <2>2, <2>4 DEF Gathered, SameRead
<1>11. Sound(KindOf[r], N, stored, Listings, Doubles)
  BY <1>1, <1>2, <1>3, <1>6, <1>7, <1>10, GathersSound
<1> QED
  BY <1>4, <1>11, GoKeeps

LEMMA NeighborsKeeps ==
    ASSUME IInv, NEW r \in Readers, NEW e \in Entities, neighbors(r, e)
    PROVE  IInv'
<1> DEFINE R == reading[r]
           near == {graph.out_edges[e][i].dst : i \in DOMAIN graph.out_edges[e]}
           rows == {v \in Entities : R.candidates[v] > 0}
           rest == [R.hits EXCEPT ![e] = 0]
           N == [R EXCEPT !.hits = rest, !.edges = @ \cup ({e} \X (near \cap rows)),
                          !.pc = IF rest = NoneOf THEN "score" ELSE @]
<1>1. R.pc = "adjacent" /\ Active(R) /\ R.hits[e] > 0
  BY DEF neighbors, At, Active
<1>2. Shape(R) /\ Placed(KindOf[r], R) /\ Watched(R, stored, Listings, Doubles)
      /\ Gathered(KindOf[r], R, stored) /\ Sound(KindOf[r], R, stored, Listings, Doubles)
  BY <1>1, ReaderIs
<1>3. R.plan \in Plans /\ R.out = Nothing /\ R.met = {} /\ KindOf[r].gfm
  BY <1>1, <1>2 DEF Placed
<1>4. Go(r, N) /\ CacheFits'
  BY CacheStays DEF neighbors
<1>5. /\ SameRead(N, R) /\ N.hits = rest /\ N.candidates = R.candidates
      /\ N.edges = R.edges \cup ({e} \X (near \cap rows))
      /\ N.pc = "score" \/ N.pc = "adjacent"
  BY <1>1, <1>2 DEF Shape, SameRead, Idle
<1>6. rest \in [Entities -> Nat] /\ \A x \in Entities : rest[x] > 0 => R.hits[x] > 0
  BY <1>2 DEF Shape
<1> HIDE DEF N, near, rest
<1>7. e \in rows
  BY <1>1, <1>2, <1>3 DEF Gathered
<1>8. Rows(N) = Rows(R) /\ Rows(R) = rows
  BY <1>5 DEF Rows
<1>9. Gathered(KindOf[r], N, stored)
  BY <1>2, <1>3, <1>5, <1>6, <1>7, <1>8 DEF Gathered, SameRead
<1>10. Sound(KindOf[r], N, stored, Listings, Doubles)
  BY <1>1, <1>2, <1>3, <1>5, <1>6, <1>9, GathersSound DEF Shape
<1> QED
  BY <1>4, <1>10, GoKeeps

\* Any order of a finite set names each of its elements once.
LEMMA RankedOnce ==
    ASSUME NEW S, IsFiniteSet(S), NEW value, NEW s \in Ranked(S, value)
    PROVE  /\ s \in Seq(S) /\ DOMAIN s = 1..Len(s) /\ Len(s) \in Nat
           /\ \A i, j \in DOMAIN s : i # j => s[i] # s[j]
<1>1. Cardinality(S) \in Nat
  BY FS_CardinalityType
<1>2. s \in [1..Cardinality(S) -> S]
      /\ \A i, j \in DOMAIN s : i < j => s[i] # s[j]
  BY DEF Ranked
<1>3. s \in Seq(S) /\ Len(s) = Cardinality(S) /\ DOMAIN s = 1..Len(s)
  BY <1>1, <1>2
<1> QED
  BY <1>1, <1>2, <1>3

\* A set put in a row is there once each.
LEMMA InARow ==
    ASSUME NEW S, IsFiniteSet(S)
    PROVE  /\ SetToSeq(S) \in Seq(S) /\ Len(SetToSeq(S)) = Cardinality(S)
           /\ DOMAIN SetToSeq(S) = 1..Len(SetToSeq(S)) /\ Len(SetToSeq(S)) \in Nat
           /\ \A x \in S : \E i \in DOMAIN SetToSeq(S) : SetToSeq(S)[i] = x
<1> DEFINE n == Cardinality(S)
<1>1. n \in Nat /\ ExistsBijection(1..n, S)
  BY FS_CardinalityType
<1>2. PICK f \in [1..n -> S] : IsInjective(f)
  BY <1>1 DEF ExistsBijection, Bijection, Injection
<1>3. SetToSeq(S) \in [1..n -> S] /\ IsInjective(SetToSeq(S))
  BY <1>2 DEF SetToSeq
<1>4. SetToSeq(S) \in Injection(1..n, S) /\ IsFiniteSet(1..n) /\ Cardinality(1..n) = n
  BY <1>1, <1>3, FS_Interval DEF Injection
<1>5. SetToSeq(S) \in Surjection(1..n, S)
  BY <1>4, FS_Injection
<1>6. SetToSeq(S) \in Seq(S) /\ Len(SetToSeq(S)) = n /\ DOMAIN SetToSeq(S) = 1..n
  BY <1>1, <1>3
<1> QED
  BY <1>1, <1>5, <1>6 DEF Surjection

\* What a GfmReader has gathered fits the layer, which makes of it what the
\* formula says.
LEMMA ViewTaken ==
    ASSUME NEW r \in Readers, reading[r].edges \subseteq Rows(reading[r]) \X Rows(reading[r])
    PROVE  Forwarded(r).ok /\ Forwarded(r).dst = Formula(View(r), HiddenDim, 1)[1]
<1> DEFINE S == {e \in Entities : reading[r].candidates[e] > 0}
           rows == SetToSeq(S)
           RowOf(e) == IF \E i \in DOMAIN rows : rows[i] = e
                       THEN (CHOOSE i \in DOMAIN rows : rows[i] = e) - 1 ELSE Len(rows)
           edges == SetToSeq(reading[r].edges)
           n == Len(rows)
<1>1. S = Rows(reading[r]) /\ IsFiniteSet(S)
  BY ReaderAssumption, FS_Subset DEF Rows
<1>2. n \in Nat /\ DOMAIN rows = 1..n /\ \A x \in S : \E i \in DOMAIN rows : rows[i] = x
  BY <1>1, InARow
<1>3. \A x \in S : RowOf(x) \in 0..(n - 1)
  <2> SUFFICES ASSUME NEW x \in S PROVE RowOf(x) \in 0..(n - 1)
    OBVIOUS
  <2> DEFINE i0 == CHOOSE i \in DOMAIN rows : rows[i] = x
  <2>1. \E i \in DOMAIN rows : rows[i] = x
    BY <1>2
  <2>2. i0 \in DOMAIN rows
    BY <2>1
  <2>3. RowOf(x) = i0 - 1
    BY <2>1
  <2> HIDE DEF i0, RowOf
  <2>4. i0 \in 1..n
    BY <1>2, <2>2
  <2> HIDE DEF n
  <2> QED
    BY <1>2, <2>3, <2>4
<1>4. reading[r].edges \subseteq S \X S /\ IsFiniteSet(S \X S)
  BY <1>1, FS_Product
<1>5. IsFiniteSet(reading[r].edges)
  BY <1>4, FS_Subset
<1>6. Len(edges) \in Nat /\ DOMAIN edges = 1..Len(edges) /\ edges \in Seq(S \X S)
  <2>1. edges \in Seq(reading[r].edges) /\ DOMAIN edges = 1..Len(edges) /\ Len(edges) \in Nat
    BY <1>5, InARow
  <2> QED
    BY <1>4, <2>1
<1>7. \A i \in DOMAIN edges : edges[i][1] \in S /\ edges[i][2] \in S
  BY <1>6
<1> DEFINE ends == [i \in DOMAIN edges |-> <<RowOf(edges[i][1]), RowOf(edges[i][2])>>]
<1>8. View(r) = [n_nodes |-> n, deg |-> n, edges |-> ends]
  BY DEF View
<1> HIDE DEF rows, edges, RowOf, n, S
<1>9. ends \in Seq((0..(n - 1)) \X (0..(n - 1)))
  BY <1>3, <1>6, <1>7
<1> HIDE DEF ends
<1> DEFINE view == View(r)
           d == HiddenDim
<1>10. view.n_nodes = n /\ Fits(view, n)
  BY <1>8, <1>9 DEF Fits, EdgesOf
<1>11. d \in Nat \ {0}
  BY ReaderAssumption
<1> HIDE DEF view
<1>12. Seeded(view) = Flat(n, d, FirstRows(view, d))
  BY <1>2, <1>10, <1>11, InputIsFlat DEF Seeded
<1>13. layer_forward(1, view, d, Seeded(view)) = Passed(Formula(view, d, 1)[1])
  BY <1>2, <1>10, <1>11, <1>12, OneLayer
<1> QED
  BY <1>13 DEF Forwarded, Passed, view

\* The candidates that are left have weight, and each is there as often as
\* the reader has it.
LEMMA KeptOnes ==
    ASSUME NEW r \in Readers, NEW c \in Kept(r), Sample(r) \in Samples, reading[r].plan \in Plans
    PROVE  /\ c \in Entities \X (1..NarrowK) /\ c[2] <= reading[r].candidates[c[1]]
           /\ ~KindOf[r].gfm => ~violates_hard_constraints(c[1], reading[r].plan)
<1> DEFINE plan == reading[r].plan
           q == Sample(r).q
           e == c[1]
<1>1. c \in Entities \X (1..NarrowK) /\ c[2] <= reading[r].candidates[c[1]]
      /\ (KindOf[r].gfm \/ Weight(r, c[1]) > 0)
  BY DEF Kept
<1>2. q \in Questions /\ e \in Entities
  BY <1>1 DEF Samples
<1>3. violates_hard_constraints(e, plan) => softmax_entry[q][KindOf[r].embeds][plan][e] = 0
  <2>1. KindOf[r].embeds \in BOOLEAN
    BY ReaderAssumption DEF ReaderKinds
  <2> QED
    BY <1>2, <2>1 DEF softmax_entry
<1>4. ~KindOf[r].gfm => ~violates_hard_constraints(c[1], reading[r].plan)
  BY <1>1, <1>3 DEF Weight
<1> QED
  BY <1>1, <1>4

LEMMA ScoreKeeps ==
    ASSUME IInv, NEW r \in Readers, score(r)
    PROVE  IInv'
<1> DEFINE R == reading[r]
<1>1. R.pc = "score" /\ Active(R)
  BY DEF score, At, Active
<1>2. Shape(R) /\ Placed(KindOf[r], R) /\ Watched(R, stored, Listings, Doubles)
      /\ Gathered(KindOf[r], R, stored) /\ Sound(KindOf[r], R, stored, Listings, Doubles)
      /\ Sample(r) \in Samples
  BY <1>1, ReaderIs
<1>3. R.plan \in Plans /\ R.out = Nothing /\ R.met = {}
  BY <1>1, <1>2 DEF Placed
<1>4. Forwarded(r).ok
  BY <1>2, ViewTaken DEF Gathered
<1> DEFINE value == [c \in Kept(r) |-> IF KindOf[r].gfm THEN 0 ELSE Weight(r, c[1])]
           Ents(ranked) == [i \in DOMAIN ranked |-> ranked[i][1]]
           Next1(entities) == IF entities = <<>> THEN Returned(R, Nothing)
                              ELSE [R EXCEPT !.pc = "list", !.left = entities, !.out.entities = entities]
<1>5. PICK ranked \in Ranked(Kept(r), value) : Go(r, Next1(Ents(ranked)))
  BY <1>4 DEF score
<1> DEFINE entities == Ents(ranked)
           N == Next1(entities)
<1>6. Go(r, N) /\ CacheFits'
  BY <1>5, CacheStays DEF score
<1>7. IsFiniteSet(Kept(r))
  <2>1. NarrowK \in Nat /\ IsFiniteSet(Entities)
    BY ReaderAssumption
  <2>2. IsFiniteSet(1..NarrowK)
    BY <2>1, FS_Interval
  <2>3. IsFiniteSet(Entities \X (1..NarrowK))
    BY <2>1, <2>2, FS_Product
  <2> QED
    BY <2>3, FS_Subset DEF Kept
<1>8. /\ ranked \in Seq(Kept(r)) /\ DOMAIN ranked = 1..Len(ranked) /\ Len(ranked) \in Nat
      /\ \A i, j \in DOMAIN ranked : i # j => ranked[i] # ranked[j]
  BY <1>7, RankedOnce
<1>9. \A i \in DOMAIN ranked :
          /\ ranked[i] \in Entities \X (1..NarrowK) /\ ranked[i][2] <= R.candidates[ranked[i][1]]
          /\ ~KindOf[r].gfm => ~violates_hard_constraints(ranked[i][1], R.plan)
  BY <1>2, <1>3, <1>8, KeptOnes
<1>10. /\ entities \in Seq(Entities) /\ DOMAIN entities = DOMAIN ranked
       /\ \A i \in DOMAIN entities : entities[i] = ranked[i][1]
  BY <1>8, <1>9
<1> HIDE DEF value, Ents
<1>11. CASE entities = <<>>
  <2>1. /\ SameRead(N, R) /\ N.hits = R.hits /\ N.candidates = R.candidates /\ N.edges = R.edges
        /\ N.pc = "read" /\ N.out = Nothing
    BY <1>2, <1>3, <1>11 DEF Shape, SameRead, Idle, Returned
  <2> HIDE DEF N
  <2>2. Gathered(KindOf[r], N, stored)
    BY <1>2, <2>1 DEF Gathered, Rows, SameRead
  <2>3. Sound(KindOf[r], N, stored, Listings, Doubles)
    BY <1>1, <1>2, <1>3, <2>1, <2>2, GathersSound DEF Shape
  <2> QED
    BY <1>6, <2>3, GoKeeps
<1>12. CASE entities # <<>>
  <2>1. /\ DOMAIN N = DOMAIN R /\ N.pc = "list" /\ N.left = entities
        /\ DOMAIN N.out = DOMAIN R.out /\ N.out.entities = entities /\ N.out.docs = R.out.docs
        /\ N.queue = R.queue /\ N.report = R.report /\ N.plan = R.plan
        /\ N.hits = R.hits /\ N.candidates = R.candidates /\ N.edges = R.edges
        /\ N.met = R.met /\ N.restored = R.restored
        /\ N.alive = R.alive /\ N.listed = R.listed /\ N.twice = R.twice
        /\ N.asked = R.asked /\ N.known = R.known /\ N.result = R.result /\ N.unembedded = R.unembedded
    BY <1>2, <1>12 DEF Shape, Idle
  <2>2. R.out.docs = <<>>
    BY <1>3 DEF Nothing
  <2> HIDE DEF N, entities
  <2>3. Shape(N)
    BY <1>2, <1>10, <2>1 DEF Shape, Places
  <2>4. Placed(KindOf[r], N) /\ Watched(N, stored, Listings, Doubles)
    BY <1>2, <1>3, <1>12, <2>1, <2>2 DEF Placed, Watched
  <2>5. Gathered(KindOf[r], N, stored)
    BY <1>2, <2>1 DEF Gathered, Rows
  <2>6. ToSet(entities) \subseteq Rows(N)
    <3> SUFFICES ASSUME NEW i \in DOMAIN entities PROVE entities[i] \in Rows(N)
      BY DEF ToSet
    <3>1. entities[i] \in Entities /\ R.candidates[entities[i]] >= ranked[i][2] /\ ranked[i][2] \in 1..NarrowK
          /\ R.candidates[entities[i]] \in Nat
      BY <1>2, <1>9, <1>10 DEF Shape
    <3> QED
      BY <2>1, <3>1 DEF Rows
  <2>7. ASSUME NEW i \in DOMAIN entities, NEW j \in DOMAIN entities, i # j, entities[i] = entities[j]
        PROVE  entities[i] \in N.twice
    <3> DEFINE e == entities[i]
    <3>1. ranked[i] # ranked[j] /\ ranked[i] \in Entities \X (1..NarrowK)
          /\ ranked[j] \in Entities \X (1..NarrowK) /\ ranked[i][1] = e /\ ranked[j][1] = e
          /\ ranked[i][2] <= R.candidates[e] /\ ranked[j][2] <= R.candidates[e]
      BY <1>8, <1>9, <1>10, <2>7
    <3>2. ranked[i][2] # ranked[j][2]
      BY <3>1
    <3>3. R.candidates[e] \in Nat /\ e \in Entities
      BY <1>2, <3>1 DEF Shape
    <3>4. ranked[i][2] \in Nat /\ ranked[j][2] \in Nat /\ ranked[i][2] >= 1 /\ ranked[j][2] >= 1
      BY <3>1, ReaderAssumption
    <3>5. R.candidates[e] > 1
      BY <3>1, <3>2, <3>3, <3>4
    <3> QED
      BY <1>2, <2>1, <3>3, <3>5 DEF Gathered
  <2>8. ~KindOf[r].gfm => \A e \in ToSet(entities) : ~violates_hard_constraints(e, N.plan)
    BY <1>9, <1>10, <2>1 DEF ToSet
  <2>9. ToSet(N.out.docs) = {} /\ Distinct(N.out.docs)
    BY <2>1, <2>2 DEF ToSet, Distinct
  <2>10. Answered(KindOf[r], N)
    BY <1>3, <2>1, <2>6, <2>7, <2>8, <2>9 DEF Answered
  <2>11. Sound(KindOf[r], N, stored, Listings, Doubles)
    BY <1>2, <2>1, <2>3, <2>4, <2>5, <2>10 DEF Sound
  <2> QED
    BY <1>6, <2>11, GoKeeps DEF N
<1> QED
  BY <1>11, <1>12

\* The first m of a sequence.
LEMMA Prefix ==
    ASSUME NEW S, NEW s \in Seq(S), NEW m \in Nat, m <= Len(s)
    PROVE  /\ SubSeq(s, 1, m) \in Seq(S) /\ Len(SubSeq(s, 1, m)) = m
           /\ \A i \in 1..m : SubSeq(s, 1, m)[i] = s[i]
<1>1. \A i \in 1..m : s[i] \in S
  OBVIOUS
<1>2. SubSeq(s, 1, m) = [i \in 1..m |-> s[i]]
  OBVIOUS
<1> QED
  BY <1>1, <1>2

LEMMA DocsOfEntityKeeps ==
    ASSUME IInv, NEW r \in Readers, docs_of_entity(r)
    PROVE  IInv'
<1> DEFINE R == reading[r]
           e == Head(R.left)
           M == Counted(r, e)
<1>1. R.pc = "list" /\ Active(R)
  BY DEF docs_of_entity, At, Active
<1>2. Shape(R) /\ Placed(KindOf[r], R) /\ Watched(R, stored, Listings, Doubles)
      /\ Gathered(KindOf[r], R, stored) /\ Answered(KindOf[r], R)
      /\ Sound(KindOf[r], R, stored, Listings, Doubles) /\ Sample(r) \in Samples
  BY <1>1, ReaderIs
<1>3. R.left # <<>> /\ R.left \in Seq(Entities) /\ R.plan \in Plans /\ R.out.docs = <<>>
      /\ ToSet(R.left) \subseteq ToSet(R.out.entities)
  BY <1>1, <1>2 DEF Placed, Shape, Answered
<1>4. /\ e \in ToSet(R.out.entities) /\ e \in Entities
      /\ Tail(R.left) \in Seq(Entities) /\ ToSet(Tail(R.left)) \subseteq ToSet(R.left)
  <2>1. \A s \in Seq(Entities) : s # <<>> =>
            /\ Head(s) \in ToSet(s) /\ Head(s) \in Entities
            /\ Tail(s) \in Seq(Entities) /\ ToSet(Tail(s)) \subseteq ToSet(s)
    <3> SUFFICES ASSUME NEW s \in Seq(Entities), s # <<>>
                 PROVE  /\ Head(s) \in ToSet(s) /\ Head(s) \in Entities
                        /\ Tail(s) \in Seq(Entities) /\ ToSet(Tail(s)) \subseteq ToSet(s)
      OBVIOUS
    <3>1. Len(s) \in Nat \ {0} /\ DOMAIN s = 1..Len(s) /\ Head(s) = s[1] /\ Head(s) \in Entities
          /\ Tail(s) \in Seq(Entities) /\ DOMAIN Tail(s) = 1..(Len(s) - 1)
          /\ \A i \in 1..(Len(s) - 1) : Tail(s)[i] = s[i + 1]
      OBVIOUS
    <3> QED
      BY <3>1 DEF ToSet
  <2> QED
    BY <1>3, <2>1
<1> DEFINE listing == {d \in Docs : graph.doc_index[e][d] > 0}
<1>5. /\ DOMAIN M = DOMAIN R /\ M.pc = "list" /\ M.left = Tail(R.left) /\ M.met = R.met \cup listing
      /\ M.queue = R.queue /\ M.report = R.report /\ M.plan = R.plan /\ M.out = R.out
      /\ M.hits = R.hits /\ M.candidates = R.candidates /\ M.edges = R.edges /\ M.restored = R.restored
      /\ M.alive = R.alive /\ M.listed = R.listed /\ M.twice = R.twice
      /\ M.asked = R.asked /\ M.known = R.known /\ M.result = R.result /\ M.unembedded = R.unembedded
  BY <1>1, <1>2 DEF Shape, Idle, Counted
<1>6. \A d \in listing : <<e, d>> \in R.listed
  <2>1. \A d \in listing : <<e, d>> \in Listings
    BY <1>4 DEF Listings
  <2> QED
    BY <1>2, <2>1 DEF Watched
<1> HIDE DEF M
<1>7. M.met \subseteq Docs /\ R.met \subseteq Docs /\ IsFiniteSet(M.met)
  <2>1. M.met \subseteq Docs /\ R.met \subseteq Docs
    BY <1>2, <1>5 DEF Shape
  <2> QED
    BY <2>1, ReaderAssumption, FS_Subset
<1>8. \A d \in M.met : \E x \in ToSet(R.out.entities) : <<x, d>> \in R.listed
  BY <1>2, <1>4, <1>5, <1>6 DEF Answered
<1> HIDE DEF listing, e
<1>9. CASE M.left # <<>>
  <2>1. Go(r, M) /\ CacheFits'
    BY <1>9, CacheStays DEF docs_of_entity, M, e
  <2>2. Shape(M)
    BY <1>1, <1>2, <1>4, <1>5, <1>7 DEF Shape
  <2>3. Placed(KindOf[r], M) /\ Watched(M, stored, Listings, Doubles)
    BY <1>1, <1>2, <1>5, <1>9 DEF Placed, Watched
  <2>4. Gathered(KindOf[r], M, stored)
    BY <1>1, <1>2, <1>5 DEF Gathered, Rows
  <2>5. Answered(KindOf[r], M)
    <3>1. ToSet(M.out.docs) = {}
      BY <1>3, <1>5 DEF ToSet
    <3>2. Rows(M) = Rows(R) /\ ToSet(M.left) \subseteq ToSet(M.out.entities)
      BY <1>3, <1>4, <1>5 DEF Rows
    <3>3. \A d \in M.met : \E x \in ToSet(M.out.entities) : <<x, d>> \in M.listed
      BY <1>5, <1>8
    <3>4. M.pc # "read" /\ M.out = R.out /\ M.plan = R.plan /\ M.twice = R.twice
      BY <1>5
    <3> HIDE DEF R
    <3> QED
      BY <1>2, <3>1, <3>2, <3>3, <3>4 DEF Answered
  <2>6. Sound(KindOf[r], M, stored, Listings, Doubles)
    BY <1>2, <1>5, <2>2, <2>3, <2>4, <2>5 DEF Sound
  <2> QED
    BY <2>1, <2>6, GoKeeps
<1>10. CASE M.left = <<>>
  <2> DEFINE Cut(docs) == SubSeq(docs, 1, Smaller(Max({Sample(r).k, 1}), Len(docs)))
             Out(docs) == [M.out EXCEPT !.docs = Cut(docs)]
             N(docs) == IF KindOf[r].gfm THEN Returned(M, Out(docs))
                        ELSE [M EXCEPT !.pc = "hop", !.out = Out(docs)]
  <2>1. PICK docs \in Ranked(M.met, M.scores) : Go(r, N(docs))
    BY <1>10 DEF docs_of_entity, M, e
  <2>2. CacheFits'
    BY CacheStays DEF docs_of_entity
  <2>3. /\ docs \in Seq(M.met) /\ DOMAIN docs = 1..Len(docs) /\ Len(docs) \in Nat
        /\ \A i, j \in DOMAIN docs : i # j => docs[i] # docs[j]
    BY <1>7, RankedOnce
  <2>4. Cut(docs) \in Seq(M.met) /\ Distinct(Cut(docs))
    <3> DEFINE m == Smaller(Max({Sample(r).k, 1}), Len(docs))
    <3>1. Max({Sample(r).k, 1}) \in Nat
      BY <1>2, Extremes DEF Samples
    <3>2. m \in Nat /\ m <= Len(docs)
      BY <2>3, <3>1 DEF Smaller
    <3> HIDE DEF m
    <3>3. SubSeq(docs, 1, m) \in Seq(M.met) /\ Len(SubSeq(docs, 1, m)) = m
          /\ \A i \in 1..m : SubSeq(docs, 1, m)[i] = docs[i]
      BY <2>3, <3>2, Prefix
    <3>4. Distinct(SubSeq(docs, 1, m))
      BY <2>3, <3>2, <3>3 DEF Distinct
    <3> QED
      BY <3>3, <3>4 DEF m
  <2> DEFINE cut == Cut(docs)
             P == N(docs)
  <2>5. Go(r, P) /\ cut \in Seq(M.met) /\ Distinct(cut)
    BY <2>1, <2>4
  <2>6. /\ DOMAIN P = DOMAIN R /\ P.pc = IF KindOf[r].gfm THEN "read" ELSE "hop"
        /\ DOMAIN P.out = DOMAIN R.out /\ P.out.docs = cut /\ P.out.entities = R.out.entities
        /\ P.left = M.left /\ P.met = M.met
        /\ P.queue = R.queue /\ P.report = R.report /\ P.plan = R.plan
        /\ P.hits = R.hits /\ P.candidates = R.candidates /\ P.edges = R.edges /\ P.restored = R.restored
        /\ P.alive = R.alive /\ P.listed = R.listed /\ P.twice = R.twice
        /\ P.asked = R.asked /\ P.known = R.known /\ P.result = R.result /\ P.unembedded = R.unembedded
    <3>1. DOMAIN Out(docs) = DOMAIN R.out /\ Out(docs).docs = cut /\ Out(docs).entities = R.out.entities
      BY <1>2, <1>5 DEF Shape
    <3> DEFINE out == Out(docs)
    <3>2. P = IF KindOf[r].gfm THEN Returned(M, out) ELSE [M EXCEPT !.pc = "hop", !.out = out]
      OBVIOUS
    <3>3. DOMAIN out = DOMAIN R.out /\ out.docs = cut /\ out.entities = R.out.entities
      BY <3>1
    <3>4. DOMAIN M = DOMAIN Idle
      BY <1>2, <1>5 DEF Shape
    <3> HIDE DEF P, N, out, Out, cut, Cut
    <3>5. CASE KindOf[r].gfm
      <4>1. P = [M EXCEPT !.pc = "read", !.out = out]
        BY <3>2, <3>5 DEF Returned
      <4> QED
        BY <1>5, <3>3, <3>4, <3>5, <4>1 DEF Idle
    <3>6. CASE ~KindOf[r].gfm
      <4>1. P = [M EXCEPT !.pc = "hop", !.out = out]
        BY <3>2, <3>6
      <4> QED
        BY <1>5, <3>3, <3>4, <3>6, <4>1 DEF Idle
    <3> QED
      BY <3>5, <3>6
  <2> HIDE DEF P, N, cut, Cut, Out
  <2>7. cut \in Seq(Docs) /\ ToSet(cut) \subseteq M.met
    BY <1>7, <2>5 DEF ToSet
  <2>8. Shape(P)
    BY <1>2, <1>4, <1>5, <1>7, <2>6, <2>7 DEF Shape, Places
  <2>9. Placed(KindOf[r], P) /\ Watched(P, stored, Listings, Doubles)
    BY <1>1, <1>2, <1>3, <2>6 DEF Placed, Watched
  <2>10. Gathered(KindOf[r], P, stored)
    BY <1>2, <2>6 DEF Gathered, Rows
  <2>11. Answered(KindOf[r], P)
    <3>1. P.pc \in {"read", "hop"} /\ (P.pc = "read" => KindOf[r].gfm)
      BY <2>6
    <3> QED
      BY <1>2, <1>8, <2>5, <2>6, <2>7, <3>1 DEF Answered, Rows
  <2>12. Sound(KindOf[r], P, stored, Listings, Doubles)
    BY <1>2, <2>6, <2>8, <2>9, <2>10, <2>11 DEF Sound
  <2> QED
    BY <2>2, <2>5, <2>12, GoKeeps
<1> QED
  BY <1>9, <1>10

\* The graph is one version of the store, so its edges are anchored.
LEMMA GraphIs ==
    ASSUME StoreFits
    PROVE  /\ DOMAIN tenants = {Tenant} /\ graph.next_snap \in Nat
           /\ graph \in Mem!TenantData(graph.next_snap) /\ stored \subseteq Entities
           /\ \A e \in Entities : \A i \in DOMAIN graph.out_edges[e] :
                 e \in stored /\ graph.out_edges[e][i].dst \in stored
<1>1. /\ DOMAIN tenants = {Tenant} /\ graph.next_snap \in Nat
      /\ graph \in Mem!TenantData(graph.next_snap)
  BY DEF StoreFits, Mem!TypeOK, graph
<1>2. graph.entities \in Mem!MapsOf(Entities, SUBSET Docs)
  BY <1>1 DEF Mem!TenantData
<1>3. stored \subseteq Entities
  BY <1>2 DEF Mem!MapsOf, stored
<1>4. Mem!EdgesAnchored(Mem!PayloadOf(graph))
  BY DEF StoreFits, Mem!VersionsGood, Mem!Versions, Mem!Good, graph
<1> QED
  BY <1>1, <1>3, <1>4 DEF Mem!EdgesAnchored, Mem!PayloadOf, stored

LEMMA HopKeeps ==
    ASSUME IInv, NEW r \in Readers, hop(r)
    PROVE  IInv'
<1> DEFINE R == reading[r]
           seeds == Seeds(R.out)
           N == Returned(R, [R.out EXCEPT !.subgraph = k_hop(seeds)])
<1>1. R.pc = "hop" /\ Active(R)
  BY DEF hop, At, Active
<1>2. Shape(R) /\ Placed(KindOf[r], R) /\ Watched(R, stored, Listings, Doubles)
      /\ Gathered(KindOf[r], R, stored) /\ Answered(KindOf[r], R)
      /\ Sound(KindOf[r], R, stored, Listings, Doubles)
  BY <1>1, ReaderIs
<1>3. Go(r, N) /\ CacheFits'
  BY CacheStays DEF hop
<1>4. /\ DOMAIN N = DOMAIN R /\ N.pc = "read"
      /\ DOMAIN N.out = DOMAIN R.out /\ N.out.docs = R.out.docs /\ N.out.entities = R.out.entities
      /\ N.out.subgraph = k_hop(seeds)
      /\ N.left = R.left /\ N.met = R.met
      /\ N.queue = R.queue /\ N.report = R.report /\ N.plan = R.plan
      /\ N.hits = R.hits /\ N.candidates = R.candidates /\ N.edges = R.edges /\ N.restored = R.restored
      /\ N.alive = R.alive /\ N.listed = R.listed /\ N.twice = R.twice
      /\ N.asked = R.asked /\ N.known = R.known /\ N.result = R.result /\ N.unembedded = R.unembedded
  BY <1>2 DEF Shape, Idle, Returned
<1>5. Seeds(N.out) = seeds
  BY <1>4 DEF Seeds
<1>6. seeds \subseteq ToSet(R.out.entities)
  <2> DEFINE m == Smaller(MaxSeeds, Len(R.out.entities))
             s == R.out.entities
  <2>1. s \in Seq(Entities) /\ Len(s) \in Nat /\ DOMAIN s = 1..Len(s)
    BY <1>2 DEF Shape
  <2>2. m \in Nat /\ m <= Len(s)
    BY <2>1, ReaderAssumption DEF Smaller
  <2> HIDE DEF m
  <2>3. Len(SubSeq(s, 1, m)) = m /\ DOMAIN SubSeq(s, 1, m) = 1..m
        /\ \A i \in 1..m : SubSeq(s, 1, m)[i] = s[i]
    BY <2>1, <2>2, SubSeqProperties
  <2>4. ToSet(SubSeq(s, 1, m)) \subseteq ToSet(s)
    BY <2>1, <2>2, <2>3 DEF ToSet
  <2> QED
    BY <2>4 DEF Seeds, m
<1>7. ~R.restored => seeds \subseteq stored
  BY <1>2, <1>6 DEF Answered, Gathered
<1> HIDE DEF N, seeds
<1>8. ~R.restored =>
          /\ seeds \subseteq k_hop(seeds).entities
          /\ \A edge \in k_hop(seeds).edges : {edge[1], edge[2]} \subseteq k_hop(seeds).entities
  <2> SUFFICES ASSUME ~R.restored
               PROVE  /\ seeds \subseteq k_hop(seeds).entities
                      /\ \A edge \in k_hop(seeds).edges : {edge[1], edge[2]} \subseteq k_hop(seeds).entities
    OBVIOUS
  <2> DEFINE edges == UNION {{<<e, graph.out_edges[e][i].dst>> : i \in DOMAIN graph.out_edges[e]} : e \in seeds}
             ends == (seeds \cup {edge[2] : edge \in edges}) \cap stored
  <2>1. k_hop(seeds).entities = ends /\ k_hop(seeds).edges = edges
    BY DEF k_hop
  <2>2. seeds \subseteq stored /\ stored \subseteq Entities
    BY <1>7, GraphIs DEF IInv
  <2>3. ASSUME NEW edge \in edges PROVE edge[1] \in seeds /\ edge[2] \in stored
    <3>1. PICK e \in seeds : \E i \in DOMAIN graph.out_edges[e] : edge = <<e, graph.out_edges[e][i].dst>>
      OBVIOUS
    <3> QED
      BY <2>2, <3>1, GraphIs DEF IInv
  <2>4. seeds \subseteq ends /\ \A edge \in edges : {edge[1], edge[2]} \subseteq ends
    <3> HIDE DEF edges
    <3> QED
      BY <2>2, <2>3
  <2> QED
    BY <2>1, <2>4
<1>9. Shape(N)
  BY <1>2, <1>4 DEF Shape, Places
<1>10. Placed(KindOf[r], N) /\ Watched(N, stored, Listings, Doubles)
  BY <1>1, <1>2, <1>4 DEF Placed, Watched
<1>11. Gathered(KindOf[r], N, stored)
  BY <1>2, <1>4 DEF Gathered, Rows
<1>12. Answered(KindOf[r], N)
  BY <1>2, <1>4, <1>5, <1>8 DEF Answered, Rows
<1>13. Sound(KindOf[r], N, stored, Listings, Doubles)
  BY <1>2, <1>4, <1>9, <1>10, <1>11, <1>12 DEF Sound
<1> QED
  BY <1>3, <1>13, GoKeeps

LEMMA MeasureKeeps ==
    ASSUME IInv, NEW r \in Readers, measure(r)
    PROVE  IInv'
<1> DEFINE R == reading[r]
           M == Measured(Sample(r), R.out.docs)
           N == [R EXCEPT !.report = Append(@, Measured(Sample(r), reading[r].out.docs)), !.queue = Tail(@)]
<1>1. R.pc = "read" /\ Active(R)
  BY DEF measure, At, Active
<1>2. Shape(R) /\ Placed(KindOf[r], R) /\ Answered(KindOf[r], R)
      /\ Sound(KindOf[r], R, stored, Listings, Doubles) /\ Sample(r) \in Samples
  BY <1>1, ReaderIs
<1>3. M \in Reports
  BY <1>2, MeasuredHonestly DEF Shape, Answered
<1>4. R.queue \in Seq(Samples) /\ R.queue # <<>> /\ R.report \in Seq(Reports)
  BY <1>2 DEF Shape, Placed
<1>5. Tail(R.queue) \in Seq(Samples)
  BY <1>4
<1> HIDE DEF M
<1>6. Append(R.report, M) \in Seq(Reports)
  BY <1>3, <1>4
<1>7. /\ DOMAIN N = DOMAIN R /\ N.pc = R.pc /\ N.report = Append(R.report, M) /\ N.queue = Tail(R.queue)
      /\ N.hits = R.hits /\ N.candidates = R.candidates /\ N.left = R.left /\ N.met = R.met /\ N.out = R.out
      /\ N.restored = R.restored /\ N.result = R.result /\ N.unembedded = R.unembedded
  BY <1>2 DEF Shape, Idle, M
<1>8. CacheFits'
  BY CacheStays DEF measure
<1>9. CASE N.queue = <<>>
  <2> DEFINE P == [Idle EXCEPT !.pc = "done", !.result = "ok", !.report = N.report]
  <2>1. Go(r, P)
    BY <1>9 DEF measure
  <2>2. DOMAIN P = DOMAIN Idle /\ P.pc = "done" /\ P.report = N.report /\ P.result = "ok"
        /\ P.queue = Idle.queue /\ P.hits = Idle.hits /\ P.candidates = Idle.candidates
        /\ P.left = Idle.left /\ P.met = Idle.met /\ P.out = Idle.out /\ P.restored = Idle.restored
        /\ P.asked = Idle.asked
    BY DEF Idle
  <2> HIDE DEF P, N
  <2>3. Shape(P)
    BY <1>6, <1>7, <2>2, IdleShape DEF Shape, Places
  <2>4. Sound(KindOf[r], P, stored, Listings, Doubles)
    BY <2>2, <2>3, IdleShape DEF Sound, Active
  <2> QED
    BY <1>8, <2>1, <2>4, GoKeeps
<1>10. CASE N.queue # <<>>
  <2>1. PICK next \in Begun(r, N, Head(N.queue).q) : Go(r, next)
    BY <1>10 DEF measure
  <2> HIDE DEF N
  <2>2. Shape(N)
    BY <1>2, <1>5, <1>6, <1>7 DEF Shape
  <2>3. Head(N.queue).q \in Questions
    <3>1. \A s \in Seq(Samples) : s # <<>> => Head(s) \in Samples
      BY HeadTailProperties
    <3> QED
      BY <1>5, <1>7, <1>10, <3>1 DEF Samples
  <2>4. N.result = "err" => N.unembedded
    BY <1>2, <1>7 DEF Sound
  <2>5. Sound(KindOf[r], next, stored, Listings, Doubles)
    BY <1>10, <2>2, <2>3, <2>4, BeginsSound
  <2> QED
    BY <1>8, <2>1, <2>5, GoKeeps
<1> QED
  BY <1>9, <1>10

-----------------------------------------------------------------------------
(***************************************************************************)
(* Steps of everyone else.                                                 *)
(***************************************************************************)

\* What a reader has seen after the step of another.
Noted(R, S, L, D, restores) ==
    IF R.pc \in {"idle", "done"} THEN R
    ELSE [R EXCEPT !.alive = @ \cup S, !.listed = @ \cup L,
                   !.restored = @ \/ restores, !.twice = @ \cup D]

LEMMA StillSound ==
    ASSUME NEW K, NEW R, NEW S, NEW L, NEW D, NEW S2, NEW L2, NEW D2, NEW restores \in BOOLEAN,
           Sound(K, R, S, L, D), restores \/ S \subseteq S2
    PROVE  Sound(K, Noted(R, S2, L2, D2, restores), S2, L2, D2)
<1> DEFINE N == Noted(R, S2, L2, D2, restores)
<1>1. Shape(R)
  BY DEF Sound
<1>2. CASE ~Active(R)
  BY <1>2 DEF Active, Sound, Noted
<1>3. CASE Active(R)
  <2>1. /\ DOMAIN N = DOMAIN R
        /\ N.alive = R.alive \cup S2 /\ N.listed = R.listed \cup L2
        /\ N.restored = (R.restored \/ restores) /\ N.twice = R.twice \cup D2
        /\ N.pc = R.pc /\ N.queue = R.queue /\ N.report = R.report /\ N.plan = R.plan
        /\ N.hits = R.hits /\ N.candidates = R.candidates /\ N.edges = R.edges
        /\ N.left = R.left /\ N.met = R.met /\ N.out = R.out
        /\ N.asked = R.asked /\ N.known = R.known /\ N.result = R.result /\ N.unembedded = R.unembedded
    BY <1>1, <1>3 DEF Active, Shape, Idle, Noted
  <2> HIDE DEF N
  <2>2. N.restored \in BOOLEAN
    BY <2>1
  <2>3. Shape(N)
    BY <1>1, <2>1, <2>2 DEF Shape
  <2>4. Placed(K, R) /\ Gathered(K, R, S) /\ Answered(K, R)
    BY <1>3 DEF Sound
  <2>5. Placed(K, N) /\ Watched(N, S2, L2, D2)
    <3>1. Placed(K, N)
      BY <2>1, <2>4 DEF Placed, EmptyHanded
    <3>2. Watched(N, S2, L2, D2)
      BY <2>1 DEF Watched
    <3> QED
      BY <3>1, <3>2
  <2>6. ~N.restored => ~R.restored /\ S \subseteq S2
    BY <2>1
  <2>7. Rows(N) = Rows(R) /\ R.alive \subseteq N.alive /\ R.listed \subseteq N.listed /\ R.twice \subseteq N.twice
    BY <2>1 DEF Rows
  <2>8. Gathered(K, N, S2)
    BY <2>1, <2>4, <2>6, <2>7 DEF Gathered
  <2>9. Answered(K, N)
    <3>1. \A d \in R.met : \E e \in ToSet(R.out.entities) : <<e, d>> \in N.listed
      BY <2>4, <2>7 DEF Answered
    <3> QED
      BY <2>1, <2>4, <2>6, <2>7, <3>1 DEF Answered
  <2> QED
    BY <1>3, <2>1, <2>3, <2>5, <2>8, <2>9 DEF Sound, N
<1> QED
  BY <1>2, <1>3

LEMMA WitnessedFits ==
    ASSUME IInv, NEW restores \in BOOLEAN, Witnessed(restores), restores \/ stored \subseteq stored'
    PROVE  ReadersFit'
<1>1. DOMAIN reading' = Readers
  BY DEF Witnessed
<1>2. ASSUME NEW r \in Readers
      PROVE  Sound(KindOf[r], reading'[r], stored', Listings', Doubles')
  <2> DEFINE R == reading[r]
  <2>1. Sound(KindOf[r], R, stored, Listings, Doubles)
    BY DEF IInv, ReadersFit
  <2>2. reading'[r] = Noted(R, stored', Listings', Doubles', restores)
    BY DEF Witnessed, Doubles, Noted
  <2> QED
    BY <2>1, <2>2, StillSound
<1> QED
  BY <1>1, <1>2 DEF ReadersFit

LEMMA Bounds == Mem!BoundsAssumption
BY ReaderAssumption DEF Mem!BoundsAssumption

\* A call of the store by a reader's rival is one that MemGraphStore makes.
LEMMA CallsKeepStore == ASSUME StoreFits, Mem!Next PROVE StoreFits'
BY Bounds, Mem!NextTypeOK, Mem!NextGood DEF StoreFits

\* A step of the store that lets the entities stay, or is a restore.
LEMMA WriteKeeps ==
    ASSUME IInv, NEW restores \in BOOLEAN, Mem!Next, UNCHANGED <<id_map, inner>>, Write(restores),
           restores \/ stored \subseteq stored'
    PROVE  IInv'
<1>1. StoreFits'
  BY CallsKeepStore DEF IInv
<1>2. IndexTyped' /\ CacheFits'
  BY DEF IInv, Write, IndexTyped, CacheFits
<1>3. ReadersFit'
  BY WitnessedFits DEF Write
<1> QED
  BY <1>1, <1>2, <1>3 DEF IInv

LEMMA UpsertKeeps ==
    ASSUME IInv, NEW e \in Entities, NEW sources \in SUBSET Docs, upsert(e, sources)
    PROVE  IInv'
<1>1. Mem!upsert_entity(Tenant, e, sources)
  BY DEF upsert, Store!upsert_entity, Mem!upsert_entity, Store!Listed, Mem!Listed, Store!Put, Mem!Put
<1>2. Mem!Next
  BY <1>1 DEF Mem!Next
<1>3. stored \subseteq stored'
  <2> DEFINE data == tenants[Tenant]
             new == [data EXCEPT !.doc_index[e] = Mem!Listed(@, sources), !.entities = Mem!Put(@, e, sources)]
  <2>1. DOMAIN tenants = {Tenant} /\ data \in Mem!TenantData(data.next_snap)
    BY GraphIs DEF IInv, graph
  <2>2. tenants' = [tenants EXCEPT ![Tenant] = new]
    BY <1>1 DEF Mem!upsert_entity
  <2>3. new.entities = Mem!Put(data.entities, e, sources)
    BY <2>1 DEF Mem!TenantData
  <2>4. tenants'[Tenant].entities = Mem!Put(data.entities, e, sources)
    BY <2>1, <2>2, <2>3
  <2> QED
    BY <2>4 DEF stored, graph, Mem!Put
<1> QED
  BY <1>2, <1>3, WriteKeeps DEF upsert

LEMMA LinkKeeps ==
    ASSUME IInv, NEW e \in Entities, NEW dst \in Entities, link(e, dst)
    PROVE  IInv'
<1> DEFINE edge == [dst |-> dst, provenance |-> CHOOSE d \in Docs : TRUE]
<1>1. edge \in Mem!Edge
  <2>1. (CHOOSE d \in Docs : TRUE) \in Docs
    BY ReaderAssumption
  <2> QED
    BY <2>1 DEF Mem!Edge
<1>2. Mem!upsert_edge(Tenant, e, edge)
  BY DEF link, Store!upsert_edge, Mem!upsert_edge
<1> HIDE DEF edge
<1>3. Mem!Next
  BY <1>1, <1>2 DEF Mem!Next
<1>4. stored \subseteq stored'
  <2> DEFINE data == tenants[Tenant]
             new == [data EXCEPT !.out_edges[e] = Append(@, edge)]
  <2>1. DOMAIN tenants = {Tenant} /\ data \in Mem!TenantData(data.next_snap)
    BY GraphIs DEF IInv, graph
  <2>2. tenants' = [tenants EXCEPT ![Tenant] = new]
    BY <1>2 DEF Mem!upsert_edge
  <2>3. new.entities = data.entities
    BY <2>1 DEF Mem!TenantData
  <2>4. tenants'[Tenant].entities = data.entities
    BY <2>1, <2>2, <2>3
  <2> QED
    BY <2>4 DEF stored, graph
<1> QED
  BY <1>3, <1>4, WriteKeeps DEF link

LEMMA RestoreKeeps ==
    ASSUME IInv, NEW snap \in DOMAIN graph.snapshots, restore(snap)
    PROVE  IInv'
<1>1. Mem!restore(Tenant, snap)
  BY DEF restore, Store!restore, Mem!restore
<1>2. Mem!Next
  BY <1>1 DEF Mem!Next, graph
<1> QED
  BY <1>2, WriteKeeps DEF restore

\* The index changes, the store does not.
LEMMA IndexKeeps ==
    ASSUME IInv, Witnessed(FALSE), UNCHANGED <<tenants, cache, planned>>, IndexTyped'
    PROVE  IInv'
<1>1. StoreFits' /\ CacheFits'
  BY DEF IInv, StoreFits, Mem!TypeOK, Mem!VersionsGood, Mem!Versions, Mem!PayloadOf, CacheFits
<1>2. stored' = stored
  BY DEF stored, graph
<1>3. ReadersFit'
  BY <1>2, WitnessedFits
<1> QED
  BY <1>1, <1>3 DEF IInv

LEMMA ReserveKeeps == ASSUME IInv, NEW e \in Entities, reserve(e) PROVE IInv'
<1>1. IndexTyped'
  BY DEF IInv, IndexTyped, reserve
<1> QED
  BY <1>1, IndexKeeps DEF reserve, Write

LEMMA PublishKeeps == ASSUME IInv, NEW e \in Entities, publish(e) PROVE IInv'
<1>1. IndexTyped'
  BY DEF IInv, IndexTyped, publish
<1> QED
  BY <1>1, IndexKeeps DEF publish

-----------------------------------------------------------------------------
(***************************************************************************)
(* The invariant, and what it says of a reader.                            *)
(***************************************************************************)
LEMMA InitIInv == Init => IInv
<1> SUFFICES ASSUME Init PROVE IInv
  OBVIOUS
<1>1. graph = InitTenant /\ tenants = [t \in {Tenant} |-> InitTenant]
  BY DEF Init, graph
<1>2. Mem!TypeOK
  <2>1. Store!TenantData(InitTenant.next_snap) = Mem!TenantData(InitTenant.next_snap)
    BY DEF Store!TenantData, Mem!TenantData, Store!MapsOf, Mem!MapsOf, Store!Edge, Mem!Edge, Store!Payload, Mem!Payload
  <2> QED
    BY <1>1, <2>1, ReaderAssumption DEF Mem!TypeOK
<1>3. Mem!VersionsGood
  <2> SUFFICES ASSUME NEW v \in Mem!Versions(Tenant) PROVE Mem!Good(v)
    BY DEF Mem!VersionsGood
  <2>1. CASE v = Mem!PayloadOf(InitTenant)
    <3>1. Store!EdgesAnchored(InitTenant) /\ Store!IndexCovers(InitTenant)
      BY ReaderAssumption
    <3> QED
      BY <2>1, <3>1
         DEF Mem!Good, Mem!PayloadOf, Store!EdgesAnchored, Mem!EdgesAnchored, Store!IndexCovers, Mem!IndexCovers
  <2>2. CASE v \in {InitTenant.snapshots[i] : i \in DOMAIN InitTenant.snapshots}
    <3>1. Store!EdgesAnchored(v) /\ Store!IndexCovers(v)
      BY <2>2, ReaderAssumption
    <3> QED
      BY <3>1 DEF Mem!Good, Store!EdgesAnchored, Mem!EdgesAnchored, Store!IndexCovers, Mem!IndexCovers
  <2> QED
    BY <1>1, <2>1, <2>2 DEF Mem!Versions
<1>4. IndexTyped
  BY ReaderAssumption DEF Init, IndexTyped
<1>5. CacheFits
  BY DEF Init, CacheFits, EmptyMap
<1>6. ReadersFit
  <2>1. DOMAIN reading = Readers /\ \A r \in Readers : reading[r] = Idle
    BY DEF Init
  <2> QED
    BY <2>1, IdleShape DEF ReadersFit, Sound
<1> QED
  BY <1>2, <1>3, <1>4, <1>5, <1>6 DEF IInv, StoreFits

LEMMA NextIInv == IInv /\ [Next]_vars => IInv'
<1> SUFFICES ASSUME IInv, [Next]_vars PROVE IInv'
  OBVIOUS
<1>1. ASSUME NEW r \in Readers, Step(r) PROVE IInv'
  BY <1>1, PlanAnsweredKeeps, PlanFallbackKeeps, EmbedKeeps, EmbedFailsKeeps, AllEntitiesKeeps, SearchKeeps,
     GetEntityKeeps, NeighborsKeeps, ScoreKeeps, DocsOfEntityKeeps, HopKeeps, MeasureKeeps DEF Step
<1>2. ASSUME NEW r \in Readers, NEW samples \in Runs[r], run(r, samples) PROVE IInv'
  BY <1>2, RunKeeps
<1>3. ASSUME Others PROVE IInv'
  BY <1>3, UpsertKeeps, LinkKeeps, ReserveKeeps, PublishKeeps, RestoreKeeps DEF Others
<1>4. CASE UNCHANGED vars
  BY <1>4 DEF vars, IInv, StoreFits, Mem!TypeOK, Mem!VersionsGood, Mem!Versions, Mem!PayloadOf, IndexTyped, CacheFits,
              ReadersFit, stored, graph, Listings, Doubles
<1> QED
  BY <1>1, <1>2, <1>3, <1>4 DEF Next

LEMMA AlwaysIInv == Spec => []IInv
BY InitIInv, NextIInv, PTL DEF Spec

\* For any number of readers, entities and documents, any questions, plans and
\* runs, and whatever others write, restore or index meanwhile: what a read
\* returns is sound, and it fails only with the embedder.
THEOREM ReadsAlwaysSound == Spec => []ReadSound
<1>1. IInv => ReadSound
  <2> SUFFICES ASSUME IInv, NEW r \in Readers
               PROVE  /\ At(r, "read") => FromTheStore(r) /\ FitsTogether(r) /\ CountedOnce(r) /\ ConstraintsHold(r)
                      /\ reading[r].result = "err" => reading[r].unembedded
    BY DEF ReadSound
  <2> DEFINE R == reading[r]
  <2>1. R.result = "err" => R.unembedded
    BY ReaderIs DEF Sound
  <2>2. ASSUME R.pc = "read"
        PROVE  FromTheStore(r) /\ FitsTogether(r) /\ CountedOnce(r) /\ ConstraintsHold(r)
    <3>1. Answered(KindOf[r], R) /\ Gathered(KindOf[r], R, stored)
      BY <2>2, ReaderIs DEF Active
    <3>2. FromTheStore(r)
      BY <3>1 DEF FromTheStore, Answered, Gathered
    <3>3. FitsTogether(r)
      BY <2>2, <3>1 DEF FitsTogether, Answered
    <3>4. CountedOnce(r)
      BY <3>1 DEF CountedOnce, Answered
    <3>5. ConstraintsHold(r)
      BY <3>1 DEF ConstraintsHold, Answered, ToSet
    <3> QED
      BY <3>2, <3>3, <3>4, <3>5
  <2> QED
    BY <2>1, <2>2 DEF At
<1> QED
  BY <1>1, AlwaysIInv, PTL

\* No reader asks the LLM for a plan that was there when its read began,
\* whatever other readers put into the cache, and in which order.
THEOREM PlansAlwaysReused == Spec => []PlansReused
<1>1. IInv => PlansReused
  BY ReaderIs DEF PlansReused, Sound
<1> QED
  BY <1>1, AlwaysIInv, PTL

\* Every report of every run of an evaluation is honest, for any samples: the
\* lists it measures are those that reads return, none with a document twice.
THEOREM MetricsAlwaysHonest == Spec => []MetricsHonest
<1>1. IInv => MetricsHonest
  <2> SUFFICES ASSUME IInv, NEW r \in Readers, NEW i \in DOMAIN reading[r].report
               PROVE  Honest(reading[r].report[i])
    BY DEF MetricsHonest
  <2>1. reading[r].report \in Seq(Reports)
    BY ReaderIs DEF Shape
  <2>2. reading[r].report[i] \in Reports
    BY <2>1, ElementOfSeq
  <2> QED
    BY <2>2 DEF Reports
<1> QED
  BY <1>1, AlwaysIInv, PTL

\* For any graph a GfmReader gathers while others write, and any stack, graph,
\* hidden state and number of layers: the buffers, rows added up by flat index
\* in the order of the edges, hold what the formula says of the graph.
THEOREM ChannelsAlwaysFollowFormula == Spec => []ChannelsFollowFormula
<1>1. IInv => ChannelsFollowFormula
  <2> SUFFICES ASSUME IInv PROVE ChannelsFollowFormula
    OBVIOUS
  <2>1. ASSUME NEW r \in Readers, At(r, "score")
        PROVE  Forwarded(r).dst = Formula(View(r), HiddenDim, 1)[1]
    <3>1. Gathered(KindOf[r], reading[r], stored)
      BY <2>1, ReaderIs DEF At, Active
    <3> QED
      BY <3>1, ViewTaken DEF Gathered
  <2>2. ASSUME NEW x \in Inputs PROVE FollowsFormula(x)
    <3>1. CASE forward(x).result = "ok"
      BY <3>1, StackTakesOnly, StackFollows
    <3>2. CASE forward(x).result # "ok"
      BY <3>2 DEF FollowsFormula
    <3> QED
      BY <3>1, <3>2
  <2> QED
    BY <2>1, <2>2 DEF ChannelsFollowFormula
<1> QED
  BY <1>1, AlwaysIInv, PTL

\* Of any input, the stack takes it if and only if its parts fit together.
THEOREM OnlyWhatFitsIsTaken == Spec => []TakesWhatFits
<1>1. TakesWhatFits
  BY StackFollows, StackTakesOnly DEF TakesWhatFits
<1> QED
  BY <1>1, PTL
=============================================================================
