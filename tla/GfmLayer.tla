------------------------------ MODULE GfmLayer ------------------------------
(***************************************************************************)
(* A message-passing layer (sage-reader/src/gfm.rs) and the scatter kernel *)
(* under it (sage-core/src/ops.rs).                                        *)
(*                                                                         *)
(* Buffers are flat and row-major, as in the code, and every index is      *)
(* computed as the code computes it.  A number is the term it was made     *)
(* of: a sequence of what was added up, in that order, the empty sequence  *)
(* being zero.  What is not an addition or a product with one is opaque.   *)
(* A graph g has g.n_nodes nodes, edges <<from, to>>, and g.deg degrees.   *)
(***************************************************************************)
EXTENDS Naturals, Sequences, FiniteSets, SequencesExt

NoSum == <<>>

Input(v, j) == [op |-> "in", layer |-> 0, of |-> <<v, j>>, args |-> <<>>]
Term(op, l, of, args) == <<[op |-> op, layer |-> l, of |-> of, args |-> args]>>

\* Row v of a buffer with d columns; rows and columns count from zero.
Row(h, v, d) == [c \in 1..d |-> h[v * d + c]]

-----------------------------------------------------------------------------
(***************************************************************************)
(* The kernel: rows are added one by one up to the first bad index, and    *)
(* what was added before it stays.                                         *)
(***************************************************************************)
Failure(dst) == [ok |-> FALSE, dst |-> dst]

add_row(dst, cols, row, src) ==
    [p \in DOMAIN dst |-> IF (p - 1) \div cols = row THEN dst[p] \o src[((p - 1) % cols) + 1] ELSE dst[p]]

\* The buffer after each of the rows.
added_rows(dst, cols, indices, src) ==
    LET after[i \in 0..Len(indices)] ==
            IF i = 0 THEN dst ELSE add_row(after[i - 1], cols, indices[i], Row(src, i - 1, cols))
    IN after

scatter_add_rows(dst, cols, indices, src) ==
    IF cols = 0 THEN Failure(dst)
    ELSE IF Len(dst) % cols # 0 \/ Len(src) # Len(indices) * cols THEN Failure(dst)
    ELSE LET bad == {i \in DOMAIN indices : indices[i] >= Len(dst) \div cols}
             upto == IF bad = {} THEN Len(indices) ELSE Min(bad) - 1 IN
         [ok |-> bad = {}, dst |-> added_rows(dst, cols, indices, src)[upto]]

Zeros(n) == [p \in 1..n |-> NoSum]

-----------------------------------------------------------------------------
(***************************************************************************)
(* One layer.                                                              *)
(***************************************************************************)
\* Gate and transform: of a row, the ends of the edge and the graph.
message(l, u, v, j, row) == Term("message", l, <<u, v, j>>, row)

\* PReLU, the residual and LayerNorm mix a whole row.
normed(l, j, row, aggr) == Term("normed", l, <<j>>, row \o aggr)

messages(l, edges, d, h) ==
    [p \in 1..(Len(edges) * d) |->
        LET edge == edges[((p - 1) \div d) + 1] IN
        message(l, edge[1], edge[2], (p - 1) % d, Row(h, edge[1], d))]

\* Seeded fault: messages are added up where they come from.
dst_indices_reversed(edges) == [i \in DOMAIN edges |-> edges[i][1]]

dst_indices(edges) == [i \in DOMAIN edges |-> edges[i][2]]

InBounds(n, edges) == \A i \in DOMAIN edges : edges[i][1] < n /\ edges[i][2] < n

layer_forward(l, g, d, h) ==
    IF Len(h) # g.n_nodes * d \/ g.deg # g.n_nodes \/ ~InBounds(g.n_nodes, g.edges)
    THEN Failure(h)
    ELSE LET aggr == scatter_add_rows(Zeros(g.n_nodes * d), d, dst_indices(g.edges),
                                      messages(l, g.edges, d, h)) IN
         IF ~aggr.ok THEN Failure(h)
         ELSE [ok |-> TRUE,
               dst |-> [p \in 1..(g.n_nodes * d) |->
                           LET v == (p - 1) \div d IN
                           normed(l, (p - 1) % d, Row(h, v, d), Row(aggr.dst, v, d))]]

-----------------------------------------------------------------------------
(***************************************************************************)
(* What num_layers of them are documented to compute, on the graph instead *)
(* of the buffers: after each one, a node's row is LN(h + PReLU(sum of the *)
(* messages along the edges that end in it)).                              *)
(***************************************************************************)
\* rows[v] is the row of node v.
Arriving(l, edges, rows, v, j) ==
    LET sum[i \in 0..Len(edges)] ==
            IF i = 0 THEN NoSum
            ELSE IF edges[i][2] # v THEN sum[i - 1]
            ELSE sum[i - 1] \o message(l, edges[i][1], v, j, rows[edges[i][1]])
    IN sum[Len(edges)]

NextRows(l, g, d, rows) ==
    [v \in 0..(g.n_nodes - 1) |->
        [c \in 1..d |-> normed(l, c - 1, rows[v],
                               [k \in 1..d |-> Arriving(l, g.edges, rows, v, k - 1)])]]

FirstRows(g, d) == [v \in 0..(g.n_nodes - 1) |-> [c \in 1..d |-> <<Input(v, c - 1)>>]]

Flat(n, d, rows) == [p \in 1..(n * d) |-> rows[(p - 1) \div d][((p - 1) % d) + 1]]

Formula(g, d, num_layers) ==
    LET h[l \in 0..num_layers] == IF l = 0 THEN FirstRows(g, d) ELSE NextRows(l, g, d, h[l - 1])
    IN [l \in 0..num_layers |-> Flat(g.n_nodes, d, h[l])]
=============================================================================
