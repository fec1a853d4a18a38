------------------------------ MODULE Metrics -------------------------------
(***************************************************************************)
(* What an evaluation makes of a list of documents (sage-eval/src/         *)
(* metrics.rs) and the data terms of the writer's reward (sage-core/src/   *)
(* reward.rs).  A value is a fraction <<numerator, denominator>>.          *)
(***************************************************************************)
EXTENDS Naturals, Sequences, FiniteSets, SequencesExt

None == <<0, 1>>

Smaller(m, n) == IF m < n THEN m ELSE n

Found(retrieved, truth, k) ==
    Cardinality(ToSet(SubSeq(retrieved, 1, Smaller(k, Len(retrieved)))) \cap ToSet(truth))

\* Seeded fault: the list is not cut at k.
recall_at_k_uncut(retrieved, truth, k) ==
    IF truth = <<>> THEN None
    ELSE <<Cardinality(ToSet(retrieved) \cap ToSet(truth)), Len(truth)>>

recall_at_k(retrieved, truth, k) ==
    IF truth = <<>> THEN None ELSE <<Found(retrieved, truth, k), Len(truth)>>

\* Of those that were retrieved: a short list is not held against the reader.
precision_at_k(retrieved, truth, k) ==
    IF k = 0 THEN None
    ELSE <<Found(retrieved, truth, k), Max({Smaller(Len(retrieved), k), 1})>>

f1_at_k(retrieved, truth, k) ==
    LET p == precision_at_k(retrieved, truth, k)
        r == recall_at_k(retrieved, truth, k) IN
    IF p[1] + r[1] = 0 THEN None ELSE <<2 * p[1] * r[1], p[1] * r[2] + r[1] * p[2]>>

mrr(retrieved, truth) ==
    LET ranks == {i \in DOMAIN retrieved : retrieved[i] \in ToSet(truth)} IN
    IF ranks = {} THEN None ELSE <<1, Min(ranks)>>

-----------------------------------------------------------------------------
\* Counted in the list as it is, repetitions included.
Hits(retrieved, truth) == Cardinality({i \in DOMAIN retrieved : retrieved[i] \in ToSet(truth)})

recovery(retrieved, truth) ==
    IF truth = <<>> THEN None ELSE <<Hits(retrieved, truth), Len(truth)>>

precision(retrieved, truth) ==
    IF retrieved = <<>> THEN None ELSE <<Hits(retrieved, truth), Len(retrieved)>>

repetition_penalty(triples) ==
    IF triples = <<>> THEN None ELSE <<Len(triples) - Cardinality(ToSet(triples)), Len(triples)>>

compute_reward(retrieved, truth, triples) ==
    [r_rec |-> recovery(retrieved, truth), r_pre |-> precision(retrieved, truth),
     rep_penalty |-> repetition_penalty(triples)]

-----------------------------------------------------------------------------
AtMost(x, y) == x[1] * y[2] <= y[1] * x[2]

One == <<1, 1>>
=============================================================================
