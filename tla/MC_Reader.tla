----------------------------- MODULE MC_Reader ------------------------------
(***************************************************************************)
(* The graph has been rolled back to a snapshot with one entity; a later   *)
(* one has two and an edge between them, and the index still has both.     *)
(* Readers of every kind: two share the plan cache, one over the index and *)
(* one without, one is a GfmReader, one has a planner of its own that      *)
(* states constraints.  The stack, which no reader uses yet, is given      *)
(* graphs of up to two nodes with any two edges, in or out of bounds, and  *)
(* three of three nodes; one or two layers, and a head of its own or one   *)
(* made for something else.                                                *)
(***************************************************************************)
EXTENDS MessagePassing, TLC

CONSTANTS a, b, d1, d2

MCTokensOf == [q \in Questions |-> <<"who", "lee">>]
MCNameOf == (a :> {"ada"}) @@ (b :> {"bob", "lee"})
MCAliasesOf == (a :> {{"lee"}}) @@ (b :> {})
MCEtypeOf == (a :> "Person") @@ (b :> "Org")
MCLikeness == [q \in Questions |-> (a :> 3) @@ (b :> 0)]

MCLlmPlans == {[expansions |-> <<{"bob", "lee"}, {}>>, aliases |-> {}, etype |-> "Org"]}

\* Suppresses a, and with it everything as long as b is not there.
MCOwnPlans == {[expansions |-> <<{"lee", "ada"}>>, aliases |-> {{"lee"}}, etype_hint |-> "Org",
                constraints |-> {[kind |-> "exclude", term |-> {"lee"}],
                                 [kind |-> "include", term |-> {"bob", "lee"}],
                                 [kind |-> "type", etype |-> "Org"]}]}

MCKindOf == [r \in Readers |->
    [gfm |-> r = "gfm", embeds |-> r # "scanning", indexed |-> r \in {"indexed", "own"},
     planner |-> CASE r \in {"indexed", "scanning"} -> "llm" [] r = "gfm" -> "heuristic" [] r = "own" -> "own"]]

Two == [q |-> "q", k |-> 2, truth |-> <<d2>>, triples |-> <<1, 2>>]

\* Its truth names a document twice, and it asks for no document.
Zero == [q |-> "q", k |-> 0, truth |-> <<d1, d1>>, triples |-> <<1, 1>>]

MCRuns == [r \in Readers |->
    CASE r = "indexed" -> {<<Two>>} [] r = "scanning" -> {<<Zero>>}
      [] r = "gfm" -> {<<Zero>>} [] r = "own" -> {<<Zero, Two>>}]

Before == [entities |-> a :> {d1},
           out_edges |-> [e \in Entities |-> <<>>],
           doc_index |-> [e \in Entities |-> [d \in Docs |-> IF e = a /\ d = d1 THEN 1 ELSE 0]]]

\* b came with d2, a was stored again with both, an edge links them.
After == [entities |-> (a :> {d1, d2}) @@ (b :> {d2}),
          out_edges |-> [e \in Entities |-> IF e = a THEN <<[dst |-> b, provenance |-> d2]>> ELSE <<>>],
          doc_index |-> [e \in Entities |-> [d \in Docs |-> IF e = a THEN IF d = d1 THEN 2 ELSE 1
                                                            ELSE IF d = d2 THEN 1 ELSE 0]]]

MCInitTenant == Before @@ [snapshots |-> (0 :> Before) @@ (1 :> After), next_snap |-> 2]

MCInitIndex == [e \in Entities |-> 1]

-----------------------------------------------------------------------------
Edges(n) == UNION {[1..m -> (0..n) \X (0..n)] : m \in 0..2}

Wide == {<<<<0, 1>>, <<1, 2>>>>, <<<<0, 2>>, <<1, 2>>, <<2, 0>>>>, <<<<1, 0>>, <<1, 0>>, <<1, 1>>>>}

Graphs == {[n_nodes |-> n, edges |-> edges] : n \in {0, 1}, edges \in Edges(1)}
          \cup {[n_nodes |-> 2, edges |-> edges] : edges \in Edges(2)}
          \cup {[n_nodes |-> 3, edges |-> edges] : edges \in Wide}

Heads == [dim : 0..2, num_layers : 0..2, k_bases : {0, 2}]

Shaped(g, d, layers, h, more_deg, more_len) ==
    g @@ [deg |-> g.n_nodes + more_deg, d |-> d, len |-> g.n_nodes * d + more_len,
          num_layers |-> layers, head |-> h]

MCInputs ==
    {Shaped(g, d, layers, h, 0, 0) : g \in Graphs, d \in 0..2, layers \in 1..2, h \in Heads}
    \cup {Shaped(g, d, 1, [dim |-> d, num_layers |-> 1, k_bases |-> 1], 1 - x, x) :
             g \in Graphs, d \in 1..2, x \in 0..1}

=============================================================================
