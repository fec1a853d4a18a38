----------------------------- MODULE QueryPlan ------------------------------
(***************************************************************************)
(* Plans for a question and what they make of an entity: HeuristicPlanner  *)
(* (sage-reader/src/planner.rs), LlmQueryPlanner::build_plan               *)
(* (llm_planner.rs) and the soft addressing (addressing.rs).  All text is  *)
(* in lower case; a name is the set of its tokens, a term of a plan too.   *)
(* Scores are in hundredths, which leaves the cosine and the Jaccard index *)
(* one digit.                                                              *)
(***************************************************************************)
EXTENDS Naturals, Sequences, FiniteSets, SequencesExt

CONSTANTS
    Entities,
    Questions,
    TokensOf,    \* the tokens of a question that have two letters or more
    Stopwords,
    NameOf, AliasesOf, EtypeOf,   \* of each entity
    Likeness,    \* Likeness[q][e]: their cosine, in tenths
    LlmPlans,    \* what the LLM may propose: records, see LlmPlanJson
    OwnPlans     \* what another QueryPlanner may return; only these have constraints

Terms == SUBSET UNION ({NameOf[e] : e \in Entities} \cup {ToSet(TokensOf[q]) : q \in Questions})

LlmPlanJson == [expansions : Seq(Terms), aliases : SUBSET Terms, etype : STRING]

ASSUME PlanAssumption ==
    /\ \A raw \in LlmPlans : raw.etype \in STRING
    /\ \A q \in Questions, e \in Entities : Likeness[q][e] \in 0..10

-----------------------------------------------------------------------------
Singletons(tokens) == [i \in DOMAIN tokens |-> {tokens[i]}]

\* HeuristicPlanner: the tokens that are no stop words, as names and as aliases.
plan_sync ==
    [q \in Questions |->
        LET content == SelectSeq(TokensOf[q], LAMBDA token : token \notin Stopwords) IN
        [expansions |-> Singletons(content), aliases |-> ToSet(Singletons(content)),
         constraints |-> {}, etype_hint |-> "none"]]

Merged(terms, term) == IF term \in ToSet(terms) THEN terms ELSE Append(terms, term)

\* What the LLM proposes, unless it is blank, and every token of the question.
build_plan ==
    [q \in Questions |-> [raw \in LlmPlans |->
        [expansions |-> FoldLeft(Merged, SelectSeq(raw.expansions, LAMBDA term : term # {}),
                                 Singletons(TokensOf[q])),
         aliases |-> raw.aliases \ {{}},
         constraints |-> {}, etype_hint |-> raw.etype]]]

Plans ==
    OwnPlans \cup {plan_sync[q] : q \in Questions}
             \cup {build_plan[q][raw] : q \in Questions, raw \in LlmPlans}

-----------------------------------------------------------------------------
names_contain(e, term) == term = NameOf[e] \/ term \in AliasesOf[e]

violates_hard_constraints(e, plan) ==
    \E c \in plan.constraints :
        \/ c.kind = "include" /\ ~names_contain(e, c.term)
        \/ c.kind = "exclude" /\ names_contain(e, c.term)
        \/ c.kind = "type" /\ EtypeOf[e] # c.etype

\* The whole name, or one token of it, or as much as the two have in common.
Exact(e, term) ==
    IF term = NameOf[e] THEN 10
    ELSE IF Cardinality(term) = 1 THEN IF term \subseteq NameOf[e] THEN 7 ELSE 0
    ELSE (10 * Cardinality(term \cap NameOf[e])) \div Cardinality(term \cup NameOf[e])

If(condition) == IF condition THEN 10 ELSE 0

\* The lambdas, in tenths; that of a constraint is 0, it only gates.
AddressingWeights == [exact |-> 15, alias |-> 8, cos |-> 12, type |-> 5, cons |-> 0, ner_el |-> 10]

\* Without an embedder there is no similarity to add.
score_entry(e, q, plan, embeds) ==
    LET exact == {Exact(e, plan.expansions[i]) : i \in DOMAIN plan.expansions} \cup {0}
        named == {i \in DOMAIN plan.expansions : plan.expansions[i] = NameOf[e]}
        w == AddressingWeights IN
    w.exact * Max(exact) + w.alias * If(plan.aliases \cap AliasesOf[e] # {}) 
        + (IF embeds THEN w.cos * Likeness[q][e] ELSE 0)
        + w.type * If(plan.etype_hint = EtypeOf[e]) + w.ner_el * 10 * Cardinality(named)

\* softmax_entry, up to a factor and a monotonic function: 0 for an entity
\* that violates a hard constraint, and for no other.
softmax_entry ==
    [q \in Questions |-> [embeds \in BOOLEAN |-> [plan \in Plans |-> [e \in Entities |->
        IF violates_hard_constraints(e, plan) THEN 0 ELSE 1 + score_entry(e, q, plan, embeds)]]]]
=============================================================================
