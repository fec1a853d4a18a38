---------------------------- MODULE WriterPolicy ----------------------------
(***************************************************************************)
(* What LlmWriterPolicy::step (sage-writer/src/llm_policy.rs) makes of the *)
(* triples in an answer: at most max_triples_per_doc of them, each through *)
(* TripleSanitizer (sanitizer.rs).  Strings are told apart by the sets the *)
(* sanitizer tests them against.                                           *)
(***************************************************************************)
EXTENDS Naturals, Sequences, FiniteSets

CONSTANTS
    Names, Relations,    \* trimmed strings an answer may hold
    EmptyNames, LongNames, ValidNames,   \* empty, over max_name_len, matching entity_name_re
    EmptyRelations,
    Vocabulary,          \* relation_vocab
    Blocked,             \* strings that contain an entry of the blocklist
    Coerce,              \* coerce_unknown_relation
    MaxTriples           \* max_triples_per_doc

related_to == "related_to"

RawTriples == [src: Names, rel: Relations, dst: Names]

ASSUME PolicyAssumption ==
    /\ EmptyNames \cup LongNames \cup ValidNames \subseteq Names
    /\ EmptyRelations \subseteq Relations
    /\ related_to \in Vocabulary \cap Relations
    /\ Blocked \subseteq Names \cup Relations
    /\ Coerce \in BOOLEAN
    /\ MaxTriples \in Nat

\* check_name returns Ok.
NameOk(name) == name \in ValidNames \ (EmptyNames \cup LongNames)

\* Seeded fault: an empty relation is coerced like any other.
Accepted_empty_relation(raw) ==
    /\ NameOk(raw.src) /\ NameOk(raw.dst)
    /\ {raw.src, raw.dst, raw.rel} \cap Blocked = {}
    /\ raw.rel \in Vocabulary \/ Coerce

\* sanitize returns Ok, possibly with another relation.
Accepted(raw) ==
    /\ NameOk(raw.src) /\ NameOk(raw.dst)
    /\ raw.rel \notin EmptyRelations
    /\ {raw.src, raw.dst, raw.rel} \cap Blocked = {}
    /\ raw.rel \in Vocabulary \/ Coerce

Sanitized(raw) == IF raw.rel \in Vocabulary THEN raw ELSE [raw EXCEPT !.rel = related_to]

\* The elements of a sequence at these places, in their order.
AtPlaces(s, places) ==
    [n \in 1..Cardinality(places) |->
        s[CHOOSE i \in places : Cardinality({j \in places : j <= i}) = n]]

\* The cap counts triples before they are looked at, rejected ones too.
Extracted(triples) ==
    LET accepted == {i \in DOMAIN triples : i <= MaxTriples /\ Accepted(triples[i])}
        clean == AtPlaces(triples, accepted) IN
    [i \in DOMAIN clean |-> Sanitized(clean[i])]
=============================================================================
