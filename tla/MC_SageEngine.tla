--------------------------- MODULE MC_SageEngine ---------------------------
EXTENDS SageEngine, TLC

CONSTANTS a, b, n1, n2, N1, d1, d2

\* N1 is another spelling of n1: both hash to entity a.
MC_IdOf == (n1 :> a) @@ (N1 :> a) @@ (n2 :> b)

\* Nothing extracted, a triple between two entities, and one that names the
\* same entity under both spellings.
MC_Actions == {<<>>, <<<<n1, n2>>>>, <<<<N1, n1>>>>}

MC_Batches == {<<d1>>, <<d2>>}

\* One call that ingests two documents in turn.
MC_TwoDocs == {<<d1, d2>>}
=============================================================================
