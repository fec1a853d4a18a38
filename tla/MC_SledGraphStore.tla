------------------------- MODULE MC_SledGraphStore -------------------------
EXTENDS SledGraphStore

CONSTANTS d1, d2

MC_Entities == {1, 2}
MC_NoneOpened == {}
MC_OneOpened == {1}
MC_OpenedSources == {d1}

\* Sources that come one by one, or not at all.
MC_Sources == {{}, {d1}, {d2}}
MC_OneSource == {{}, {d1}}

MC_Edge(src, dst) == [src |-> src, dst |-> dst, provenance |-> d1]

\* Two edges out of the same entity, and one the other way.
MC_Edges == {MC_Edge(1, 1), MC_Edge(1, 2), MC_Edge(2, 1)}

\* Two edges out of one entity that is always there.
MC_SameSource == {MC_Edge(1, 1), [MC_Edge(1, 1) EXCEPT !.provenance = d2]}
=============================================================================
