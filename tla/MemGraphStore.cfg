SPECIFICATION Spec
CONSTANTS
    Tenants = {t1}
    Entities = {a, b}
    Docs = {d1}
    MaxListed = 2
    MaxEdges = 1
    MaxSnaps = 2
INVARIANTS
    TypeOK
    NoDanglingEdge
    DocIndexCoversSources
PROPERTIES
    SnapshotsKept
    ImplementsGraphStore
CHECK_DEADLOCK FALSE
