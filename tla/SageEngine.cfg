SPECIFICATION FairSpec
CONSTANTS
    a = a
    b = b
    n1 = n1
    n2 = n2
    N1 = N1
    d1 = d1
    d2 = d2
    Tenant = t
    Entities = {a, b}
    Docs = {d1, d2}
    Names = {n1, n2, N1}
    IdOf <- MC_IdOf
    Callers = {c1, c2}
    Actions <- MC_Actions
    Batches <- MC_Batches
    MaxIngests = 2
    MaxFailures = 1
    MaxRestores = 1
    MaxListed = 9
    MaxEdges = 9
    MaxSnaps = 1
INVARIANTS
    TypeOK
    ProvenanceReachable
    StoredIsIndexed
    HitsAreMapped
    ReindexedOnlyByRaces
    SkippedOnlyByRestore
PROPERTIES
    IngestReturns
CHECK_DEADLOCK FALSE
