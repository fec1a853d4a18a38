SPECIFICATION Spec
CONSTANTS
    a = a
    b = b
    n1 = n1
    n2 = n2
    N1 = N1
    d1 = d1
    d2 = d2
    Tenant = t
    Entities = {a, b}
    Docs = {d1, d2}
    Names = {n1, n2, N1}
    IdOf <- MC_IdOf
    Callers = {c1}
    Actions <- MC_Actions
    Batches <- MC_TwoDocs
    MaxIngests = 2
    MaxFailures = 1
    MaxRestores = 0
    MaxListed = 9
    MaxEdges = 9
    MaxSnaps = 1
INVARIANTS
    EveryEmbeddedEntityIndexed
CHECK_DEADLOCK FALSE
