SPECIFICATION Spec
CONSTANTS
    d1 = d1
    d2 = d2
    Clients = {c1}
    Entities <- MC_Entities
    Docs = {d1, d2}
    Opened <- MC_OneOpened
    OpenedSources <- MC_OpenedSources
    SourceSets <- MC_OneSource
    Edges <- MC_Edges
    Fails = TRUE
    MaxCalls = 5
    MaxCrashes = 2
INVARIANTS
    TypeOK
    AckedEdgesKept
    ConsistentUnlessTorn
PROPERTIES
    SnapshotsKept
    RestoreInstalls
CHECK_DEADLOCK FALSE
