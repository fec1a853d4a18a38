SPECIFICATION Spec
CONSTANTS
    d1 = d1
    d2 = d2
    Clients = {c1, c2}
    Entities <- MC_Entities
    Docs = {d1, d2}
    Opened <- MC_OneOpened
    OpenedSources <- MC_OpenedSources
    SourceSets <- MC_OneSource
    Edges <- MC_SameSource
    Fails = FALSE
    MaxCalls = 2
    MaxCrashes = 0
INVARIANTS
    AckedEdgesKept
CHECK_DEADLOCK FALSE
