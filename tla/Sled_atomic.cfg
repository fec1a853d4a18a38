SPECIFICATION Spec
CONSTANTS
    d1 = d1
    d2 = d2
    Clients = {c1}
    Entities <- MC_Entities
    Docs = {d1, d2}
    Opened <- MC_NoneOpened
    OpenedSources <- MC_OpenedSources
    SourceSets <- MC_Sources
    Edges <- MC_Edges
    Fails = FALSE
    MaxCalls = 6
    MaxCrashes = 0
PROPERTIES
    ImplementsGraphStore
CHECK_DEADLOCK FALSE
