\* Readers of four kinds, two runs and two writes at most.
SPECIFICATION Spec
CONSTANTS
    a = a
    b = b
    d1 = d1
    d2 = d2
    Tenant = t
    Entities = {a, b}
    Docs = {d1, d2}
    Questions = {"q"}
    Stopwords = {"who"}
    TokensOf <- MCTokensOf
    NameOf <- MCNameOf
    AliasesOf <- MCAliasesOf
    EtypeOf <- MCEtypeOf
    Likeness <- MCLikeness
    LlmPlans <- MCLlmPlans
    OwnPlans <- MCOwnPlans
    Readers = {"indexed", "scanning", "gfm", "own"}
    KindOf <- MCKindOf
    Runs <- MCRuns
    EvalK = 1
    NarrowK = 2
    MaxSeeds = 1
    HiddenDim = 2
    Inputs <- MCInputs
    InitTenant <- MCInitTenant
    InitIndex <- MCInitIndex
    MaxReads = 2
    MaxWrites = 2
    MaxListed = 3
    MaxEdges = 1
    MaxSnaps = 2
INVARIANTS ReadSound PlansReused MetricsHonest ChannelsFollowFormula TakesWhatFits
CHECK_DEADLOCK FALSE
