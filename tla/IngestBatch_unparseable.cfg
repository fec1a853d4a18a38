SPECIFICATION Spec
CONSTANTS
    b = b
    c = c
    Batch = b
    Callers <- MCCallers
    Kinds <- MCKinds
    Envs <- MCEnvs
    Texts <- MCTexts
    WordLength = 5
    Names <- MCNames
    Relations = {"knows", "likes", "related_to", "", "slur"}
    EmptyNames = {""}
    LongNames = {"long"}
    ValidNames = {"ann", "Ann", "bob", "long", "eve", "dan"}
    EmptyRelations = {""}
    Vocabulary = {"knows", "related_to"}
    Blocked = {"slur"}
    Coerce = TRUE
    MaxTriples = 2
    Entities = {1, 2, 3, 4, 5}
    Docs = {"d1", "d2"}
    IdOf <- MCIdOf
    TextOf <- MCTextOf
    Programs <- MCSlop
    Envelopes <- MCEnvelopes
    MaxRuns = 2
    MaxFaults = 1
    MaxCrashes = 1
    MaxRequests = 2
INVARIANT SlopFallsThrough
CHECK_DEADLOCK FALSE
