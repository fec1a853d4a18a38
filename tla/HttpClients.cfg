\* Two MiniMax tasks and an Anthropic one, two requests between them.
SPECIFICATION FairSpec
CONSTANTS
    Tasks = {"first", "second", "judge"}
    BackendOf <- MCBackendOf
    Requests <- MCRequests
    Contents <- MCContents
    Delays <- MCDelays
    Cooldown = 2
    MaxShrinks = 1
    Limits <- MCLimits
    MinBudget = 2
    MaxAttempts = 2
    BaseDelay = 1
    MaxDelay = 2
    MaxCalls = 2
INVARIANTS TypeOK CooldownHeld RetriesBounded OnlyVisibleReturned
PROPERTY RequestReturns
CHECK_DEADLOCK FALSE
