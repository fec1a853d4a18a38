\* Two calls, one thread, pipes of one unit.
SPECIFICATION FairSpec
CONSTANTS
    Calls = {1, 2}
    Requests <- MCRequests
    Outputs <- MCOutputs
    Directive = 1
    PipeCap = 1
    Burst = 2
    Threads = 1
INVARIANTS TypeOK NoChildOutlivesItsJob FileLeftOnlyByTimeout
PROPERTY CallsAndJobsEnd
CHECK_DEADLOCK FALSE
