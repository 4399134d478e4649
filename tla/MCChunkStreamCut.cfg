SPECIFICATION Spec
CONSTANTS
    MaxChunks = 3
    Concurrency = 2
    NumBackends = 2
INVARIANT
    CutBodyIsNoSuccess
