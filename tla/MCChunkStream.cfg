SPECIFICATION FairSpec
CONSTANTS
    MaxChunks = 3
    Concurrency = 2
    NumBackends = 2
INVARIANTS
    SuccessIsWhole
    CompletedAreCleaned
PROPERTIES
    ImplementsUpload
    Returns
