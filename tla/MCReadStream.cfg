SPECIFICATION Spec
CONSTANTS
    ChunkLists <- MCChunkLists
    Sizes = {0, 1, 2, 4}
    MaxInt = 4
    Buffer = 2
    ErrorParts <- MCErrorParts
INVARIANTS BodyIsRange CleanEndIsWhole
PROPERTY NoLeak
