SPECIFICATION Spec
CONSTANTS
    Buckets = {b1}
    Keys = {k1}
    Writers = {w1, w2, w3}
    Completers = {x1, x2}
    Readers = {}
    Deleters = {}
    UploadIds = {u1}
    PartNumbers = {1, 2}
    BodyChunks = 2
    ChunkCount <- MCChunkCount
    MaxListed = 10000
    None = None
    b1 = b1
    k1 = k1
    w1 = w1
    w2 = w2
    w3 = w3
    x1 = x1
    x2 = x2
    u1 = u1
SYMMETRY Symmetry
INVARIANT
    MultipartIsWhole
