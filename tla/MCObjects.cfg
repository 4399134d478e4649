SPECIFICATION Spec
CONSTANTS
    Buckets = {b1}
    Keys = {k1, k2}
    Writers = {w1, w2}
    Completers = {x1}
    Readers = {r1}
    Deleters = {d1}
    UploadIds = {u1}
    PartNumbers = {1}
    BodyChunks = 2
    MaxListed = 10000
    ChunkCount <- MCChunkCount
    None = None
    b1 = b1
    k1 = k1
    k2 = k2
    w1 = w1
    w2 = w2
    x1 = x1
    d1 = d1
    r1 = r1
    u1 = u1
SYMMETRY Symmetry
VIEW Unobserved
INVARIANTS
    Isolation
    ReadIsOneVersion
    ShardsGoBeforeRow
    UndeletedIsIntact
