SPECIFICATION Spec
CONSTANTS
    a = a
    b = b
    d = d
    r = r
    q = q
    room = room
    Passwords = {p1, p2}
    NoFile = NoFile
    EmptyFile = EmptyFile
    BadFile = BadFile
    NoId = NoId
    Ids = {a, b}
    Places = {d, r, q, room}
    DefaultDir = d
    MaxOutages = 2
    Chunks = {c1, c2}
    MaxKeys = 1
    MaxStarts = 3
    Configs <- MCConfigs
SYMMETRY Symmetry
CONSTRAINT Bounded
ACTION_CONSTRAINT SameKind
INVARIANTS
    TypeOK
    KeysStayOpen
    AcknowledgedIsReadable
PROPERTIES
    DeletedIsGone
CHECK_DEADLOCK FALSE
