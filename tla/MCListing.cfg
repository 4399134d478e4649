CONSTANTS
    Operations = {"ListObjectsV2", "ListParts", "ListMultipartUploads", "ListBuckets"}
    Keys <- MCKeys
    PrefixNames <- MCPrefixNames
    NoPrefix = "none"
    Prefix <- MCPrefix
    PageSizes = {1, 2}
    MaxChanges = 2
SPECIFICATION Spec
INVARIANTS NothingMissed NoRepeats
PROPERTY Ends
