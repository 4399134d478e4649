SPECIFICATION FairSpec
CONSTANTS
    MaxBackends = 4
    Sizes <- MCSizes
    DataLengths <- MCDataLengths
    MinCandidate = 1
    MaxDivide = 10
    MaxInt = 1000
INVARIANTS
    TypeOK
    ToleratesFailures
    ShardsPartition
    BlobsFit
    ParityRecovered
    ParityNeeded
PROPERTY
    Returns
