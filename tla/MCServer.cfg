CONSTANTS
    HttpRequests <- MCHttpRequests
    ObjectRequests <- MCObjectRequests
    Keys = {"a", "b"}
    Versions <- MCVersions
    MaxChanges = 2
    Parts = {1, 2}
    ETags = {"e1", "e2"}
    NoETag = "none"
    BadList = BadList
    MaxUploads = 1
    Paths <- MCPaths
    Fold <- MCFold
    Wild <- MCWild
    AskedPrefixes <- MCAskedPrefixes
    BrowseLimit = 3
    MaxTransactions = 1
SPECIFICATION Spec
INVARIANTS AnswerTellsEffect OkIsAssembled BrowseIsComplete
PROPERTIES EffectIsAsked Answered
