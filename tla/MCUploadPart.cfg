\* Deadlock: the handler's goroutines simply end; one whose reader is gone hangs.
CHECK_DEADLOCK FALSE
SPECIFICATION Spec
CONSTANT MaxBlocks = 3
INVARIANTS
    TypeOK
    OkIsStored
    BrokenBodyIsRefused
PROPERTY
    Returns
