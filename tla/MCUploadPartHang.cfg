CHECK_DEADLOCK FALSE
SPECIFICATION Spec
CONSTANT MaxBlocks = 3
PROPERTY
    ErrorIsReturned
