CONSTANTS
    CharSigned = TRUE
    PtrSize = 8
    MaxMessages = 1
    MaxConnects = 0
    Messages <- MCZeroMessages
SPECIFICATION Spec
CHECK_DEADLOCK FALSE
INVARIANT BodyKept
