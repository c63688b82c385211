CONSTANTS
    CharSigned = TRUE
    PtrSize = 8
    MaxMessages = 1
    MaxConnects = 0
    Messages <- MCMessages
SPECIFICATION Spec
CHECK_DEADLOCK FALSE
INVARIANT HeadExact
