CONSTANTS
    CharSigned = TRUE
    PtrSize = 8
    MaxMessages = 2
    MaxConnects = 1
    Messages <- MCMessages
SPECIFICATION FairSpec
CHECK_DEADLOCK FALSE
INVARIANTS TypeOK DeliveredInOrder InSync 
PROPERTY Delivers
