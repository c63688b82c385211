CONSTANTS
    MaxPush = 6
    AllowOverlap = FALSE
SPECIFICATION Spec
CHECK_DEADLOCK FALSE
INVARIANTS TypeOK 
PROPERTY ImplementsFifo
