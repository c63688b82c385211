CONSTANTS
    MaxPush = 4
    AllowOverlap = TRUE
SPECIFICATION Spec
CHECK_DEADLOCK FALSE
INVARIANT Kept
