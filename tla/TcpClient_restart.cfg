CONSTANTS
    Sockets = {1, 2}
    Win32 = FALSE
    MaxStarts = 2
    MaxPush = 2
    Units <- MCUnits
SPECIFICATION Spec
CHECK_DEADLOCK FALSE
INVARIANTS  SendNeverNull
 
