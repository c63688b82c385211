CONSTANTS
    Sockets = {1, 2}
    Win32 = TRUE
    MaxStarts = 1
    MaxPush = 0
    Units <- MCUnits
SPECIFICATION FairSpec
CHECK_DEADLOCK FALSE
PROPERTY ReceiversStop
