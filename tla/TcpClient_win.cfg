CONSTANTS
    Sockets = {1, 2, 3}
    Win32 = TRUE
    MaxStarts = 1
    MaxPush = 3
    Units <- MCUnits
SPECIFICATION ServedSpec
CHECK_DEADLOCK FALSE
INVARIANTS TypeOK Accounted WireInOrder OneSocket OneConnection
PROPERTIES LiveLinkKept SendersStop MessagesTried Reconnects
