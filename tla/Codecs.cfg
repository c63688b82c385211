CONSTANTS
    CharSigned = TRUE
    Values <- MCValues
    NotUtf8 <- MCNotUtf8
    Foreign <- MCForeign
    Depth = 1
SPECIFICATION CodecsSpec
CHECK_DEADLOCK FALSE
INVARIANTS  BodyIsSeen Counted SplitRight Encoded
           SizeExact ArrivesWhole CutIsRefused Understood CodesShift
