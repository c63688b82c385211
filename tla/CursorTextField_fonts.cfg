CONSTANTS
    i = i
    zi = zi
    NewLine = NewLine
    Chars = {i, zi}
    Bytes <- MCBytes
    Fonts <- MCFonts
    Frames <- MCFrames
    InputMaxLength = 6
    Inputs <- MCInputs
    Texts <- MCTexts
    MaxBox = 7
SPECIFICATION FairSpec
CHECK_DEADLOCK FALSE
INVARIANTS TypeOK CountsKept WholeCharacters ThrowsOnlyUnkept
PROPERTIES LongestShown OneWidthEnds
