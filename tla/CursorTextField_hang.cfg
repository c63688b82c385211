CONSTANTS
    i = i
    zi = zi
    NewLine = NewLine
    Chars = {i, zi}
    Bytes <- MCBytes
    Fonts <- HangFonts
    Frames <- HangFrames
    InputMaxLength = 4
    Inputs <- MCInputs
    Texts = {}
    MaxBox = 6
SPECIFICATION FairSpec
CHECK_DEADLOCK FALSE
PROPERTIES HandlersEnd
