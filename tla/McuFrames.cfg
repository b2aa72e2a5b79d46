\* Frames of one or two data bytes, of which one equals a head, a buffer of six, and one
\* disturbed byte.
SPECIFICATION Spec
CONSTANTS
    Base = 8
    Heads = {7}
    End = 1
    BufLen = 6
    Data = {0, 7}
    MaxData = 2
    MaxLine = 11
    MaxNoise = 1
INVARIANTS TypeOK Prompt
PROPERTIES KeepsChannel Recovers
