SPECIFICATION Spec
CONSTANTS
    BufSize = 2
    High <- MCHigh
    xFF <- MCxFF
    OutSizes = {0, 3}
    MaxWritten = 4
    Texts <- MCTexts
    Scripts <- MCScripts
INVARIANTS
    OutputInOrder
    ReadsAreRight
    ChunksInOrder
PROPERTY ReadsEnd
CHECK_DEADLOCK FALSE
