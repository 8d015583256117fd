SPECIFICATION Spec
CONSTANTS
    Byte <- MCByte
    Chunk <- MCChunk
    Lower <- MCLower
    SkipTag <- MCSkipTag
INVARIANTS
    ReadAtItsHead
CHECK_DEADLOCK FALSE
