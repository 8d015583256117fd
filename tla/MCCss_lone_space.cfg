SPECIFICATION Spec
CONSTANTS
    Byte <- MCByte
    Chunk <- MCChunk
PROPERTIES
    LoneSpaceKept
CHECK_DEADLOCK FALSE
