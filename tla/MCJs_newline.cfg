SPECIFICATION Spec
CONSTANTS
    Byte <- MCByte
    Chunk <- MCChunk
PROPERTIES
    NewLineKept
CHECK_DEADLOCK FALSE
