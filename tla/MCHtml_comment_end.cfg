SPECIFICATION Spec
CONSTANTS
    Byte <- MCByte
    Chunk <- MCChunk
    Lower <- MCLower
    SkipTag <- MCSkipTag
PROPERTIES
    CommentCloses
CHECK_DEADLOCK FALSE
