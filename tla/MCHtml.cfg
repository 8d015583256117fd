SPECIFICATION Spec
CONSTANTS
    Byte <- MCByte
    Chunk <- MCChunk
    Lower <- MCLower
    SkipTag <- MCSkipTag
INVARIANTS
    StackShape
    InPlace
    WithheldToken
    LookAhead
    SkipNamed
PROPERTIES
    BlanksCollapse
    BufferDelivered
    ImplementsContract
CHECK_DEADLOCK FALSE
