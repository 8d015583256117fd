SPECIFICATION Spec
CONSTANTS
    Byte <- MCByte
    Chunk <- MCChunk
INVARIANTS
    InPlace
    WithheldOne
PROPERTIES
    BlanksCollapse
    BufferDelivered
    ImplementsContract
CHECK_DEADLOCK FALSE
