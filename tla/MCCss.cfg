SPECIFICATION Spec
CONSTANTS
    Byte <- MCByte
    Chunk <- MCChunk
INVARIANTS
    StackShape
    InPlace
    WithheldOne
PROPERTIES
    TextBlanksCollapse
    BufferDelivered
    ImplementsContract
CHECK_DEADLOCK FALSE
