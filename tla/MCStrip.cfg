SPECIFICATION StripSpec
CONSTANTS
    Byte <- MCByte
    Letter <- MCLetter
    Lower <- MCLower
INVARIANTS
    SeparatorKept
PROPERTIES
    BlanksCollapse
    PreservedKept
