SPECIFICATION Spec
CONSTANTS
    ContentType <- MCContentType
    DefaultTypes <- MCDefaultTypes
    TextHtm = {"text/html"}
    Level <- MCLevel
    Response <- MCResponse
    MaxBytes = 4
    MaxBuffer = 2
    MaxLinks = 2
INVARIANTS Conserved OnlyWithheldComesLate LengthHonest ChangedOnlyIfAsked
CHECK_DEADLOCK FALSE
