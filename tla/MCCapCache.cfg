SPECIFICATION CaptureSpec
CONSTANTS
    Request = {r1, r2}
    MaxTemp = 2
SYMMETRY Interchangeable
INVARIANTS FileWhole TempsAccounted PublishedOnce MarkedIsPublished
CHECK_DEADLOCK FALSE
