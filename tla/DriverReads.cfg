SPECIFICATION Spec
CONSTANTS
    bufSize = 2
    FileSize = {0, 1, 5, 6}
    MaxOffset = 8
    Asked <- Headers
    MaxOpen = 2
INVARIANTS TypeOK BufferAtOffset RangeServed
PROPERTY LeaksOnlyAtEnd
