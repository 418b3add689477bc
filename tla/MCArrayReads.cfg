SPECIFICATION Spec
CONSTANTS
    Files <- MCFiles
    MaxStride = 3
INVARIANTS
    DeclaredExists
    NeverRefused
    Slice
CHECK_DEADLOCK FALSE
