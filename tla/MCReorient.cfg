SPECIFICATION FairSpec
CONSTANTS
    Jobs <- PassJobs
    Sizes <- PassSizes
    MaxBytes <- PassMaxBytes
INVARIANTS
    InBounds
    Faithful
    Honest
PROPERTIES
    WrittenOnce
    Terminates
