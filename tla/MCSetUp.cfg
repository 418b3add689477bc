SPECIFICATION PartsSpec
CONSTANTS
    Nil = Nil
    Jobs <- MCJobs
    SearchJobs <- MCSearchJobs
INVARIANTS
    MemoryKept
    ConduitsRight
    NamesRight
    HeadersRight
PROPERTY SearchRight
CHECK_DEADLOCK FALSE
