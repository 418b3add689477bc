SPECIFICATION Spec
CONSTANTS
    Jobs <- MCJobs
    NumConduits = 3
    MaxOffset = 20
INVARIANTS
    TypeOK
    LockDiscipline
    FilesRight
    CompleteOnSuccess
PROPERTIES
    NoOverwrite
    CacheStable
    Termination
    TransferSpec
