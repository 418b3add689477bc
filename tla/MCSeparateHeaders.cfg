SPECIFICATION Spec
CONSTANTS
    Jobs <- SeparateBlocksJobs
    NumConduits = 3
    MaxOffset = 20
INVARIANT CompleteOnSuccess
