SPECIFICATION MCSpec
CONSTANTS
    Datasets <- MCDatasets
    MaxRequests = 3
    MaxContainers = 1
INVARIANTS
    RowsInOrder
    Honest
    FailsForOwnDataset
PROPERTIES
    Answered
