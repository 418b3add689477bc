SPECIFICATION Spec
CONSTANTS
    Datasets <- MixedDatasets
    MaxRequests = 2
    MaxContainers = 1
INVARIANTS
    OwnErrors
