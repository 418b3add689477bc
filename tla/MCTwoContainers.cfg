SPECIFICATION Spec
CONSTANTS
    Datasets <- PairDatasets
    MaxRequests = 1
    MaxContainers = 2
INVARIANTS
    ValuesAreRead
