SPECIFICATION PartsSpec
CONSTANTS
    Nodes = {n1, n2, n3, n4}
    Nil = Nil
    Items = {1, 2, 3}
    Similar <- MCSimilar
    Codes <- MCCodes
    MaxErrors = 3
    MaxCount = 4
INVARIANTS
    MessagesKept
PROPERTIES
    KeepsSequences
    LastKept
    ReplaceEnds
    DispComplete
