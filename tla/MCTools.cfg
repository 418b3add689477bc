SPECIFICATION Spec
CONSTANTS
    Nil = Nil
    Requests <- DateRequests
    CheckJobs <- MCCheckJobs
    Commands <- MCCommands
    Dashed <- MCDashed
    NumberWords <- MCNumbers
    Existing <- MCExisting
    Creatable <- MCCreatable
    Sessions <- MCSessions
    Length <- MCLength
    KeyPlaces <- MCPlaces
    Datasets <- DateDatasets
INVARIANTS
    DatesRight
    CommandsRight
    ValuesShown
    ChecksRight
    EquationRight
    HistogramsRight
CHECK_DEADLOCK FALSE
