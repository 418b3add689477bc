SPECIFICATION PartsSpec
CONSTANTS
    Nil = Nil
    Jobs <- MCJobs
    SearchJobs <- RelativeJobs
PROPERTY SearchEnds
CHECK_DEADLOCK FALSE
