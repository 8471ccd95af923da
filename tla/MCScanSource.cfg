CONSTANTS
    Documents = 5
    BatchSize = 2
    NoLimit = NoLimit
SPECIFICATION Spec
CHECK_DEADLOCK FALSE
INVARIANTS
    TypeOK
    FirstMatches
    CompleteAtReturn
PROPERTIES
    LimitStopsReading
    ScanEnds
