CONSTANTS
    Values <- AllValues
    Depth <- DepthOf
    Filters <- AllFilters
    Projections <- AllProjections
    Absent = Absent
    Unpaired = 90
    Replacement = 91
    NarrowMax = 7
    WideMax = 127
SPECIFICATION Spec
INVARIANTS
    TypeOK
PROPERTIES
    SentAsWritten
    FaultLocated
