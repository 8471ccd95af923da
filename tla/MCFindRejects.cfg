CONSTANTS
    Values <- AllValues
    Depth <- DepthOf
    Filters <- SomeFilters
    Projections <- AllProjections
    Absent = Absent
    Unpaired = 90
    Replacement = 91
    NarrowMax = 7
    WideMax = 127
SPECIFICATION Spec
PROPERTIES
    UnrepresentableRejected
