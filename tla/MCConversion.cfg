CONSTANTS
    Names <- AllNames
    Dtypes <- AllDtypes
    DtypeDepth <- Levels
    Nodes <- AllNodes
    Depth <- LevelsBelow
    Schemas <- AllSchemas
    BsonValues <- Values
    MaxDocuments = 3
    MaxTime = 3
    Filler <- FillerOf
    Radix = 2
    FirstLetter = 1
    NullByte = NullByte
SPECIFICATION Spec
CHECK_DEADLOCK FALSE
INVARIANTS
    TypeOK
    SchemaDecides
    RowWise
    NullsDeclared
    ReadIsWritable
    WrittenReadsBack
    ErrorLocated
    EncodeErrorLocated
    IdsAgree
