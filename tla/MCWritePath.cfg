CONSTANTS
    eager = eager
    lazy = lazy
    Writers <- MCWriters
    Sinks <- MCSinks
    Height <- MCHeight
    BatchSize <- MCBatchSize
SPECIFICATION Spec
INVARIANTS
    TypeOK
    Accounting
    ResultTruthful
PROPERTIES
    NothingSentAfterEnd
    ImplementsContract
    CallEnds
CHECK_DEADLOCK FALSE
