CONSTANTS
    Threads <- ThreadNames
    NoThread = NoThread
    Documents = 3
    BatchSize = 2
SPECIFICATION Spec
INVARIANTS
    TypeOK
    ConsecutiveBatches
    NoSilentLoss
    CursorReleased
PROPERTIES
    WindowSound
    ImplementsStream
    CallReturns
