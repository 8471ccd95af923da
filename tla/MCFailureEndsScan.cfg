CONSTANTS
    Threads <- ThreadNames
    NoThread = NoThread
    Documents = 3
    BatchSize = 2
SPECIFICATION Spec
INVARIANT
    FailureEndsScan
