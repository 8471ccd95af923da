CONSTANTS
    Threads <- ThreadNames
    NoThread = NoThread
SPECIFICATION Spec
INVARIANTS
    TypeOK
    NoUseAfterShutdown
    HalfClosedHidden
    ClosedWhenDone
PROPERTIES
    ClosingIsFinal
    CloseReturnsIfReleased
