CONSTANTS
    Threads <- ThreadNames
    NoThread = NoThread
SPECIFICATION Spec
INVARIANT CloseNeverRefused
