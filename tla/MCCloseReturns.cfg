CONSTANTS
    Threads <- ThreadNames
    NoThread = NoThread
SPECIFICATION Spec
PROPERTY CloseReturns
