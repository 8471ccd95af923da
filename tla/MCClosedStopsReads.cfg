CONSTANTS
    Threads <- ThreadNames
    NoThread = NoThread
SPECIFICATION Spec
PROPERTY ClosedStopsReads
