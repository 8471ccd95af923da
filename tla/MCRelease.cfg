CONSTANTS
    MaxPushes = 2
    DevVersions <- MCDevVersions
SPECIFICATION Spec
INVARIANTS
    TypeOK
    ReleasesSound
PROPERTIES
    ImplementsContract
    NewestReleased
