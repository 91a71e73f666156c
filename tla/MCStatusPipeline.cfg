CONSTANTS
    LiveFor = 2
    UnknownFor = 3
    MaxAge = 3
    None = None
SPECIFICATION FairSpec
INVARIANTS
    TypeOK
    PillIsHonest
PROPERTIES
    PageMovesForward
    Settles
