SPECIFICATION FairSpec
CONSTANTS
    m1 = m1
    m2 = m2
    m3 = m3
    NoMessage = NoMessage
    Message = {m1, m2}
    ReceivedAt <- MCReceivedAt
    HasBody = {m1}
    HasMedia = {m2}
    Algorithm = "weighted"
    Fades = {0, 2}
    LogLen = 2
    MaxChanges = 1
INVARIANT
    TypeOK
    PanelFitsMessage
PROPERTIES
    MediaIsPlayed
    ImplementsDisplay
    CycleGoesOn
    BlockedLeaves
