SPECIFICATION FairSpec
CONSTANTS
    m1 = m1
    m2 = m2
    m3 = m3
    NoMessage = NoMessage
    Message = {m1, m2, m3}
    ReceivedAt <- MCReceivedAt
    HasBody = {m1, m3}
    HasMedia = {m2}
    Algorithm = "weighted"
    Fades = {2}
    LogLen = 3
    MaxChanges = 0
PROPERTY
    EachIsShown
