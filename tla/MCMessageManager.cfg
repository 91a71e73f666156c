SPECIFICATION Spec
CONSTANTS
    m1 = m1
    m2 = m2
    m3 = m3
    alice = alice
    mallory = mallory
    Message = {m1, m2, m3}
    Sender = {alice, mallory}
    SenderOf <- MCSenderOf
    ReceivedAt <- MCReceivedAt
    Config <- MCConfig
    DefaultConfig <- MCDefaultConfig
    Malformed = {}
    Action = {"restart"}
    Registered = {"restart"}
    BufferLen = 2
    QueueLen = 2
    Runtimes <- MCBothRuntimes
    SerialServer = TRUE
    MaxWire = 2
INVARIANTS
    TypeOK
    NoDuplicateIds
    QueuedOnce
    EnrichedAtRest
    NothingElseLost
    ConfigCurrent
PROPERTIES
    EvictedStaysOut
