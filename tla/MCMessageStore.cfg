SPECIFICATION FairSpec
CONSTANTS
    s1 = s1
    m1 = m1
    image = image
    video = video
    jpg = jpg
    mp4 = mp4
    None = None
    Pending = Pending
    Failed = Failed
    Sms = {s1}
    Mms = {m1}
    Attachment = {image, video}
    AttachmentsOf <- MCAttachmentsOf
    TypeOf <- MCTypeOf
    Threads = 1
    Workers = 4
    Budget <- MCBudget
    MaxDeliveries = 2
    LastSecond = 1
    MaxCrashes = 2
INVARIANTS
    TypeOK
    ShownIsLogged
    NotForgotten
    MediaIsThere
    OneWorkerPerText
PROPERTIES
    StoredFirst
    GuardIsReleased
CHECK_DEADLOCK FALSE
