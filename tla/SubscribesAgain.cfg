CONSTANTS
    Threshold = 3
    PublishUnits = 3
    MaxFrames = 2
    MaxPublished = 3
    None = None
    Garbage = Garbage
SPECIFICATION FairSpec
PROPERTY
    SubscribesAgain
