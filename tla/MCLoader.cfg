SPECIFICATION FairSpec
CONSTANTS
    v1 = v1
    v2 = v2
    v3 = v3
    NoVersion = NoVersion
    Version = {v1, v2, v3}
    Runs <- MCRuns
    Keep = 2
INVARIANTS
    TypeOK
    CurrentStays
    ActiveShaHonest
PROPERTIES
    LoaderEnds
    ImplementsReleases
