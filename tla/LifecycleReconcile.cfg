SPECIFICATION FairSpec
CONSTANTS
    Ids = {1, 2}
    t1 = t1
    t2 = t2
    Tags = {t1}
    Names <- CallerNames
    Handlers = {h}
    Cli = {}
    Reapers = {r}
    AccountKeys = TRUE
    Durations = {1}
    Grace = 1
    MaxSandboxes = 1
    Legacy = {}
    MaxTime = 3
    MaxFaults = 1
    NoId = NoId
    NoRec = NoRec
    NoActor = NoActor
PROPERTY OrphanKeysRevoked
