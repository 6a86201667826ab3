SPECIFICATION FairSpec
CONSTANTS
    Ids = {1, 2}
    t1 = t1
    t2 = t2
    Tags = {t1, t2}
    Names <- DefaultNames
    Handlers = {h}
    Cli = {c}
    Reapers = {r}
    AccountKeys = FALSE
    Durations = {1}
    Grace = 0
    MaxSandboxes = 2
    Legacy = {1}
    MaxTime = 2
    MaxFaults = 2
    NoId = NoId
    NoRec = NoRec
    NoActor = NoActor
PROPERTIES ReapConverges IsSandboxService
