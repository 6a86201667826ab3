SPECIFICATION Spec
CONSTANTS
    Ids = {1, 2}
    t1 = t1
    t2 = t2
    Tags = {t1}
    Names <- CallerNames
    Handlers = {h1, h2}
    Cli = {}
    Reapers = {r}
    AccountKeys = TRUE
    Durations = {1}
    Grace = 0
    MaxSandboxes = 1
    Legacy = {}
    MaxTime = 2
    MaxFaults = 1
    NoId = NoId
    NoRec = NoRec
    NoActor = NoActor
INVARIANTS TypeOK NoLostVm KeyDirTracked UntrackedVmExplained CapUnlessRevived DestroyHitsOwnVm
