SPECIFICATION LockFairSpec
CONSTANTS
    Procs = {p1, p2, p3}
    MaxUnlinks = 2
    NoFile = NoFile  NoProc = NoProc
INVARIANT GuardsExclude
PROPERTY AcquireReturns
