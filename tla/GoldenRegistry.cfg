SPECIFICATION Spec
CONSTANTS
    Keys = {k1}
    server = server  cli = cli  s1 = s1  s2 = s2  c = c
    Procs = {server, cli}
    Tasks = {s1, s2, c}
    Home <- HomeOf
    OneShot = {cli}
    MaxEntries = 2
    MaxFaults = 1
    NotLoaded = NotLoaded  Missing = Missing  Torn = Torn
    NoKey = NoKey  NoTask = NoTask  NoProc = NoProc
\* A manifest that does not parse stops every command until it is repaired by hand.
CHECK_DEADLOCK FALSE
SYMMETRY TaskSymmetry
INVARIANTS ManifestCurrent DuplicatesOnlyFromDryRuns GoldenVmsExplained
