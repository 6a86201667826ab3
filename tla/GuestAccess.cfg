SPECIFICATION Spec
CONSTANTS
    a1 = a1
    a2 = a2
    server = server
    cli = cli
    Actors = {a1, a2}
    Procs = {server, cli}
    ProcOf <- MCProcOf
    Sandboxes = {s1, s2}
    Names = {n1}
    Addresses = {i1, i2}
    Kinds = {"linux", "windows", "ssh", "account"}
    MaxFaults = 2
    None = None
INVARIANTS TypeOK CommandReachesOwnGuest DiskKept ArtifactsExplained OwnCacheFresh
SYMMETRY MCSymmetry
CHECK_DEADLOCK FALSE
