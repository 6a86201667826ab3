SPECIFICATION Spec
CONSTANTS
    j1 = j1  j2 = j2
    Jobs = {j1, j2}
    Sandboxes = {1, 2}
    MaxFaults = 2
    NoJob = NoJob  NoBox = NoBox  NoCi = NoCi
SYMMETRY JobSymmetry
INVARIANTS TypeOK UntrackedGuestExplained CredentialsTracked OneRunnerAtATime
