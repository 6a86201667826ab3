SPECIFICATION FairSpec
CONSTANTS
    j1 = j1  j2 = j2
    Jobs = {j1, j2}
    Sandboxes = {1, 2}
    MaxFaults = 1
    NoJob = NoJob  NoBox = NoBox  NoCi = NoCi
PROPERTY RecordsResolve
