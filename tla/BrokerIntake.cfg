SPECIFICATION FairSpec
CONSTANTS
    Jobs = {1, 2}
    Worlds <- MCWorlds
    RepoOf <- MCRepoOf
    LabelsOf <- MCLabelsOf
    QueueLabels <- MCQueueLabels
    FallbackLabel = "default"
    Repos = {1}
    FallbackDelay = 1
    RefreshInterval = 1
    TokenLife = 2
    Deployments <- MCDeployments
    PerPage = 1
    MaxFaults = 1
    MaxMisreads = 1
    NoJob = NoJob
INVARIANTS TypeOK OneSandboxPerJob
PROPERTIES FallbackWaits PollsForEver QueuedJobsServed
