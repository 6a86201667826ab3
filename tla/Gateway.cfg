SPECIFICATION Spec
CONSTANTS
    r1 = r1 r2 = r2
    Requests = {r1, r2}
    Token = Token Wrong = Wrong NoCred = NoCred Ip = Ip None = None
    Rpm = 40
    Burst = 1
    MaxSandboxes = 1
    Routes <- SomeRoutes
    Configs <- Deployments
    MaxTime = 2
    MaxArrivals = 3
    Creds = {Token, NoCred}
    MaxFaults = 1
SYMMETRY Slots
INVARIANTS TypeOK NothingLeftBehind ShareBounded RateBound RetryAfterHonest
CHECK_DEADLOCK FALSE
