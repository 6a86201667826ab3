SPECIFICATION FairSpec
CONSTANTS
    Client = Client Guest = Guest
    MaxSent = 3
    Buffer = 1
    MaxPings = 1
PROPERTY IsDuplexChannel
CHECK_DEADLOCK FALSE
