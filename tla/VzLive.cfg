SPECIFICATION FairSpec
CONSTANTS
    Proxies = {p1, p2}
    p1 = p1
    p2 = p2
    MaxLives = 1
    Faults = {"hang"}
    IdlePolls = 1
    HangPolls = 1
    Graceful = TRUE
INVARIANT CountIsExact
PROPERTY StopEnds
PROPERTY GivesRamBack
PROPERTY NobodyWaitsForEver
\* The proxies, the VM and the supervisor may all come to rest.
CHECK_DEADLOCK FALSE
