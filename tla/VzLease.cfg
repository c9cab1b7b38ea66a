SPECIFICATION Spec
CONSTANTS
    Proxies = {p1, p2}
    p1 = p1
    p2 = p2
    MaxLives = 2
    Faults = {"start", "exit", "hang", "signal", "boot", "timeout", "death"}
    IdlePolls = 1
    HangPolls = 1
    Graceful = TRUE
SYMMETRY Symmetry
INVARIANT TypeOK
INVARIANT PidStaysOurs
INVARIANT OneBoot
PROPERTY Leased
\* The proxies, the VM and the supervisor may all come to rest.
CHECK_DEADLOCK FALSE
