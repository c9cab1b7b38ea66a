SPECIFICATION Spec
CONSTANTS
    Sessions = {"s1", "s2"}
    Asks = {"a"}
    NUDGE_LIMIT = 3
    MaxFails = 0
INVARIANT ThreeNudges
\* Both sessions may rest.
CHECK_DEADLOCK FALSE
