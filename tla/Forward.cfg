SPECIFICATION FairSpec
CONSTANTS
    MaxChunks = 2
    Room = 1
INVARIANT TypeOK
INVARIANT CountsAll
PROPERTY Forwards
PROPERTY Flows
\* Both ends may fall silent.
CHECK_DEADLOCK FALSE
