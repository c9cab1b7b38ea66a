SPECIFICATION Spec
CONSTANTS
    Conns = {c1, c2}
    NoConn = NoConn
    Names = {a}
    Sessions = {s, t}
    NoSession = NoSession
    NoKey = NoKey
    p = p
    q = q
    Cwds = {p, q}
    BadCwds = {b}
    NoCwd = NoCwd
    Matches <- BothMatch
    MaxMsgs = 1
    UsedKinds = {"tell"}
    LateRequests = FALSE
    SessionTTL = 0
    MailTTL = 0
    PendingTTL = 0
    AskTTL = 0
    MaxStarts = 0
SYMMETRY Symmetry
INVARIANTS
    TypeOK
    PresenceAnnounced
PROPERTY OnlyRefusalsUnsettle
\* The hub may end, and with its starts used up stays down.
CHECK_DEADLOCK FALSE
