SPECIFICATION FairSpec
CONSTANTS
    Conns = {c1, c2}
    NoConn = NoConn
    Names = {a}
    Sessions = {s}
    NoSession = NoSession
    NoKey = NoKey
    p = p
    q = q
    Cwds = {}
    BadCwds = {}
    NoCwd = NoCwd
    Matches <- NoMatches
    MaxMsgs = 1
    UsedKinds = {"ask", "reply"}
    LateRequests = TRUE
    SessionTTL = 0
    MailTTL = 0
    PendingTTL = 0
    AskTTL = 0
    MaxStarts = 0
PROPERTIES
    NothingStays
    Delivers
\* The hub may end, and with its starts used up stays down.
CHECK_DEADLOCK FALSE
