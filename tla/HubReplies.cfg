SPECIFICATION Spec
CONSTANTS
    Conns = {c1}
    NoConn = NoConn
    Names = {a}
    Sessions = {s}
    NoSession = NoSession
    NoKey = NoKey
    p = p
    q = q
    Cwds = {}
    BadCwds = {}
    NoCwd = NoCwd
    Matches <- NoMatches
    MaxMsgs = 3
    UsedKinds = {"ask", "reply"}
    LateRequests = FALSE
    SessionTTL = 0
    MailTTL = 0
    PendingTTL = 0
    AskTTL = 0
    MaxStarts = 1
PROPERTIES
    Delivers
    AskOwedUntilAnswered
\* The hub may end, and with its starts used up stays down.
CHECK_DEADLOCK FALSE
