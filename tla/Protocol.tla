------------------------------ MODULE Protocol ------------------------------
(***************************************************************************)
(* The vocabulary of ocahub's wire protocol (ocahub/protocol.py): names,   *)
(* sessions, the addresses a message can carry, the kinds of messages and  *)
(* the working directories sessions register.  Texts are model values: the *)
(* hub only ever compares them.                                            *)
(***************************************************************************)
EXTENDS Naturals

CONSTANTS
    Conns,      \* ZeroMQ connections (a ROUTER identity each)
    NoConn,     \* no connection
    Names,      \* agent names
    Sessions,   \* session names
    NoSession,  \* the session part of a bare name
    NoKey,      \* no registry key
    Cwds,       \* working directories check_cwd accepts
    BadCwds,    \* working directories check_cwd refuses (blank strings)
    NoCwd,      \* no working directory given
    Matches,    \* the pairs of working directories cwd_match relates
    MaxMsgs     \* bound: how many sends the hub handles

ASSUME ConnsAssumption == NoConn \notin Conns
ASSUME SessionsAssumption == NoSession \notin Sessions
ASSUME CwdsAssumption == /\ NoCwd \notin Cwds
                         /\ Cwds \cap BadCwds = {}
                         /\ Matches \subseteq Cwds \X Cwds
ASSUME MaxMsgsAssumption == MaxMsgs \in Nat

Tell  == "tell"
Ask   == "ask"
Reply == "reply"
Kinds == {Tell, Ask, Reply}

Keys      == Names \X Sessions
NameLevel == Names \X {NoSession}
Addresses == Keys \cup NameLevel

ASSUME NoKeyAssumption == NoKey \notin Addresses

\* Message ids.  A client draws a fresh uuid for every send; the model numbers
\* the sends in the order the hub handles them, which is the order of the
\* timestamps the hub gives them.
MsgIds == 1..MaxMsgs
NoMsg  == 0

MaybeConn == Conns \cup {NoConn}
MaybeKey  == Keys \cup {NoKey}
MaybeCwd  == Cwds \cup {NoCwd}

\* What a request may carry in its cwd field.
CwdField == MaybeCwd \cup BadCwds

\* Slip: any directory passes.
CheckNoCwd(cwd) == TRUE

\* check_cwd: a missing directory passes, a blank one is a ProtocolError.
CheckCwd(cwd) == cwd \notin BadCwds

CwdMatch(registered, query) == <<registered, query>> \in Matches

\* An age that has passed its limit stays there: "older than ttl" is all the
\* hub ever asks of a timestamp.
Ages(ttl)     == 0 .. ttl + 1
Older(n, ttl) == IF n > ttl THEN n ELSE n + 1
=============================================================================
