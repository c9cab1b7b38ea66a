-------------------------------- MODULE Wire --------------------------------
(***************************************************************************)
(* The connections between ocahub's clients and its ROUTER socket, as the  *)
(* code relies on them: ROUTER_MANDATORY makes a send fail when the peer's *)
(* pipe is gone, and a pipe outlives the client's close until the hub's    *)
(* I/O thread notices.  A frame written in between reaches nobody.         *)
(***************************************************************************)
EXTENDS Protocol

CONSTANT LateRequests  \* bound: may a client close before its request is handled?

ASSUME LateRequestsAssumption == LateRequests \in BOOLEAN

VARIABLES
    client,   \* client[c]: the client's end: not opened yet, up, or gone
    route,    \* route[c]: the ROUTER still has a pipe for identity c
    owed,     \* owed[c]: c closed with a request the hub has not handled yet
    inbox     \* inbox[c]: the messages that reached c, read by now or not

wireVars == <<client, route, owed, inbox>>

WireTypeOK ==
    /\ client \in [Conns -> {"new", "up", "gone"}]
    /\ route \in [Conns -> BOOLEAN]
    /\ owed \in [Conns -> BOOLEAN]
    /\ inbox \in [Conns -> SUBSET MsgIds]

WireInit ==
    /\ client = [c \in Conns |-> "new"]
    /\ route = [c \in Conns |-> FALSE]
    /\ owed = [c \in Conns |-> FALSE]
    /\ inbox = [c \in Conns |-> {}]

\* A send to c does not fail.
Reaches(c) == c \in Conns /\ route[c]

\* Frames for the messages ms are written to c: all of them or, with the first
\* send failing, none.  They arrive if the client is still there.
Written(c, ms) ==
    inbox' = IF Reaches(c) /\ client[c] = "up"
             THEN [inbox EXCEPT ![c] = @ \cup ms]
             ELSE inbox

\* The ROUTER has, or may get at any moment, a request of c to hand to the hub.
HasRequest(c) == owed[c] \/ (client[c] = "up" /\ route[c])

Received(c) == owed' = [owed EXCEPT ![c] = FALSE]

-----------------------------------------------------------------------------
Connect(c) ==
    /\ client[c] = "new"
    /\ client' = [client EXCEPT ![c] = "up"]
    /\ route' = [route EXCEPT ![c] = TRUE]
    /\ UNCHANGED <<owed, inbox>>

\* The client closes its socket (Client.call does after every answer and every
\* timeout), perhaps with a request the hub has yet to read.
Close(c) ==
    /\ client[c] = "up"
    /\ client' = [client EXCEPT ![c] = "gone"]
    /\ \E unhandled \in {FALSE, LateRequests /\ route[c]} :
          owed' = [owed EXCEPT ![c] = unhandled]
    /\ UNCHANGED <<route, inbox>>

\* The ROUTER notices the disconnect.  A request already in its queue stays.
Notice(c) ==
    /\ client[c] = "gone" /\ route[c]
    /\ route' = [route EXCEPT ![c] = FALSE]
    /\ UNCHANGED <<client, owed, inbox>>

\* The hub's process is gone and its socket with it (ctx.destroy(linger=0)):
\* no pipe and no request is left, of the frames in flight any may be lost.
\* A client that reconnects gets a fresh identity.
Severed ==
    /\ route' = [c \in Conns |-> FALSE]
    /\ owed' = [c \in Conns |-> FALSE]
    /\ \E lost \in SUBSET MsgIds :
          inbox' = [c \in Conns |-> IF client[c] = "up" THEN inbox[c] \ lost ELSE inbox[c]]
    /\ UNCHANGED client
=============================================================================
