------------------------------ MODULE Clients -------------------------------
(***************************************************************************)
(* The hub's clients: what becomes of one session's messages between the   *)
(* hub and the agent.  Every call opens a connection, sends one request,   *)
(* reads up to the ACK and, if it waits, up to the next message, and       *)
(* closes.  The hub is taken from Hub: a hello or a poll drains the        *)
(* mailbox into the connection before its ACK and makes the connection the *)
(* session's; a message goes to that connection while it is open, and into *)
(* the mailbox otherwise.                                                  *)
(*                                                                         *)
(*   keepalive  the stop hook's ocac hello, whose output nobody reads      *)
(*   poll       agent_inbox() and ocac poll                                *)
(*   wait       agent_inbox(wait) and ocac poll --wait                     *)
(*   monitor    ocac monitor: a hello, and a waiting poll if it was empty  *)
(*   asker      another session's send_wait                                *)
(***************************************************************************)
EXTENDS Naturals, Sequences, SequencesExt, FiniteSets

CONSTANTS
    Callers,   \* those of the five that run
    MaxCalls,  \* bound: calls at a time
    MaxMsgs    \* bound: messages sent to the session

VARIABLES
    sent,    \* messages the hub has accepted, numbered in order
    mail,    \* those in the mailbox
    held,    \* the call whose connection the hub holds for the session
    phase,   \* "off"; "sent"; "reading" to the ACK; "waiting"; "asks": agent_inbox's second call
    op,      \* the request: "hello", "poll", "poll_wait" or "send_wait"
    pipe,    \* frames written to the connection and not read
    kept,    \* request's delivers
    shown,   \* what callers have returned or printed to an agent
    answered \* the asker's ask has been

vars == <<sent, mail, held, phase, op, pipe, kept, shown, answered>>

Ack   == 0
Reply == MaxMsgs + 1    \* the answer to the asker's ask

FirstOp(c) == CASE c \in {"keepalive", "monitor"} -> "hello"
                [] c = "poll" -> "poll" [] c = "wait" -> "poll_wait"
                [] c = "asker" -> "send_wait"

Init ==
    /\ sent = 0 /\ mail = <<>> /\ held = "none"
    /\ phase = [c \in Callers |-> "off"]
    /\ op = [c \in Callers |-> FirstOp(c)]
    /\ pipe = [c \in Callers |-> <<>>]
    /\ kept = [c \in Callers |-> <<>>]
    /\ shown = {} /\ answered = FALSE

Connected(c) == phase[c] \in {"reading", "waiting"}

\* request: a new dealer, and the request on it.
Request(c) ==
    /\ phase[c] = "off" /\ Cardinality({d \in Callers : phase[d] # "off"}) < MaxCalls
    /\ phase' = [phase EXCEPT ![c] = "sent"]
    /\ op' = [op EXCEPT ![c] = FirstOp(c)]
    /\ UNCHANGED <<sent, mail, held, pipe, kept, shown, answered>>

\* The hub handles it.  A send drains nothing and binds nothing.
Serve(c) ==
    /\ phase[c] = "sent"
    /\ phase' = [phase EXCEPT ![c] = "reading"]
    /\ IF op[c] = "send_wait"
         THEN pipe' = [pipe EXCEPT ![c] = <<Ack>>] /\ UNCHANGED <<mail, held>>
         ELSE /\ pipe' = [pipe EXCEPT ![c] = Append(mail, Ack)]
              /\ mail' = <<>> /\ held' = c
    /\ UNCHANGED <<sent, op, kept, shown, answered>>

\* A session has one connection, the latest that said hello or polled.
GetsOpen(c) == Connected(c) /\ op[c] # "send_wait"
Gets(c)     == c = held /\ Connected(c)

Accept ==
    /\ sent < MaxMsgs /\ sent' = sent + 1
    /\ pipe' = [c \in Callers |-> IF Gets(c) THEN Append(pipe[c], sent') ELSE pipe[c]]
    /\ mail' = IF \E c \in Callers : Gets(c) THEN mail ELSE Append(mail, sent')
    /\ UNCHANGED <<held, phase, op, kept, shown, answered>>

\* The asked session replies, once, while the asker's connection is there.
Answer ==
    /\ "asker" \in Callers /\ Connected("asker")
    /\ ~answered /\ answered' = TRUE
    /\ pipe' = [pipe EXCEPT !["asker"] = Append(@, Reply)]
    /\ UNCHANGED <<sent, mail, held, phase, op, kept, shown>>

\* A DELIVER before the ACK is kept.
KeptFirst(c) == <<Head(pipe[c])>> \o kept[c]
Kept(c)      == Append(kept[c], Head(pipe[c]))
Keep(c) ==
    /\ phase[c] = "reading" /\ pipe[c] # <<>> /\ Head(pipe[c]) # Ack
    /\ kept' = [kept EXCEPT ![c] = Kept(c)]
    /\ pipe' = [pipe EXCEPT ![c] = Tail(@)]
    /\ UNCHANGED <<sent, mail, held, phase, op, shown, answered>>

\* The connection is closed with what has not been read from it; next is
\* where the call goes on and keeps is what it still has to give out.
Closes(c, next, keeps, shows) ==
    /\ phase' = [phase EXCEPT ![c] = next]
    /\ pipe' = [pipe EXCEPT ![c] = <<>>]
    /\ kept' = [kept EXCEPT ![c] = keeps]
    /\ shown' = shown \cup ToSet(shows)
    /\ UNCHANGED <<sent, mail, held, answered>>

GetAck(c) ==
    /\ phase[c] = "reading" /\ pipe[c] # <<>> /\ Head(pipe[c]) = Ack
    /\ \/ /\ c = "keepalive"
          /\ Closes(c, "off", <<>>, <<>>) /\ UNCHANGED op
       \/ /\ c = "monitor" /\ op[c] = "hello" /\ kept[c] # <<>>
          /\ Closes(c, "off", <<>>, kept[c]) /\ UNCHANGED op
       \/ /\ c = "monitor" /\ op[c] = "hello" /\ kept[c] = <<>>
          /\ Closes(c, "sent", <<>>, <<>>)
          /\ op' = [op EXCEPT ![c] = "poll_wait"]
       \/ /\ op[c] = "poll"
          /\ Closes(c, "asks", kept[c], <<>>) /\ UNCHANGED op
       \/ /\ op[c] = "poll_wait" /\ kept[c] # <<>>       \* the first of the delivers
          /\ IF c = "wait" THEN Closes(c, "asks", <<Head(kept[c])>>, <<>>)
             ELSE Closes(c, "off", <<>>, <<Head(kept[c])>>)
          /\ UNCHANGED op
       \/ /\ op[c] \in {"poll_wait", "send_wait"} /\ kept[c] = <<>>
          /\ phase' = [phase EXCEPT ![c] = "waiting"]
          /\ pipe' = [pipe EXCEPT ![c] = Tail(@)]
          /\ UNCHANGED <<sent, mail, held, op, kept, shown, answered>>

\* What poll_wait or send_wait waited for.
GetMessage(c) ==
    /\ phase[c] = "waiting" /\ pipe[c] # <<>>
    /\ IF c = "wait" THEN Closes(c, "asks", <<Head(pipe[c])>>, <<>>)
       ELSE Closes(c, "off", <<>>, <<Head(pipe[c])>>)
    /\ UNCHANGED op

\* agent_inbox lists the asks next, on a connection of its own; when that
\* fails it returns the error alone.
AsksAnswered(c) ==
    /\ phase[c] = "asks" /\ Closes(c, "off", <<>>, kept[c]) /\ UNCHANGED op
AsksFails(c) ==
    /\ phase[c] = "asks" /\ Closes(c, "off", <<>>, <<>>) /\ UNCHANGED op

\* Unreachable or WaitTimeout.
TimesOut(c) ==
    /\ phase[c] \in {"sent", "reading", "waiting"}
    /\ Closes(c, "off", <<>>, <<>>) /\ UNCHANGED op

Next ==
    \/ Accept \/ Answer
    \/ \E c \in Callers :
          \/ Request(c) \/ Serve(c) \/ Keep(c) \/ GetAck(c) \/ GetMessage(c)
          \/ AsksAnswered(c) \/ AsksFails(c) \/ TimesOut(c)

Spec == Init /\ [][Next]_vars
-----------------------------------------------------------------------------
\* Where messages are: in the mailbox, and with a call.
Places  == {"mail"} \cup Callers
What(p) == IF p = "mail" THEN mail ELSE kept[p] \o pipe[p]

\* The messages to the session among that, and those its agent was shown.
At(p) == ToSet(What(p)) \cap 1 .. MaxMsgs
Seen  == shown \cap 1 .. MaxMsgs

\* Between the hub and the agents every message is in one place at most
\* (request, poll_wait, send_wait, cmd_monitor, _agent_inbox): none is shown
\* twice, or is still to come once it was, whatever calls run at the same time
\* and fail half way.
InOnePlace ==
    \A p \in Places :
        /\ ToSet(What(p)) \cap shown \subseteq {Ack}
        /\ \A q \in Places \ {p} : ToSet(What(p)) \cap ToSet(What(q)) \subseteq {Ack}

\* What a call has for its agent is in the order it was sent, and there once,
\* over the mailbox, the drain and the connection ("the caller sees them in
\* order", request).
ShownInOrder ==
    \A p \in Places : \A i, j \in DOMAIN What(p) :
        i < j /\ Ack \notin {What(p)[i], What(p)[j]} => What(p)[i] < What(p)[j]

\* Why: a place has messages that were accepted, the asker's only its answer,
\* and a call has nothing before the hub has served it.
Own(p) ==
    CASE p = "asker" -> IF answered THEN {Reply} ELSE {}
      [] p # "asker" -> 1 .. sent

Contents ==
    /\ \A p \in Places : ToSet(What(p)) \subseteq {Ack} \cup Own(p)
    /\ shown \subseteq {Ack} \cup Own("asker") \cup Own("mail")
    /\ InOnePlace /\ ShownInOrder

Typed ==
    /\ sent \in 0 .. MaxMsgs /\ answered \in BOOLEAN
    /\ mail \in Seq(Nat) /\ {pipe, kept} \subseteq [Callers -> Seq(Nat)]
    /\ phase \in [Callers -> {"off", "sent", "reading", "waiting", "asks"}]
    /\ op \in [Callers -> {"hello", "poll", "poll_wait", "send_wait"}]
    /\ held # "asker"
    /\ \A c \in Callers :
          /\ op[c] = "send_wait" => c = "asker"
          /\ c = "asker" /\ phase[c] # "off" => op[c] = "send_wait"
          /\ phase[c] \in {"off", "sent"} => kept[c] = <<>> /\ pipe[c] = <<>>

Inductive == Typed /\ Contents
=============================================================================
