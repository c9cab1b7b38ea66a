------------------------------ MODULE StopHook ------------------------------
(***************************************************************************)
(* The nudges of the hub's plugin in opencode: a session that goes idle    *)
(* while it owes answers is prompted again.  One instance, with one nudge  *)
(* counter, serves all sessions of an opencode; between two awaits of a    *)
(* handler the others run.                                                 *)
(***************************************************************************)
EXTENDS Naturals

CONSTANTS
    Sessions,
    Asks,         \* asks that may be sent to each
    NUDGE_LIMIT,
    MaxFails      \* bound: times the hub is not reached or a prompt fails

VARIABLES
    status,    \* of a session: "busy" or "idle"
    asks,      \* what the hub has open for it
    settled,   \* the asks it has answered
    handler,   \* of its idle event: "none", or "asking" the hub
    nudges,    \* the set last nudged for, and how often; count 0 is undefined
    sent,      \* for checking: nudges sent a session at each set, failed prompts
               \* too, up to one too many
    fails

vars == <<status, asks, settled, handler, nudges, sent, fails>>

Nobody == [session |-> "none", set |-> {}, count |-> 0]

Init ==
    /\ status = [s \in Sessions |-> "busy"]
    /\ asks = [s \in Sessions |-> {}] /\ settled = [s \in Sessions |-> {}]
    /\ handler = [s \in Sessions |-> "none"]
    /\ nudges = Nobody /\ sent = [s \in Sessions |-> [set \in SUBSET Asks |-> 0]]
    /\ fails = 0

AskArrives(s, a) ==
    /\ a \notin asks[s] \cup settled[s]
    /\ asks' = [asks EXCEPT ![s] = @ \cup {a}]
    /\ UNCHANGED <<status, settled, handler, nudges, sent, fails>>

Answer(s, a) ==
    /\ status[s] = "busy" /\ a \in asks[s]
    /\ asks' = [asks EXCEPT ![s] = @ \ {a}]
    /\ settled' = [settled EXCEPT ![s] = @ \cup {a}]
    /\ UNCHANGED <<status, handler, nudges, sent, fails>>

UserPrompts(s) ==
    /\ status[s] = "idle" /\ status' = [status EXCEPT ![s] = "busy"]
    /\ UNCHANGED <<asks, settled, handler, nudges, sent, fails>>

\* session.idle, and the awaits of its handler up to the hub's answer, which
\* comes before the next turn can have ended.
GoesIdle(s) ==
    /\ status[s] = "busy" /\ handler[s] = "none"
    /\ status' = [status EXCEPT ![s] = "idle"]
    /\ handler' = [handler EXCEPT ![s] = "asking"]
    /\ UNCHANGED <<asks, settled, nudges, sent, fails>>

SameSetAny(s) == nudges.count > 0
SameSet(s)    == nudges.count > 0 /\ nudges.session = s /\ nudges.set = asks[s]
Spent(s)      == SameSet(s) /\ nudges.count >= NUDGE_LIMIT

OwesNothing(s) ==
    /\ asks[s] = {}
    /\ nudges' = Nobody /\ UNCHANGED <<status, sent, fails>>

GivesUp(s) ==
    /\ asks[s] # {} /\ Spent(s)
    /\ UNCHANGED <<nudges, status, sent, fails>>

\* It is counted first.  The prompt starts a turn, or fails and is let go: the
\* session stays as it was, and knows nothing.
PromptsAgain(s) ==
    /\ asks[s] # {} /\ ~Spent(s)
    /\ nudges' = [session |-> s, set |-> asks[s],
                  count |-> IF SameSet(s) THEN nudges.count + 1 ELSE 1]
    /\ sent' = [sent EXCEPT ![s][asks[s]] = IF @ > NUDGE_LIMIT THEN @ ELSE @ + 1]
    /\ \/ status' = [status EXCEPT ![s] = "busy"] /\ UNCHANGED fails
       \/ fails < MaxFails /\ fails' = fails + 1 /\ UNCHANGED status

OpenAsks(s) ==
    /\ handler[s] = "asking"
    /\ handler' = [handler EXCEPT ![s] = "none"]
    /\ OwesNothing(s) \/ GivesUp(s) \/ PromptsAgain(s)
    /\ UNCHANGED <<asks, settled>>

\* An unreachable hub looks like one that is owed nothing.
OpenAsksFails(s) ==
    /\ handler[s] = "asking" /\ fails < MaxFails
    /\ handler' = [handler EXCEPT ![s] = "none"]
    /\ nudges' = Nobody /\ fails' = fails + 1
    /\ UNCHANGED <<status, asks, settled, sent>>

Next ==
    \E s \in Sessions :
        \/ \E a \in Asks : AskArrives(s, a) \/ Answer(s, a)
        \/ UserPrompts(s) \/ GoesIdle(s) \/ OpenAsks(s) \/ OpenAsksFails(s)

Spec == Init /\ [][Next]_vars
-----------------------------------------------------------------------------
\* Nobody is given up early: a session is given up only when NUDGE_LIMIT nudges
\* have gone out to it at this very set, whatever the other sessions do (the key
\* of nudges).  One whose prompt failed is a nudge too.
GivenUpLate(s) ==
    OpenAsks(s) /\ GivesUp(s) => sent[s][asks[s]] >= NUDGE_LIMIT

GivesUpLate == [][\A s \in Sessions : GivenUpLate(s)]_vars

Typed ==
    /\ status \in [Sessions -> {"busy", "idle"}]
    /\ asks \in [Sessions -> SUBSET Asks]
    /\ sent \in [Sessions -> [SUBSET Asks -> Nat]]
    /\ nudges \in [session : Sessions \cup {"none"}, set : SUBSET Asks, count : Nat]

\* What is counted in a row has gone out to the session at this set.
Counted ==
    nudges.count > 0 =>
        /\ nudges.session \in Sessions
        /\ LET n == sent[nudges.session][nudges.set]
           IN  n >= nudges.count \/ n > NUDGE_LIMIT

Inductive == Typed /\ Counted

\* "After three nudges at an unchanged ask set it gives up and logs, so a
\* model that refuses to reply cannot spin forever" (ocahub-stop-hook.ts); but
\* the one counter starts again when another session goes idle.
ThreeNudges == \A s \in Sessions : \A set \in SUBSET Asks : sent[s][set] <= NUDGE_LIMIT
=============================================================================
