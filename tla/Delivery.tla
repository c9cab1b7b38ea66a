------------------------------ MODULE Delivery ------------------------------
(***************************************************************************)
(* What ocahub promises of the messages it is sent and of the asks among   *)
(* them.  A message is in one place at most.  It goes from the mailbox to  *)
(* one connection, from there to an agent, and never back; on the way it   *)
(* may be lost, since rows grow old and frames are not acknowledged.  One  *)
(* that its sender was told reached nobody reaches nobody.  An ask is open *)
(* from its sending on, once, and closed by a reply or before one comes.   *)
(***************************************************************************)
EXTENDS Naturals

CONSTANTS Messages, Conns   \* messages are numbered as they come

VARIABLES
    accepted,   \* how many came
    kept,       \* those in the mailbox
    given,      \* those with each connection
    read,       \* those an agent was shown
    refused,    \* those whose sender was told that they reached nobody
    open,       \* asks to which a reply is owed
    replies     \* what was sent in reply to each ask

places       == <<kept, given, read>>
ledger       == <<open, replies>>
deliveryVars == <<accepted, places, refused, ledger>>

Init ==
    /\ accepted = 0
    /\ kept = {} /\ given = [c \in Conns |-> {}] /\ read = {}
    /\ refused = {}
    /\ open = {} /\ replies = [ask \in Messages |-> {}]

New == accepted + 1

\* The next message is kept, or given to a connection, or lost on its way to one.
Accept ==
    /\ New \in Messages
    /\ accepted' = New
    /\ \/ kept' = kept \cup {New} /\ UNCHANGED given
       \/ UNCHANGED kept /\ \E c \in Conns : given' = [given EXCEPT ![c] = @ \cup {New}]
       \/ UNCHANGED <<kept, given>>
    /\ UNCHANGED <<read, refused>>

Refuse ==
    /\ New \in Messages
    /\ accepted' = New
    /\ refused' = refused \cup {New}
    /\ UNCHANGED places

Tell ==
    /\ Accept \/ Refuse
    /\ UNCHANGED ledger

Ask ==
    /\ Accept
    /\ open' = open \cup {New}
    /\ UNCHANGED replies

\* An open ask is closed by what is sent to answer it, even in vain.
Reply(ask) ==
    /\ ask \in open
    /\ open' = open \ {ask}
    /\ \/ Accept /\ replies' = [replies EXCEPT ![ask] = @ \cup {New}]
       \/ Refuse /\ UNCHANGED replies

\* Messages move on, or are lost, and asks are given up.
Move ==
    LET taken == kept \ kept'
        left  == UNION {given[c] \ given'[c] : c \in Conns}
    IN  /\ kept' \subseteq kept
        /\ \A c \in Conns : given'[c] \subseteq given[c] \cup taken
        /\ \A c, d \in Conns : c # d => given'[c] \cap given'[d] \cap taken = {}
        /\ read \subseteq read' /\ read' \subseteq read \cup left
        /\ open' \subseteq open
        /\ UNCHANGED <<accepted, refused, replies>>

Next ==
    \/ Tell
    \/ Ask
    \/ \E ask \in Messages : Reply(ask)
    \/ Move

Spec == Init /\ [][Next]_deliveryVars
=============================================================================
