------------------------------- MODULE Forward ------------------------------
(***************************************************************************)
(* Byte forwarding between a client and the guest (vzlink/forward.py): one *)
(* _copy task per direction in one task group.  EOF of one end is passed   *)
(* on as a half-close while the other direction goes on; an error in one   *)
(* direction cancels the other; when both tasks are over, both streams are *)
(* closed.                                                                 *)
(*                                                                         *)
(* A direction is named by the end it copies from.  One action is what a   *)
(* task does between two awaits, or a move of one of the ends.             *)
(***************************************************************************)
EXTENDS Naturals, Sequences

CONSTANTS
    MaxChunks,  \* bound: chunks an end writes
    Room        \* chunks a stream takes before send waits

ASSUME BoundAssumption == MaxChunks \in Nat /\ Room \in Nat

Ends     == {"client", "guest"}
Other(e) == IF e = "client" THEN "guest" ELSE "client"
Chunks   == 1..MaxChunks

VARIABLES
    conn,       \* the end's connection: "up"; "broken": reset after all it wrote had come; "lost"
    wrote,      \* history: the chunks the end has written
    fin,        \* the end has half-closed
    inbound,    \* what has come from the end and no receive has returned
    copy,       \* where the end's _copy is
    hand,       \* the chunk it holds, as a sequence
    outbound,   \* what it sent and the other end has not read
    eof,        \* send_eof went out to the other end
    count,      \* its ForwardStats
    read,       \* what the other end has read of it
    over,       \* the other end has seen the end of it
    ended_by    \* forward's result; "none" until it returns

endVars  == <<conn, wrote, fin, read, over>>
copyVars == <<inbound, copy, hand, outbound, eof, count>>
vars     == <<endVars, copyVars, ended_by>>

Finals == {"done", "raised", "cancelled"}

TypeOK ==
    /\ conn \in [Ends -> {"up", "broken", "lost"}]
    /\ {wrote, read, inbound, outbound} \subseteq [Ends -> Seq(Chunks)]
    /\ hand \in [Ends -> {<<>>} \cup {<<chunk>> : chunk \in Chunks}]
    /\ {fin, eof, over} \subseteq [Ends -> BOOLEAN]
    /\ copy \in [Ends -> {"receive", "send", "drain"} \cup Finals]
    /\ count \in [Ends -> 0..MaxChunks]
    /\ ended_by \in {"none", "eof", "error"}
    /\ \A e \in Ends : hand[e] # <<>> <=> copy[e] = "send"

Nothing == [e \in Ends |-> <<>>]
Nowhere == [e \in Ends |-> FALSE]

Init ==
    /\ conn = [e \in Ends |-> "up"]
    /\ wrote = Nothing /\ inbound = Nothing /\ hand = Nothing
    /\ outbound = Nothing /\ read = Nothing
    /\ fin = Nowhere /\ eof = Nowhere /\ over = Nowhere
    /\ copy = [e \in Ends |-> "receive"]
    /\ count = [e \in Ends |-> 0]
    /\ ended_by = "none"

-----------------------------------------------------------------------------
(* The ends, as long as forward has not closed the streams *)

Up(e) == conn[e] = "up"

Writes(e) ==
    LET chunk == Len(wrote[e]) + 1
    IN  /\ ended_by = "none" /\ Up(e) /\ ~fin[e] /\ chunk <= MaxChunks
        /\ wrote' = [wrote EXCEPT ![e] = Append(@, chunk)]
        /\ inbound' = [inbound EXCEPT ![e] = Append(@, chunk)]
        /\ UNCHANGED <<conn, fin, read, over, copy, hand, outbound, eof, count, ended_by>>

HalfCloses(e) ==
    /\ ended_by = "none" /\ Up(e) /\ ~fin[e]
    /\ fin' = [fin EXCEPT ![e] = TRUE]
    /\ UNCHANGED <<conn, wrote, read, over, copyVars, ended_by>>

\* The reset may overtake what the end has written, never what it has not read.
Resets(e) ==
    /\ ended_by = "none" /\ Up(e)
    /\ \/ conn' = [conn EXCEPT ![e] = "broken"] /\ UNCHANGED inbound
       \/ conn' = [conn EXCEPT ![e] = "lost"] /\ inbound' = [inbound EXCEPT ![e] = <<>>]
    /\ outbound' = [outbound EXCEPT ![Other(e)] = <<>>]
    /\ UNCHANGED <<wrote, fin, read, over, copy, hand, eof, count, ended_by>>

\* The other end reads a chunk of e, and at last the end of it.
Reads(e) ==
    /\ Up(Other(e)) /\ outbound[e] # <<>>
    /\ read' = [read EXCEPT ![e] = Append(@, Head(outbound[e]))]
    /\ outbound' = [outbound EXCEPT ![e] = Tail(@)]
    /\ UNCHANGED <<conn, wrote, fin, over, inbound, copy, hand, eof, count, ended_by>>

SeesEnd(e) ==
    /\ Up(Other(e)) /\ outbound[e] = <<>> /\ ~over[e]
    /\ eof[e] \/ ended_by # "none"
    /\ over' = [over EXCEPT ![e] = TRUE]
    /\ UNCHANGED <<conn, wrote, fin, read, copyVars, ended_by>>

-----------------------------------------------------------------------------
(* _copy *)

Goes(e, place) == copy' = [copy EXCEPT ![e] = place]

Receives(e) ==
    /\ copy[e] = "receive" /\ inbound[e] # <<>>
    /\ hand' = [hand EXCEPT ![e] = <<Head(inbound[e])>>]
    /\ inbound' = [inbound EXCEPT ![e] = Tail(@)]
    /\ Goes(e, "send")
    /\ UNCHANGED <<endVars, outbound, eof, count, ended_by>>

\* Mutant: the end is passed on although more has come.
ReceivesEndEarly(e) ==
    /\ copy[e] = "receive" /\ fin[e]
    /\ eof' = [eof EXCEPT ![e] = Up(Other(e))]
    /\ Goes(e, "done")
    /\ UNCHANGED <<endVars, inbound, hand, outbound, count, ended_by>>

\* The half-close; a send_eof that fails is swallowed.
ReceivesEnd(e) ==
    /\ copy[e] = "receive" /\ inbound[e] = <<>> /\ fin[e] /\ conn[e] # "lost"
    /\ eof' = [eof EXCEPT ![e] = Up(Other(e))]
    /\ Goes(e, "done")
    /\ UNCHANGED <<endVars, inbound, hand, outbound, count, ended_by>>

\* Mutant: the chunk is kept for another try.
SendsKeeps(e) ==
    /\ copy[e] = "send" /\ Up(Other(e))
    /\ outbound' = [outbound EXCEPT ![e] = @ \o hand[e]]
    /\ Goes(e, "drain")
    /\ UNCHANGED <<endVars, inbound, hand, eof, count, ended_by>>

\* send hands the chunk to the stream and then waits for room.
Sends(e) ==
    /\ copy[e] = "send" /\ Up(Other(e))
    /\ outbound' = [outbound EXCEPT ![e] = @ \o hand[e]]
    /\ hand' = [hand EXCEPT ![e] = <<>>]
    /\ Goes(e, "drain")
    /\ UNCHANGED <<endVars, inbound, eof, count, ended_by>>

\* Mutant: a direction waits until both have room.
HasRoomBoth(e) == \A f \in Ends : Len(outbound[f]) <= Room

HasRoom(e) == Len(outbound[e]) <= Room

Drained(e) ==
    /\ copy[e] = "drain" /\ HasRoom(e)
    /\ count' = [count EXCEPT ![e] = @ + 1]
    /\ Goes(e, "receive")
    /\ UNCHANGED <<endVars, inbound, hand, outbound, eof, ended_by>>

\* An error of either stream: the chunk in hand is lost.
Raises(e) ==
    /\ \/ copy[e] = "receive" /\ inbound[e] = <<>> /\ ~Up(e)
       \/ copy[e] = "send" /\ ~Up(Other(e))
    /\ hand' = [hand EXCEPT ![e] = <<>>]
    /\ Goes(e, "raised")
    /\ UNCHANGED <<endVars, inbound, outbound, eof, count, ended_by>>

\* Mutant: the tasks run beside each other without a group.
CancelledNever(e) ==
    /\ copy[e] \notin Finals /\ copy[Other(e)] = "raised"
    /\ UNCHANGED vars

\* The task group cancels the task that is left.
Cancelled(e) ==
    /\ copy[e] \notin Finals /\ copy[Other(e)] = "raised"
    /\ hand' = [hand EXCEPT ![e] = <<>>]
    /\ Goes(e, "cancelled")
    /\ UNCHANGED <<endVars, inbound, outbound, eof, count, ended_by>>

Copies(e) ==
    \/ Receives(e) \/ ReceivesEnd(e) \/ Sends(e) \/ Drained(e)
    \/ Raises(e) \/ Cancelled(e)

\* Mutant: one direction's end ends the connection.
AllOverEither == \E e \in Ends : copy[e] \in Finals

AllOver == \A e \in Ends : copy[e] \in Finals

\* aclose drops what the streams have not got rid of.
Returns ==
    /\ ended_by = "none" /\ AllOver
    /\ ended_by' = IF \E e \in Ends : copy[e] = "raised" THEN "error" ELSE "eof"
    /\ outbound' = [e \in Ends |-> IF Len(outbound[e]) <= Room THEN outbound[e]
                                   ELSE SubSeq(outbound[e], 1, Room)]
    /\ UNCHANGED <<endVars, inbound, copy, hand, eof, count>>

EndsMove(e) == Writes(e) \/ HalfCloses(e) \/ Resets(e) \/ Reads(e) \/ SeesEnd(e)

Next == Returns \/ \E e \in Ends : EndsMove(e) \/ Copies(e)

Spec == Init /\ [][Next]_vars

\* The tasks run, and the guest reads what has come for it; the client need not.
Fairness ==
    /\ WF_vars(Returns)
    /\ \A e \in Ends : WF_vars(Copies(e))
    /\ WF_vars(Reads("client")) /\ WF_vars(SeesEnd("client"))

FairSpec == Spec /\ Fairness

-----------------------------------------------------------------------------
(* Properties *)

Broken == \E e \in Ends : ~Up(e)

Streams == INSTANCE Pipe WITH
    Sources <- Ends, sent <- wrote, ended <- fin, got <- read, cut <- Broken

\* forward.py:3-5: both directions are streams that keep their order and their
\* end, whatever the other direction does; only a reset may cut one short.
Forwards == Streams!Spec

\* forward.py:36-43: the numbers in the log are those of the connection: a clean
\* end has counted everything either end wrote, and nothing is counted twice.
CountsAll == \A e \in Ends :
    /\ count[e] <= Len(wrote[e])
    /\ ended_by = "eof" => count[e] = Len(wrote[e])

\* forward.py:3-6: a client that stops reading, or is done sending, does not
\* keep its own bytes and its end from the guest, and "An error in either
\* direction ends both": no connection hangs half open.
Flows ==
    /\ \A n \in Chunks : Len(wrote["client"]) >= n ~> Len(read["client"]) >= n \/ Broken
    /\ fin["client"] ~> over["client"] \/ Broken
    /\ \A e \in Ends : copy[e] = "raised" ~> ended_by = "error"
=============================================================================
