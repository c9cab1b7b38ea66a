-------------------------------- MODULE Pipe --------------------------------
(***************************************************************************)
(* What a forwarded connection promises: two independent streams, named by *)
(* their sources.  Chunks arrive in order and once, and the end arrives    *)
(* after the last of them.  A cut connection may lose what has not arrived,*)
(* and ends early.                                                         *)
(***************************************************************************)
EXTENDS Naturals, Sequences

CONSTANTS Sources, Chunks

VARIABLES
    sent, ended,    \* what each source wrote, and whether it is done
    got, over,      \* what the other side read, and whether it saw the end
    cut             \* the connection broke somewhere

pipeVars == <<sent, ended, got, over, cut>>

Init ==
    /\ sent = [s \in Sources |-> <<>>] /\ ended = [s \in Sources |-> FALSE]
    /\ got = [s \in Sources |-> <<>>] /\ over = [s \in Sources |-> FALSE]
    /\ cut = FALSE

Send(s, chunk) ==
    /\ ~ended[s]
    /\ sent' = [sent EXCEPT ![s] = Append(@, chunk)]
    /\ UNCHANGED <<ended, got, over, cut>>

End(s) ==
    /\ ended' = [ended EXCEPT ![s] = TRUE]
    /\ UNCHANGED <<sent, got, over, cut>>

Get(s) ==
    /\ ~over[s]
    /\ Len(got[s]) < Len(sent[s])
    /\ got' = [got EXCEPT ![s] = Append(@, sent[s][Len(@) + 1])]
    /\ UNCHANGED <<sent, ended, over, cut>>

Finish(s) ==
    /\ cut \/ (ended[s] /\ got[s] = sent[s])
    /\ over' = [over EXCEPT ![s] = TRUE]
    /\ UNCHANGED <<sent, ended, got, cut>>

Break ==
    /\ cut' = TRUE
    /\ UNCHANGED <<sent, ended, got, over>>

Next ==
    \/ Break
    \/ \E s \in Sources : End(s) \/ Get(s) \/ Finish(s) \/ \E chunk \in Chunks : Send(s, chunk)

Spec == Init /\ [][Next]_pipeVars
=============================================================================
