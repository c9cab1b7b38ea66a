---------------------------- MODULE ToolToggles -----------------------------
(***************************************************************************)
(* Tools turned on and off for a session of opencode: the dialog that      *)
(* appends permission rules to the session, and the gate that answers the  *)
(* calls to a denied tool.  The last rule that names a tool decides.       *)
(*                                                                         *)
(* A dialog has one call under way at most, but dialogs are opened over    *)
(* one another and theirs overlap.  The server handles a call at some      *)
(* moment before its answer arrives, and either way may be lost.           *)
(***************************************************************************)
EXTENDS Naturals, Sequences

CONSTANTS
    Tools,
    Dialogs,    \* the dialog opened by each run of the command
    MaxRules    \* bound: rules of a session

VARIABLES
    rules,      \* of the session, at the server
    dialog,     \* of a dialog: "closed", "reading" (the call is on its way),
                \* "read" (the answer is), "open", "busy" and "applied" (the same
                \* of an update)
    call,       \* what is on its way: the rule of an update, or the answer's rules
    view,       \* the rules it shows
    previous,   \* those it falls back to
    shown,      \* the dialog on the screen, or 0
    heard       \* for checking: how many rules the last answer it took had

vars == <<rules, dialog, call, view, previous, shown, heard>>

\* Those for parts of a tool's calls do not count.
Rules == [permission : Tools, whole : BOOLEAN, action : {"allow", "deny", "ask"}]

Its(list, i, t) == list[i].permission = t /\ list[i].whole

Off(list, t) ==
    \E i \in DOMAIN list :
        /\ Its(list, i, t) /\ list[i].action = "deny"
        /\ \A j \in i + 1 .. Len(list) : ~Its(list, j, t)

\* tool-gate, which reads the session at every call.
Denied(t) == Off(rules, t)

\* What the session's own configuration has left.
Init ==
    /\ rules \in {<<>>} \cup {<<r>> : r \in Rules}
    /\ dialog = [d \in Dialogs |-> "closed"]
    /\ call = [d \in Dialogs |-> <<>>]
    /\ view = [d \in Dialogs |-> <<>>] /\ previous = view
    /\ shown = 0 /\ heard = [d \in Dialogs |-> 0]

Step(d, s) == dialog' = [dialog EXCEPT ![d] = s]

\* show, up to its await.
Show(d) ==
    /\ dialog[d] = "closed" /\ Step(d, "reading")
    /\ UNCHANGED <<rules, call, view, previous, shown, heard>>

Reads(d) ==
    /\ dialog[d] = "reading" /\ Step(d, "read")
    /\ call' = [call EXCEPT ![d] = rules]
    /\ UNCHANGED <<rules, view, previous, shown, heard>>

\* A call is over: the dialog comes on top.
Ends(d) ==
    /\ Step(d, "open") /\ shown' = d
    /\ call' = [call EXCEPT ![d] = <<>>] /\ previous' = [previous EXCEPT ![d] = <<>>]
    /\ UNCHANGED rules

\* What the answer has is what it shows.
Shows(d) ==
    /\ view' = [view EXCEPT ![d] = call[d]] /\ heard' = [heard EXCEPT ![d] = Len(call[d])]
    /\ Ends(d)

Opens(d) == dialog[d] = "read" /\ Shows(d)

CouldNotRead(d) ==
    /\ dialog[d] \in {"reading", "read"} /\ Step(d, "closed")
    /\ call' = [call EXCEPT ![d] = <<>>]
    /\ UNCHANGED <<rules, view, previous, shown, heard>>

\* The choice is shown at once.
Toggle(t) ==
    /\ shown # 0 /\ dialog[shown] = "open" /\ Len(view[shown]) < MaxRules
    /\ LET rule == [permission |-> t, whole |-> TRUE,
                    action |-> IF Off(view[shown], t) THEN "allow" ELSE "deny"]
       IN /\ call' = [call EXCEPT ![shown] = <<rule>>]
          /\ view' = [view EXCEPT ![shown] = Append(@, rule)]
    /\ previous' = [previous EXCEPT ![shown] = view[shown]]
    /\ Step(shown, "busy")
    /\ UNCHANGED <<rules, shown, heard>>

\* The server appends it, and answers with the rules it has then.
Updates(d) ==
    /\ dialog[d] = "busy" /\ Len(rules) < MaxRules
    /\ rules' = rules \o call[d]
    /\ call' = [call EXCEPT ![d] = rules']
    /\ Step(d, "applied")
    /\ UNCHANGED <<view, previous, shown, heard>>

Done(d) == dialog[d] = "applied" /\ Shows(d)

\* The call or its answer is lost: the server may have the rule all the same.
RolledBackLate(d) == view[d]
RolledBack(d)     == previous[d]
Failed(d) ==
    /\ dialog[d] \in {"busy", "applied"}
    /\ view' = [view EXCEPT ![d] = RolledBack(d)]
    /\ Ends(d) /\ UNCHANGED heard

\* A call that was given up arrives late, or another client changes the session.
Elsewhere(r) ==
    /\ Len(rules) < MaxRules /\ r.whole /\ r.action # "ask"
    /\ rules' = Append(rules, r)
    /\ UNCHANGED <<dialog, call, view, previous, shown, heard>>

Next ==
    \/ \E d \in Dialogs :
          \/ Show(d) \/ Reads(d) \/ Opens(d) \/ CouldNotRead(d)
          \/ Updates(d) \/ Done(d) \/ Failed(d)
    \/ \E t \in Tools : Toggle(t)
    \/ \E r \in Rules : Elsewhere(r)

Spec == Init /\ [][Next]_vars
-----------------------------------------------------------------------------
\* The tools whose rules have changed at the server since a dialog last heard of
\* it: through other dialogs, or an update of its own whose answer was lost.
Untold(d) == {rules[i].permission : i \in heard[d] + 1 .. Len(rules)}

\* A dialog without an update under way shows those tools as off whose calls are
\* denied, save the ones of which it was not told, in whatever order dialogs read,
\* update, fail and roll back over one another: a rollback shows no rule that the
\* server does not have, and drops none that an answer has shown (toggle).
ShowsWhatIsDenied ==
    \A d \in Dialogs : dialog[d] = "open" =>
        \A t \in Tools \ Untold(d) : Denied(t) <=> Off(view[d], t)

\* Why: what answers carry and dialogs fall back to are beginnings of the
\* session's rules, which only grow.
Beginning(list) == Len(list) <= Len(rules) /\ \A i \in 1 .. Len(list) : list[i] = rules[i]

Heard(d, list) == Beginning(list) /\ heard[d] = Len(list)

Inductive ==
    /\ rules \in Seq(Rules)
    /\ dialog \in [Dialogs -> {"closed", "reading", "read", "open", "busy", "applied"}]
    /\ call \in [Dialogs -> Seq(Rules)] /\ view \in [Dialogs -> Seq(Rules)]
    /\ previous \in [Dialogs -> Seq(Rules)] /\ heard \in [Dialogs -> Nat]
    /\ shown # 0 => shown \in Dialogs
    /\ \A d \in Dialogs :
          /\ dialog[d] \in {"read", "applied"} => Beginning(call[d])
          /\ dialog[d] = "open" => Heard(d, view[d])
          /\ dialog[d] \in {"busy", "applied"} => Heard(d, previous[d])
=============================================================================
