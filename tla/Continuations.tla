--------------------------- MODULE Continuations ----------------------------
(***************************************************************************)
(* The two plugins of opencode that push a session on which has stopped:   *)
(* retry-stop after a turn that failed or came out empty, needs-user after *)
(* any that ended without the needs_user tool.  One of them is loaded; the *)
(* ladder they climb is the same.  A handler of session.idle sleeps, looks *)
(* at the session, sleeps longer and prompts; the next idle event starts   *)
(* another, and the user need not wait for either.                         *)
(***************************************************************************)
EXTENDS Naturals, FiniteSets

CONSTANTS
    Handlers,     \* bound: handlers under way at a time
    Window,       \* ticks in WINDOW_MS
    MaxPrompts,   \* bound: prompts of the user
    MaxNudges     \* bound: nudges in the history are counted no further

VARIABLES
    plugin,     \* "retry" or "needs", by OPENCODE_NEEDS_USER
    status,     \* "busy" or "idle"
    last,       \* how the last finished turn ended: with "work" and the
                \* needs_user tool, with work "open", "empty", in an "error"
                \* or in a "fatal" one
    nudges,     \* continuation prompts in the history: those added since the
                \* last sweep, and those a sweep was stuck with
    handler,    \* "off", "settling" (the first sleep), "looking" (status was
                \* idle), or "waiting" (the delay)
    since,      \* age of the streak in episodes, or None
    prompts

vars == <<plugin, status, last, nudges, handler, since, prompts>>

None == Window + 1
Outcomes == {"work", "open", "empty", "error", "fatal"}

Init ==
    /\ plugin \in {"retry", "needs"}
    /\ status = "busy" /\ last = "work" /\ nudges = [new |-> 0, stuck |-> 0]
    /\ handler = [h \in Handlers |-> "off"]
    /\ since = None /\ prompts = 0

-----------------------------------------------------------------------------
(* The session.                                                            *)

UserPrompts ==
    /\ prompts < MaxPrompts /\ prompts' = prompts + 1
    /\ status' = "busy"
    /\ UNCHANGED <<plugin, last, nudges, handler, since>>

\* The idle event comes with the end of the turn.
TurnEnds(h) ==
    /\ status = "busy" /\ handler[h] = "off"
    /\ status' = "idle" /\ last' \in Outcomes
    /\ handler' = [handler EXCEPT ![h] = "settling"]
    /\ UNCHANGED <<plugin, nudges, since, prompts>>

Tick ==
    /\ since # None /\ since < Window /\ since' = since + 1
    /\ UNCHANGED <<plugin, status, last, nudges, handler, prompts>>
-----------------------------------------------------------------------------
(* The handler.                                                            *)

Goes(h, pc) == handler' = [handler EXCEPT ![h] = pc]

\* After the first sleep: somebody else may have taken the session over.
Settle(h) ==
    /\ handler[h] = "settling"
    /\ Goes(h, IF status = "idle" THEN "looking" ELSE "off")
    /\ UNCHANGED <<plugin, status, last, nudges, since, prompts>>

RetryVerdict(seen) ==
    CASE seen \in {"work", "open"} -> "clean"
      [] seen = "fatal" -> "leave"
      [] seen \in {"empty", "error"} -> "push"

NeedsVerdict(seen) ==
    CASE seen = "work" -> "clean"
      [] seen = "fatal" -> "leave"
      [] seen \in {"open", "empty", "error"} -> "push"

Verdict(seen) == IF plugin = "retry" THEN RetryVerdict(seen) ELSE NeedsVerdict(seen)

\* What the messages show.  needs-user passes over an answer that broke off
\* unfinished and finds nothing.  A turn under way again is a newer message,
\* or to retry-stop an answer that looks empty, or clean, so far.
Seen ==
    CASE status = "idle" /\ ~(plugin = "needs" /\ last = "error") -> {last}
      [] status = "idle" /\ plugin = "needs" /\ last = "error" -> {last, "newer"}
      [] status = "busy" /\ plugin = "needs" -> {"newer"}
      [] status = "busy" /\ plugin = "retry" -> {"newer", "empty", "open"}

\* Each nudge in the history is deleted, or its deletion fails, which is let go:
\* all do in a busy session.  One that is not known for a nudge, as with a line
\* break in its text, or came after the messages were read, stays as well.
SweepNone == nudges' = nudges
Sweep ==
    \E left \in 0 .. nudges.new + nudges.stuck :
        left <= MaxNudges /\ nudges' = [new |-> 0, stuck |-> left]

SinceNow(ep) == 0
Since(ep)    == IF ep = None THEN 0 ELSE ep

Look(h) ==
    /\ handler[h] = "looking"
    /\ \E seen \in Seen :
          LET verdict == IF seen = "newer" THEN "leave" ELSE Verdict(seen) IN
          CASE verdict = "leave" ->
                  Goes(h, "off") /\ UNCHANGED <<since, nudges>>
            [] verdict = "clean" ->
                  Goes(h, "off") /\ since' = None /\ Sweep
            [] verdict = "push" /\ since = Window ->      \* giving up
                  Goes(h, "off") /\ since' = None /\ UNCHANGED nudges
            [] verdict = "push" /\ since # Window ->
                  Goes(h, "waiting") /\ since' = Since(since) /\ Sweep
    /\ UNCHANGED <<plugin, status, last, prompts>>

\* The prompt goes out after the delay, whatever the session does by then.
Push(h) ==
    /\ handler[h] = "waiting"
    /\ Goes(h, "off")
    /\ nudges' = [nudges EXCEPT !.new = IF @ < MaxNudges THEN @ + 1 ELSE @]
    /\ status' = "busy"
    /\ UNCHANGED <<plugin, last, since, prompts>>

\* Any of the awaited calls may fail and end the handler.
CallFails(h) ==
    /\ handler[h] # "off"
    /\ Goes(h, "off")
    /\ UNCHANGED <<plugin, status, last, nudges, since, prompts>>

Next ==
    \/ UserPrompts \/ Tick
    \/ \E h \in Handlers :
          TurnEnds(h) \/ Settle(h) \/ Look(h) \/ Push(h) \/ CallFails(h)

\* Turns end, sleeps and calls return, time passes.
Fairness ==
    /\ WF_vars(\E h \in Handlers : TurnEnds(h))
    /\ \A h \in Handlers : WF_vars(Settle(h)) /\ WF_vars(Look(h)) /\ WF_vars(Push(h))
    /\ WF_vars(Tick)

Spec == Init /\ [][Next]_vars /\ Fairness
-----------------------------------------------------------------------------
\* A session that always fails is pushed for a window and then left alone,
\* whatever handlers the user's own prompts have set up besides (episodes).
AtRest == status = "idle" /\ \A h \in Handlers : handler[h] = "off"

StreakEnds == <>[]AtRest

\* "A long streak leaves at most one continuation message in the context"
\* (retry-stop), beside those whose deletion failed, if the user does not prompt
\* between: none goes out before the one in front of it was swept for.
OneNudge == prompts = 0 => nudges.new <= 1

Typed ==
    /\ plugin \in {"retry", "needs"} /\ status \in {"busy", "idle"} /\ last \in Outcomes
    /\ nudges \in [new : Nat, stuck : Nat] /\ prompts \in Nat
    /\ handler \in [Handlers -> {"off", "settling", "looking", "waiting"}]

\* Without the user's prompts one handler at a time is under way, in an idle
\* session, and has swept before it waits.
OneUnderWay ==
    prompts = 0 =>
        /\ \A h \in Handlers : handler[h] # "off" => status = "idle"
        /\ \A h \in Handlers : handler[h] = "waiting" => nudges.new = 0
        /\ \A h, k \in Handlers : handler[h] # "off" /\ handler[k] # "off" => h = k

Inductive == Typed /\ OneUnderWay /\ OneNudge
=============================================================================
