---------------------------- MODULE SelfCompact -----------------------------
(***************************************************************************)
(* The self-compact plugin of opencode: a tool with which the agent has    *)
(* its session compacted, a compaction forced at idle above a threshold,   *)
(* and notes of the context pressure on the user's messages.  All three    *)
(* read the usage of the last finished answer over an await, and queue or  *)
(* note over another.                                                      *)
(***************************************************************************)
EXTENDS Naturals, FiniteSets

CONSTANTS
    MaxLevel,        \* usage is 0 .. MaxLevel, in units of HINT_STEP_PCT
    MIN_PCT, HINT_PCT, FORCE_PCT,
    MaxTurns,        \* bound: finished answers, which are numbered
    Tools,           \* compact calls of one turn that may run together
    MaxCompactions   \* bound: compactions waiting to run

Requesters == Tools \cup {"idle"}

VARIABLES
    status,       \* "busy", "idle" or "compacting"
    fill,         \* the context as it really is
    turn, level,  \* the last finished answer, and the usage it was charged
    failed,       \* it ended in an error
    call,         \* a caller's step, and the answer whose usage it read:
                  \* "off", "reading" the usage, "noting" before it queues
    compactedAt,  \* answer a compaction was last queued against; 0 is none
    hintedAt,     \* usage at the last note, or None
    queued,       \* summarize calls under way
    of            \* for checking: how many compactions were queued at an answer

vars == <<status, fill, turn, level, failed, call, compactedAt, hintedAt,
          queued, of>>

None == MaxLevel + 1
Off  == [at |-> "off", turn |-> 0]

Init ==
    /\ status = "busy" /\ fill = 0 /\ turn = 0 /\ level = 0 /\ failed = FALSE
    /\ call = [c \in Requesters |-> Off]
    /\ compactedAt = 0 /\ hintedAt = None /\ queued = 0
    /\ of = [t \in 1 .. MaxTurns |-> 0]

\* No call runs.  It takes a few local requests: a turn does not end before
\* its tools have, and no answer comes between an idle event and its handler.
Settled == \A c \in Requesters : call[c] = Off

session == <<status, fill, turn, level, failed>>
plugin  == <<call, compactedAt, hintedAt, queued, of>>

-----------------------------------------------------------------------------
\* An answer is finished, in the middle of a run or at its end; what the turn
\* has read meanwhile counts from the next on.
Answers ==
    /\ status = "busy" /\ turn < MaxTurns /\ Settled
    /\ turn' = turn + 1 /\ level' = fill /\ failed' \in BOOLEAN
    /\ fill' \in fill .. MaxLevel
    /\ UNCHANGED <<status, plugin>>

\* session.idle: the handler begins to read the usage.
GoesIdle ==
    /\ status = "busy" /\ queued = 0 /\ Settled
    /\ status' = "idle" /\ call' = [call EXCEPT !["idle"].at = "reading"]
    /\ UNCHANGED <<fill, turn, level, failed, compactedAt, hintedAt, queued, of>>

\* The running loop takes a queued compaction next, an idle session starts for
\* it.  A summary that fails leaves the context as full as it was.
Compacts ==
    /\ queued > 0 /\ Settled
    /\ queued' = queued - 1 /\ status' = "busy"
    /\ fill' \in {0, fill}
    /\ UNCHANGED <<turn, level, failed, call, compactedAt, hintedAt, of>>

\* A tool call in a turn.
Call(c) ==
    /\ status = "busy" /\ call[c] = Off /\ call["idle"] = Off
    /\ call' = [call EXCEPT ![c].at = "reading"]
    /\ UNCHANGED <<session, compactedAt, hintedAt, queued, of>>

Threshold(c) == IF c = "idle" THEN FORCE_PCT ELSE MIN_PCT

MayCompactAgain(c) == turn > 0 /\ level >= Threshold(c)
MayCompactOnce(c) == MayCompactAgain(c) /\ compactedAt = 0
MayCompact(c) ==
    /\ turn > 0 /\ level >= Threshold(c)
    /\ compactedAt # turn
    /\ c = "idle" => ~failed     \* retry-stop owns error recovery

Checks(c) ==
    /\ call[c].at = "reading"
    /\ call' = [call EXCEPT ![c] =
                  IF MayCompact(c) THEN [at |-> "noting", turn |-> turn] ELSE Off]
    /\ UNCHANGED <<session, compactedAt, hintedAt, queued, of>>

QueueCompaction(c) ==
    /\ call[c].at = "noting" /\ queued < MaxCompactions
    /\ LET t == call[c].turn IN
          compactedAt' = t /\ of' = [of EXCEPT ![t] = @ + 1]
    /\ hintedAt' = None /\ queued' = queued + 1
    /\ call' = [call EXCEPT ![c] = Off]
    /\ UNCHANGED session

HintClimbs(prev) == prev = None \/ level >= prev + 1

\* chat.message on the user's prompt.  A fall is taken as the new base.
Prompt ==
    /\ status = "idle" /\ status' = "busy"
    /\ hintedAt' = IF turn > 0 /\ level >= HINT_PCT /\ (HintClimbs(hintedAt) \/ level < hintedAt)
                    THEN level ELSE hintedAt
    /\ UNCHANGED <<fill, turn, level, failed, call, compactedAt, queued, of>>

Next ==
    \/ Answers \/ GoesIdle \/ Compacts \/ Prompt
    \/ \E c \in Tools : Call(c)
    \/ \E c \in Requesters : Checks(c) \/ QueueCompaction(c)

\* What is queued runs, and the plugin's handlers go on; the requests they make
\* to the server beside them succeed.
Fairness ==
    /\ WF_vars(Compacts)
    /\ \A c \in Requesters : WF_vars(Checks(c)) /\ WF_vars(QueueCompaction(c))

Spec == Init /\ [][Next]_vars /\ Fairness
-----------------------------------------------------------------------------
\* No answer is compacted twice: neither by the tool and the idle event, nor
\* again and again at a mark where the compaction fails (compactedAt).
OncePerAnswer == \A t \in DOMAIN of : of[t] <= 1

Typed ==
    /\ turn \in 0 .. MaxTurns /\ compactedAt \in 0 .. turn
    /\ of \in [1 .. MaxTurns -> Nat]
    /\ call \in [Requesters -> [at : {"off", "reading", "noting"}, turn : Nat]]

\* One caller at a time queues at the last answer, which is past the mark; no
\* compaction was queued past it.
MarkIsLatest ==
    /\ \A t \in DOMAIN of : of[t] > 0 => t <= compactedAt
    /\ \A c \in Requesters : call[c].at = "noting" => call[c].turn = turn /\ compactedAt < turn
    /\ \A c, d \in Requesters : call[c] # Off /\ call[d] # Off => c = d

Inductive == Typed /\ MarkIsLatest /\ OncePerAnswer

\* A session over the limit that goes idle after a good answer is compacted,
\* without the agent's help (FORCE_PCT).
Full   == status = "idle" /\ turn > 0 /\ level >= FORCE_PCT /\ ~failed
Forced == turn > 0 /\ of[turn] > 0

FullIsForced == Full ~> Forced
=============================================================================
