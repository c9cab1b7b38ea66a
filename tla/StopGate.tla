------------------------------ MODULE StopGate ------------------------------
(***************************************************************************)
(* wrapty's decision about the end of a turn: the nudge state of the       *)
(* wrapper, the hook that asks it at every Stop event, the tasks that type *)
(* the agent back, and the watchdog over a session that waits for work in  *)
(* the background.  The session itself -- agent, human, transcript and     *)
(* input box -- is the environment.                                        *)
(*                                                                         *)
(* Every RPC of the wrapper but send runs without an await, so it is one   *)
(* step.  Sleeps are steps that may come at any later time.                *)
(***************************************************************************)
EXTENDS Naturals, Sequences

CONSTANTS
    Tasks,        \* background tasks of the session
    PokeLimit,    \* IDLE_POKE_LIMIT
    MaxPolls,     \* COMPACT_MAX_WAIT / COMPACT_POLL_INTERVAL
    MaxCount,     \* bound: nudges are counted no further
    MaxJobs,      \* bound: tasks of a kind that are to type at a time
    MaxBox        \* bound: no turn ends with more lines entered than this

ASSUME StopGateAssumption ==
    /\ PokeLimit \in Nat \ {0} /\ MaxPolls \in Nat
    /\ MaxCount \in Nat \ {0} /\ MaxJobs \in Nat \ {0} /\ MaxBox \in Nat

VARIABLES
    agent,      \* "working" in a turn, "idle" after it, or "compacting"
    chained,    \* the turn goes on because its stop was blocked
    box,        \* lines entered at the session's input and not yet taken
    open,       \* tasks the transcript shows started and not ended
    moved,      \* the transcript has grown since the watchdog looked
    fell,       \* the statusline reports less usage than at compact(), or had none then
    monitor,    \* the session's registered inbox: "none", "live" or "dead"
    gate,       \* allow_stop, resume, pending_compact and stop_count
    jobs,       \* tasks that will type: resumes, compactions, and polls
    polls,      \* polls of the running compaction
    watch,      \* the idle watchdog: on, the tasks it last saw, its pokes
    verdict,    \* what the latest Stop was, until the next turn
    said        \* for checking: the agent's latest word since its last Stop

session == <<agent, chained, box, open, moved, fell>>
vars == <<session, monitor, gate, jobs, polls, watch, verdict, said>>

Permits  == [allow : BOOLEAN, resume : BOOLEAN, pending : BOOLEAN,
             count : 0 .. MaxCount]
Verdicts == {"none", "compact", "resume", "allow", "wait", "nudge"}
NoPermit == [allow |-> FALSE, resume |-> FALSE, pending |-> FALSE, count |-> 0]

Init ==
    /\ agent = "working" /\ chained = FALSE /\ box = <<>>
    /\ open = {} /\ moved = FALSE /\ fell = FALSE
    /\ monitor = "none"
    /\ gate = NoPermit
    /\ jobs = [resume |-> 0, compact |-> 0, poll |-> 0] /\ polls = 0
    /\ watch = [on |-> FALSE, seen |-> {}, pokes |-> 0]
    /\ verdict = "none" /\ said = "nothing"

-----------------------------------------------------------------------------
(* The session.                                                            *)

\* The transcript grows; that matters from the watchdog's look to its next.
Grows == moved' = watch.on

\* A turn begins, and what the last stop was is of no more interest.
Begin == /\ agent' = "working" /\ chained' = FALSE /\ Grows
         /\ verdict' = "none"

UserPrompts ==
    /\ agent = "idle" /\ box = <<>>
    /\ Begin
    /\ UNCHANGED <<box, open, fell, monitor, gate, jobs, polls, watch, said>>

\* An idle session takes the next line entered.
BoxSubmits ==
    /\ agent = "idle" /\ box # <<>>
    /\ box' = Tail(box)
    /\ \/ Head(box) = "prompt" /\ Begin
       \/ Head(box) = "compact" /\ agent' = "compacting" /\ Grows
          /\ UNCHANGED <<chained, verdict>>
       \/ Head(box) = "command" /\ Grows
          /\ UNCHANGED <<agent, chained, verdict>>
    /\ UNCHANGED <<open, fell, monitor, gate, jobs, polls, watch, said>>

\* The statusline may or may not get to report the usage it fell to.
CompactionEnds ==
    /\ agent = "compacting"
    /\ agent' = "idle" /\ Grows
    /\ fell' \in BOOLEAN /\ (fell' => jobs.poll > 0)
    /\ UNCHANGED <<chained, box, open, monitor, gate, jobs, polls, watch,
                   verdict, said>>

\* A cancelled turn has no stop reason, and the Stop hook leaves it alone.
Interrupt ==
    /\ agent = "working"
    /\ agent' = "idle" /\ Grows
    /\ UNCHANGED <<chained, box, open, fell, monitor, gate, jobs, polls, watch,
                   verdict, said>>

\* open_tasks: a result with an id opens a task.
TaskStarts(t) ==
    /\ agent = "working" /\ t \notin open
    /\ open' = open \cup {t} /\ Grows
    /\ UNCHANGED <<agent, chained, box, fell, monitor, gate, jobs, polls, watch,
                   verdict, said>>

\* TaskStop or a notification closes it, and the notification wakes an idle
\* session with nothing entered; past its deadline a task no longer counts, and nothing is written.
TaskEnds(t) ==
    /\ t \in open
    /\ open' = open \ {t}
    /\ \/ UNCHANGED <<agent, chained, moved, verdict>>
       \/ /\ agent # "idle" \/ box # <<>>
          /\ Grows /\ UNCHANGED <<agent, chained, verdict>>
       \/ agent = "idle" /\ box = <<>> /\ Begin
    /\ UNCHANGED <<box, fell, monitor, gate, jobs, polls, watch, said>>

\* wrapty-monitor listen --permit-stop, its clean end, and its other one.
ListenerMoves ==
    /\ \/ monitor \in {"none", "dead"} /\ monitor' = "live"
          /\ gate' = [gate EXCEPT !.count = 0]                 \* monitor_register
       \/ monitor = "live" /\ monitor' \in {"none", "dead"}    \* monitor_done, or killed
          /\ UNCHANGED gate
    /\ UNCHANGED <<session, jobs, polls, watch, verdict, said>>
-----------------------------------------------------------------------------
(* The agent's calls.                                                      *)

Permit(resume, pending) ==
    [allow |-> TRUE, resume |-> resume, pending |-> pending, count |-> 0]

NeedUserKeepsResume(g) == Permit(g.resume, g.pending)
NeedUserSays(g)        == Permit(FALSE, g.pending)
NeedUser ==
    /\ agent = "working"
    /\ gate' = NeedUserSays(gate)
    /\ said' = "user"
    /\ UNCHANGED <<session, monitor, jobs, polls, watch, verdict>>

\* send with a resume: the text waits in the box for the end of the turn.
Send ==
    /\ agent = "working" /\ box = <<>> /\ jobs.resume < MaxJobs
    /\ box' = <<"command">>
    /\ gate' = Permit(TRUE, gate.pending)
    /\ said' = "resume"
    /\ UNCHANGED <<agent, chained, open, moved, fell, monitor, jobs, polls,
                   watch, verdict>>

\* The refusal below the minimum usage changes nothing; where no usage has been
\* reported yet, the wait for a lower one ends at its first poll.
Compact ==
    /\ agent = "working" /\ jobs.compact + jobs.poll < MaxJobs
    /\ gate' = Permit(gate.resume, TRUE)
    /\ fell' \in BOOLEAN
    /\ UNCHANGED <<agent, chained, box, open, moved, monitor, jobs, polls,
                   watch, verdict, said>>
-----------------------------------------------------------------------------
(* The Stop event.                                                         *)

Attended(who) == who = "session"

\* The monitor a stop may wait for: one whose process is gone is dropped.
ReapedNever(m) == m
Reaped(m)      == IF m = "dead" THEN "none" ELSE m

DecisionWaitFirst(g, waiting) ==
    IF waiting THEN "wait" ELSE IF g.pending THEN "compact"
    ELSE IF g.resume THEN "resume" ELSE IF g.allow THEN "allow" ELSE "nudge"
Decision(g, waiting) ==
    CASE g.pending -> "compact"
      [] g.resume /\ ~g.pending -> "resume"
      [] g.allow /\ ~g.resume /\ ~g.pending -> "allow"
      [] ~g.allow /\ ~g.resume /\ ~g.pending ->
            IF waiting THEN "wait" ELSE "nudge"

\* What the decision leaves of the permission: nothing, or one more nudge.
Consumed(g, d) ==
    CASE d \in {"compact", "resume"} -> NoPermit
      [] d = "allow" -> [Permit(g.resume, g.pending) EXCEPT !.allow = FALSE]
      [] d = "wait"  -> [g EXCEPT !.count = 0]
      [] d = "nudge" -> [g EXCEPT !.count = IF @ < MaxCount THEN @ + 1 ELSE @]

ArmedUnmonitored(d, m) == d = "wait" /\ open # {} /\ m = "none"
Armed(d, m)            == d = "wait" /\ open # {}

\* A nudge blocks the stop unless the turn only goes on because of one.
Blocks(d) == d = "nudge" /\ ~chained

\* main_stop and on_stop.  An unattended child of the session inherits its
\* WAPTY_ID; its hook must leave the parent's state alone.
OnStop(who) ==
    /\ agent = "working" /\ Attended(who) /\ Len(box) <= MaxBox
    /\ LET m == Reaped(monitor)
           d == Decision(gate, m # "none" \/ open # {})
       IN /\ monitor' = m
          /\ gate' = Consumed(gate, d)
          /\ jobs' = CASE d = "compact" -> [jobs EXCEPT !.compact = @ + 1]
                       [] d = "resume"  -> [jobs EXCEPT !.resume = @ + 1]
                       [] d \notin {"compact", "resume"} -> jobs
          /\ polls' = IF d = "compact" THEN 0 ELSE polls
          /\ watch' = [on |-> Armed(d, m), seen |-> open, pokes |-> 0]
          /\ moved' = FALSE
          /\ IF who = "session"
               THEN /\ agent' = IF Blocks(d) THEN "working" ELSE "idle"
                    /\ chained' = Blocks(d)
                    /\ verdict' = d /\ said' = "nothing"
               ELSE UNCHANGED <<agent, chained, verdict, said>>
    /\ UNCHANGED <<box, open, fell>>
-----------------------------------------------------------------------------
(* The tasks that type.                                                    *)

ResumeTypes ==
    /\ jobs.resume > 0
    /\ jobs' = [jobs EXCEPT !.resume = @ - 1]
    /\ box' = Append(box, "prompt")
    /\ UNCHANGED <<agent, chained, open, moved, fell, monitor, gate, polls,
                   watch, verdict, said>>

CompactTypes ==
    /\ jobs.compact > 0
    /\ jobs' = [resume |-> jobs.resume, compact |-> jobs.compact - 1, poll |-> jobs.poll + 1]
    /\ box' = Append(box, "compact")
    /\ UNCHANGED <<agent, chained, open, moved, fell, monitor, gate, polls,
                   watch, verdict, said>>

\* The usage has fallen, or the wait has reached its cap.
PollOverFallen == fell
PollOver       == fell \/ polls >= MaxPolls

CompactPolls ==
    /\ jobs.poll > 0
    /\ IF PollOver
         THEN /\ jobs' = [jobs EXCEPT !.poll = @ - 1]
              /\ box' = Append(box, "prompt")
              /\ polls' = 0 /\ fell' = FALSE
         ELSE /\ polls' = IF polls < MaxPolls THEN polls + 1 ELSE polls
              /\ UNCHANGED <<jobs, box, fell>>
    /\ UNCHANGED <<agent, chained, open, moved, monitor, gate, watch,
                   verdict, said>>

\* One tick of the watchdog: work that changed buys back its pokes, movement
\* keeps it off this once, silence is poked.
IdleStep(progressed) ==
    CASE open = {} -> "stop"
      [] open # {} /\ (progressed \/ moved) -> "wait"
      [] open # {} /\ ~progressed /\ ~moved -> "poke"

ExhaustedLate(pokes) == pokes > PokeLimit
Exhausted(pokes)     == pokes >= PokeLimit

WatchIdle ==
    /\ watch.on
    /\ LET progressed == open # watch.seen
           step  == IdleStep(progressed)
           pokes == CASE progressed \/ step = "stop" -> 0
                      [] ~progressed /\ step = "wait" -> watch.pokes
                      [] step = "poke" -> watch.pokes + 1
       IN /\ watch' = [on |-> step # "stop" /\ ~Exhausted(pokes),
                       seen |-> open, pokes |-> pokes]
          /\ box' = IF step = "poke" THEN Append(box, "prompt") ELSE box
    /\ moved' = FALSE
    /\ UNCHANGED <<agent, chained, open, fell, monitor, gate, jobs, polls,
                   verdict, said>>
-----------------------------------------------------------------------------
Session ==
    \/ UserPrompts \/ BoxSubmits \/ CompactionEnds \/ Interrupt
    \/ \E t \in Tasks : TaskStarts(t) \/ TaskEnds(t)
    \/ ListenerMoves
Calls == NeedUser \/ Send \/ Compact \/ \E who \in {"session", "child"} : OnStop(who)
Typing == ResumeTypes \/ CompactTypes \/ CompactPolls \/ WatchIdle
Next == Session \/ Calls \/ Typing

Spec == Init /\ [][Next]_vars

\* The loop runs its tasks; nothing is asked of the agent or the human.
FairSpec ==
    /\ Spec
    /\ WF_vars(ResumeTypes) /\ WF_vars(CompactTypes)
    /\ WF_vars(CompactPolls) /\ WF_vars(WatchIdle)
-----------------------------------------------------------------------------
TypeOK ==
    /\ agent \in {"working", "idle", "compacting"}
    /\ chained \in BOOLEAN /\ moved \in BOOLEAN /\ fell \in BOOLEAN
    /\ box \in Seq({"prompt", "compact", "command"})
    /\ open \subseteq Tasks
    /\ monitor \in {"none", "live", "dead"}
    /\ gate \in Permits
    /\ jobs \in [resume : Nat, compact : Nat, poll : Nat]
    /\ polls \in 0 .. MaxPolls
    /\ watch \in [on : BOOLEAN, seen : SUBSET Tasks, pokes : 0 .. PokeLimit]
    /\ verdict \in Verdicts
    /\ said \in {"nothing", "user", "resume"}

\* A permission ends with the stop it was given for (_stop_decision): none of
\* it is left to silence some later, unrelated stop.
NothingLeftOver ==
    [][(\E who \in {"session", "child"} : OnStop(who))
          => ~gate'.allow /\ ~gate'.resume /\ ~gate'.pending]_vars

\* The agent's last word before its stop decides (need_user, send, on_stop):
\* after need_user nobody is typed back, after a resume somebody is, and a
\* compaction, which brings the agent back too, comes before both.  In
\* particular an agent that had its permission is never nudged.
LastWordCounts ==
    [][OnStop("session") =>
          \/ gate.pending /\ verdict' = "compact"
          \/ /\ ~gate.pending
             /\ said = "user" => verdict' = "allow"
             /\ said = "resume" => verdict' = "resume"]_vars

\* A stop goes unnudged for a wait only while something is there to end it: a
\* task not yet heard of or a listener that lives (_dead_monitors).
WaitsOnSomethingLive ==
    [][OnStop("session") /\ verdict' = "wait" => monitor = "live" \/ open # {}]_vars

\* No session is left asleep that has something to come: one let go for a
\* resume or a compaction is typed back to, whatever the usage does, and one
\* that waits for its tasks and stays silent is asked for its status
\* (_run_pending_resume, _run_pending_compact, _watch_idle).
TypedBack ==
    LET prompted == \E i \in DOMAIN box : box[i] = "prompt" IN
    /\ verdict \in {"resume", "compact"} ~> verdict = "none" \/ prompted
    /\ verdict = "wait" /\ open # {} ~> verdict # "wait" \/ open = {} \/ prompted
=============================================================================
