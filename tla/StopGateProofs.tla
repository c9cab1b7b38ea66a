--------------------------- MODULE StopGateProofs ---------------------------
(***************************************************************************)
(* The safety of StopGate, proved for every set of tasks and all limits.   *)
(* A stop consumes the permission it was given; what the agent said last   *)
(* is kept in the permission until then (WordKept), which makes the        *)
(* properties of the stop inductive.                                       *)
(***************************************************************************)
EXTENDS StopGate, TLAPS

\* What was said since the last stop is what the permission holds.
WordKept ==
    /\ said = "user" => gate.allow /\ ~gate.resume
    /\ said = "resume" => gate.resume

\* A watchdog that is on has a poke left to spend.
PokesLeft == watch.on => watch.pokes < PokeLimit

Inv == TypeOK /\ WordKept /\ PokesLeft

USE DEF Permits, Verdicts, NoPermit, Permit, session

-----------------------------------------------------------------------------
(* Lines entered at the session stay lines of the three kinds.             *)

Lines == {"prompt", "compact", "command"}

LEMMA BoxGrows ==
    ASSUME box \in Seq(Lines), NEW line \in Lines
    PROVE  Append(box, line) \in Seq(Lines)
OBVIOUS

LEMMA BoxShrinks ==
    ASSUME box \in Seq(Lines), box # <<>>
    PROVE  Tail(box) \in Seq(Lines) /\ Head(box) \in Lines
OBVIOUS

-----------------------------------------------------------------------------
(* Types.                                                                  *)

LEMMA InitTypes == Init => TypeOK
<1> SUFFICES ASSUME Init PROVE TypeOK
    OBVIOUS
<1>1. gate \in Permits
    BY StopGateAssumption DEF Init
<1>2. jobs \in [resume : Nat, compact : Nat, poll : Nat] /\ polls \in 0 .. MaxPolls
    BY StopGateAssumption DEF Init
<1>3. watch \in [on : BOOLEAN, seen : SUBSET Tasks, pokes : 0 .. PokeLimit]
    BY StopGateAssumption DEF Init
<1>4. box \in Seq({"prompt", "compact", "command"})
    BY DEF Init
<1> QED
    BY <1>1, <1>2, <1>3, <1>4 DEF Init, TypeOK

LEMMA SessionTypes == TypeOK /\ Session => TypeOK'
<1> SUFFICES ASSUME TypeOK, Session PROVE TypeOK'
    OBVIOUS
<1> USE DEF TypeOK, Begin, Grows
<1>1. CASE UserPrompts
    BY <1>1 DEF UserPrompts
<1>2. CASE BoxSubmits
    <2>1. box' \in Seq({"prompt", "compact", "command"})
        BY <1>2, BoxShrinks DEF BoxSubmits, Lines
    <2>2. agent' \in {"working", "idle", "compacting"} /\ chained' \in BOOLEAN
        BY <1>2 DEF BoxSubmits
    <2>3. moved' \in BOOLEAN /\ verdict' \in Verdicts
        BY <1>2 DEF BoxSubmits
    <2> QED
        BY <1>2, <2>1, <2>2, <2>3 DEF BoxSubmits
<1>3. CASE CompactionEnds
    BY <1>3 DEF CompactionEnds
<1>4. CASE Interrupt
    BY <1>4 DEF Interrupt
<1>5. ASSUME NEW t \in Tasks, TaskStarts(t) PROVE TypeOK'
    BY <1>5 DEF TaskStarts
<1>6. ASSUME NEW t \in Tasks, TaskEnds(t) PROVE TypeOK'
    <2>1. open' \subseteq Tasks
        BY <1>6 DEF TaskEnds
    <2>2. /\ agent' \in {"working", "idle", "compacting"} /\ chained' \in BOOLEAN
          /\ moved' \in BOOLEAN /\ verdict' \in Verdicts
        BY <1>6 DEF TaskEnds
    <2> QED
        BY <1>6, <2>1, <2>2 DEF TaskEnds
<1>7. CASE ListenerMoves
    BY <1>7, StopGateAssumption DEF ListenerMoves
<1> QED
    BY <1>1, <1>2, <1>3, <1>4, <1>5, <1>6, <1>7 DEF Session

LEMMA ConsumedTypes ==
    ASSUME NEW g \in Permits, NEW d \in Verdicts \ {"none"}
    PROVE  Consumed(g, d) \in Permits
<1>1. CASE d \in {"compact", "resume"}
    BY <1>1, StopGateAssumption DEF Consumed
<1>2. CASE d = "allow"
    <2>1. Permit(g.resume, g.pending) \in Permits
        BY StopGateAssumption
    <2> QED
        BY <1>2, <2>1 DEF Consumed
<1>3. CASE d = "wait"
    BY <1>3, StopGateAssumption DEF Consumed
<1>4. CASE d = "nudge"
    <2>1. Consumed(g, d) =
             [g EXCEPT !.count = IF g.count < MaxCount THEN g.count + 1 ELSE g.count]
        BY <1>4 DEF Consumed
    <2>2. (IF g.count < MaxCount THEN g.count + 1 ELSE g.count) \in 0 .. MaxCount
        BY StopGateAssumption
    <2> QED
        BY <2>1, <2>2
<1> QED
    BY <1>1, <1>2, <1>3, <1>4

LEMMA DecisionTypes ==
    ASSUME NEW g \in Permits, NEW waiting \in BOOLEAN
    PROVE  Decision(g, waiting) \in Verdicts \ {"none"}
BY DEF Decision

LEMMA CallsTypes == TypeOK /\ Calls => TypeOK'
<1> SUFFICES ASSUME TypeOK, Calls PROVE TypeOK'
    OBVIOUS
<1> USE StopGateAssumption DEF TypeOK
<1>1. CASE NeedUser
    BY <1>1 DEF NeedUser, NeedUserSays
<1>2. CASE Send
    BY <1>2 DEF Send
<1>3. CASE Compact
    <2>1. gate' \in Permits
        BY <1>3 DEF Compact
    <2> QED
        BY <1>3, <2>1 DEF Compact
<1>4. ASSUME NEW who \in {"session", "child"}, OnStop(who) PROVE TypeOK'
    <2> DEFINE m == Reaped(monitor)
               d == Decision(gate, m # "none" \/ open # {})
    <2>1. m \in {"none", "live", "dead"}
        BY DEF Reaped
    <2>2. d \in Verdicts \ {"none"}
        BY DecisionTypes
    <2>3. Consumed(gate, d) \in Permits
        BY <2>2, ConsumedTypes
    <2>4. jobs' \in [resume : Nat, compact : Nat, poll : Nat]
        <3>1. /\ d = "compact" => jobs' = [jobs EXCEPT !.compact = @ + 1]
              /\ d = "resume" => jobs' = [jobs EXCEPT !.resume = @ + 1]
              /\ d \notin {"compact", "resume"} => jobs' = jobs
            BY <1>4 DEF OnStop
        <3> QED
            BY <3>1
    <2>5. Armed(d, m) \in BOOLEAN /\ Blocks(d) \in BOOLEAN
        BY DEF Armed, Blocks
    <2>6. /\ monitor' = m /\ gate' = Consumed(gate, d)
          /\ polls' \in {0, polls}
          /\ watch' = [on |-> Armed(d, m), seen |-> open, pokes |-> 0]
          /\ moved' = FALSE
          /\ agent' \in {agent, "working", "idle"}
          /\ chained' \in {chained, Blocks(d)}
          /\ verdict' \in {verdict, d}
          /\ said' \in {said, "nothing"}
          /\ UNCHANGED <<box, open, fell>>
        BY <1>4 DEF OnStop
    <2> HIDE DEF d, m
    <2>7. /\ agent' \in {"working", "idle", "compacting"} /\ chained' \in BOOLEAN
          /\ verdict' \in Verdicts /\ said' \in {"nothing", "user", "resume"}
        BY <2>2, <2>5, <2>6
    <2>8. polls' \in 0 .. MaxPolls
        BY <2>6
    <2>9. watch' \in [on : BOOLEAN, seen : SUBSET Tasks, pokes : 0 .. PokeLimit]
        BY <2>5, <2>6
    <2> QED
        BY <2>1, <2>3, <2>4, <2>6, <2>7, <2>8, <2>9
<1> QED
    BY <1>1, <1>2, <1>3, <1>4 DEF Calls

LEMMA TypingTypes == TypeOK /\ PokesLeft /\ Typing => TypeOK'
<1> SUFFICES ASSUME TypeOK, PokesLeft, Typing PROVE TypeOK'
    OBVIOUS
<1> USE StopGateAssumption DEF TypeOK
<1>1. CASE ResumeTypes
    <2>1. box' \in Seq({"prompt", "compact", "command"})
        BY <1>1, BoxGrows DEF ResumeTypes, Lines
    <2>2. jobs' \in [resume : Nat, compact : Nat, poll : Nat]
        <3>1. jobs' = [jobs EXCEPT !.resume = jobs.resume - 1] /\ jobs.resume - 1 \in Nat
            BY <1>1 DEF ResumeTypes
        <3> QED
            BY <3>1
    <2> QED
        BY <1>1, <2>1, <2>2 DEF ResumeTypes
<1>2. CASE CompactTypes
    BY <1>2, BoxGrows DEF CompactTypes, Lines
<1>3. CASE CompactPolls
    <2>1. polls' \in 0 .. MaxPolls
        <3>1. CASE PollOver
            BY <1>3, <3>1 DEF CompactPolls
        <3>2. CASE ~PollOver
            <4>1. polls' = IF polls < MaxPolls THEN polls + 1 ELSE polls
                BY <1>3, <3>2 DEF CompactPolls
            <4> QED
                BY <4>1
        <3> QED
            BY <3>1, <3>2
    <2>2. box' \in Seq({"prompt", "compact", "command"})
        BY <1>3, BoxGrows DEF CompactPolls, Lines
    <2>3. jobs' \in [resume : Nat, compact : Nat, poll : Nat]
        <3>1. jobs' = jobs \/ (jobs' = [jobs EXCEPT !.poll = jobs.poll - 1] /\ jobs.poll - 1 \in Nat)
            BY <1>3 DEF CompactPolls
        <3> QED
            BY <3>1
    <2>4. fell' \in BOOLEAN
        BY <1>3 DEF CompactPolls
    <2>5. UNCHANGED <<agent, chained, open, moved, monitor, gate, watch, verdict, said>>
        BY <1>3 DEF CompactPolls
    <2> QED
        BY <2>1, <2>2, <2>3, <2>4, <2>5
<1>4. CASE WatchIdle
    <2>1. box' \in Seq({"prompt", "compact", "command"})
        BY <1>4, BoxGrows DEF WatchIdle, Lines
    <2> DEFINE progressed == open # watch.seen
               step  == IdleStep(progressed)
               pokes == CASE progressed \/ step = "stop" -> 0
                          [] ~progressed /\ step = "wait" -> watch.pokes
                          [] step = "poke" -> watch.pokes + 1
    <2>2. step \in {"stop", "wait", "poke"} /\ (step = "poke" => ~progressed)
        BY DEF IdleStep
    <2>3. pokes \in 0 .. PokeLimit
        BY <1>4, <2>2 DEF WatchIdle, PokesLeft
    <2>4. watch' = [on |-> step # "stop" /\ ~Exhausted(pokes), seen |-> open, pokes |-> pokes]
        BY <1>4 DEF WatchIdle
    <2>5. (step # "stop" /\ ~Exhausted(pokes)) \in BOOLEAN
        OBVIOUS
    <2> HIDE DEF progressed, step, pokes
    <2>6. watch' \in [on : BOOLEAN, seen : SUBSET Tasks, pokes : 0 .. PokeLimit]
        BY <2>3, <2>4, <2>5
    <2>7. moved' \in BOOLEAN
        BY <1>4 DEF WatchIdle
    <2>8. UNCHANGED <<agent, chained, open, fell, monitor, gate, jobs, polls, verdict, said>>
        BY <1>4 DEF WatchIdle
    <2> QED
        BY <2>1, <2>6, <2>7, <2>8
<1> QED
    BY <1>1, <1>2, <1>3, <1>4 DEF Typing

LEMMA StutterTypes == TypeOK /\ UNCHANGED vars => TypeOK'
BY DEF TypeOK, vars

-----------------------------------------------------------------------------
(* What the agent said, and the pokes left.                                *)

LEMMA WordStep == Inv /\ [Next]_vars => WordKept'
<1> SUFFICES ASSUME Inv, [Next]_vars PROVE WordKept'
    OBVIOUS
<1> USE DEF Inv, TypeOK, WordKept
<1>1. CASE UNCHANGED <<gate, said>>
    BY <1>1
<1>2. CASE ListenerMoves
    BY <1>2 DEF ListenerMoves
<1>3. CASE NeedUser
    BY <1>3 DEF NeedUser, NeedUserSays
<1>4. CASE Send
    BY <1>4 DEF Send
<1>5. CASE Compact
    BY <1>5 DEF Compact
<1>6. ASSUME NEW who \in {"session", "child"}, OnStop(who) PROVE WordKept'
    BY <1>6 DEF OnStop, Attended
<1> QED
    BY <1>1, <1>2, <1>3, <1>4, <1>5, <1>6
    DEF Next, Session, Calls, Typing, vars, UserPrompts, BoxSubmits, CompactionEnds,
        Interrupt, TaskStarts, TaskEnds, ResumeTypes, CompactTypes, CompactPolls, WatchIdle

LEMMA PokesStep == Inv /\ [Next]_vars => PokesLeft'
<1> SUFFICES ASSUME Inv, [Next]_vars PROVE PokesLeft'
    OBVIOUS
<1> USE StopGateAssumption DEF Inv, TypeOK, PokesLeft
<1>1. CASE UNCHANGED watch
    BY <1>1
<1>2. ASSUME NEW who \in {"session", "child"}, OnStop(who) PROVE PokesLeft'
    BY <1>2 DEF OnStop
<1>3. CASE WatchIdle
    <2>1. watch'.on => ~Exhausted(watch'.pokes)
        BY <1>3 DEF WatchIdle
    <2>2. TypeOK'
        BY <1>3, TypingTypes DEF Typing
    <2>3. watch'.pokes \in Nat
        BY <2>2
    <2> QED
        BY <2>1, <2>3 DEF Exhausted
<1> QED
    BY <1>1, <1>2, <1>3
    DEF Next, Session, Calls, Typing, vars, UserPrompts, BoxSubmits, CompactionEnds,
        Interrupt, TaskStarts, TaskEnds, ListenerMoves, NeedUser, Send, Compact,
        ResumeTypes, CompactTypes, CompactPolls

LEMMA InvInductive == (Init => Inv) /\ (Inv /\ [Next]_vars => Inv')
<1>1. Init => Inv
    BY InitTypes DEF Init, Inv, WordKept, PokesLeft
<1>2. Inv /\ [Next]_vars => TypeOK'
    BY SessionTypes, CallsTypes, TypingTypes, StutterTypes DEF Inv, Next
<1> QED
    BY <1>1, <1>2, WordStep, PokesStep DEF Inv

-----------------------------------------------------------------------------
(* The theorems.                                                           *)

\* All variables keep their types; in particular the watchdog never pokes more
\* often than its limit and the compaction is waited for no longer than its cap.
THEOREM TypeCorrect == Spec => []TypeOK
<1>1. Init => Inv
    BY InvInductive
<1>2. Inv /\ [Next]_vars => Inv'
    BY InvInductive
<1>3. Inv => TypeOK
    BY DEF Inv
<1> QED
    BY <1>1, <1>2, <1>3, PTL DEF Spec

\* A stop leaves nothing of the permission behind, whatever the order of the
\* calls before it.
THEOREM NothingLeftCorrect == Spec => NothingLeftOver
<1>1. ASSUME Inv, NEW who \in {"session", "child"}, OnStop(who)
      PROVE  ~gate'.allow /\ ~gate'.resume /\ ~gate'.pending
    <2> DEFINE d == Decision(gate, Reaped(monitor) # "none" \/ open # {})
    <2>1. gate' = Consumed(gate, d)
        BY <1>1 DEF OnStop
    <2>2. /\ gate \in Permits
          /\ d \in {"wait", "nudge"} => ~gate.allow /\ ~gate.resume /\ ~gate.pending
          /\ d = "allow" => ~gate.resume /\ ~gate.pending
          /\ d \in {"compact", "resume", "allow", "wait", "nudge"}
        BY <1>1 DEF Inv, TypeOK, Decision
    <2> HIDE DEF d
    <2>3. CASE d \in {"compact", "resume"}
        BY <2>1, <2>3 DEF Consumed
    <2>4. CASE d = "allow"
        BY <2>1, <2>2, <2>4 DEF Consumed
    <2>5. CASE d = "wait"
        BY <2>1, <2>2, <2>5 DEF Consumed
    <2>6. CASE d = "nudge"
        BY <2>1, <2>2, <2>6 DEF Consumed
    <2> QED
        BY <2>2, <2>3, <2>4, <2>5, <2>6
<1>2. Inv /\ [Next]_vars =>
        [(\E who \in {"session", "child"} : OnStop(who))
            => ~gate'.allow /\ ~gate'.resume /\ ~gate'.pending]_vars
    BY <1>1
<1>3. (Init => Inv) /\ (Inv /\ [Next]_vars => Inv')
    BY InvInductive
<1> QED
    BY <1>2, <1>3, PTL DEF Spec, NothingLeftOver

\* The agent's last word before its stop decides what the stop is, unless a
\* compaction has been called.
THEOREM LastWordCorrect == Spec => LastWordCounts
<1> DEFINE A == OnStop("session") =>
                   \/ gate.pending /\ verdict' = "compact"
                   \/ /\ ~gate.pending
                      /\ said = "user" => verdict' = "allow"
                      /\ said = "resume" => verdict' = "resume"
<1>1. ASSUME Inv, OnStop("session") PROVE A
    <2>1. verdict' = Decision(gate, Reaped(monitor) # "none" \/ open # {})
        BY <1>1 DEF OnStop
    <2>2. WordKept /\ gate \in Permits
        BY <1>1 DEF Inv, TypeOK
    <2> QED
        BY <2>1, <2>2 DEF Decision, WordKept
<1>2. Inv /\ [Next]_vars => [A]_vars
    BY <1>1
<1>3. (Init => Inv) /\ (Inv /\ [Next]_vars => Inv')
    BY InvInductive
<1> QED
    BY <1>2, <1>3, PTL DEF Spec, LastWordCounts

\* A stop is let go for a wait only while a task or a live listener is there
\* to end it.
THEOREM WaitsCorrect == Spec => WaitsOnSomethingLive
<1> DEFINE A == OnStop("session") /\ verdict' = "wait" => monitor = "live" \/ open # {}
<1>1. ASSUME Inv, OnStop("session"), verdict' = "wait" PROVE monitor = "live" \/ open # {}
    <2>1. Decision(gate, Reaped(monitor) # "none" \/ open # {}) = "wait"
        BY <1>1 DEF OnStop
    <2>2. Reaped(monitor) # "none" \/ open # {}
        BY <1>1, <2>1 DEF Inv, TypeOK, Decision
    <2> QED
        BY <1>1, <2>2 DEF Reaped, Inv, TypeOK
<1>2. Inv /\ [Next]_vars => [A]_vars
    BY <1>1
<1>3. (Init => Inv) /\ (Inv /\ [Next]_vars => Inv')
    BY InvInductive
<1> QED
    BY <1>2, <1>3, PTL DEF Spec, WaitsOnSomethingLive
=============================================================================
