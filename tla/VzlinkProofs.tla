---------------------------- MODULE VzlinkProofs ----------------------------
(***************************************************************************)
(* Theorems about Vzlink for any number of proxies and lives of the VM and *)
(* any combination of faults.                                              *)
(***************************************************************************)
EXTENDS Vzlink, FiniteSetTheorems, TLAPS

\* Until it times out, the idle clock is below its limit.
ClockRuns == task["idle_loop"] \in {"wait", "probe"} => idle_for < IdlePolls

\* A job that does not listen knows nothing yet.
Blank == job # "running" => ~stopping /\ conns = {}

\* What a call in a certain stage says of its caller, and the other way round.
CallsFit ==
    \A p \in Proxies :
        /\ rpc[p].stage \in {"lock", "ready", "banner"} => rpc[p].op = "ensure_up"
        /\ rpc[p].stage = "sent" /\ rpc[p].op = "unregister" => at[p] \in {"leaving", "ended"}
        /\ at[p] = "enrolling" => rpc[p].op = "register"

\* An upstream connection leads to a VM that was there, and whoever was granted
\* one by an earlier supervisor does not hold the VM that is starting.
UpstreamFits ==
    /\ \A p \in Proxies : upstream[p] <= life
    /\ job = "starting" => \A p \in Proxies : Granted(p) => upstream[p] # life

EveryUserCounted == Holders \subseteq conns

IInv ==
    /\ TypeOK /\ ClockRuns /\ Blank /\ CallsFit /\ UpstreamFits
    /\ EveryUserCounted

\* Without timeouts and kills, who is counted is between register and
\* unregister.
CountedOnly ==
    \A p \in Proxies :
        /\ p \in conns => \/ at[p] = "enrolling" /\ rpc[p].stage = "ok"
                          \/ at[p] \in {"forward", "leave"}
                          \/ at[p] = "leaving" /\ rpc[p].stage = "sent"
        /\ rpc[p].stage = "sent" /\ rpc[p].op = "register" => at[p] = "enrolling"
        /\ at[p] = "leaving" => rpc[p].op = "unregister"

LoneBoot ==
    \A p \in Proxies : rpc[p].stage \in {"ready", "banner"} =>
        /\ ~booted
        /\ \A q \in Proxies : rpc[q].stage \in {"ready", "banner"} => q = p

-----------------------------------------------------------------------------
(* Calls and places *)

Stages == Pending \cup Answers \cup {"none", "cut"}

\* Stage moves one call and leaves its operation and the other calls alone.
LEMMA StageFacts ==
    ASSUME rpc \in [Proxies -> Calls],
           NEW p \in Proxies, NEW stage \in Stages,
           Stage(p, stage)
    PROVE  /\ rpc' \in [Proxies -> Calls]
           /\ rpc'[p].stage = stage /\ rpc'[p].op = rpc[p].op
           /\ \A q \in Proxies : q # p => rpc'[q] = rpc[q]
<1>1. \A c \in Calls : [c EXCEPT !.stage = stage] = [op |-> c.op, stage |-> stage]
  BY DEF Calls
<1>2. rpc[p] \in Calls
  OBVIOUS
<1>3. rpc' = [rpc EXCEPT ![p] = [op |-> rpc[p].op, stage |-> stage]]
  BY <1>1, <1>2 DEF Stage
<1>4. [op |-> rpc[p].op, stage |-> stage] \in Calls
  BY <1>2 DEF Calls, Stages
<1> QED
  BY <1>3, <1>4

\* The end of the supervisor cuts off what is pending and nothing else.
LEMMA ForgottenFacts ==
    ASSUME rpc \in [Proxies -> Calls], Forgotten
    PROVE  /\ rpc' \in [Proxies -> Calls]
           /\ \A p \in Proxies : /\ rpc'[p].op = rpc[p].op
                                 /\ rpc'[p].stage = IF rpc[p].stage \in Pending
                                                    THEN "cut" ELSE rpc[p].stage
<1>1. \A c \in Calls : [c EXCEPT !.stage = "cut"] = [op |-> c.op, stage |-> "cut"]
  BY DEF Calls
<1>2. \A p \in Proxies : rpc'[p] = IF rpc[p].stage \in Pending
                                   THEN [op |-> rpc[p].op, stage |-> "cut"] ELSE rpc[p]
  BY <1>1 DEF Forgotten
<1>3. rpc' = [p \in Proxies |-> rpc'[p]]
  BY DEF Forgotten
<1> QED
  BY <1>2, <1>3 DEF Calls

\* A new call replaces the old one of the same proxy.
LEMMA CallFacts ==
    ASSUME rpc \in [Proxies -> Calls],
           NEW p \in Proxies, NEW op \in Ops,
           rpc' = [rpc EXCEPT ![p] = [op |-> op, stage |-> "sent"]]
    PROVE  /\ rpc' \in [Proxies -> Calls]
           /\ rpc'[p].stage = "sent" /\ rpc'[p].op = op
           /\ \A q \in Proxies : q # p => rpc'[q] = rpc[q]
<1>1. [op |-> op, stage |-> "sent"] \in Calls
  BY DEF Calls, Pending
<1> QED
  BY <1>1

-----------------------------------------------------------------------------
(* Types *)

LEMMA InitTypes == Init => TypeOK /\ ClockRuns
<1> SUFFICES ASSUME Init PROVE TypeOK /\ ClockRuns
  OBVIOUS
<1>1. NoCall \in Calls
  BY DEF NoCall, Calls, Ops
<1>2. booted \in BOOLEAN /\ stopping \in BOOLEAN
  BY Zenon DEF Init, VmInit, SupInit
<1>3. VmTypeOK
  BY <1>2, LivesAssumption DEF Init, VmInit, VmTypeOK
<1>4. SupTypeOK /\ ClockRuns
  BY <1>1, <1>2, PollsAssumption DEF Init, SupInit, SupTypeOK, ClockRuns, Asleep, Tasks
<1>5. late \in [Proxies -> BOOLEAN]
  BY Zenon DEF Init
<1> QED
  BY <1>3, <1>4, <1>5, LivesAssumption DEF Init, TypeOK, Places, Resting

\* Serving a request touches the call, the count and the memory of a boot.
LEMMA ServeTypes ==
    ASSUME TypeOK, NEW p \in Proxies, Serve(p)
    PROVE  /\ \E stage \in Stages : Stage(p, stage)
           /\ conns' \subseteq Proxies
           /\ booted' \in BOOLEAN
           /\ UNCHANGED <<vmVars, stopping, stop_reason, task, idle_for, silent>>
<1>0. /\ booted \in BOOLEAN /\ conns \subseteq Proxies
      /\ \A stage \in {"stopping", "lock", "ok", "ready", "banner", "error"} : stage \in Stages
  BY DEF TypeOK, SupTypeOK, Stages, Pending, Answers
<1>1. CASE Refuse(p)
  BY <1>0, <1>1, Zenon DEF Refuse
<1>2. CASE Queue(p)
  BY <1>0, <1>2, Zenon DEF Queue
<1>3. CASE Register(p)
  <2>1. conns' \subseteq Proxies
    BY <1>0, <1>3 DEF Register
  <2> QED
    BY <1>0, <1>3, <2>1, Zenon DEF Register
<1>4. CASE Unregister(p)
  <2>1. conns' \subseteq Proxies
    BY <1>0, <1>4 DEF Unregister
  <2> QED
    BY <1>0, <1>4, <2>1, Zenon DEF Unregister
<1>5. CASE Own(p)
  BY <1>0, <1>5, Zenon DEF Own
<1>6. CASE AgentReady(p)
  BY <1>0, <1>6, Zenon DEF AgentReady
<1>7. CASE Banner(p)
  BY <1>0, <1>7, Zenon DEF Banner
<1>8. CASE BootFails(p)
  BY <1>0, <1>8, Zenon DEF BootFails
<1> QED
  BY <1>1, <1>2, <1>3, <1>4, <1>5, <1>6, <1>7, <1>8 DEF Serve

\* Whatever ends the process leaves it blank.
LEMMA EndTypes ==
    ASSUME TypeOK, Finish, UNCHANGED proxyVars
    PROVE  TypeOK' /\ ClockRuns'
<1>1. stopping' \in BOOLEAN /\ booted' \in BOOLEAN
  BY Zenon DEF Finish, Forgotten
<1>2. rpc' \in [Proxies -> Calls]
  BY ForgottenFacts DEF Finish, TypeOK, SupTypeOK
<1>3. VmTypeOK'
  BY DEF TypeOK, VmTypeOK, Finish, JobExits
<1>4. SupTypeOK' /\ ClockRuns'
  BY <1>1, <1>2, PollsAssumption DEF SupTypeOK, ClockRuns, Finish, Forgotten, Asleep, Tasks
<1> QED
  BY <1>3, <1>4 DEF TypeOK, proxyVars

\* stop_vm moves its task, the signal and the reason.
LEMMA StopTypes ==
    ASSUME TypeOK, NEW t \in Tasks, NEW reason \in {"idle", "signal", "hung"},
           StopVm(t, reason), UNCHANGED proxyVars,
           idle_for' \in 0..IdlePolls, silent' \in 0..(HangPolls + 1)
    PROVE  /\ TypeOK'
           /\ task'[t] \in {"term", "kill"}
           /\ \A u \in Tasks : u # t => task'[u] = task[u]
<1>1. stopping' \in BOOLEAN
  BY Zenon DEF StopVm
<1>2. /\ task' \in [Tasks -> {"wait", "probe", "term", "kill"}]
      /\ task'[t] \in {"term", "kill"}
      /\ \A u \in Tasks : u # t => task'[u] = task[u]
      /\ signalled' \in {"none", "term", "kill"}
  BY DEF TypeOK, VmTypeOK, SupTypeOK, StopVm, Sends, Kill
<1>3. VmTypeOK'
  BY <1>2 DEF TypeOK, VmTypeOK, StopVm
<1>4. SupTypeOK'
  BY <1>1, <1>2 DEF TypeOK, SupTypeOK, StopVm
<1> QED
  BY <1>2, <1>3, <1>4 DEF TypeOK, proxyVars

LEMMA CountsTypes ==
    ASSUME TypeOK, ClockRuns, CountsIdle, UNCHANGED proxyVars,
           task["idle_loop"] \in {"wait", "probe"},
           silent' \in 0..(HangPolls + 1)
    PROVE  TypeOK' /\ ClockRuns'
<1>0. "idle_loop" \in Tasks /\ IdlePolls \in Nat /\ IdlePolls > 0 /\ idle_for \in 0..IdlePolls
  BY PollsAssumption DEF Tasks, TypeOK, SupTypeOK
<1>1. idle_for < IdlePolls
  BY DEF ClockRuns
<1>2. idle_for' \in 0..IdlePolls
  BY <1>0, <1>1 DEF CountsIdle, Capped, TypeOK, SupTypeOK
<1>3. CASE ~Busy /\ TimedOut
  <2>1. StopVm("idle_loop", "idle")
    BY <1>3 DEF CountsIdle
  <2>2. TypeOK' /\ task'["idle_loop"] \in {"term", "kill"}
    BY <1>0, <1>2, <2>1, StopTypes
  <2> QED
    BY <2>2 DEF ClockRuns
<1>4. CASE ~(~Busy /\ TimedOut)
  <2>1. /\ task' = [task EXCEPT !["idle_loop"] = "wait"]
        /\ UNCHANGED <<vmVars, rpc, conns, booted, stopping, stop_reason>>
    BY <1>4 DEF CountsIdle
  <2>2. VmTypeOK'
    BY <2>1 DEF TypeOK, VmTypeOK, vmVars
  <2>3. SupTypeOK'
    BY <2>1, <1>0, <1>2 DEF TypeOK, SupTypeOK
  <2>4. idle_for' < IdlePolls
    BY <1>0, <1>1, <1>4 DEF CountsIdle, TimedOut
  <2> QED
    BY <2>2, <2>3, <2>4 DEF TypeOK, proxyVars, ClockRuns
<1> QED
  BY <1>3, <1>4

\* A proxy's step: its place, its call, its upstream.
LEMMA PlaceTypes ==
    ASSUME TypeOK, ClockRuns, NEW p \in Proxies,
           NEW place \in Places, Goes(p, place),
           rpc' \in [Proxies -> Calls],
           upstream' \in [Proxies -> 0..MaxLives],
           late' \in [Proxies -> BOOLEAN],
           VmTypeOK',
           UNCHANGED OtherSupVars
    PROVE  TypeOK' /\ ClockRuns'
<1>1. at' \in [Proxies -> Places]
  BY DEF TypeOK, Goes
<1>2. SupTypeOK'
  BY DEF TypeOK, SupTypeOK, OtherSupVars
<1> QED
  BY <1>1, <1>2 DEF TypeOK, ClockRuns, OtherSupVars

LEMMA NextTypes == TypeOK /\ ClockRuns /\ [Next]_vars => TypeOK' /\ ClockRuns'
<1> SUFFICES ASSUME TypeOK, ClockRuns, [Next]_vars PROVE TypeOK' /\ ClockRuns'
  OBVIOUS
<1>0. /\ "idle_loop" \in Tasks /\ "watch_signals" \in Tasks
      /\ IdlePolls \in Nat /\ HangPolls \in Nat /\ MaxLives \in Nat
      /\ idle_for \in 0..IdlePolls /\ silent \in 0..(HangPolls + 1)
      /\ rpc \in [Proxies -> Calls] /\ upstream \in [Proxies -> 0..MaxLives]
      /\ late \in [Proxies -> BOOLEAN]
      /\ task \in [Tasks -> {"wait", "probe", "term", "kill"}]
  BY PollsAssumption, LivesAssumption DEF Tasks, TypeOK, SupTypeOK
<1>1. CASE UNCHANGED vars
  <2>1. VmTypeOK'
    BY <1>1 DEF vars, vmVars, TypeOK, VmTypeOK
  <2>2. SupTypeOK' /\ ClockRuns'
    BY <1>1 DEF vars, supVars, TypeOK, SupTypeOK, ClockRuns
  <2> QED
    BY <1>1, <2>1, <2>2 DEF vars, proxyVars, TypeOK
<1>2. CASE VmNext
  <2>1. SupTypeOK' /\ ClockRuns'
    BY <1>2 DEF VmNext, supVars, TypeOK, SupTypeOK, ClockRuns
  <2>2. VmTypeOK'
    BY <1>2 DEF VmNext, VmMoves, GuestServes, GuestHangs, VmExits, TypeOK, VmTypeOK
  <2> QED
    BY <1>2, <2>1, <2>2 DEF VmNext, proxyVars, TypeOK
<1>3. CASE Listens /\ UNCHANGED proxyVars
  <2>1. VmTypeOK'
    BY <1>3 DEF Listens, TypeOK, VmTypeOK
  <2>2. SupTypeOK' /\ ClockRuns'
    BY <1>3 DEF Listens, supVars, TypeOK, SupTypeOK, ClockRuns
  <2> QED
    BY <1>3, <2>1, <2>2 DEF proxyVars, TypeOK
<1>4. CASE StartFails /\ UNCHANGED proxyVars
  BY <1>4, EndTypes DEF StartFails
<1>5. CASE Signal /\ UNCHANGED proxyVars
  <2>1. StopVm("watch_signals", "signal") /\ UNCHANGED <<idle_for, silent>>
    BY <1>5 DEF Signal
  <2>2. TypeOK' /\ task'["idle_loop"] = task["idle_loop"]
    BY <1>0, <1>5, <2>1, StopTypes
  <2> QED
    BY <2>1, <2>2 DEF ClockRuns
<1>6. CASE PollFindsDeath /\ UNCHANGED proxyVars
  BY <1>6, EndTypes DEF PollFindsDeath
<1>7. CASE PollProbes /\ UNCHANGED proxyVars
  <2>1. VmTypeOK'
    BY <1>7 DEF PollProbes, vmVars, TypeOK, VmTypeOK
  <2>2. SupTypeOK'
    BY <1>7 DEF PollProbes, TypeOK, SupTypeOK
  <2>3. ClockRuns'
    BY <1>0, <1>7 DEF PollProbes, Polls, ClockRuns
  <2> QED
    BY <1>7, <2>1, <2>2, <2>3 DEF proxyVars, TypeOK
<1>8. CASE PollCounts /\ UNCHANGED proxyVars
  <2>1. silent' \in 0..(HangPolls + 1)
    BY <1>0, <1>8 DEF PollCounts, Capped
  <2> QED
    BY <1>8, <2>1, CountsTypes DEF PollCounts, Polls
<1>9. CASE ProbeAnswered /\ UNCHANGED proxyVars
  BY <1>0, <1>9, CountsTypes DEF ProbeAnswered, Probing
<1>10. CASE ProbeSilent /\ UNCHANGED proxyVars
  <2>1. silent' \in 0..(HangPolls + 1)
    BY <1>0, <1>10 DEF ProbeSilent, Capped
  <2>2. CASE Hung
    <3>1. StopVm("idle_loop", "hung") /\ UNCHANGED idle_for
      BY <1>10, <2>2 DEF ProbeSilent
    <3>2. TypeOK' /\ task'["idle_loop"] \in {"term", "kill"}
      BY <1>0, <1>10, <2>1, <3>1, StopTypes
    <3> QED
      BY <3>2 DEF ClockRuns
  <2>3. CASE ~Hung
    BY <1>10, <2>1, <2>3, CountsTypes DEF ProbeSilent, Probing
  <2> QED
    BY <2>2, <2>3
<1>11. ASSUME NEW t \in Tasks, StopStep(t), UNCHANGED proxyVars PROVE TypeOK' /\ ClockRuns'
  <2>1. CASE Gone(t)
    BY <1>11, <2>1, EndTypes DEF Gone
  <2>2. CASE KillOver(t)
    BY <1>11, <2>2, EndTypes DEF KillOver
  <2>3. CASE GraceOver(t)
    <3>1. /\ task' \in [Tasks -> {"wait", "probe", "term", "kill"}]
          /\ task'["idle_loop"] \in {"wait", "probe"} => task["idle_loop"] \in {"wait", "probe"}
          /\ signalled' \in {"none", "term", "kill"}
      BY <1>0, <2>3 DEF GraceOver, Sends, Kill
    <3>2. VmTypeOK'
      BY <2>3, <3>1 DEF GraceOver, TypeOK, VmTypeOK
    <3>3. SupTypeOK'
      BY <2>3, <3>1 DEF GraceOver, TypeOK, SupTypeOK
    <3>4. ClockRuns'
      BY <2>3, <3>1 DEF GraceOver, ClockRuns
    <3> QED
      BY <1>11, <3>2, <3>3, <3>4 DEF proxyVars, TypeOK
  <2> QED
    BY <1>11, <2>1, <2>2, <2>3 DEF StopStep
<1>12. ASSUME NEW p \in Proxies, Serve(p), UNCHANGED proxyVars PROVE TypeOK' /\ ClockRuns'
  <2>1. /\ \E stage \in Stages : Stage(p, stage)
        /\ conns' \subseteq Proxies /\ booted' \in BOOLEAN
        /\ UNCHANGED <<vmVars, stopping, stop_reason, task, idle_for, silent>>
    BY <1>12, ServeTypes
  <2>2. rpc' \in [Proxies -> Calls]
    BY <1>0, <2>1, StageFacts
  <2>3. VmTypeOK'
    BY <2>1 DEF vmVars, TypeOK, VmTypeOK
  <2>4. SupTypeOK' /\ ClockRuns'
    BY <2>1, <2>2 DEF TypeOK, SupTypeOK, ClockRuns
  <2> QED
    BY <1>12, <2>3, <2>4 DEF proxyVars, TypeOK
<1>13. ASSUME NEW p \in Proxies,
              \/ Arrive(p) \/ Deadline(p) \/ ProxyStep(p) \/ ForwardEnds(p) \/ Dies(p)
       PROVE  TypeOK' /\ ClockRuns'
  <2>0. /\ {"off", "kick", "seek", "ask", "asking", "dial", "enrol", "enrolling",
            "forward", "leave", "leaving", "ended", "failed"} \subseteq Places
        /\ UNCHANGED vmVars => VmTypeOK'
        /\ \A stage \in {"none"} : stage \in Stages
        /\ \A op \in {"ensure_up", "register", "unregister"} : op \in Ops
    BY DEF Places, Resting, Rising, vmVars, TypeOK, VmTypeOK, Stages, Ops
  <2>1. UNCHANGED OtherSupVars
    BY <1>13 DEF Arrive, Deadline, ProxyStep, ForwardEnds, Dies, Kickstart, Seek, Ask, Asked, Dial,
       Enrol, Enrolled, Leave, Left, Call, OtherSupVars, supVars
  <2>2. VmTypeOK'
    <3>1. CASE Kickstart(p)
      <4>1. CASE job = "none" /\ life < MaxLives
        <5>1. Launched
          BY <3>1, <4>1 DEF Kickstart
        <5>2. life' \in 0..MaxLives
          BY <1>0, <4>1, <5>1 DEF Launched, TypeOK, VmTypeOK
        <5> QED
          BY <5>1, <5>2 DEF Launched, VmTypeOK
      <4>2. CASE ~(job = "none" /\ life < MaxLives)
        BY <2>0, <3>1, <4>2 DEF Kickstart
      <4> QED
        BY <4>1, <4>2
    <3>2. CASE ~Kickstart(p)
      <4>1. UNCHANGED vmVars
        BY <1>13, <3>2 DEF Arrive, Deadline, ProxyStep, ForwardEnds, Dies, Seek, Ask, Asked, Dial,
           Enrol, Enrolled, Leave, Left, Call
      <4> QED
        BY <2>0, <4>1
    <3> QED
      BY <3>1, <3>2
  <2>3. rpc' \in [Proxies -> Calls]
    <3>1. ASSUME Stage(p, "none") PROVE rpc' \in [Proxies -> Calls]
      BY <1>0, <2>0, <3>1, StageFacts
    <3>2. ASSUME NEW op \in Ops, NEW waiting, NEW unheard, Call(p, op, waiting, unheard)
          PROVE rpc' \in [Proxies -> Calls]
      BY <1>0, <3>2, CallFacts DEF Call
    <3>3. CASE Asked(p) \/ Enrolled(p) \/ Left(p)
      BY <1>0, <3>1, <3>3 DEF Asked, Enrolled, Left, Retry, Fails, Hears, GivesUp
    <3>4. CASE Ask(p) \/ Enrol(p) \/ Leave(p)
      BY <2>0, <3>2, <3>4 DEF Ask, Enrol, Leave
    <3>5. CASE Arrive(p) \/ Deadline(p) \/ Kickstart(p) \/ Seek(p) \/ Dial(p) \/ ForwardEnds(p) \/ Dies(p)
      BY <1>0, <3>5 DEF Arrive, Deadline, Kickstart, Seek, Dial, ForwardEnds, Dies, supVars
    <3> QED
      BY <1>13, <3>3, <3>4, <3>5 DEF ProxyStep
  <2>4. late' \in [Proxies -> BOOLEAN]
    <3>1. CASE Deadline(p)
      BY <1>0, <3>1, Zenon DEF Deadline
    <3>2. CASE ~Deadline(p)
      BY <1>0, <1>13, <3>2 DEF Arrive, ProxyStep, ForwardEnds, Dies, Kickstart, Seek, Ask, Asked, Dial,
         Enrol, Enrolled, Leave, Left, Retry, Fails
    <3> QED
      BY <3>1, <3>2
  <2>5. upstream' \in [Proxies -> 0..MaxLives]
    <3>1. CASE Dial(p) \/ Enrol(p) \/ Enrolled(p) \/ ForwardEnds(p) \/ Dies(p)
      BY <1>0, <3>1 DEF Dial, Enrol, Enrolled, ForwardEnds, Dies, HangsUp, TypeOK, VmTypeOK
    <3>2. CASE \/ Arrive(p) \/ Deadline(p) \/ Kickstart(p) \/ Seek(p) \/ Ask(p) \/ Asked(p)
               \/ Leave(p) \/ Left(p)
      BY <1>0, <3>2 DEF Arrive, Deadline, Kickstart, Seek, Ask, Asked, Leave, Left
    <3> QED
      BY <1>13, <3>1, <3>2 DEF ProxyStep
  <2>6. CASE Deadline(p)
    <3>1. at' \in [Proxies -> Places]
      BY <2>6 DEF Deadline, TypeOK
    <3>2. SupTypeOK' /\ ClockRuns'
      BY <2>1, <2>3 DEF TypeOK, SupTypeOK, ClockRuns, OtherSupVars
    <3> QED
      BY <2>2, <2>4, <2>5, <3>1, <3>2 DEF TypeOK
  <2>7. CASE ~Deadline(p)
    <3>1. \E place \in Places : Goes(p, place)
      BY <1>13, <2>0, <2>7 DEF Arrive, ProxyStep, ForwardEnds, Dies, Kickstart, Seek, Ask, Asked, Dial,
         Enrol, Enrolled, Leave, Left, Retry, Fails, Call
    <3> QED
      BY <2>1, <2>2, <2>3, <2>4, <2>5, <3>1, PlaceTypes
  <2> QED
    BY <2>6, <2>7
<1> QED
  BY <1>1, <1>2, <1>3, <1>4, <1>5, <1>6, <1>7, <1>8, <1>9, <1>10, <1>11, <1>12, <1>13
     DEF Next, SupervisorNext, SupervisorMoves, IdleLoop

-----------------------------------------------------------------------------
(* What the steps do, as far as the other invariants can tell *)

\* A stop begins, or a second task joins it.
Stops ==
    \E t \in Tasks, reason \in {"idle", "signal", "hung"} :
        /\ job = "running"
        /\ StopVm(t, reason)
        /\ reason = "idle" => conns = {}

\* Nothing but clocks, signals and positions moves.
Rests == UNCHANGED <<job, life, rpc, conns, booted, stopping, stop_reason>>

LEMMA SupervisorShapes ==
    ASSUME SupervisorNext
    PROVE  /\ UNCHANGED proxyVars
           /\ \/ job # "none" /\ JobExits /\ Forgotten
              \/ Listens
              \/ \E p \in Proxies : Serve(p)
              \/ Stops
              \/ Rests
<1>0. "idle_loop" \in Tasks /\ "watch_signals" \in Tasks
  BY DEF Tasks
<1>1. ASSUME CountsIdle, job = "running" PROVE Stops \/ Rests
  <2>1. CASE ~Busy /\ TimedOut
    BY <1>0, <1>1, <2>1 DEF CountsIdle, Busy, Stops
  <2>2. CASE ~(~Busy /\ TimedOut)
    BY <1>1, <2>2 DEF CountsIdle, Rests, vmVars
  <2> QED
    BY <2>1, <2>2
<1>2. CASE Listens \/ StartFails
  BY <1>2 DEF SupervisorNext, StartFails, Finish
<1>3. CASE Signal
  BY <1>0, <1>3 DEF SupervisorNext, Signal, Stops
<1>4. CASE PollFindsDeath
  BY <1>4 DEF SupervisorNext, PollFindsDeath, Polls, Finish
<1>5. CASE PollProbes
  BY <1>5 DEF SupervisorNext, PollProbes, Rests, vmVars
<1>6. CASE PollCounts \/ ProbeAnswered
  BY <1>1, <1>6 DEF SupervisorNext, PollCounts, Polls, ProbeAnswered, Probing
<1>7. CASE ProbeSilent
  <2>1. CASE Hung
    BY <1>0, <1>7, <2>1 DEF SupervisorNext, ProbeSilent, Probing, Stops
  <2>2. CASE ~Hung
    BY <1>1, <1>7, <2>2 DEF SupervisorNext, ProbeSilent, Probing
  <2> QED
    BY <2>1, <2>2
<1>8. CASE \E t \in Tasks : StopStep(t)
  BY <1>8 DEF SupervisorNext, StopStep, Gone, KillOver, GraceOver, Finish, Rests
<1>9. CASE \E p \in Proxies : Serve(p)
  BY <1>9 DEF SupervisorNext
<1> QED
  BY <1>2, <1>3, <1>4, <1>5, <1>6, <1>7, <1>8, <1>9 DEF SupervisorNext, SupervisorMoves, IdleLoop

\* Serving moves one call, and answers a registration only by Register.
LEMMA ServeShapes ==
    ASSUME TypeOK, CallsFit, NEW p \in Proxies, Serve(p)
    PROVE  /\ job = "running"
           /\ UNCHANGED <<vmVars, stopping, stop_reason>>
           /\ rpc' \in [Proxies -> Calls]
           /\ rpc'[p].op = rpc[p].op
           /\ \A q \in Proxies : q # p => rpc'[q] = rpc[q]
           /\ rpc'[p].stage # "sent"
           /\ rpc'[p].stage \in {"lock", "ready", "banner"} => rpc[p].op = "ensure_up"
           /\ rpc'[p].stage = "ok" =>
                \/ rpc[p].op = "ensure_up" /\ UNCHANGED conns
                \/ rpc[p].op = "register" /\ rpc[p].stage = "sent"
                   /\ ~stopping /\ conns' = conns \cup {p}
                \/ rpc[p].op = "unregister" /\ rpc[p].stage = "sent" /\ conns' = conns \ {p}
           /\ rpc'[p].stage # "ok" => UNCHANGED conns
<1>0. /\ rpc \in [Proxies -> Calls]
      /\ \A stage \in {"stopping", "lock", "ok", "ready", "banner", "error"} : stage \in Stages
  BY DEF TypeOK, SupTypeOK, Stages, Pending, Answers
<1>1. ASSUME NEW stage \in {"stopping", "lock", "ok", "ready", "banner", "error"}, Stage(p, stage)
      PROVE  /\ rpc' \in [Proxies -> Calls]
             /\ rpc'[p].op = rpc[p].op /\ rpc'[p].stage = stage
             /\ \A q \in Proxies : q # p => rpc'[q] = rpc[q]
  BY <1>0, <1>1, StageFacts
<1>2. rpc[p].stage \in {"lock", "ready", "banner"} => rpc[p].op = "ensure_up"
  BY DEF CallsFit
<1>3. CASE Refuse(p)
  BY <1>1, <1>3 DEF Refuse, Arrived
<1>4. CASE Queue(p)
  BY <1>1, <1>4 DEF Queue, Taken, Arrived
<1>5. CASE Register(p)
  BY <1>1, <1>5 DEF Register, Taken, Arrived, Refusable
<1>6. CASE Unregister(p)
  BY <1>1, <1>6 DEF Unregister, Taken, Arrived
<1>7. CASE Own(p)
  BY <1>1, <1>2, <1>7 DEF Own
<1>8. CASE AgentReady(p)
  BY <1>1, <1>2, <1>8 DEF AgentReady
<1>9. CASE Banner(p)
  BY <1>1, <1>2, <1>9 DEF Banner
<1>10. CASE BootFails(p)
  BY <1>1, <1>2, <1>10 DEF BootFails
<1> QED
  BY <1>3, <1>4, <1>5, <1>6, <1>7, <1>8, <1>9, <1>10 DEF Serve

\* The ways a proxy moves; Heard and Unheard end an RPC with and without an
\* answer, NotCalled is one that found no listener.
Same(p) == rpc'[p] = rpc[p] /\ upstream'[p] = upstream[p]

Before(p) ==
    /\ Same(p)
    /\ at[p] \in {"off", "kick", "seek"} /\ at'[p] \in {"kick", "seek", "ask", "failed"}

Called(p) ==
    /\ job = "running"
    /\ rpc'[p].stage = "sent" /\ upstream'[p] = upstream[p]
    /\ \/ at[p] = "ask" /\ at'[p] = "asking" /\ rpc'[p].op = "ensure_up"
       \/ at[p] = "enrol" /\ at'[p] = "enrolling" /\ rpc'[p].op = "register"
       \/ at[p] = "leave" /\ at'[p] = "leaving" /\ rpc'[p].op = "unregister"

NotCalled(p) ==
    /\ job # "running"
    /\ rpc'[p] = rpc[p] /\ upstream'[p] \in {0, upstream[p]}
    /\ \/ at[p] \in {"ask", "enrol"} /\ at'[p] = "failed"
       \/ at[p] = "leave" /\ at'[p] = "ended"

Heard(p) ==
    /\ rpc[p].stage \in Answers \cup {"cut"}
    /\ rpc'[p].stage = "none" /\ rpc'[p].op = rpc[p].op
    /\ \/ /\ at[p] = "asking" /\ at'[p] \in {"dial", "kick", "failed"}
          /\ upstream'[p] = upstream[p]
       \/ /\ at[p] = "enrolling" /\ rpc[p].stage = "ok" /\ at'[p] = "forward"
          /\ upstream'[p] = upstream[p]
       \/ /\ at[p] = "enrolling" /\ rpc[p].stage # "ok" /\ at'[p] \in {"kick", "failed"}
          /\ upstream'[p] = 0
       \/ /\ at[p] = "leaving" /\ at'[p] = "ended"
          /\ upstream'[p] = upstream[p]

Unheard(p) ==
    /\ "timeout" \in Faults
    /\ rpc[p].stage \in Pending
    /\ rpc'[p] = rpc[p] /\ upstream'[p] \in {0, upstream[p]}
    /\ \/ at[p] \in {"asking", "enrolling"} /\ at'[p] = "failed"
       \/ at[p] = "leaving" /\ at'[p] = "ended"

Dialled(p) ==
    /\ rpc'[p] = rpc[p]
    /\ at[p] = "dial"
    /\ \/ at'[p] = "enrol" /\ upstream'[p] = life
       \/ at'[p] = "failed" /\ upstream'[p] = upstream[p]

HungUp(p) ==
    /\ rpc'[p] = rpc[p] /\ upstream'[p] = 0
    /\ \/ at[p] = "forward" /\ at'[p] = "leave"
       \/ "death" \in Faults /\ at[p] \notin Resting /\ at'[p] = "ended"

LEMMA ProxyShapes ==
    ASSUME TypeOK, NEW p \in Proxies,
           \/ Arrive(p) \/ Deadline(p) \/ ProxyStep(p) \/ ForwardEnds(p) \/ Dies(p)
    PROVE  /\ UNCHANGED OtherSupVars
           /\ \A q \in Proxies : q # p => Same(q) /\ at'[q] = at[q]
           /\ \/ UNCHANGED vmVars
              \/ Launched /\ job = "none" /\ life < MaxLives /\ Before(p)
           /\ \/ Same(p) /\ at'[p] = at[p]
              \/ Before(p) \/ Called(p) \/ NotCalled(p) \/ Heard(p) \/ Unheard(p)
              \/ Dialled(p) \/ HungUp(p)
<1>0. /\ rpc \in [Proxies -> Calls]
      /\ at \in [Proxies -> Places]
      /\ upstream \in [Proxies -> 0..MaxLives]
      /\ "none" \in Stages
      /\ \A op \in {"ensure_up", "register", "unregister"} : op \in Ops
  BY DEF TypeOK, SupTypeOK, Stages, Ops
<1>1. ASSUME NEW place, Goes(p, place)
      PROVE  at'[p] = place /\ \A q \in Proxies : q # p => at'[q] = at[q]
  BY <1>0, <1>1 DEF Goes
<1>2. ASSUME HangsUp(p)
      PROVE  upstream'[p] = 0 /\ \A q \in Proxies : q # p => upstream'[q] = upstream[q]
  BY <1>0, <1>2 DEF HangsUp
<1>3. ASSUME Stage(p, "none")
      PROVE  /\ rpc'[p].stage = "none" /\ rpc'[p].op = rpc[p].op
             /\ \A q \in Proxies : q # p => rpc'[q] = rpc[q]
  BY <1>0, <1>3, StageFacts
<1>4. ASSUME NEW op \in Ops, NEW waiting, NEW unheard, Call(p, op, waiting, unheard)
      PROVE  /\ UNCHANGED <<vmVars, OtherSupVars>>
             /\ \A q \in Proxies : q # p => rpc'[q] = rpc[q] /\ at'[q] = at[q]
             /\ job = "running" => rpc'[p].stage = "sent" /\ rpc'[p].op = op /\ at'[p] = waiting
             /\ job # "running" => rpc'[p] = rpc[p] /\ at'[p] = unheard
  <2>1. CASE job = "running"
    <3>1. rpc' = [rpc EXCEPT ![p] = [op |-> op, stage |-> "sent"]] /\ Goes(p, waiting)
      BY <1>4, <2>1 DEF Call
    <3>2. /\ rpc'[p].stage = "sent" /\ rpc'[p].op = op
          /\ \A q \in Proxies : q # p => rpc'[q] = rpc[q]
      BY <1>0, <3>1, CallFacts
    <3> QED
      BY <1>1, <1>4, <2>1, <3>1, <3>2 DEF Call, OtherSupVars
  <2>2. CASE job # "running"
    BY <1>1, <1>4, <2>2 DEF Call, OtherSupVars
  <2> QED
    BY <2>1, <2>2
<1>5. CASE Arrive(p)
  BY <1>1, <1>5 DEF Arrive, supVars, OtherSupVars, Same, Before
<1>6. CASE Deadline(p)
  BY <1>6 DEF Deadline, supVars, OtherSupVars, Same
<1>7. CASE Kickstart(p)
  BY <1>1, <1>7 DEF Kickstart, supVars, OtherSupVars, Same, Before
<1>8. CASE Seek(p)
  BY <1>1, <1>8 DEF Seek, supVars, OtherSupVars, Same, Before
<1>9. CASE Ask(p)
  BY <1>0, <1>4, <1>9 DEF Ask, Same, Called, NotCalled
<1>10. CASE Asked(p)
  BY <1>1, <1>3, <1>10 DEF Asked, Retry, Fails, Hears, GivesUp, OtherSupVars, Same, Heard, Unheard, Answers
<1>11. CASE Dial(p)
  <2>1. upstream'[p] \in {life, upstream[p]} /\ \A q \in Proxies : q # p => upstream'[q] = upstream[q]
    BY <1>0, <1>11 DEF Dial
  <2> QED
    BY <1>0, <1>1, <1>11, <2>1 DEF Dial, supVars, OtherSupVars, Same, Dialled
<1>12. CASE Enrol(p)
  BY <1>0, <1>2, <1>4, <1>12 DEF Enrol, Same, Called, NotCalled
<1>13. CASE Enrolled(p)
  BY <1>1, <1>2, <1>3, <1>13
     DEF Enrolled, Retry, Fails, Hears, GivesUp, OtherSupVars, Same, Heard, Unheard, Answers, Pending
<1>14. CASE Leave(p)
  BY <1>0, <1>4, <1>14 DEF Leave, Same, Called, NotCalled
<1>15. CASE Left(p)
  BY <1>1, <1>3, <1>15 DEF Left, Hears, GivesUp, OtherSupVars, Same, Heard, Unheard
<1>16. CASE ForwardEnds(p) \/ Dies(p)
  BY <1>1, <1>2, <1>16 DEF ForwardEnds, Dies, supVars, OtherSupVars, Same, HungUp
<1> QED
  BY <1>5, <1>6, <1>7, <1>8, <1>9, <1>10, <1>11, <1>12, <1>13, <1>14, <1>15, <1>16 DEF ProxyStep

-----------------------------------------------------------------------------
(* The count *)

LEMMA GrantedMeans ==
    /\ TypeOK => \A p \in Proxies : Granted(p) <=>
           \/ at[p] = "forward"
           \/ at[p] = "enrolling" /\ rpc[p].op = "register" /\ rpc[p].stage = "ok"
    /\ TypeOK' => \A p \in Proxies : Granted(p)' <=>
           \/ at'[p] = "forward"
           \/ at'[p] = "enrolling" /\ rpc'[p].op = "register" /\ rpc'[p].stage = "ok"
<1>1. \A c \in Calls : c = [op |-> "register", stage |-> "ok"] <=> c.op = "register" /\ c.stage = "ok"
  BY DEF Calls
<1>2. TypeOK => \A p \in Proxies : rpc[p] \in Calls
  BY DEF TypeOK, SupTypeOK
<1>3. TypeOK' => \A p \in Proxies : rpc'[p] \in Calls
  BY DEF TypeOK, SupTypeOK
<1> QED
  BY <1>1, <1>2, <1>3 DEF Granted

LEMMA InitInvariant == Init => IInv
<1> SUFFICES ASSUME Init PROVE IInv
  OBVIOUS
<1>1. TypeOK /\ ClockRuns
  BY InitTypes
<1>2. job = "none" /\ conns = {} /\ ~stopping
  BY DEF Init, VmInit, SupInit
<1>3. \A p \in Proxies : at[p] = "off" /\ rpc[p].stage = "none" /\ upstream[p] = 0
  BY DEF Init, SupInit, NoCall
<1> QED
  BY <1>1, <1>2, <1>3, LivesAssumption
     DEF IInv, Blank, CallsFit, UpstreamFits, EveryUserCounted, Holders, Init, VmInit

\* The shapes of all steps of the specification.
LEMMA NextShapes ==
    ASSUME [Next]_vars
    PROVE  \/ UNCHANGED vars
           \/ VmNext
           \/ SupervisorNext
           \/ \E p \in Proxies : Arrive(p) \/ Deadline(p) \/ ProxyStep(p) \/ ForwardEnds(p) \/ Dies(p)
BY DEF Next

LEMMA NextCallsFit == IInv /\ [Next]_vars => CallsFit'
<1> SUFFICES ASSUME IInv, [Next]_vars PROVE CallsFit'
  OBVIOUS
<1>0. TypeOK /\ CallsFit
  BY DEF IInv
<1>1. CASE UNCHANGED <<rpc, at>>
  BY <1>0, <1>1 DEF CallsFit
<1>2. CASE UNCHANGED vars \/ VmNext
  BY <1>1, <1>2 DEF vars, supVars, proxyVars, VmNext
<1>3. CASE SupervisorNext
  <2>1. UNCHANGED at
    BY <1>3, SupervisorShapes DEF proxyVars
  <2>2. CASE Forgotten
    <3>1. \A p \in Proxies : /\ rpc'[p].op = rpc[p].op
                             /\ rpc'[p].stage = IF rpc[p].stage \in Pending
                                                THEN "cut" ELSE rpc[p].stage
      BY <1>0, <2>2, ForgottenFacts DEF TypeOK, SupTypeOK
    <3> QED
      BY <1>0, <2>1, <3>1 DEF CallsFit, Pending
  <2>3. CASE \E p \in Proxies : Serve(p)
    <3>1. PICK p \in Proxies : Serve(p)
      BY <2>3
    <3>2. /\ rpc'[p].op = rpc[p].op /\ rpc'[p].stage # "sent"
          /\ rpc'[p].stage \in {"lock", "ready", "banner"} => rpc[p].op = "ensure_up"
          /\ \A q \in Proxies : q # p => rpc'[q] = rpc[q]
      BY <1>0, <3>1, ServeShapes
    <3> QED
      BY <1>0, <2>1, <3>2 DEF CallsFit
  <2>4. CASE Listens \/ Stops \/ Rests
    BY <1>1, <2>1, <2>4 DEF Listens, supVars, Stops, StopVm, Rests
  <2> QED
    BY <1>3, <2>2, <2>3, <2>4, SupervisorShapes
<1>4. ASSUME NEW p \in Proxies,
             \/ Arrive(p) \/ Deadline(p) \/ ProxyStep(p) \/ ForwardEnds(p) \/ Dies(p)
      PROVE  CallsFit'
  <2>1. /\ \A q \in Proxies : q # p => Same(q) /\ at'[q] = at[q]
        /\ \/ Same(p) /\ at'[p] = at[p]
           \/ Before(p) \/ Called(p) \/ NotCalled(p) \/ Heard(p) \/ Unheard(p)
           \/ Dialled(p) \/ HungUp(p)
    BY <1>0, <1>4, ProxyShapes
  <2>2. /\ rpc'[p].stage \in {"lock", "ready", "banner"} => rpc'[p].op = "ensure_up"
        /\ rpc'[p].stage = "sent" /\ rpc'[p].op = "unregister" => at'[p] \in {"leaving", "ended"}
        /\ at'[p] = "enrolling" => rpc'[p].op = "register"
    BY <1>0, <2>1
       DEF CallsFit, Same, Before, Called, NotCalled, Heard, Unheard, Dialled, HungUp, Resting
  <2> QED
    BY <1>0, <2>1, <2>2 DEF CallsFit, Same
<1> QED
  BY <1>2, <1>3, <1>4, NextShapes

LEMMA NextBlank == IInv /\ [Next]_vars => Blank'
<1> SUFFICES ASSUME IInv, [Next]_vars PROVE Blank'
  OBVIOUS
<1>0. TypeOK /\ CallsFit /\ Blank
  BY DEF IInv
<1>1. CASE UNCHANGED <<job, stopping, conns>>
  BY <1>0, <1>1 DEF Blank
<1>2. CASE UNCHANGED vars \/ VmNext
  BY <1>1, <1>2 DEF vars, vmVars, supVars, VmNext, VmMoves, GuestServes, GuestHangs, VmExits
<1>3. CASE SupervisorNext
  <2>1. CASE Forgotten
    BY <2>1 DEF Forgotten, Blank
  <2>2. CASE Listens
    BY <2>2 DEF Listens, Blank
  <2>3. CASE \E p \in Proxies : Serve(p)
    BY <1>0, <2>3, ServeShapes DEF Blank, vmVars
  <2>4. CASE Stops
    BY <2>4 DEF Stops, StopVm, Blank
  <2>5. CASE Rests
    BY <1>1, <2>5 DEF Rests
  <2> QED
    BY <1>3, <2>1, <2>2, <2>3, <2>4, <2>5, SupervisorShapes
<1>4. ASSUME NEW p \in Proxies,
             \/ Arrive(p) \/ Deadline(p) \/ ProxyStep(p) \/ ForwardEnds(p) \/ Dies(p)
      PROVE  Blank'
  <2>1. /\ UNCHANGED OtherSupVars
        /\ \/ UNCHANGED vmVars
           \/ Launched /\ job = "none" /\ life < MaxLives /\ Before(p)
    BY <1>0, <1>4, ProxyShapes
  <2> QED
    BY <1>0, <2>1 DEF Blank, OtherSupVars, vmVars, Launched
<1> QED
  BY <1>2, <1>3, <1>4, NextShapes

LEMMA NextUpstreamFits == IInv /\ TypeOK' /\ [Next]_vars => UpstreamFits'
<1> SUFFICES ASSUME IInv, TypeOK', [Next]_vars PROVE UpstreamFits'
  OBVIOUS
<1>0. TypeOK /\ CallsFit /\ UpstreamFits
  BY DEF IInv
<1>1. /\ life \in Nat /\ \A p \in Proxies : upstream[p] \in Nat
  BY <1>0, LivesAssumption DEF TypeOK, VmTypeOK
<1>2. CASE UNCHANGED <<job, life, rpc, at, upstream>>
  BY <1>0, <1>2 DEF UpstreamFits, Granted
<1>3. CASE UNCHANGED vars \/ VmNext
  BY <1>2, <1>3
     DEF vars, vmVars, supVars, proxyVars, VmNext, VmMoves, GuestServes, GuestHangs, VmExits
<1>4. CASE SupervisorNext
  <2>1. UNCHANGED <<at, upstream>>
    BY <1>4, SupervisorShapes DEF proxyVars
  <2>2. \/ job' # "starting" /\ life' = life
        \/ UNCHANGED <<job, life, rpc>>
    <3>1. CASE JobExits \/ Listens \/ Rests
      BY <3>1 DEF JobExits, Listens, Rests
    <3>2. CASE \E p \in Proxies : Serve(p)
      BY <1>0, <3>2, ServeShapes DEF vmVars
    <3>3. CASE Stops
      BY <3>3 DEF Stops, StopVm
    <3> QED
      BY <1>4, <3>1, <3>2, <3>3, SupervisorShapes
  <2> QED
    BY <1>0, <1>2, <2>1, <2>2 DEF UpstreamFits
<1>5. ASSUME NEW p \in Proxies,
             \/ Arrive(p) \/ Deadline(p) \/ ProxyStep(p) \/ ForwardEnds(p) \/ Dies(p)
      PROVE  UpstreamFits'
  <2>1. /\ \A q \in Proxies : q # p => Same(q) /\ at'[q] = at[q]
        /\ \/ UNCHANGED vmVars
           \/ Launched /\ job = "none" /\ Before(p)
        /\ \/ Same(p) /\ at'[p] = at[p]
           \/ Before(p) \/ Called(p) \/ NotCalled(p) \/ Heard(p) \/ Unheard(p)
           \/ Dialled(p) \/ HungUp(p)
    BY <1>0, <1>5, ProxyShapes
  <2>2. upstream'[p] \in {0, upstream[p], life} /\ (Launched => upstream'[p] \in {0, upstream[p]} \/ UNCHANGED vmVars)
    BY <2>1 DEF Same, Before, Called, NotCalled, Heard, Unheard, Dialled, HungUp
  <2>3. \A q \in Proxies : upstream'[q] \in Nat /\ upstream'[q] <= life
    BY <1>0, <1>1, <2>1, <2>2 DEF UpstreamFits, Same
  <2>4. CASE UNCHANGED vmVars
    <3>1. Granted(p)' => Granted(p) /\ upstream'[p] = upstream[p]
      BY <1>0, <2>1, GrantedMeans
         DEF Same, Before, Called, NotCalled, Heard, Unheard, Dialled, HungUp, CallsFit, Resting
    <3>2. \A q \in Proxies : q # p => (Granted(q)' <=> Granted(q)) /\ upstream'[q] = upstream[q]
      BY <2>1 DEF Same, Granted
    <3> QED
      BY <1>0, <2>3, <2>4, <3>1, <3>2 DEF UpstreamFits, vmVars
  <2>5. CASE Launched
    BY <1>1, <2>3, <2>5 DEF UpstreamFits, Launched
  <2> QED
    BY <2>1, <2>4, <2>5
<1> QED
  BY <1>3, <1>4, <1>5, NextShapes

LEMMA NextCounted ==
    IInv /\ TypeOK' /\ UpstreamFits' /\ [Next]_vars => EveryUserCounted'
<1> SUFFICES ASSUME IInv, TypeOK', UpstreamFits', [Next]_vars PROVE EveryUserCounted'
  OBVIOUS
<1>0. /\ TypeOK /\ CallsFit /\ UpstreamFits
      /\ job = "running" => \A p \in Proxies : Granted(p) /\ upstream[p] = life => p \in conns
  BY DEF IInv, EveryUserCounted, Holders
<1>1. SUFFICES ASSUME job' = "running", NEW q \in Proxies, Granted(q)', upstream'[q] = life'
               PROVE  q \in conns'
  BY DEF EveryUserCounted, Holders
<1>2. CASE UNCHANGED <<job, life, rpc, at, upstream, conns>>
  BY <1>0, <1>1, <1>2 DEF Granted
<1>3. CASE UNCHANGED vars \/ VmNext
  BY <1>2, <1>3
     DEF vars, vmVars, supVars, proxyVars, VmNext, VmMoves, GuestServes, GuestHangs, VmExits
<1>4. CASE SupervisorNext
  <2>1. UNCHANGED <<at, upstream>>
    BY <1>4, SupervisorShapes DEF proxyVars
  <2>2. CASE JobExits
    BY <1>1, <2>2 DEF JobExits
  <2>3. CASE Listens
    BY <1>0, <1>1, <2>1, <2>3 DEF Listens, UpstreamFits, supVars, Granted
  <2>4. CASE \E p \in Proxies : Serve(p)
    <3>1. PICK p \in Proxies : Serve(p)
      BY <2>4
    <3>2. /\ job = "running" /\ UNCHANGED vmVars
          /\ rpc'[p].op = rpc[p].op
          /\ \A r \in Proxies : r # p => rpc'[r] = rpc[r]
          /\ rpc'[p].stage = "ok" =>
                \/ rpc[p].op = "ensure_up" /\ UNCHANGED conns
                \/ rpc[p].op = "register" /\ conns' = conns \cup {p}
                \/ rpc[p].op = "unregister" /\ rpc[p].stage = "sent" /\ conns' = conns \ {p}
          /\ rpc'[p].stage # "ok" => UNCHANGED conns
      BY <1>0, <3>1, ServeShapes
    <3>3. rpc[p].op = "unregister" /\ rpc[p].stage = "sent" => ~(Granted(p)') 
      BY <1>0, <2>1, GrantedMeans DEF CallsFit
    <3>4. CASE q # p
      <4>1. Granted(q) /\ upstream[q] = life
        BY <1>1, <2>1, <3>2, <3>4 DEF Granted, vmVars
      <4> QED
        BY <1>0, <3>2, <3>4, <4>1
    <3>5. CASE q = p
      <4>1. CASE rpc'[p].op = "register" /\ rpc'[p].stage = "ok"
        BY <3>2, <3>5, <4>1
      <4>2. CASE ~(rpc'[p].op = "register" /\ rpc'[p].stage = "ok")
        <5>1. at[p] = "forward"
          BY <1>1, <2>1, <3>5, <4>2, GrantedMeans
        <5>2. p \in conns
          BY <1>0, <1>1, <2>1, <3>2, <3>5, <5>1 DEF Granted, vmVars
        <5>3. ~(rpc[p].op = "unregister" /\ rpc[p].stage = "sent")
          BY <1>1, <3>3, <3>5
        <5> QED
          BY <3>2, <3>5, <5>2, <5>3
      <4> QED
        BY <4>1, <4>2
    <3> QED
      BY <3>4, <3>5
  <2>5. CASE Stops \/ Rests
    BY <1>2, <2>1, <2>5 DEF Stops, StopVm, Rests
  <2> QED
    BY <1>4, <2>2, <2>3, <2>4, <2>5, SupervisorShapes
<1>5. ASSUME NEW p \in Proxies,
             \/ Arrive(p) \/ Deadline(p) \/ ProxyStep(p) \/ ForwardEnds(p) \/ Dies(p)
      PROVE  q \in conns'
  <2>1. /\ UNCHANGED OtherSupVars
        /\ \A r \in Proxies : r # p => Same(r) /\ at'[r] = at[r]
        /\ \/ UNCHANGED vmVars
           \/ Launched /\ job = "none" /\ life < MaxLives /\ Before(p)
        /\ \/ Same(p) /\ at'[p] = at[p]
           \/ Before(p) \/ Called(p) \/ NotCalled(p) \/ Heard(p) \/ Unheard(p)
           \/ Dialled(p) \/ HungUp(p)
    BY <1>0, <1>5, ProxyShapes
  <2>2. UNCHANGED <<job, life, conns>>
    BY <1>1, <2>1 DEF vmVars, OtherSupVars, Launched
  <2>3. Granted(q) /\ upstream'[q] = upstream[q]
    <3>1. CASE q = p
      BY <1>0, <1>1, <2>1, <3>1, GrantedMeans
         DEF Same, Before, Called, NotCalled, Heard, Unheard, Dialled, HungUp, CallsFit, Resting
    <3>2. CASE q # p
      BY <1>1, <2>1, <3>2 DEF Same, Granted
    <3> QED
      BY <3>1, <3>2
  <2> QED
    BY <1>0, <1>1, <2>2, <2>3
<1> QED
  BY <1>3, <1>4, <1>5, NextShapes

\* All proxies, lives and faults: types are kept, and every connection that was
\* granted the running VM is in its supervisor's count.
THEOREM InvariantHolds == Spec => []IInv
<1>1. IInv /\ [Next]_vars => IInv'
  <2> SUFFICES ASSUME IInv, [Next]_vars PROVE IInv'
    OBVIOUS
  <2>1. TypeOK' /\ ClockRuns'
    BY NextTypes DEF IInv
  <2>2. UpstreamFits'
    BY <2>1, NextUpstreamFits
  <2> QED
    BY <2>1, <2>2, NextCallsFit, NextBlank, NextCounted DEF IInv
<1> QED
  BY <1>1, InitInvariant, PTL DEF Spec

\* The variables of the supervisor, the proxies and the VM keep their types.
THEOREM TypeCorrect == Spec => []TypeOK
BY InvariantHolds, PTL DEF IInv

-----------------------------------------------------------------------------
(* Vzlink implements Lease *)

\* A granted connection changes only by being let go, and only serving a
\* registration grants one.
LEMMA HoldersKept ==
    ASSUME IInv, TypeOK', job' = job, life' = life, UNCHANGED <<at, rpc, upstream>>
    PROVE  Holders' = Holders
BY DEF Holders, Granted

LEMMA StepImplements == IInv /\ IInv' /\ [Next]_vars => [Promise!Next]_(Promise!leaseVars)
<1> SUFFICES ASSUME IInv, IInv', [Next]_vars PROVE [Promise!Next]_(Promise!leaseVars)
  OBVIOUS
<1> USE DEF Promise!leaseVars
<1>0. /\ TypeOK /\ CallsFit /\ UpstreamFits /\ Blank
      /\ Holders \subseteq conns
      /\ TypeOK'
  BY DEF IInv, EveryUserCounted
<1>1. CASE UNCHANGED <<job, life, stopping, stop_reason, at, rpc, upstream>>
  BY <1>1 DEF LeaseState, Holders, Granted
<1>2. CASE UNCHANGED vars \/ VmNext
  BY <1>1, <1>2
     DEF vars, vmVars, supVars, proxyVars, VmNext, VmMoves, GuestServes, GuestHangs, VmExits
<1>3. CASE SupervisorNext
  <2>1. UNCHANGED <<at, upstream>>
    BY <1>3, SupervisorShapes DEF proxyVars
  <2>2. CASE JobExits
    <3>1. LeaseState' = "off" /\ Holders' = {}
      BY <2>2 DEF JobExits, LeaseState, Holders
    <3>2. LeaseState = "off" => Holders = {}
      BY DEF LeaseState, Holders
    <3> QED
      BY <3>1, <3>2 DEF Promise!Next, Promise!TurnOff
  <2>3. CASE Listens
    <3>1. LeaseState = "off" /\ LeaseState' = "on" /\ Holders = {}
      BY <1>0, <2>3 DEF Listens, supVars, Blank, LeaseState, Holders
    <3>2. \A p \in Proxies : ~(Granted(p)' /\ upstream'[p] = life')
      BY <1>0, <2>1, <2>3 DEF Listens, supVars, UpstreamFits, Granted
    <3>3. Holders' = {}
      BY <3>2 DEF Holders
    <3> QED
      BY <3>1, <3>3 DEF Promise!Next, Promise!TurnOn
  <2>4. ASSUME NEW p \in Proxies, Serve(p) PROVE [Promise!Next]_(Promise!leaseVars)
    <3>1. /\ job = "running" /\ UNCHANGED <<vmVars, stopping, stop_reason>>
          /\ rpc'[p].op = rpc[p].op
          /\ \A q \in Proxies : q # p => rpc'[q] = rpc[q]
          /\ rpc'[p].stage = "ok" => rpc'[p].op # "register" \/ ~stopping
      BY <1>0, <2>4, ServeShapes
    <3>2. LeaseState' = LeaseState
      BY <3>1 DEF LeaseState, vmVars
    <3>3. \A q \in Proxies : q # p => (Granted(q)' <=> Granted(q))
      BY <2>1, <3>1 DEF Granted
    <3>4. Granted(p) => Granted(p)'
      <4>1. rpc[p].stage \in Pending
        BY <2>4 DEF Serve, Refuse, Queue, Register, Unregister, Own, AgentReady, Banner, BootFails,
           Taken, Arrived, Pending
      <4>2. Granted(p) => at[p] = "forward"
        BY <1>0, <4>1, GrantedMeans DEF Pending
      <4> QED
        BY <1>0, <2>1, <4>2, GrantedMeans
    <3>5. \/ Holders' = Holders
          \/ Holders' = Holders \cup {p} /\ Granted(p)' /\ ~Granted(p)
      <4>1. CASE Granted(p)' <=> Granted(p)
        <5>1. \A q \in Proxies : Granted(q)' <=> Granted(q)
          BY <3>3, <4>1
        <5>2. Holders' = Holders
          BY <2>1, <3>1, <5>1 DEF Holders, vmVars
        <5> QED
          BY <5>2
      <4>2. CASE Granted(p)' /\ ~Granted(p)
        <5>1. Holders' = {q \in Proxies : Granted(q)' /\ upstream[q] = life}
          BY <2>1, <3>1 DEF Holders, vmVars
        <5>2. Holders = {q \in Proxies : Granted(q) /\ upstream[q] = life}
          BY <3>1 DEF Holders
        <5>3. CASE upstream[p] = life
          BY <3>3, <4>2, <5>1, <5>2, <5>3
        <5>4. CASE upstream[p] # life
          <6>1. Holders' = Holders
            BY <3>3, <5>1, <5>2, <5>4
          <6> QED
            BY <6>1
        <5> QED
          BY <5>3, <5>4
      <4> QED
        BY <3>4, <4>1, <4>2
    <3>6. Granted(p)' /\ ~Granted(p) => ~stopping
      BY <1>0, <2>1, <3>1, GrantedMeans
    <3>7. CASE Holders' = Holders
      BY <3>2, <3>7
    <3>8. CASE Holders' = Holders \cup {p} /\ ~stopping
      <4>1. LeaseState = "on"
        BY <3>1, <3>8 DEF LeaseState
      <4>2. Promise!Acquire(p)
        BY <3>2, <3>8, <4>1 DEF Promise!Acquire
      <4> QED
        BY <4>2 DEF Promise!Next
    <3> QED
      BY <3>5, <3>6, <3>7, <3>8
  <2>5. CASE Stops
    <3>1. PICK t \in Tasks, reason \in {"idle", "signal", "hung"} :
            /\ job = "running" /\ StopVm(t, reason)
            /\ reason = "idle" => conns = {}
      BY <2>5 DEF Stops
    <3>2. Holders' = Holders
      BY <1>0, <2>1, <3>1, HoldersKept DEF StopVm
    <3>3. LeaseState' = IF reason = "idle" THEN "retiring" ELSE "draining"
      BY <3>1 DEF StopVm, LeaseState
    <3>4. LeaseState \in {"on", "retiring", "draining"}
      BY <3>1 DEF LeaseState
    <3>5. reason = "idle" => Holders = {}
      BY <1>0, <3>1
    <3> QED
      BY <3>2, <3>3, <3>4, <3>5 DEF Promise!Next, Promise!Retire, Promise!Force
  <2>6. CASE Rests
    BY <1>1, <2>1, <2>6 DEF Rests
  <2> QED
    BY <1>3, <2>2, <2>3, <2>4, <2>5, <2>6, SupervisorShapes
<1>4. ASSUME NEW p \in Proxies,
             \/ Arrive(p) \/ Deadline(p) \/ ProxyStep(p) \/ ForwardEnds(p) \/ Dies(p)
      PROVE  [Promise!Next]_(Promise!leaseVars)
  <2>1. /\ UNCHANGED OtherSupVars
        /\ \A q \in Proxies : q # p => Same(q) /\ at'[q] = at[q]
        /\ \/ UNCHANGED vmVars
           \/ Launched /\ job = "none" /\ life < MaxLives /\ Before(p)
        /\ \/ Same(p) /\ at'[p] = at[p]
           \/ Before(p) \/ Called(p) \/ NotCalled(p) \/ Heard(p) \/ Unheard(p)
           \/ Dialled(p) \/ HungUp(p)
    BY <1>0, <1>4, ProxyShapes
  <2>2. CASE Launched /\ job = "none"
    BY <2>2 DEF Launched, LeaseState, Holders
  <2>3. CASE UNCHANGED vmVars
    <3>1. LeaseState' = LeaseState
      BY <2>1, <2>3 DEF LeaseState, vmVars, OtherSupVars
    <3>2. \A q \in Proxies : q # p => (Granted(q)' <=> Granted(q)) /\ upstream'[q] = upstream[q]
      BY <2>1 DEF Same, Granted
    <3>3. Granted(p)' => Granted(p) /\ upstream'[p] = upstream[p]
      BY <1>0, <2>1, GrantedMeans
         DEF Same, Before, Called, NotCalled, Heard, Unheard, Dialled, HungUp, CallsFit, Resting
    <3>4. Holders' = Holders \/ Holders' = Holders \ {p}
      BY <2>3, <3>2, <3>3 DEF Holders, vmVars
    <3> QED
      BY <3>1, <3>4 DEF Promise!Next, Promise!Release
  <2> QED
    BY <2>1, <2>2, <2>3
<1> QED
  BY <1>2, <1>3, <1>4, NextShapes

\* vzlink keeps what Lease promises: an idle stop finds no connection that was
\* granted the VM, and none is granted once any stop has begun.
THEOREM LeaseImplemented == Spec => Leased
<1>1. Init => Promise!Init
  BY DEF Init, VmInit, Promise!Init, LeaseState, Holders
<1> QED
  BY <1>1, StepImplements, InvariantHolds, PTL DEF Spec, Leased, Promise!Spec

-----------------------------------------------------------------------------
(* The pid, the boot and the count *)

\* Reaping the VM and the end of the job are one step, in every interleaving of
\* the idle loop, stop_vm in either task, and the signal.
THEOREM PidCorrect == Spec => []PidStaysOurs
<1>1. Init => PidStaysOurs
  BY DEF Init, VmInit, PidStaysOurs
<1>2. IInv /\ PidStaysOurs /\ [Next]_vars => PidStaysOurs'
  <2> SUFFICES ASSUME IInv, PidStaysOurs, [Next]_vars PROVE PidStaysOurs'
    OBVIOUS
  <2>0. TypeOK /\ CallsFit
    BY DEF IInv
  <2>1. CASE UNCHANGED vars \/ VmNext
    BY <2>1 DEF PidStaysOurs, vars, vmVars, VmNext, VmMoves, GuestServes, GuestHangs, VmExits
  <2>2. CASE SupervisorNext
    <3>1. CASE JobExits
      BY <3>1 DEF JobExits, PidStaysOurs
    <3>2. CASE Listens
      BY <3>2 DEF Listens, PidStaysOurs
    <3>3. CASE \E p \in Proxies : Serve(p)
      BY <2>0, <3>3, ServeShapes DEF PidStaysOurs, vmVars
    <3>4. CASE Stops
      BY <3>4 DEF Stops, StopVm, PidStaysOurs
    <3>5. CASE PollProbes \/ PollCounts \/ ProbeAnswered \/ ProbeSilent
      BY <3>5 DEF PollProbes, PollCounts, ProbeAnswered, ProbeSilent, CountsIdle, StopVm, PidStaysOurs, vmVars
    <3>6. CASE \E t \in Tasks : GraceOver(t)
      BY <3>6 DEF GraceOver, PidStaysOurs
    <3>7. CASE Signal
      BY <3>7 DEF Signal, StopVm, PidStaysOurs
    <3>8. CASE StartFails \/ PollFindsDeath \/ \E t \in Tasks : Gone(t) \/ KillOver(t)
      BY <3>1, <3>8 DEF StartFails, PollFindsDeath, Gone, KillOver, Finish
    <3> QED
      BY <2>2, <3>2, <3>3, <3>5, <3>6, <3>7, <3>8
         DEF SupervisorNext, SupervisorMoves, IdleLoop, StopStep
  <2>3. ASSUME NEW p \in Proxies,
               \/ Arrive(p) \/ Deadline(p) \/ ProxyStep(p) \/ ForwardEnds(p) \/ Dies(p)
        PROVE  PidStaysOurs'
    <3>1. \/ UNCHANGED vmVars
          \/ Launched /\ job = "none" /\ life < MaxLives /\ Before(p)
      BY <2>0, <2>3, ProxyShapes
    <3> QED
      BY <3>1 DEF Launched, PidStaysOurs, vmVars
  <2> QED
    BY <2>1, <2>2, <2>3, NextShapes
<1> QED
  BY <1>1, <1>2, InvariantHolds, PTL DEF Spec

\* Two calls are never in the boot together, and none is once it has succeeded.
LEMMA NextLoneBoot == IInv /\ LoneBoot /\ [Next]_vars => LoneBoot'
<1> SUFFICES ASSUME IInv, LoneBoot, [Next]_vars PROVE LoneBoot'
  OBVIOUS
<1>0. TypeOK /\ CallsFit
  BY DEF IInv
<1>1. CASE UNCHANGED <<rpc, booted>>
  BY <1>1 DEF LoneBoot
<1>2. CASE UNCHANGED vars \/ VmNext
  BY <1>1, <1>2 DEF vars, supVars, VmNext
<1>3. CASE SupervisorNext
  <2>1. CASE Forgotten
    BY <1>0, <2>1, ForgottenFacts DEF LoneBoot, Pending, TypeOK, SupTypeOK
  <2>2. CASE Listens \/ Stops \/ Rests
    BY <1>1, <2>2 DEF Listens, supVars, Stops, StopVm, Rests
  <2>3. ASSUME NEW p \in Proxies, Serve(p) PROVE LoneBoot'
    <3>0. \A q \in Proxies : q # p => rpc'[q] = rpc[q]
      BY <1>0, <2>3, ServeShapes
    <3>1. CASE Own(p)
      <4>1. CASE booted
        <5>1. rpc'[p].stage = "ok" /\ booted' = booted
          BY <1>0, <3>1, <4>1, StageFacts DEF Own, Stages, Answers, TypeOK, SupTypeOK
        <5> QED
          BY <3>0, <5>1 DEF LoneBoot
      <4>2. CASE ~booted
        <5>1. booted' = booted /\ \A q \in Proxies : rpc[q].stage \notin {"ready", "banner"}
          BY <3>1 DEF Own, Booting
        <5> QED
          BY <3>0, <4>2, <5>1 DEF LoneBoot
      <4> QED
        BY <4>1, <4>2
    <3>2. CASE Banner(p)
      <4>1. rpc[p].stage = "banner" /\ rpc'[p].stage = "ok"
        BY <1>0, <3>2, StageFacts DEF Banner, Stages, Answers, TypeOK, SupTypeOK
      <4> QED
        BY <3>0, <4>1 DEF LoneBoot
    <3>3. CASE AgentReady(p)
      <4>1. rpc[p].stage = "ready" /\ booted' = booted
        BY <3>3 DEF AgentReady
      <4> QED
        BY <3>0, <4>1 DEF LoneBoot
    <3>4. CASE Refuse(p) \/ Queue(p) \/ Register(p) \/ Unregister(p) \/ BootFails(p)
      <4>1. PICK stage \in {"stopping", "lock", "ok", "error"} : Stage(p, stage) /\ booted' = booted
        BY <3>4 DEF Refuse, Queue, Register, Unregister, BootFails
      <4>2. stage \in Stages
        BY DEF Stages, Pending, Answers
      <4>3. rpc'[p].stage = stage
        BY <1>0, <4>1, <4>2, StageFacts DEF TypeOK, SupTypeOK
      <4> QED
        BY <3>0, <4>1, <4>3 DEF LoneBoot
    <3> QED
      BY <2>3, <3>1, <3>2, <3>3, <3>4 DEF Serve
  <2> QED
    BY <1>3, <2>1, <2>2, <2>3, SupervisorShapes
<1>4. ASSUME NEW p \in Proxies,
             \/ Arrive(p) \/ Deadline(p) \/ ProxyStep(p) \/ ForwardEnds(p) \/ Dies(p)
      PROVE  LoneBoot'
  <2>1. /\ booted' = booted
        /\ \A q \in Proxies : q # p => rpc'[q] = rpc[q]
        /\ rpc'[p] = rpc[p] \/ rpc'[p].stage \in {"sent", "none"}
    BY <1>0, <1>4, ProxyShapes
       DEF OtherSupVars, Same, Before, Called, NotCalled, Heard, Unheard, Dialled, HungUp
  <2> QED
    BY <2>1 DEF LoneBoot
<1> QED
  BY <1>2, <1>3, <1>4, NextShapes

\* However many proxies ask at once, at most one boot is in flight, and none
\* after one has succeeded.
THEOREM OneBootCorrect == Spec => []OneBoot
<1>1. Init => LoneBoot
  BY DEF Init, SupInit, NoCall, LoneBoot
<1>2. LoneBoot => OneBoot
  <2> SUFFICES ASSUME LoneBoot PROVE OneBoot
    OBVIOUS
  <2> DEFINE booting == {p \in Proxies : rpc[p].stage \in {"ready", "banner"}}
  <2>1. CASE booting = {}
    <3>1. Cardinality(booting) = 0
      BY <2>1, FS_EmptySet
    <3> QED
      BY <3>1 DEF OneBoot
  <2>2. CASE booting # {}
    <3>1. PICK p \in Proxies : booting = {p}
      BY <2>2 DEF LoneBoot
    <3>2. Cardinality(booting) = 1 /\ ~booted
      BY <3>1, FS_Singleton DEF LoneBoot
    <3> QED
      BY <3>2 DEF OneBoot
  <2> QED
    BY <2>1, <2>2
<1> QED
  BY <1>1, <1>2, NextLoneBoot, InvariantHolds, PTL DEF Spec

-----------------------------------------------------------------------------
(* The count *)

LEMMA NextCountedOnly ==
    Faults \cap {"timeout", "death"} = {} /\ IInv /\ CountedOnly /\ [Next]_vars => CountedOnly'
<1> SUFFICES ASSUME Faults \cap {"timeout", "death"} = {}, IInv, CountedOnly, [Next]_vars
             PROVE  CountedOnly'
  OBVIOUS
<1>0. /\ TypeOK /\ CallsFit
      /\ job # "running" => conns = {}
      /\ "timeout" \notin Faults /\ "death" \notin Faults
  BY DEF IInv, Blank
<1>1. CASE UNCHANGED <<rpc, at, conns>>
  BY <1>1 DEF CountedOnly
<1>2. CASE UNCHANGED vars \/ VmNext
  BY <1>1, <1>2 DEF vars, supVars, proxyVars, VmNext
<1>3. CASE SupervisorNext
  <2>0. at' = at
    BY <1>3, SupervisorShapes DEF proxyVars
  <2>1. CASE Forgotten
    <3>1. conns' = {}
      BY <2>1 DEF Forgotten
    <3>2. \A p \in Proxies : rpc'[p].op = rpc[p].op /\ rpc'[p].stage # "sent"
      BY <1>0, <2>1, ForgottenFacts DEF TypeOK, SupTypeOK, Pending
    <3> QED
      BY <2>0, <3>1, <3>2 DEF CountedOnly
  <2>2. CASE Listens \/ Stops \/ Rests
    BY <1>1, <2>0, <2>2 DEF Listens, supVars, Stops, StopVm, Rests
  <2>3. ASSUME NEW p \in Proxies, Serve(p) PROVE CountedOnly'
    <3>1. rpc[p].stage \in Pending
      BY <2>3 DEF Serve, Refuse, Queue, Register, Unregister, Own, AgentReady, Banner, BootFails,
                  Taken, Arrived, Pending
    <3>2. /\ rpc'[p].op = rpc[p].op /\ rpc'[p].stage # "sent"
          /\ \A q \in Proxies : q # p => rpc'[q] = rpc[q]
          /\ conns' \in {conns, conns \cup {p}, conns \ {p}}
      BY <1>0, <2>3, ServeShapes
    <3>3. p \in conns' => \/ at[p] = "enrolling" /\ rpc'[p].stage = "ok"
                          \/ at[p] \in {"forward", "leave"}
      <4>1. CASE Register(p)
        BY <1>0, <2>3, <4>1, ServeShapes, StageFacts
           DEF CountedOnly, Register, Taken, Arrived, TypeOK, SupTypeOK, Stages, Answers
      <4>2. CASE Unregister(p)
        BY <4>2 DEF Unregister
      <4>3. CASE ~Register(p) /\ ~Unregister(p)
        <5>1. conns' = conns
          BY <2>3, <4>3 DEF Serve, Refuse, Queue, Own, AgentReady, Banner, BootFails
        <5>2. rpc[p].stage = "sent" => rpc[p].op # "unregister"
          BY <2>3, <4>3 DEF Serve, Refuse, Queue, Own, AgentReady, Banner, BootFails,
                            Taken, Arrived, Refusable
        <5> QED
          BY <3>1, <5>1, <5>2 DEF CountedOnly, Pending
      <4> QED
        BY <4>1, <4>2, <4>3
    <3> QED
      BY <2>0, <3>2, <3>3 DEF CountedOnly
  <2> QED
    BY <1>3, <2>1, <2>2, <2>3, SupervisorShapes
<1>4. ASSUME NEW p \in Proxies,
             \/ Arrive(p) \/ Deadline(p) \/ ProxyStep(p) \/ ForwardEnds(p) \/ Dies(p)
      PROVE  CountedOnly'
  <2>1. /\ conns' = conns
        /\ \A q \in Proxies : q # p => Same(q) /\ at'[q] = at[q]
        /\ \/ Same(p) /\ at'[p] = at[p]
           \/ Before(p) \/ Called(p) \/ NotCalled(p) \/ Heard(p) \/ Unheard(p)
           \/ Dialled(p) \/ HungUp(p)
    BY <1>0, <1>4, ProxyShapes DEF OtherSupVars
  <2>2. /\ p \in conns' => \/ at'[p] = "enrolling" /\ rpc'[p].stage = "ok"
                           \/ at'[p] \in {"forward", "leave"}
                           \/ at'[p] = "leaving" /\ rpc'[p].stage = "sent"
        /\ rpc'[p].stage = "sent" /\ rpc'[p].op = "register" => at'[p] = "enrolling"
        /\ at'[p] = "leaving" => rpc'[p].op = "unregister"
    BY <1>0, <2>1
       DEF CountedOnly, Same, Before, Called, NotCalled, Heard, Unheard, Dialled, HungUp, Answers
  <2> QED
    BY <2>1, <2>2 DEF CountedOnly, Same
<1> QED
  BY <1>2, <1>3, <1>4, NextShapes

\* Without proxies that are killed and without answers that come too late, the
\* registered connections are those of the proxies between register and
\* unregister, and every user of the running VM is among them.
THEOREM CountCorrect == Faults \cap {"timeout", "death"} = {} => (Spec => []CountIsExact)
<1> SUFFICES ASSUME Faults \cap {"timeout", "death"} = {} PROVE Spec => []CountIsExact
  OBVIOUS
<1>1. Init => CountedOnly
  BY DEF Init, SupInit, NoCall, CountedOnly
<1>2. IInv /\ CountedOnly => CountIsExact
  BY DEF IInv, TypeOK, SupTypeOK, EveryUserCounted, CountedOnly, CountIsExact
<1>3. IInv /\ CountedOnly /\ [Next]_vars => CountedOnly'
  BY NextCountedOnly
<1> QED
  BY <1>1, <1>2, <1>3, InvariantHolds, PTL DEF Spec
=============================================================================
