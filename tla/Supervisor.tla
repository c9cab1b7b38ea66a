----------------------------- MODULE Supervisor -----------------------------
(***************************************************************************)
(* vzlink-supervisor (vzlink/supervisor.py): one process per VM.  It       *)
(* answers the proxies' RPCs, each in a task of its own, brings the guest  *)
(* up at most once at a time behind boot_lock, polls for death, a hung     *)
(* guest and idleness, and stops the VM on a signal or at idle.            *)
(*                                                                         *)
(* One action is what one task does between two awaits.  dispatch decides  *)
(* REGISTER and UNREGISTER and refuses without awaiting, so it is one      *)
(* step; ensure_up awaits the lock, readiness and the banner.              *)
(***************************************************************************)
EXTENDS Vm, FiniteSets

CONSTANTS
    Proxies,    \* the proxies; each is its own connection id
    IdlePolls,  \* idle_timeout in polls of idle_poll
    HangPolls,  \* hang_timeout in polls; 0 disables the check
    Graceful    \* stop_mode is GRACEFUL, not KILL

ASSUME PollsAssumption == IdlePolls \in Nat \ {0} /\ HangPolls \in Nat
ASSUME ModeAssumption  == Graceful \in BOOLEAN

VARIABLES
    rpc,          \* proxy -> its request and how far the supervisor is with it
    conns,        \* the registered connections
    booted,       \* a boot has succeeded
    stopping,
    stop_reason,  \* "idle" (also before any stop), "signal", "hung"; VM_DIED is set on the way out
    task,         \* where the two tasks that stop the VM are
    idle_for,     \* polls counted as idle
    silent        \* 0: the last probe was answered; else 1 + the polls since the first silent one

supVars == <<rpc, conns, booted, stopping, stop_reason, task, idle_for, silent>>

Ops == {"ensure_up", "register", "unregister"}

\* sent: in the socket; lock: waiting for boot_lock, or its owner before the
\* first await; ready, banner: the owner waiting for the agent or for sshd; then
\* the answer, or cut: the supervisor exited without one.
Pending == {"sent", "lock", "ready", "banner"}
Answers == {"ok", "error", "stopping"}
Calls   == [op : Ops, stage : Pending \cup Answers \cup {"none", "cut"}]
NoCall  == [op |-> "unregister", stage |-> "none"]

Tasks == {"idle_loop", "watch_signals"}
Asleep == [t \in Tasks |-> "wait"]

SupTypeOK ==
    /\ rpc \in [Proxies -> Calls]
    /\ conns \subseteq Proxies
    /\ booted \in BOOLEAN
    /\ stopping \in BOOLEAN
    /\ stop_reason \in {"idle", "signal", "hung"}
    /\ task \in [Tasks -> {"wait", "probe", "term", "kill"}]
    /\ idle_for \in 0..IdlePolls
    /\ silent \in 0..(HangPolls + 1)

SupInit ==
    /\ rpc = [p \in Proxies |-> NoCall]
    /\ conns = {}
    /\ booted = FALSE
    /\ stopping = FALSE
    /\ stop_reason = "idle"
    /\ task = Asleep
    /\ idle_for = 0
    /\ silent = 0

-----------------------------------------------------------------------------
(* The process *)

\* The handler is installed, the socket bound and both tasks started.
Listens ==
    /\ job = "starting"
    /\ job' = "running"
    /\ UNCHANGED <<life, vm, guest, signalled, supVars>>

\* Everything the process knew is gone, and unanswered requests see a close.
Forgotten ==
    /\ rpc' = [p \in Proxies |-> IF rpc[p].stage \in Pending
                                 THEN [rpc[p] EXCEPT !.stage = "cut"] ELSE rpc[p]]
    /\ conns' = {}
    /\ booted' = FALSE
    /\ stopping' = FALSE
    /\ stop_reason' = "idle"
    /\ task' = Asleep
    /\ idle_for' = 0
    /\ silent' = 0

\* scope.cancel(): the tasks are cancelled, cleanup removes the socket and the
\* running file, and _amain returns.
Finish == JobExits /\ Forgotten

\* runVm fails, or the control socket cannot be bound.
StartFails ==
    /\ "start" \in Faults
    /\ job = "starting"
    /\ Finish

-----------------------------------------------------------------------------
(* handle, dispatch and ensure_up *)

Stage(p, stage) == rpc' = [rpc EXCEPT ![p].stage = stage]

Arrived(p) == job = "running" /\ rpc[p].stage = "sent"

Refusable == {"ensure_up", "register"}

Refuse(p) ==
    /\ Arrived(p)
    /\ stopping /\ rpc[p].op \in Refusable
    /\ Stage(p, "stopping")
    /\ UNCHANGED <<vmVars, conns, booted, stopping, stop_reason, task, idle_for, silent>>

\* Mutant: a registration that arrives during a stop is accepted.
TakenAnyway(p) == Arrived(p)

Taken(p) == Arrived(p) /\ ~(stopping /\ rpc[p].op \in Refusable)

Queue(p) ==
    /\ Taken(p) /\ rpc[p].op = "ensure_up"
    /\ Stage(p, "lock")
    /\ UNCHANGED <<vmVars, conns, booted, stopping, stop_reason, task, idle_for, silent>>

Register(p) ==
    /\ Taken(p) /\ rpc[p].op = "register"
    /\ conns' = conns \cup {p}
    /\ Stage(p, "ok")
    /\ UNCHANGED <<vmVars, booted, stopping, stop_reason, task, idle_for, silent>>

\* Mutant: the registration stays.
UnregisterKeeps(p) ==
    /\ Taken(p) /\ rpc[p].op = "unregister"
    /\ Stage(p, "ok")
    /\ UNCHANGED <<vmVars, conns, booted, stopping, stop_reason, task, idle_for, silent>>

Unregister(p) ==
    /\ Taken(p) /\ rpc[p].op = "unregister"
    /\ conns' = conns \ {p}
    /\ Stage(p, "ok")
    /\ UNCHANGED <<vmVars, booted, stopping, stop_reason, task, idle_for, silent>>

\* A waiter gets the lock before anybody sees it free, so the lock is held as
\* long as any ensure_up is between its acquire and its answer.
Locked  == \E p \in Proxies : rpc[p].stage \in {"lock", "ready", "banner"}
Booting == \E p \in Proxies : rpc[p].stage \in {"ready", "banner"}

\* Mutant: asks do not wait for the boot in flight.
OwnAtOnce(p) ==
    /\ job = "running"
    /\ rpc[p].stage = "lock"
    /\ Stage(p, IF booted THEN "ok" ELSE "ready")
    /\ UNCHANGED <<vmVars, conns, booted, stopping, stop_reason, task, idle_for, silent>>

\* The owner looks at booted: a success is remembered, a failure is not.
Own(p) ==
    /\ job = "running"
    /\ rpc[p].stage = "lock" /\ ~Booting
    /\ Stage(p, IF booted THEN "ok" ELSE "ready")
    /\ UNCHANGED <<vmVars, conns, booted, stopping, stop_reason, task, idle_for, silent>>

Answering == vm = "alive" /\ guest = "serving"

AgentReady(p) ==
    /\ job = "running"
    /\ rpc[p].stage = "ready" /\ Answering
    /\ Stage(p, "banner")
    /\ UNCHANGED <<vmVars, conns, booted, stopping, stop_reason, task, idle_for, silent>>

Banner(p) ==
    /\ job = "running"
    /\ rpc[p].stage = "banner" /\ Answering
    /\ Stage(p, "ok")
    /\ booted' = TRUE
    /\ UNCHANGED <<vmVars, conns, stopping, stop_reason, task, idle_for, silent>>

\* The shared deadline of both stages.
BootFails(p) ==
    /\ job = "running"
    /\ rpc[p].stage \in {"ready", "banner"}
    /\ ~Answering \/ "boot" \in Faults
    /\ Stage(p, "error")
    /\ UNCHANGED <<vmVars, conns, booted, stopping, stop_reason, task, idle_for, silent>>

Serve(p) ==
    \/ Refuse(p) \/ Queue(p) \/ Register(p) \/ Unregister(p)
    \/ Own(p) \/ AgentReady(p) \/ Banner(p) \/ BootFails(p)

-----------------------------------------------------------------------------
(* stop_vm, as either task runs it *)

Sends(t, signal) == Kill(signal) /\ task' = [task EXCEPT ![t] = signal]

StopVm(t, reason) ==
    /\ stop_reason' = reason
    /\ stopping' = TRUE
    /\ Sends(t, IF Graceful THEN "term" ELSE "kill")
    /\ UNCHANGED <<job, life, vm, guest, rpc, conns, booted>>

\* alive() reaps the VM: stop_vm returns and its caller cancels the scope.
Gone(t) ==
    /\ job = "running"
    /\ task[t] \in {"term", "kill"}
    /\ vm # "alive"
    /\ Finish

\* Mutant: SIGTERM again instead of SIGKILL.
GraceRepeats(t) ==
    /\ job = "running"
    /\ task[t] = "term"
    /\ Sends(t, "term")
    /\ UNCHANGED <<job, life, vm, guest, rpc, conns, booted, stopping, stop_reason,
                   idle_for, silent>>

GraceOver(t) ==
    /\ job = "running"
    /\ task[t] = "term"
    /\ Sends(t, "kill")
    /\ UNCHANGED <<job, life, vm, guest, rpc, conns, booted, stopping, stop_reason,
                   idle_for, silent>>

\* force-failed: the supervisor leaves a VM it could not kill to launchd.
KillOver(t) ==
    /\ job = "running"
    /\ task[t] = "kill"
    /\ vm = "alive"
    /\ Finish

StopStep(t) == Gone(t) \/ GraceOver(t) \/ KillOver(t)

\* SIGTERM or SIGINT; a second signal waits behind the first.
Signal ==
    /\ "signal" \in Faults
    /\ job = "running"
    /\ task["watch_signals"] = "wait"
    /\ StopVm("watch_signals", "signal")
    /\ UNCHANGED <<idle_for, silent>>

-----------------------------------------------------------------------------
(* _idle_loop, after each sleep *)

Capped(n, cap) == IF n < cap THEN n + 1 ELSE cap

\* stopping is looked at once, before the probe, and not again after it.
Polls == job = "running" /\ task["idle_loop"] = "wait" /\ ~stopping

\* Mutant: the death is looked for, and the child reaped, before stopping is.
PollReaps ==
    /\ job = "running" /\ task["idle_loop"] = "wait"
    /\ vm # "alive"
    /\ IF stopping THEN vm' = "reaped" /\ UNCHANGED <<job, life, guest, signalled, supVars>>
                   ELSE Finish

PollFindsDeath ==
    /\ Polls
    /\ vm # "alive"
    /\ Finish

\* Mutant: the guest is probed only while nobody uses it.
ProbesUnused == HangPolls > 0 /\ booted /\ ~Locked /\ conns = {}

Probes == HangPolls > 0 /\ booted /\ ~Locked

PollProbes ==
    /\ Polls
    /\ vm = "alive"
    /\ Probes
    /\ task' = [task EXCEPT !["idle_loop"] = "probe"]
    /\ UNCHANGED <<vmVars, rpc, conns, booted, stopping, stop_reason, idle_for, silent>>

\* The end of a round: busy resets the clock, idleness runs it.
\*
\* Mutant: a guest that has come up counts as a boot in flight.
BusyBooted == conns # {} \/ Locked \/ booted

Busy == conns # {} \/ Locked

\* Mutant: one poll too many.
TimedOutLate == idle_for >= IdlePolls

TimedOut == idle_for + 1 >= IdlePolls

CountsIdle ==
    /\ idle_for' = IF Busy THEN 0 ELSE idle_for + 1
    /\ IF ~Busy /\ TimedOut
       THEN StopVm("idle_loop", "idle")
       ELSE /\ task' = [task EXCEPT !["idle_loop"] = "wait"]
            /\ UNCHANGED <<vmVars, rpc, conns, booted, stopping, stop_reason>>

PollCounts ==
    /\ Polls
    /\ vm = "alive"
    /\ ~Probes
    /\ silent' = IF silent = 0 THEN 0 ELSE Capped(silent, HangPolls + 1)
    /\ CountsIdle

Probing == job = "running" /\ task["idle_loop"] = "probe"

ProbeAnswered ==
    /\ Probing
    /\ Answering
    /\ silent' = 0
    /\ CountsIdle

Hung == silent >= HangPolls

ProbeSilent ==
    /\ Probing
    /\ ~Answering
    /\ silent' = Capped(silent, HangPolls + 1)
    /\ IF Hung THEN StopVm("idle_loop", "hung") /\ UNCHANGED idle_for
               ELSE CountsIdle

IdleLoop == PollFindsDeath \/ PollProbes \/ PollCounts \/ ProbeAnswered \/ ProbeSilent

SupervisorMoves ==
    \/ Listens \/ StartFails \/ Signal \/ IdleLoop
    \/ \E t \in Tasks : StopStep(t)
    \/ \E p \in Proxies : Serve(p)
=============================================================================
