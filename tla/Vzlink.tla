------------------------------- MODULE Vzlink -------------------------------
(***************************************************************************)
(* The proxies (vzlink/proxy.py), one process per accepted connection,     *)
(* together with the supervisor and the VM.                                *)
(*                                                                         *)
(* A proxy kickstarts the job, waits for a supervisor to accept, asks it   *)
(* to bring the guest up, connects to the guest through vzvm, registers,   *)
(* forwards, and unregisters.  Each RPC is a connection of its own.  One   *)
(* action is what a proxy does between two awaits.                         *)
(***************************************************************************)
EXTENDS Supervisor

VARIABLES
    at,         \* where each proxy is
    late,       \* its bring-up deadline has passed
    upstream    \* the life of the VM its upstream connection leads to; 0: none

proxyVars == <<at, late, upstream>>
vars == <<vmVars, supVars, proxyVars>>

\* off: not accepted yet.  kick .. enrolling is _bring_up; ended and failed are
\* exits of the process.
Resting == {"off", "ended", "failed"}
Rising  == {"kick", "seek", "ask", "asking", "dial", "enrol", "enrolling"}
Places  == Resting \cup Rising \cup {"forward", "leave", "leaving"}

TypeOK ==
    /\ VmTypeOK
    /\ SupTypeOK
    /\ at \in [Proxies -> Places]
    /\ late \in [Proxies -> BOOLEAN]
    /\ upstream \in [Proxies -> 0..MaxLives]

Init ==
    /\ VmInit
    /\ SupInit
    /\ at = [p \in Proxies |-> "off"]
    /\ late = [p \in Proxies |-> FALSE]
    /\ upstream = [p \in Proxies |-> 0]

-----------------------------------------------------------------------------
(* Steps of a proxy *)

Goes(p, place) == at' = [at EXCEPT ![p] = place]

\* launchd accepts a client's connection and starts a proxy for it.
Arrive(p) ==
    /\ at[p] = "off"
    /\ Goes(p, "kick")
    /\ UNCHANGED <<vmVars, supVars, late, upstream>>

\* The deadline of _bring_up, looked at only by those who wait for a supervisor
\* or were told that it is stopping.
Deadline(p) ==
    /\ at[p] \in Rising
    /\ ~late[p]
    /\ late' = [late EXCEPT ![p] = TRUE]
    /\ UNCHANGED <<vmVars, supVars, at, upstream>>

\* The kickstart is advisory: a job that runs is left as it is.
Kickstart(p) ==
    /\ at[p] = "kick"
    /\ IF job = "none" /\ life < MaxLives THEN Launched ELSE UNCHANGED vmVars
    /\ Goes(p, "seek")
    /\ UNCHANGED <<supVars, late, upstream>>

\* Mutant: the deadline is not looked at.
SeekForEver(p) ==
    /\ at[p] = "seek"
    /\ job = "running" /\ Goes(p, "ask")
    /\ UNCHANGED <<vmVars, supVars, late, upstream>>

\* _wait_for_supervisor: the probe connection is closed without a word.
Seek(p) ==
    /\ at[p] = "seek"
    /\ \/ job = "running" /\ Goes(p, "ask")
       \/ job # "running" /\ late[p] /\ Goes(p, "failed")
    /\ UNCHANGED <<vmVars, supVars, late, upstream>>

\* _rpc connects and sends; without a listener it raises OSError.
Call(p, op, waiting, unheard) ==
    /\ IF job = "running"
       THEN /\ rpc' = [rpc EXCEPT ![p] = [op |-> op, stage |-> "sent"]]
            /\ Goes(p, waiting)
       ELSE Goes(p, unheard) /\ UNCHANGED rpc
    /\ UNCHANGED <<vmVars, conns, booted, stopping, stop_reason, task, idle_for, silent>>

\* The RPC is over for the proxy; a handler it gave up on goes on.
Hears(p, stages) == rpc[p].stage \in stages /\ Stage(p, "none")
GivesUp(p)       == "timeout" \in Faults /\ rpc[p].stage \in Pending /\ UNCHANGED rpc

\* VmStopping: asked again, unless the deadline has passed.
Retry(p) ==
    /\ Hears(p, {"stopping"})
    /\ Goes(p, IF late[p] THEN "failed" ELSE "kick")

\* ControlError, PeerClosed or TimeoutError: the bring-up has failed.
Fails(p) ==
    /\ Hears(p, {"error", "cut"}) \/ GivesUp(p)
    /\ Goes(p, "failed")

OtherSupVars == <<conns, booted, stopping, stop_reason, task, idle_for, silent>>

Ask(p) ==
    /\ at[p] = "ask"
    /\ Call(p, "ensure_up", "asking", "failed")
    /\ UNCHANGED <<late, upstream>>

Asked(p) ==
    /\ at[p] = "asking"
    /\ \/ Hears(p, {"ok"}) /\ Goes(p, "dial")
       \/ Retry(p)
       \/ Fails(p)
    /\ UNCHANGED <<vmVars, OtherSupVars, late, upstream>>

\* vzvm accepts on the forwarded port soon after it starts, whether the guest
\* serves or not.
Dial(p) ==
    /\ at[p] = "dial"
    /\ \/ /\ vm = "alive"
          /\ upstream' = [upstream EXCEPT ![p] = life]
          /\ Goes(p, "enrol")
       \/ /\ vm # "alive" \/ job = "starting" \/ "timeout" \in Faults
          /\ Goes(p, "failed")
          /\ UNCHANGED upstream
    /\ UNCHANGED <<vmVars, supVars, late>>

\* An upstream that was not enrolled is closed.
HangsUp(p) == upstream' = [upstream EXCEPT ![p] = 0]

Enrol(p) ==
    /\ at[p] = "enrol"
    /\ Call(p, "register", "enrolling", "failed")
    /\ IF job = "running" THEN UNCHANGED upstream ELSE HangsUp(p)
    /\ UNCHANGED late

Enrolled(p) ==
    /\ at[p] = "enrolling"
    /\ \/ Hears(p, {"ok"}) /\ Goes(p, "forward") /\ UNCHANGED upstream
       \/ (Retry(p) \/ Fails(p)) /\ HangsUp(p)
    /\ UNCHANGED <<vmVars, OtherSupVars, late>>

Severed(p) == upstream[p] # life \/ vm # "alive"

\* forward returns: both ends closed, or the VM is gone.
ForwardEnds(p) ==
    /\ at[p] = "forward"
    /\ Goes(p, "leave")
    /\ HangsUp(p)
    /\ UNCHANGED <<vmVars, supVars, late>>

Leave(p) ==
    /\ at[p] = "leave"
    /\ Call(p, "unregister", "leaving", "ended")
    /\ UNCHANGED <<late, upstream>>

Left(p) ==
    /\ at[p] = "leaving"
    /\ Hears(p, Answers \cup {"cut"}) \/ GivesUp(p)
    /\ Goes(p, "ended")
    /\ UNCHANGED <<vmVars, OtherSupVars, late, upstream>>

\* The process is killed: no finally clause runs.
Dies(p) ==
    /\ "death" \in Faults
    /\ at[p] \notin Resting
    /\ Goes(p, "ended")
    /\ HangsUp(p)
    /\ UNCHANGED <<vmVars, supVars, late>>

ProxyStep(p) ==
    \/ Kickstart(p) \/ Seek(p) \/ Ask(p) \/ Asked(p) \/ Dial(p)
    \/ Enrol(p) \/ Enrolled(p) \/ Leave(p) \/ Left(p)

-----------------------------------------------------------------------------
(* The whole *)

SupervisorNext == SupervisorMoves /\ UNCHANGED proxyVars
VmNext         == VmMoves /\ UNCHANGED <<supVars, proxyVars>>

Next ==
    \/ VmNext
    \/ SupervisorNext
    \/ \E p \in Proxies : \/ Arrive(p) \/ Deadline(p) \/ ProxyStep(p)
                          \/ ForwardEnds(p) \/ Dies(p)

Spec == Init /\ [][Next]_vars

\* Processes make progress and clocks advance; clients, faults and signals need
\* not come.  A forwarded connection ends by itself only when the VM is gone.
Fairness ==
    /\ WF_vars(GuestServes /\ UNCHANGED <<supVars, proxyVars>>)
    /\ WF_vars(Doomed /\ VmExits /\ UNCHANGED <<supVars, proxyVars>>)
    /\ WF_vars(Listens /\ UNCHANGED proxyVars)
    /\ WF_vars(IdleLoop /\ UNCHANGED proxyVars)
    /\ \A t \in Tasks : WF_vars(StopStep(t) /\ UNCHANGED proxyVars)
    /\ \A p \in Proxies : /\ WF_vars(Serve(p) /\ UNCHANGED proxyVars)
                          /\ WF_vars(ProxyStep(p))
                          /\ WF_vars(Deadline(p))
                          /\ WF_vars(Severed(p) /\ ForwardEnds(p))

FairSpec == Spec /\ Fairness

-----------------------------------------------------------------------------
(* Safety *)

\* Promised the running VM: told that the registration is in, and not gone yet.
Granted(p) ==
    \/ at[p] = "forward"
    \/ at[p] = "enrolling" /\ rpc[p] = [op |-> "register", stage |-> "ok"]

Holders == IF job = "running" THEN {p \in Proxies : Granted(p) /\ upstream[p] = life} ELSE {}

LeaseState == IF job # "running" THEN "off"
              ELSE IF ~stopping THEN "on"
              ELSE IF stop_reason = "idle" THEN "retiring" ELSE "draining"

Promise == INSTANCE Lease WITH Clients <- Proxies, state <- LeaseState, holders <- Holders

\* supervisor.py:9-13, proxy.py:4-5: the VM is leased to the connections that
\* forward over it.  An idle stop finds none of them, and after any stop has
\* begun none is added, though registration, the idle poll, the signal and the
\* next VM's supervisor all run beside each other.
Leased == Promise!Spec

\* supervisor.py:9-10: "An explicit count".  Who forwards over this VM is
\* counted, and who is counted is somewhere between register and unregister.
CountIsExact ==
    /\ Holders \subseteq conns
    /\ \A p \in conns : at[p] \in {"enrolling", "forward", "leave", "leaving"}

\* supervisor.py:6-7: concurrent asks share one boot, and nobody boots a guest
\* that has come up.
OneBoot ==
    LET booting == {p \in Proxies : rpc[p].stage \in {"ready", "banner"}}
    IN  Cardinality(booting) <= (IF booted THEN 0 ELSE 1)

\* supervisor.py:113-132, 270-290: once the VM is reaped its pid may belong to
\* anybody, so neither stop_vm nor a poll may be left that would still use it.
PidStaysOurs == vm = "reaped" => job = "none"

-----------------------------------------------------------------------------
(* Liveness, under FairSpec *)

\* A stop that has begun ends, whatever the guest does.
StopEnds == stopping ~> job # "running"

\* vm.nix:267-268, supervisor.py:318-320: the RAM is given back, when the last
\* build is over and when a guest that was up hangs.
GivesRamBack ==
    /\ <>[](\A p \in Proxies : at[p] \in Resting) => <>[](job = "none")
    /\ (job = "running" /\ booted /\ guest = "hung") ~> vm # "alive"

\* proxy.py:99-100, 160-163, 171-172: no client waits for ever; it is forwarded or fails.
NobodyWaitsForEver == \A p \in Proxies : at[p] \in Rising ~> at[p] \notin Rising
=============================================================================
