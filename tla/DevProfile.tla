----------------------------- MODULE DevProfile -----------------------------
(***************************************************************************)
(* devprofile: a service's units run their package from a profile, which   *)
(* the tool switches to a fresh build, to its previous generation or to    *)
(* the pinned build, and then restarts the units.  Any step may fail or be *)
(* the last before an interrupt; the next command starts from what it left.*)
(***************************************************************************)
EXTENDS Naturals, Sequences, SequencesExt

CONSTANTS
    Units,
    Builds,          \* store paths the working tree may build to
    Pinned,          \* the one the system configuration pins
    MaxGenerations   \* bound: generations of the profile

VARIABLES
    generations,   \* of the profile
    now,           \* the current one's number
    unit,          \* a unit: "active", "stopped", "failed" or "not-found"
    runs,          \* the build an active unit runs
    tree,          \* what the working tree builds to
    command,       \* under way: name, step, previous, target, units restarted
    exit           \* of the last command: "none", "ok" or "failed"

profile == <<generations, now>>
vars == <<profile, unit, runs, tree, command, exit>>

Current == generations[now]
None    == [name |-> "none", step |-> "none", previous |-> Pinned, target |-> Pinned, left |-> {}]

\* Activation has installed the pinned build, and the units run it.
Init ==
    /\ generations = <<Pinned>> /\ now = 1
    /\ unit \in [Units -> {"active", "stopped", "not-found"}]
    /\ runs = [u \in Units |-> Pinned]
    /\ tree \in Builds
    /\ command = None /\ exit = "none"

Step(s) == command' = [command EXCEPT !.step = s]
Quits(code) == command' = None /\ exit' = code

Edit(b) ==
    /\ b # tree /\ tree' = b
    /\ UNCHANGED <<profile, unit, runs, command, exit>>

\* What the user does, or systemd.  A unit that is started runs the profile's.
UnitMoves(u) ==
    /\ \/ unit[u] = "active" /\ unit' = [unit EXCEPT ![u] = "stopped"] /\ UNCHANGED runs
       \/ /\ unit[u] \in {"stopped", "failed"}
          /\ unit' = [unit EXCEPT ![u] = "active"] /\ runs' = [runs EXCEPT ![u] = Current]
    /\ UNCHANGED <<profile, tree, command, exit>>

Begin(name) ==
    /\ command = None
    /\ command' = [name |-> name, previous |-> Current, target |-> Pinned, left |-> {},
                   step |-> CASE name \in {"deploy", "switch-only"} -> "build"
                              [] name = "rollback" -> "rollback"
                              [] name = "reset" -> "decide"]
    /\ exit' = "none"
    /\ UNCHANGED <<profile, unit, runs, tree>>

Build ==
    /\ command.step = "build"
    /\ command' = [command EXCEPT !.target = tree, !.step = "decide"]
    /\ UNCHANGED <<profile, unit, runs, tree, exit>>

\* deploy and reset do nothing when the profile already has their build.
Decide ==
    /\ command.step = "decide"
    /\ IF command.target # command.previous
         THEN Step("switch") /\ UNCHANGED exit ELSE Quits("ok")
    /\ UNCHANGED <<profile, unit, runs, tree>>

ToRestart == IF command.name = "switch-only" THEN Quits("ok")
             ELSE /\ command' = [command EXCEPT !.step = "restart", !.left = Units]
                  /\ UNCHANGED exit

\* nix-env --set: a new generation, unless the latest already has the build.
Switch ==
    /\ command.step = "switch" /\ Len(generations) < MaxGenerations
    /\ generations' = IF Last(generations) = command.target THEN generations
                      ELSE Append(generations, command.target)
    /\ now' = Len(generations')
    /\ ToRestart
    /\ UNCHANGED <<unit, runs, tree>>

Rollback ==
    /\ command.step = "rollback" /\ now > 1
    /\ now' = now - 1
    /\ ToRestart
    /\ UNCHANGED <<generations, unit, runs, tree>>

RunsAfterIfOld(u, s) ==
    IF unit[u] = "active" /\ s = "active" /\ runs[u] = command.previous THEN Current ELSE runs[u]
RunsAfter(u, s) == IF unit[u] = "active" /\ s = "active" THEN Current ELSE runs[u]

\* Units nobody knows are skipped, stopped ones stay stopped.
Restart(u) ==
    /\ command.step = "restart" /\ u \in command.left
    /\ command' = [command EXCEPT !.left = @ \ {u}]
    /\ \E s \in IF unit[u] = "active" THEN {"active", "failed"} ELSE {unit[u]} :
          /\ unit' = [unit EXCEPT ![u] = s]
          /\ runs' = [runs EXCEPT ![u] = RunsAfter(u, s)]
    /\ UNCHANGED <<profile, tree, exit>>

Restarted ==
    /\ command.step = "restart" /\ command.left = {}
    /\ Quits(IF \E u \in Units : unit[u] = "failed" THEN "failed" ELSE "ok")
    /\ UNCHANGED <<profile, unit, runs, tree>>

\* StepError, or an interrupt.
Fails ==
    /\ command # None /\ Quits("failed")
    /\ UNCHANGED <<profile, unit, runs, tree>>

Next ==
    \/ \E b \in Builds : Edit(b)
    \/ \E u \in Units : UnitMoves(u) \/ Restart(u)
    \/ \E name \in {"deploy", "switch-only", "rollback", "reset"} : Begin(name)
    \/ Build \/ Decide \/ Switch \/ Rollback \/ Restarted \/ Fails

Spec == Init /\ [][Next]_vars
-----------------------------------------------------------------------------
\* A command that has switched the profile and ends well leaves every unit
\* that runs running the profile's build, whatever failed in the commands
\* before it (deploy, rollback, reset, restart).
RunsCurrent ==
    Restarted /\ exit' = "ok" => \A u \in Units : unit[u] = "active" => runs[u] = Current

RunsWhatItSwitchedTo == [][RunsCurrent]_vars

\* Why: the units that have had their turn run the profile's build, which is
\* not switched any more.
Commands ==
    [name : {"none", "deploy", "switch-only", "rollback", "reset"},
     step : {"none", "build", "decide", "switch", "rollback", "restart"},
     previous : Builds, target : Builds, left : SUBSET Units]

Inductive ==
    /\ generations \in Seq(Builds) /\ now \in DOMAIN generations
    /\ unit \in [Units -> {"active", "stopped", "failed", "not-found"}]
    /\ runs \in [Units -> Builds] /\ tree \in Builds
    /\ command \in Commands
    /\ command.step = "restart" =>
          \A u \in Units \ command.left : unit[u] = "active" => runs[u] = Current
=============================================================================
