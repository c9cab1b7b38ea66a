-------------------------------- MODULE Vm ----------------------------------
(***************************************************************************)
(* What vzlink's supervisor and proxies run on: launchd's job for the      *)
(* builder VM, the vzvm process the job starts, and the guest in it.  Only *)
(* what the Python code can notice of them is modelled: whether the job    *)
(* runs, whether vzvm is alive, a zombie or reaped, and whether the guest  *)
(* answers.                                                                *)
(*                                                                         *)
(* The job runs runVm, a script that starts vzvm and then execs the        *)
(* supervisor, so vzvm is the supervisor's child (vm.nix, vzlink.nix).     *)
(* launchd runs one instance at a time, never restarts it by itself        *)
(* (KeepAlive is false) and ends what is left of its process group when it *)
(* exits.                                                                  *)
(***************************************************************************)
EXTENDS Naturals

CONSTANTS
    MaxLives,   \* bound: how often the VM is started
    Faults      \* bound: which of FaultKinds happen in this environment

\* start: runVm or the bind fails; exit: vzvm exits by itself or is killed by
\* hand; hang: the guest panics; signal: launchd stops the job; boot: the guest
\* is too slow for the boot timeout; timeout: an answer is later than its RPC
\* waits; death: a proxy is killed.
FaultKinds == {"start", "exit", "hang", "signal", "boot", "timeout", "death"}

ASSUME LivesAssumption  == MaxLives \in Nat
ASSUME FaultsAssumption == Faults \subseteq FaultKinds

VARIABLES
    job,        \* launchd's job: "none", "starting" (runVm), "running" (the supervisor listens)
    life,       \* which VM this is: the number of starts so far
    vm,         \* the vzvm process: "alive", "zombie" (exited), "reaped"
    guest,      \* "booting", "serving" (readiness agent and sshd answer), "hung"
    signalled   \* the strongest signal sent to vzvm: "none", "term", "kill"

vmVars == <<job, life, vm, guest, signalled>>

VmTypeOK ==
    /\ job \in {"none", "starting", "running"}
    /\ life \in 0..MaxLives
    /\ vm \in {"alive", "zombie", "reaped"}
    /\ guest \in {"booting", "serving", "hung"}
    /\ signalled \in {"none", "term", "kill"}

VmInit ==
    /\ job = "none"
    /\ life = 0
    /\ vm = "reaped"
    /\ guest = "booting"
    /\ signalled = "none"

\* launchctl kickstart of a job that is not running: runVm starts a fresh vzvm.
Launched ==
    /\ job' = "starting"
    /\ life' = life + 1
    /\ vm' = "alive"
    /\ guest' = "booting"
    /\ signalled' = "none"

\* The job's process exits: launchd kills a vzvm that is left in its group.
JobExits ==
    /\ job' = "none"
    /\ vm' = "reaped"
    /\ UNCHANGED <<life, guest, signalled>>

\* os.kill: a process that exited but is not reaped takes the signal silently.
Kill(signal) == signalled' = IF signalled = "kill" THEN "kill" ELSE signal

-----------------------------------------------------------------------------
(* What happens on its own *)

GuestServes ==
    /\ vm = "alive" /\ guest = "booting"
    /\ guest' = "serving"
    /\ UNCHANGED <<job, life, vm, signalled>>

\* A panicked guest leaves vzvm running and holding every connection.
GuestHangs ==
    /\ "hang" \in Faults
    /\ vm = "alive" /\ guest # "hung"
    /\ guest' = "hung"
    /\ UNCHANGED <<job, life, vm, signalled>>

\* SIGTERM makes vzvm ask the guest to power off; a hung guest never does.
Doomed ==
    \/ signalled = "kill"
    \/ signalled = "term" /\ guest # "hung"

VmExits ==
    /\ vm = "alive"
    /\ Doomed \/ "exit" \in Faults
    /\ vm' = "zombie"
    /\ UNCHANGED <<job, life, guest, signalled>>

VmMoves == GuestServes \/ GuestHangs \/ VmExits
=============================================================================
