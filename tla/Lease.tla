------------------------------- MODULE Lease --------------------------------
(***************************************************************************)
(* What vzlink promises of the builder VM: clients hold it while they use  *)
(* it.  It is given up for idleness only when nobody holds it, and once it *)
(* is being given up, for whatever reason, nobody gets hold of it any more.*)
(***************************************************************************)
CONSTANT Clients

VARIABLES
    state,      \* "off", "on", "retiring" (idle) or "draining" (forced)
    holders     \* the clients that were promised the VM and have not let go

leaseVars == <<state, holders>>

Init == state = "off" /\ holders = {}

TurnOn ==
    /\ state = "off"
    /\ state' = "on"
    /\ UNCHANGED holders

Acquire(c) ==
    /\ state = "on"
    /\ holders' = holders \cup {c}
    /\ UNCHANGED state

Release(c) ==
    /\ holders' = holders \ {c}
    /\ UNCHANGED state

\* Idleness; a forced stop under way may find the VM idle too.
Retire ==
    /\ state \in {"on", "draining"}
    /\ holders = {}
    /\ state' = "retiring"
    /\ UNCHANGED holders

\* A signal or a hung guest does not ask the holders.
Force ==
    /\ state \in {"on", "retiring"}
    /\ state' = "draining"
    /\ UNCHANGED holders

TurnOff ==
    /\ state # "off"
    /\ state' = "off"
    /\ holders' = {}

Next ==
    \/ TurnOn \/ Retire \/ Force \/ TurnOff
    \/ \E c \in Clients : Acquire(c) \/ Release(c)

Spec == Init /\ [][Next]_leaseVars
=============================================================================
