------------------------------- MODULE Inbox --------------------------------
(***************************************************************************)
(* The inbox of a wrapty session: listeners that serve a unix socket whose *)
(* file outlives them, the registration by which one suppresses the stop   *)
(* nudge, and the posters.  A listener may be killed at any point.         *)
(***************************************************************************)
EXTENDS Naturals

CONSTANTS
    Listeners,   \* processes
    MaxPosts     \* bound: posts

VARIABLES
    pc,       \* a listener: "off", "permitted" (it may bind), "serving", or
              \* "closing", "unregistered" on its way out
    once,     \* its options --once
    permit,   \* and --permit-stop
    socket,   \* the listener that bound the socket file, or "none"
    label,    \* the listener registered for the session, or "none"
    posts,    \* posts that reached a listener
    heard     \* posts printed, or cut off with the one that had them

vars == <<pc, once, permit, socket, label, posts, heard>>

Init ==
    /\ pc = [l \in Listeners |-> "off"]
    /\ once \in [Listeners -> BOOLEAN] /\ permit \in [Listeners -> BOOLEAN]
    /\ socket = "none" /\ label = "none"
    /\ posts = 0 /\ heard = 0

Goes(l, s) == pc' = [pc EXCEPT ![l] = s]

\* A connection is accepted: the file is there and who bound it lives.
Live == socket # "none" /\ pc[socket] = "serving"

RefusedByName == socket # "none"
Refused       == Live

\* _listen up to the bind: the file a dead listener left goes, and the session
\* is told.  Bound: no other listener is half way in or out.
Listen(l) ==
    /\ pc[l] = "off" /\ \A k \in Listeners : pc[k] \in {"off", "serving"}
    /\ ~Refused
    /\ socket' = "none"
    /\ label' = IF permit[l] THEN l ELSE label
    /\ Goes(l, "permitted")
    /\ UNCHANGED <<once, permit, posts, heard>>

LeavesAsServing == "closing"
Leaves          == "off"

\* It finds one live, and leaves it all it has.
AlreadyListening(l) ==
    /\ pc[l] = "off" /\ \A k \in Listeners : pc[k] \in {"off", "serving"}
    /\ Refused /\ Goes(l, Leaves)
    /\ UNCHANGED <<once, permit, socket, label, posts, heard>>

Bind(l) ==
    /\ pc[l] = "permitted"
    /\ socket' = l /\ Goes(l, "serving")
    /\ UNCHANGED <<once, permit, label, posts, heard>>

Post ==
    /\ Live /\ posts < MaxPosts /\ posts' = posts + 1
    /\ UNCHANGED <<pc, once, permit, socket, label, heard>>

\* handle: the text is printed, and the first one ends --once.
Handle(l) ==
    /\ pc[l] = "serving" /\ heard < posts
    /\ heard' = IF once[l] THEN posts ELSE heard + 1
    /\ Goes(l, IF once[l] THEN "closing" ELSE "serving")
    /\ UNCHANGED <<once, permit, socket, label, posts>>

Interrupt(l) ==
    /\ pc[l] \in {"permitted", "serving"} /\ Goes(l, "closing") /\ heard' = posts
    /\ UNCHANGED <<once, permit, socket, label, posts>>

\* monitor_done goes by the label, whoever's it is.
Unregister(l) ==
    /\ pc[l] = "closing" /\ Goes(l, "unregistered")
    /\ label' = IF permit[l] THEN "none" ELSE label
    /\ UNCHANGED <<once, permit, socket, posts, heard>>

Unlink(l) ==
    /\ pc[l] = "unregistered" /\ Goes(l, "off") /\ socket' = "none"
    /\ UNCHANGED <<once, permit, label, posts, heard>>

Killed(l) ==
    /\ pc[l] # "off" /\ Goes(l, "off") /\ heard' = posts
    /\ UNCHANGED <<once, permit, socket, label, posts>>

\* The next Stop drops the registration of a process that is gone.
Reap ==
    /\ label # "none" /\ pc[label] = "off" /\ label' = "none"
    /\ UNCHANGED <<pc, once, permit, socket, posts, heard>>

Next ==
    \/ Post \/ Reap
    \/ \E l \in Listeners :
          \/ Listen(l) \/ AlreadyListening(l) \/ Bind(l) \/ Handle(l)
          \/ Interrupt(l) \/ Unregister(l) \/ Unlink(l) \/ Killed(l)

\* The agent starts a listener when it has none, and one that is started, or
\* on its way out, goes on.
Fairness ==
    /\ WF_vars(\E l \in Listeners : Listen(l))
    /\ \A l \in Listeners :
        /\ WF_vars(Bind(l)) /\ WF_vars(Handle(l))
        /\ WF_vars(Unregister(l)) /\ WF_vars(Unlink(l))

Spec == Init /\ [][Next]_vars /\ Fairness
-----------------------------------------------------------------------------
\* A listener that serves can be posted to, and one that is to suppress the
\* nudge does, over kills, stale sockets and refused rivals (_listen).
ServesInTheOpen ==
    \A l \in Listeners :
        pc[l] = "serving" => socket = l /\ (permit[l] => label = l)

Typed ==
    /\ pc \in [Listeners -> {"off", "permitted", "serving", "closing", "unregistered"}]
    /\ permit \in [Listeners -> BOOLEAN]

\* One at a time is up, and it is registered before it serves.
OneUp ==
    /\ \A l, k \in Listeners : pc[l] # "off" /\ pc[k] # "off" => l = k
    /\ \A l \in Listeners : pc[l] = "permitted" /\ permit[l] => label = l

Inductive == Typed /\ OneUp /\ ServesInTheOpen

\* "A socket file outlives the process that made it, so its presence proves
\* nothing" (_is_live): what the dead have left never keeps a new listener out.
Manned == \E l \in Listeners : pc[l] # "off"

NeverShutOut == []<>Manned
=============================================================================
