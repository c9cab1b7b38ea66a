----------------------------- MODULE Keepalive ------------------------------
(***************************************************************************)
(* The registrations of the hub's plugin in opencode: every session is     *)
(* helloed to the hub when it is created or renamed, and by a sweep on a   *)
(* timer, each time with the title read just before.  A hello is a process *)
(* of its own, so two of a session may reach the hub in either order.      *)
(***************************************************************************)
EXTENDS Naturals

CONSTANTS
    Sessions,
    Titles,
    Untitled,     \* what is sent for a session that could not be read
    MaxRenames,   \* bound: renames
    MaxFails      \* bound: calls that fail, and restarts of the hub

VARIABLES
    title,     \* of a session
    titles,    \* the titles map of the plugin
    hub,       \* the title the hub has; "none" of a session it does not know
    hello,     \* a session's helloSession of the event handlers and of the
               \* sweep: "none", "getting", or the title on its way
    swept,     \* sessions the sweep has been through
    renames, fails

vars == <<title, titles, hub, hello, swept, renames, fails>>

Paths == {"event", "sweep"}

\* session.created has been handled up to its first await.
Init ==
    /\ title \in [Sessions -> Titles]
    /\ titles = [s \in Sessions |-> Untitled]
    /\ hub = [s \in Sessions |-> "none"]
    /\ hello = [s \in Sessions |->
                  [p \in Paths |-> IF p = "event" THEN "getting" ELSE "none"]]
    /\ swept = Sessions
    /\ renames = 0 /\ fails = 0

Put(s, p, v) == hello' = [hello EXCEPT ![s][p] = v]

\* session.updated: only news makes a hello.  The bound lets the last such
\* hello end first.
Rename(s, t) ==
    /\ renames < MaxRenames /\ t # title[s] /\ hello[s]["event"] = "none"
    /\ title' = [title EXCEPT ![s] = t] /\ renames' = renames + 1
    /\ IF titles[s] # t THEN Put(s, "event", "getting") ELSE UNCHANGED hello
    /\ UNCHANGED <<titles, hub, swept, fails>>

\* The hello is started with the title read now, or without one.
GetTitle(s, p) ==
    /\ hello[s][p] = "getting"
    /\ \/ /\ Put(s, p, title[s]) /\ titles' = [titles EXCEPT ![s] = title[s]]
          /\ UNCHANGED fails
       \/ /\ fails < MaxFails /\ fails' = fails + 1
          /\ Put(s, p, Untitled) /\ titles' = [titles EXCEPT ![s] = Untitled]
    /\ UNCHANGED <<title, hub, swept, renames>>

\* The process has reached the hub, or has not.
HelloDone(s, p) ==
    /\ hello[s][p] \notin {"none", "getting"}
    /\ Put(s, p, "none")
    /\ \/ hub' = [hub EXCEPT ![s] = hello[s][p]] /\ UNCHANGED fails
       \/ fails < MaxFails /\ fails' = fails + 1 /\ UNCHANGED hub
    /\ UNCHANGED <<title, titles, swept, renames>>

\* A restarted hub knows nobody.
HubRestarts ==
    /\ fails < MaxFails /\ fails' = fails + 1
    /\ hub' = [s \in Sessions |-> "none"]
    /\ UNCHANGED <<title, titles, hello, swept, renames>>

\* The timer, unless the last sweep still runs.
Sweep ==
    /\ swept = Sessions /\ \A s \in Sessions : hello[s]["sweep"] = "none"
    /\ swept' = {}
    /\ UNCHANGED <<title, titles, hub, hello, renames, fails>>

DueIfNews(s) == titles[s] # title[s]
Due(s)       == TRUE

SweepNext(s) ==
    /\ s \notin swept /\ \A r \in Sessions : hello[r]["sweep"] = "none"
    /\ swept' = swept \cup {s}
    /\ IF Due(s) THEN Put(s, "sweep", "getting") ELSE UNCHANGED hello
    /\ UNCHANGED <<title, titles, hub, renames, fails>>

Next ==
    \/ \E s \in Sessions :
          \/ \E t \in Titles : Rename(s, t)
          \/ \E p \in Paths : GetTitle(s, p) \/ HelloDone(s, p)
          \/ SweepNext(s)
    \/ HubRestarts \/ Sweep

\* Awaited calls return and the timer fires.
Fairness ==
    /\ WF_vars(Sweep)
    /\ \A s \in Sessions :
          /\ WF_vars(SweepNext(s))
          /\ \A p \in Paths : WF_vars(GetTitle(s, p)) /\ WF_vars(HelloDone(s, p))

Spec == Init /\ [][Next]_vars /\ Fairness
-----------------------------------------------------------------------------
\* The hub comes to show the title a session has, however hellos overtake each
\* other and fail and the hub forgets, and goes on showing it (sweep).
Shown(s) == hub[s] = title[s]

TitleSettles == \A s \in Sessions : <>[]Shown(s)
=============================================================================
