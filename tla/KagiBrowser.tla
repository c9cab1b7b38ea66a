---------------------------- MODULE KagiBrowser -----------------------------
(***************************************************************************)
(* kagi-mcp's browser (kagimcp/server.py): one headless Chromium, which    *)
(* the first lookup launches, the next ones share and a timer puts away.   *)
(* What they share are module globals, read and assigned between awaits by *)
(* whichever task runs; nothing is locked.                                 *)
(*                                                                         *)
(* A launch has a number: that of the driver playwright starts for it, of  *)
(* the browser that runs in it and of the browser's context.  One action   *)
(* is what a task does between two awaits.  Left out: a client that        *)
(* cancels its lookup in the middle of a launch.  Nobody then puts the     *)
(* browser away before the next lookup.                                    *)
(***************************************************************************)
EXTENDS Naturals

CONSTANTS
    Lookups,      \* calls of search, summarize, ask and fastgpt at a time
    BROWSER_TTL,
    MaxLaunches   \* bound: launches

VARIABLES
    launches,     \* so far
    drivers,      \* those that run
    browsers,
    playwright,   \* _playwright, _browser and _context, by their launch; 0 is None
    browser,
    context,
    idle,         \* time since _last_used
    timer,        \* where _shutdown_task is, since when, and whose end it awaits
    lookup        \* where each call is, and in which launch

vars == <<launches, drivers, browsers, playwright, browser, context, idle, timer, lookup>>

Launches == 1 .. MaxLaunches
NoTimer  == [at |-> "none", slept |-> 0, of |-> 0]
Off      == [at |-> "off", in |-> 0]

Init ==
    /\ launches = 0 /\ drivers = {} /\ browsers = {}
    /\ playwright = 0 /\ browser = 0 /\ context = 0
    /\ idle = 0 /\ timer = NoTimer
    /\ lookup = [c \in Lookups |-> Off]

Goes(c, place, n) == lookup' = [lookup EXCEPT ![c] = [at |-> place, in |-> n]]
At(c, place)      == lookup[c].at = place
In(c)             == lookup[c].in

globals == <<playwright, browser, context>>
running == <<launches, drivers, browsers>>

-----------------------------------------------------------------------------
(* The world: time, and processes that end when they will.                 *)

Older(t) == IF t < BROWSER_TTL THEN t + 1 ELSE t

Tick ==
    /\ idle' = Older(idle)
    /\ timer' = [timer EXCEPT !.slept = IF timer.at = "sleeping" THEN Older(@) ELSE @]
    /\ UNCHANGED <<running, globals, lookup>>

BrowserExits(n) ==
    /\ browsers' = browsers \ {n}
    /\ UNCHANGED <<launches, drivers, globals, idle, timer, lookup>>

DriverExits(n) ==
    /\ drivers' = drivers \ {n} /\ browsers' = browsers \ {n}
    /\ UNCHANGED <<launches, globals, idle, timer, lookup>>

-----------------------------------------------------------------------------
(* _shutdown_browser                                                       *)

\* _schedule_shutdown cancels the task there is, wherever it waits.
SchedulesOnce == timer' = IF timer.at = "none" THEN [NoTimer EXCEPT !.at = "sleeping"] ELSE timer
Schedules     == timer' = [NoTimer EXCEPT !.at = "sleeping"]

Wakes ==
    /\ timer.at = "sleeping" /\ timer.slept >= BROWSER_TTL
    /\ timer' = IF browser # 0 /\ idle >= BROWSER_TTL
                THEN [timer EXCEPT !.at = "closing", !.of = browser] ELSE NoTimer
    /\ UNCHANGED <<running, globals, idle, lookup>>

\* _playwright is read only now; there may be none any more, which ends the task.
Closed ==
    /\ timer.at = "closing"
    /\ browsers' = browsers \ {timer.of}
    /\ timer' = IF playwright = 0 THEN NoTimer
                ELSE [timer EXCEPT !.at = "stopping", !.of = playwright]
    /\ UNCHANGED <<launches, drivers, globals, idle, lookup>>

Stopped ==
    /\ timer.at = "stopping" /\ timer' = NoTimer
    /\ drivers' = drivers \ {timer.of} /\ browsers' = browsers \ {timer.of}
    /\ playwright' = 0 /\ browser' = 0 /\ context' = 0
    /\ UNCHANGED <<launches, idle, lookup>>

-----------------------------------------------------------------------------
(* A lookup.                                                               *)

\* _get_browser's end, and _get_page up to its await: of whatever context
\* there is now, and without one an error.
Uses(c) ==
    /\ idle' = 0 /\ Schedules
    /\ IF context = 0 THEN Goes(c, "off", 0) ELSE Goes(c, "page", context)

\* is_connected.
Connected == browser \in browsers

Shares(c) ==
    /\ At(c, "off") /\ Connected /\ Uses(c)
    /\ UNCHANGED <<running, globals>>

StartsAnew(c) ==
    /\ At(c, "off") /\ ~Connected /\ launches < MaxLaunches
    /\ launches' = launches + 1 /\ Goes(c, "starting", launches')
    /\ UNCHANGED <<drivers, browsers, globals, idle, timer>>

Started(c) ==
    /\ At(c, "starting") /\ Goes(c, "launching", In(c))
    /\ drivers' = drivers \cup {In(c)} /\ playwright' = In(c)
    /\ UNCHANGED <<launches, browsers, browser, context, idle, timer>>

Launched(c) ==
    /\ At(c, "launching") /\ In(c) \in drivers /\ Goes(c, "opening", In(c))
    /\ browsers' = browsers \cup {In(c)} /\ browser' = In(c)
    /\ UNCHANGED <<launches, drivers, playwright, context, idle, timer>>

\* new_context, of the browser just launched.
Opened(c) ==
    /\ At(c, "opening") /\ In(c) \in browsers /\ Goes(c, "stealth", In(c))
    /\ context' = In(c)
    /\ UNCHANGED <<running, playwright, browser, idle, timer>>

\* apply_stealth_async.
Ready(c) ==
    /\ At(c, "stealth") /\ In(c) \in browsers /\ Uses(c)
    /\ UNCHANGED <<running, globals>>

HasPage(c) ==
    /\ At(c, "page") /\ In(c) \in browsers /\ Goes(c, "works", In(c))
    /\ UNCHANGED <<running, globals, idle, timer>>

\* The page is read, and closed at the end or at an error.
Works(c) ==
    /\ At(c, "works") /\ Goes(c, "leaves", In(c))
    /\ UNCHANGED <<running, globals, idle, timer>>

Leaves(c) ==
    /\ At(c, "leaves") /\ Goes(c, "off", 0)
    /\ UNCHANGED <<running, globals, idle, timer>>

\* Playwright cannot start or launch; or the browser has gone.
Fails(c) ==
    /\ \/ lookup[c].at \in {"starting", "launching"}
       \/ lookup[c].at \in {"opening", "stealth", "page"} /\ In(c) \notin browsers
    /\ Goes(c, "off", 0)
    /\ UNCHANGED <<running, globals, idle, timer>>

Next ==
    \/ Tick \/ Wakes \/ Closed \/ Stopped
    \/ \E n \in Launches : BrowserExits(n) \/ DriverExits(n)
    \/ \E c \in Lookups :
          \/ Shares(c) \/ StartsAnew(c) \/ Started(c) \/ Launched(c) \/ Opened(c)
          \/ Ready(c) \/ HasPage(c) \/ Works(c) \/ Leaves(c) \/ Fails(c)

Spec == Init /\ [][Next]_vars
-----------------------------------------------------------------------------
\* A running browser the server holds is one that somebody will put away,
\* whatever lookups run at the same time, launch over one another or lose it:
\* a timer runs that is no older than the last use, or closes it, or its launch
\* is not over and ends in one (_get_browser, _schedule_shutdown,
\* _shutdown_browser).
PutAway ==
    browser \in browsers =>
        \/ timer.at = "stopping" \/ (timer.at = "closing" /\ timer.of = browser)
        \/ timer.at = "sleeping" /\ timer.slept <= idle
        \/ \E c \in Lookups : lookup[c].at \in {"opening", "stealth"} /\ In(c) = browser

Typed ==
    /\ {launches, playwright, browser, context, idle} \subseteq Nat
    /\ 0 \notin browsers
    /\ timer \in [at : {"none", "sleeping", "closing", "stopping"}, slept : Nat, of : Nat]
    /\ lookup \in [Lookups -> [at : {"off", "starting", "launching", "opening", "stealth",
                                     "page", "works", "leaves"}, in : Nat]]
    /\ \A c \in Lookups : lookup[c].at \in {"starting", "launching"} => In(c) # 0

Inductive == Typed /\ PutAway
=============================================================================
