------------------------------ MODULE Programs ------------------------------
(***************************************************************************)
(* The programs that run by themselves: the plugins of one opencode, the   *)
(* hub's clients, wrapty's terminal and inbox, devprofile, merged-file,    *)
(* the command hooks, the shell's extensions and kagi-mcp's browser.  They *)
(* share no state: no plugin reads what another has written, though they   *)
(* hook the same events.  So what holds of each holds of all, and a        *)
(* behaviour of this module is one of one of them, chosen at the start.    *)
(* v1 .. v15 are its variables, those it has none for are 0.               *)
(***************************************************************************)
EXTENDS Naturals

CONSTANTS
    Sessions, Asks, NUDGE_LIMIT, MaxFails,                         \* StopHook
    Titles, Untitled, MaxRenames,                                  \* Keepalive
    Handlers, Window, MaxPrompts, MaxNudges,                       \* Continuations
    MaxLevel, MIN_PCT, HINT_PCT, FORCE_PCT, MaxTurns, CompactCalls, MaxCompactions,
                                                                   \* SelfCompact
    Names, Values, Absent, Untouched, Inherited, Reloads, Overlap, \* Direnv
    Tools, Dialogs, MaxRules,                                      \* ToolToggles
    Callers, MaxCalls, MaxMsgs,                                    \* Clients
    Typists, Cancellable, TextLen, ChunkLen, Keys, Room, PipeRoom, \* Terminal
    Listeners, MaxPosts,                                           \* Inbox
    Units, Builds, Pinned, MaxGenerations,                         \* DevProfile
    Settings, MaxWrites,                                           \* MergedFile
    MaxWords,                                                      \* CommandHooks
    Shells, MaxTexts, MaxSaves,                                    \* ShellFunctions
    MaxLoads, LineTexts,                                           \* HelixPrompt
    Lookups, BROWSER_TTL, MaxLaunches                              \* KagiBrowser

ASSUME HookAssumption     == NUDGE_LIMIT \in Nat
ASSUME TurnsAssumption    == MaxTurns \in Nat
ASSUME DirenvAssumption   == {Absent, Untouched} \cap Values = {} /\ Absent # Untouched
ASSUME ClientsAssumption  == /\ Callers \subseteq {"keepalive", "poll", "wait", "monitor", "asker"}
                             /\ MaxMsgs \in Nat
ASSUME TerminalAssumption == {TextLen, ChunkLen, Keys, Room} \subseteq Nat
ASSUME ListenerAssumption == "none" \notin Listeners
ASSUME DeployAssumption   == Pinned \in Builds
ASSUME MergeAssumption    == Settings \cap {"missing", "broken", "unset"} = {}
ASSUME FunctionAssumption == MaxTexts \in Nat
ASSUME BrowserAssumption  == BROWSER_TTL \in Nat

VARIABLES part, v1, v2, v3, v4, v5, v6, v7, v8, v9, v10, v11, v12, v13, v14, v15

Nudge == INSTANCE StopHook WITH
    status <- v1, asks <- v2, settled <- v3, handler <- v4, nudges <- v5,
    sent <- v6, fails <- v7

Hello == INSTANCE Keepalive WITH
    title <- v1, titles <- v2, hub <- v3, hello <- v4, swept <- v5,
    renames <- v6, fails <- v7

Retry == INSTANCE Continuations WITH
    plugin <- v1, status <- v2, last <- v3, nudges <- v4, handler <- v5,
    since <- v6, prompts <- v7

Compact == INSTANCE SelfCompact WITH
    status <- v1, fill <- v2, turn <- v3, level <- v4, failed <- v5, call <- v6,
    compactedAt <- v7, hintedAt <- v8, queued <- v9, of <- v10, Tools <- CompactCalls

Env == INSTANCE Direnv WITH
    rc <- v1, base <- v2, env <- v3, diff <- v4, applied <- v5, reload <- v6,
    loaded <- v7

Toggles == INSTANCE ToolToggles WITH
    rules <- v1, dialog <- v2, call <- v3, view <- v4, previous <- v5,
    shown <- v6, heard <- v7

Client == INSTANCE Clients WITH
    sent <- v1, mail <- v2, held <- v3, phase <- v4, op <- v5, pipe <- v6,
    kept <- v7, shown <- v8, answered <- v9

Term == INSTANCE Terminal WITH
    buffer <- v1, registered <- v2, pty <- v3, due <- v4, typed <- v5,
    pressed <- v6, suspend <- v7, rest <- v8, child <- v9, chld <- v10,
    news <- v11, flag <- v12, self <- v13, cont <- v14, tty <- v15

Listener == INSTANCE Inbox WITH
    pc <- v1, once <- v2, permit <- v3, socket <- v4, label <- v5, posts <- v6,
    heard <- v7

Deploy == INSTANCE DevProfile WITH
    generations <- v1, now <- v2, unit <- v3, runs <- v4, tree <- v5,
    command <- v6, exit <- v7

Merge == INSTANCE MergedFile WITH
    file <- v1, private <- v2, tmp <- v3, tmpPrivate <- v4, run <- v5,
    merged <- v6, create <- v7, settings <- v8, writes <- v9

Hooks == INSTANCE CommandHooks WITH
    line <- v1, script <- v2, at <- v3, does <- v4, lexer <- v5, seen <- v6

Funcs == INSTANCE ShellFunctions WITH
    file <- v1, mtime <- v2, texts <- v3, saves <- v4, shell <- v5

Prompt == INSTANCE HelixPrompt WITH
    at <- v1, current <- v2, hooked <- v3, handle <- v4, helix <- v5,
    enabled <- v6, owner <- v7, pending <- v8, mode <- v9, buffer <- v10,
    menu <- v11, arrowed <- v12, search <- v13, torn <- v14

Browser == INSTANCE KagiBrowser WITH
    launches <- v1, drivers <- v2, browsers <- v3, playwright <- v4, browser <- v5,
    context <- v6, idle <- v7, timer <- v8, lookup <- v9

From11 == <<v11, v12, v13, v14, v15>>
From10 == <<v10, From11>>
From8  == <<v8, v9, From10>>
From7  == <<v7, From8>>
From6  == <<v6, From7>>
vars   == <<part, v1, v2, v3, v4, v5, From6>>

Idle11 == v11 = 0 /\ v12 = 0 /\ v13 = 0 /\ v14 = 0 /\ v15 = 0
Idle10 == v10 = 0 /\ Idle11
Idle8  == v8 = 0 /\ v9 = 0 /\ Idle10
Idle6  == v6 = 0 /\ v7 = 0 /\ Idle8

Init ==
    \/ part = "nudge" /\ Nudge!Init /\ Idle8
    \/ part = "hello" /\ Hello!Init /\ Idle8
    \/ part = "retry" /\ Retry!Init /\ Idle8
    \/ part = "compact" /\ Compact!Init /\ Idle11
    \/ part = "env" /\ Env!Init /\ Idle8
    \/ part = "toggles" /\ Toggles!Init /\ Idle8
    \/ part = "client" /\ Client!Init /\ Idle10
    \/ part = "term" /\ Term!Init
    \/ part = "listener" /\ Listener!Init /\ Idle8
    \/ part = "deploy" /\ Deploy!Init /\ Idle8
    \/ part = "merge" /\ Merge!Init /\ Idle10
    \/ part = "hooks" /\ Hooks!Init /\ v7 = 0 /\ Idle8
    \/ part = "funcs" /\ Funcs!Init /\ Idle6
    \/ part = "prompt" /\ Prompt!Init /\ v15 = 0
    \/ part = "browser" /\ Browser!Init /\ Idle10

Next ==
    \/ part = "nudge" /\ Nudge!Next /\ UNCHANGED <<part, From8>>
    \/ part = "hello" /\ Hello!Next /\ UNCHANGED <<part, From8>>
    \/ part = "retry" /\ Retry!Next /\ UNCHANGED <<part, From8>>
    \/ part = "compact" /\ Compact!Next /\ UNCHANGED <<part, From11>>
    \/ part = "env" /\ Env!Next /\ UNCHANGED <<part, From8>>
    \/ part = "toggles" /\ Toggles!Next /\ UNCHANGED <<part, From8>>
    \/ part = "client" /\ Client!Next /\ UNCHANGED <<part, From10>>
    \/ part = "term" /\ Term!Next /\ UNCHANGED part
    \/ part = "listener" /\ Listener!Next /\ UNCHANGED <<part, From8>>
    \/ part = "deploy" /\ Deploy!Next /\ UNCHANGED <<part, From8>>
    \/ part = "merge" /\ Merge!Next /\ UNCHANGED <<part, From10>>
    \/ part = "hooks" /\ Hooks!Next /\ UNCHANGED <<part, From7>>
    \/ part = "funcs" /\ Funcs!Next /\ UNCHANGED <<part, From6>>
    \/ part = "prompt" /\ Prompt!Next /\ UNCHANGED <<part, v15>>
    \/ part = "browser" /\ Browser!Next /\ UNCHANGED <<part, From10>>

\* The Fairness of each, while it is the one that runs.
HelloStep(A)    == part = "hello" /\ A /\ UNCHANGED <<part, From8>>
RetryStep(A)    == part = "retry" /\ A /\ UNCHANGED <<part, From8>>
CompactStep(A)  == part = "compact" /\ A /\ UNCHANGED <<part, From11>>
TermStep(A)     == part = "term" /\ A /\ UNCHANGED part
ListenerStep(A) == part = "listener" /\ A /\ UNCHANGED <<part, From8>>

HelloFair ==
    /\ WF_vars(HelloStep(Hello!Sweep))
    /\ \A s \in Sessions :
          /\ WF_vars(HelloStep(Hello!SweepNext(s)))
          /\ \A p \in Hello!Paths :
                /\ WF_vars(HelloStep(Hello!GetTitle(s, p)))
                /\ WF_vars(HelloStep(Hello!HelloDone(s, p)))

RetryFair ==
    /\ WF_vars(RetryStep(\E h \in Handlers : Retry!TurnEnds(h)))
    /\ \A h \in Handlers :
          /\ WF_vars(RetryStep(Retry!Settle(h)))
          /\ WF_vars(RetryStep(Retry!Look(h)))
          /\ WF_vars(RetryStep(Retry!Push(h)))
    /\ WF_vars(RetryStep(Retry!Tick))

CompactFair ==
    /\ WF_vars(CompactStep(Compact!Compacts))
    /\ \A c \in Compact!Requesters :
          /\ WF_vars(CompactStep(Compact!Checks(c)))
          /\ WF_vars(CompactStep(Compact!QueueCompaction(c)))

TermFair ==
    /\ WF_vars(TermStep(Term!MasterWritable)) /\ WF_vars(TermStep(Term!ChildReads))
    /\ WF_vars(TermStep(Term!OnChildState)) /\ WF_vars(TermStep(Term!Report))
    /\ WF_vars(TermStep(Term!ChildDies))
    /\ WF_vars(TermStep(Term!Finally)) /\ WF_vars(TermStep(Term!Exit))

ListenerFair ==
    /\ WF_vars(ListenerStep(\E l \in Listeners : Listener!Listen(l)))
    /\ \A l \in Listeners :
          /\ WF_vars(ListenerStep(Listener!Bind(l)))
          /\ WF_vars(ListenerStep(Listener!Handle(l)))
          /\ WF_vars(ListenerStep(Listener!Unregister(l)))
          /\ WF_vars(ListenerStep(Listener!Unlink(l)))

Spec ==
    /\ Init /\ [][Next]_vars
    /\ HelloFair /\ RetryFair /\ CompactFair /\ TermFair /\ ListenerFair
-----------------------------------------------------------------------------
(* The properties of the programs, each of those behaviours that are its.  *)

\* StopHook, Continuations and SelfCompact, which prompt or compact a session by
\* themselves: nobody is given up before NUDGE_LIMIT nudges have gone out to it,
\* those whose prompt failed among them; a session that fails again and again has
\* no more than one continuation prompt in its history beside those whose
\* deletion failed; and none is compacted twice at one answer.
NudgesInMeasure ==
    /\ [][part = "nudge" => \A s \in Sessions : Nudge!GivenUpLate(s)]_vars
    /\ [](part = "retry" => Retry!OneNudge)
    /\ [](part = "compact" => Compact!OncePerAnswer)

\* Keepalive, Continuations, SelfCompact and Inbox: the hub comes to show every
\* session's title; one that fails again and again is left alone at last; a full
\* one that goes idle is compacted; nothing the dead have left keeps a new
\* listener out.
ComesToRest ==
    /\ \A s \in Sessions : <>[](part = "hello" => Hello!Shown(s))
    /\ <>[](part = "retry" => Retry!AtRest)
    /\ part = "compact" /\ Compact!Full ~> part = "compact" /\ Compact!Forced
    /\ []<>(part = "listener" => Listener!Manned)

\* Direnv: what an earlier rc set is gone after a reload.
NothingStale == part = "env" => Env!NothingStale

\* ToolToggles: a dialog that waits for nothing shows what the gate denies, but
\* for tools whose rules the server has changed without its being told.
ShowsWhatIsDenied == part = "toggles" => Toggles!ShowsWhatIsDenied

\* What becomes of a session's messages, in the words of Delivery.
ClientPromise == INSTANCE Delivery WITH
    Messages <- 1 .. MaxMsgs, Conns <- Callers, accepted <- v1,
    kept <- Client!At("mail"), given <- [c \in Callers |-> Client!At(c)], read <- Client!Seen,
    refused <- {}, open <- {}, replies <- [ask \in 1 .. MaxMsgs |-> {}]

\* Clients: the calls keep what Delivery promises.  A message is with one call or
\* in the mailbox, an agent is shown what a call had for it, and nothing that was
\* shown or lost with a connection comes again; what a call has is in order.
Delivered ==
    /\ part = "client" => ClientPromise!Init
    /\ [][part = "client" => [ClientPromise!Next]_(ClientPromise!deliveryVars)]_vars
    /\ [](part = "client" => Client!ShownInOrder)

\* Terminal: what is written reaches the child once and in order, and the shell
\* gets its terminal back cooked.
TypesInOrder == part = "term" => Term!InOrder /\ Term!LeavesCooked

\* Terminal: what is written arrives if both go on; a stopped child takes the
\* wrapper with it, and teardown ends both processes.
TerminalGoesOn ==
    /\ <>[](part = "term" /\ Term!BothGoOn) => <>[](part = "term" => Term!AllRead)
    /\ part = "term" /\ Term!LeftBehind ~> part = "term" /\ ~Term!LeftBehind
    /\ part = "term" /\ Term!Closing ~> part = "term" /\ Term!Over

\* Inbox: who serves can be posted to and suppresses the nudge if it is to.
ServesInTheOpen == part = "listener" => Listener!ServesInTheOpen

\* DevProfile: a command that has switched the profile and ends well has the units
\* run what the profile names.  A deploy of the same build after a failed restart
\* switches nothing.
RunsWhatItSwitchedTo == [][part = "deploy" => Deploy!RunsCurrent]_vars

\* MergedFile: the application's keys outlive runs that end anywhere, and stay
\* private if they were.
KeepsTheRest ==
    /\ [][part = "merge" => Merge!RestKept]_vars
    /\ [](part = "merge" => Merge!StaysPrivate)


\* ShellFunctions: funcsave writes what is callable in its shell.
SavesWhatRuns == [][part = "funcs" => \A s \in Shells : Funcs!SavesCurrent(s)]_vars

\* KagiBrowser: the browser the server holds is put away by somebody.
PutAway == part = "browser" => Browser!PutAway

\* HelixPrompt: keys go to the one editor that is shown, and a search gives the
\* line back.
EditsOneLine ==
    /\ [](part = "prompt" => Prompt!OneEditor /\ Prompt!GivesBackCompleter)
    /\ [][part = "prompt" => Prompt!BeginsAfresh /\ Prompt!GivesBackLine]_vars
=============================================================================
