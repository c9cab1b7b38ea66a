---------------------------- MODULE HelixPrompt -----------------------------
(***************************************************************************)
(* anyxonsh's prompt with Helix's keys: xontrib_helix is loaded and        *)
(* unloaded, puts an editor on the one prompt_toolkit session when that is *)
(* created, and turns the line into a search of the history and back.      *)
(***************************************************************************)
EXTENDS Naturals

CONSTANTS
    MaxLoads,   \* bound: installations
    LineTexts   \* what a line may have in it

VARIABLES
    at,        \* "rc", "line" (one is read) or "command" (one runs)
    current,   \* _installation; they are numbers
    hooked,    \* installations whose handlers are on xonsh's events
    handle,    \* __helix__ of the shell, or 0
    helix,     \* installations that have a HelixMode
    enabled,   \* HelixModes, by their installation, that take keys
    owner,     \* the last that was made: its bindings win, and it paints
    pending,   \* a command of the editor is half typed
    mode,      \* "insert" or "normal"
    buffer,    \* its text, its completer, whether it completes while typing
    menu,      \* the alternatives on the screen
    arrowed,   \* an arrow key has put one of them into the buffer
    search,    \* histsearch: what the buffer was, or Closed
    torn       \* a line has ended with its search still open

install == <<current, hooked, handle, helix, enabled, owner>>
line    == <<pending, mode, buffer, menu, arrowed, search>>
vars    == <<at, install, line, torn>>

Empty  == "empty"
Closed == [text |-> Empty, completer |-> "none", typing |-> FALSE]

Init ==
    /\ at = "rc" /\ current = 0 /\ hooked = {} /\ handle = 0
    /\ helix = {} /\ enabled = {} /\ owner = 0
    /\ pending = FALSE /\ mode = "insert"
    /\ buffer = [text |-> Empty, completer |-> "shell", typing |-> FALSE]
    /\ menu = {} /\ arrowed = FALSE /\ search = Closed /\ torn = FALSE
-----------------------------------------------------------------------------
(* xontrib load and unload.                                                *)

\* setup does nothing while the installation there is has its handlers.
ReusedNever == FALSE
Reused      == current \in hooked

Load ==
    /\ at # "line"
    /\ \/ Reused /\ handle' = current /\ UNCHANGED <<current, hooked>>
       \/ /\ ~Reused /\ current < MaxLoads
          /\ current' = current + 1 /\ handle' = current'
          /\ hooked' = hooked \cup {current'}
    /\ UNCHANGED <<at, helix, enabled, owner, line, torn>>

\* uninstall: the bindings stay and are switched off.
OffNone == {}
Off     == {handle} \cap helix

Unload ==
    /\ at # "line" /\ handle # 0
    /\ handle' = 0 /\ hooked' = hooked \ {handle}
    /\ helix' = helix \ {handle} /\ enabled' = enabled \ Off
    /\ UNCHANGED <<at, current, owner, line, torn>>

\* copy_into and install_renderer: who comes last wins the ties and paints.
Latest == IF hooked = {} THEN {0} ELSE hooked

\* on_ptk_create: once, before the first line, whoever is hooked by then.
PtkCreate ==
    /\ helix' = hooked /\ enabled' = hooked /\ owner' \in Latest
    /\ UNCHANGED <<current, hooked, handle>>

\* reset_prompt of the live ones.  What an open search has put into the buffer
\* stays there.
ResetPrompt(live) ==
    \/ live = {} /\ UNCHANGED <<pending, mode, search, torn>>
    \/ /\ live # {}
       /\ pending' = FALSE /\ mode' = "insert" /\ search' = Closed
       /\ torn' = (torn \/ search # Closed)

\* on_pre_prompt, and then prompt(), which empties the buffer.
Prompt ==
    /\ at # "line" /\ at' = "line"
    /\ IF at = "rc" THEN PtkCreate ELSE UNCHANGED install
    /\ ResetPrompt(hooked \cap helix')
    /\ buffer' = [buffer EXCEPT !.text = Empty] /\ menu' = {} /\ arrowed' = FALSE

\* The prompt fields, which setup points at its installation, read it when drawn.
Shown == {current} \cap helix
-----------------------------------------------------------------------------
(* Keys: those of the editor do something while one is enabled.            *)

Editing   == at = "line" /\ enabled # {}
Searching == Editing /\ search # Closed
Stays     == UNCHANGED <<at, install, torn>>

\* HistorySearchCompleter over history_entries, or the shell's completer: some of
\* what a line may have in it.  Nothing hangs on which, or on their order.
Alternatives == SUBSET LineTexts \ {{}}

\* A new text drops the menu; the one of the completer comes later.
Types ==
    /\ at = "line" /\ (mode = "insert" \/ ~Editing)
    /\ \E q \in LineTexts \cup {Empty} : buffer' = [buffer EXCEPT !.text = q]
    /\ menu' = {} /\ arrowed' = FALSE
    /\ UNCHANGED <<pending, mode, search>> /\ Stays

\* While typing, or at Tab.
MenuComes ==
    /\ at = "line" /\ menu = {}
    /\ menu' \in Alternatives
    /\ UNCHANGED <<pending, mode, buffer, arrowed, search>> /\ Stays

Arrow ==
    /\ at = "line" /\ arrowed' = TRUE
    /\ \E c \in menu : buffer' = [buffer EXCEPT !.text = c]
    /\ UNCHANGED <<pending, mode, menu, search>> /\ Stays

\* Keys of normal mode: back to inserting, or the first of several.
NormalKey ==
    /\ Editing /\ mode = "normal"
    /\ \/ pending' = TRUE /\ UNCHANGED mode
       \/ pending' = FALSE /\ mode' = "insert"
    /\ UNCHANGED <<buffer, menu, arrowed, search>> /\ Stays

\* Ctrl-R, _open_histsearch.
MayOpenAlways == TRUE
MayOpen       == search = Closed

HistsearchOpen ==
    /\ Editing /\ MayOpen
    /\ search' = buffer
    /\ buffer' = [text |-> Empty, completer |-> "history", typing |-> TRUE]
    /\ mode' = "insert" /\ menu' = {} /\ arrowed' = FALSE
    /\ UNCHANGED pending /\ Stays

\* _close_histsearch: the alternative reached or else the first, or the query;
\* or what there was.
Chosen == IF menu = {} \/ arrowed THEN {buffer.text} ELSE menu

Close(text) ==
    /\ buffer' = [search EXCEPT !.text = text]
    /\ search' = Closed /\ menu' = {} /\ arrowed' = FALSE
    /\ UNCHANGED pending /\ Stays

HistsearchAccept ==
    /\ Searching
    /\ \E text \in Chosen :
          \/ text # Empty /\ Close(text) /\ UNCHANGED mode
          \/ text = Empty /\ Close(search.text) /\ mode' = "normal"

Escape ==
    /\ Editing
    /\ \/ Searching /\ Close(search.text) /\ mode' = "normal"
       \/ /\ ~Searching /\ menu # {}
          /\ menu' = {} /\ arrowed' = FALSE
          /\ UNCHANGED <<pending, mode, buffer, search>> /\ Stays
       \/ /\ ~Searching /\ menu = {}
          /\ pending' = FALSE /\ mode' = "normal"
          /\ UNCHANGED <<buffer, menu, arrowed, search>> /\ Stays

\* Enter, where xonsh's parser has the line complete: _carriage_return.
Accept ==
    /\ at = "line" /\ ~Searching /\ at' = "command"
    /\ UNCHANGED <<install, line, torn>>

\* Ctrl-C, or Ctrl-D where that does not end the shell.
Interrupt ==
    /\ at = "line" /\ at' = "command"
    /\ UNCHANGED <<install, line, torn>>

Next ==
    \/ Load \/ Unload \/ Prompt
    \/ Types \/ MenuComes \/ Arrow \/ NormalKey \/ HistsearchOpen
    \/ HistsearchAccept \/ Escape \/ Accept \/ Interrupt

Spec == Init /\ [][Next]_vars
-----------------------------------------------------------------------------
\* The keys go to one editor at most, over any loading and unloading: the one
\* that paints, that the prompt fields show, and that every line begins afresh
\* (setup, uninstall, _on_pre_prompt).
OneEditor ==
    at = "line" => enabled \subseteq {owner} \cap Shown \cap hooked

BeginsAfresh ==
    at # "line" /\ at' = "line" /\ enabled' # {} => ~pending' /\ search' = Closed

\* A search leaves the buffer the completer it had, unless a line has ended with
\* it open, and is one from its opening to its end, where Escape gives back the
\* line there was (_open_histsearch, _close_histsearch).
GivesBackCompleter ==
    search = Closed /\ ~torn => buffer.completer = "shell" /\ ~buffer.typing

GivesBackLine ==
    search # Closed =>
        /\ search' \in {search, Closed}
        /\ at' = "line" /\ mode' = "normal" => buffer' = search

EditsOneLine ==
    /\ [](OneEditor /\ GivesBackCompleter)
    /\ [][BeginsAfresh /\ GivesBackLine]_vars

\* Why: only the current installation has handlers, only those with handlers an
\* editor, and what a search has put away is the shell's line.
Inductive ==
    /\ at \in {"rc", "line", "command"} /\ current \in Nat /\ torn \in BOOLEAN
    /\ hooked \subseteq {current} /\ helix \subseteq hooked
    /\ hooked # {} => handle = current
    /\ enabled \subseteq {owner} \cap helix
    /\ at = "rc" => helix = {}
    /\ \A b \in {buffer, search} :
          b = [text |-> b.text, completer |-> b.completer, typing |-> b.typing]
    /\ buffer.completer \in {"shell", "history"}
    /\ search # Closed => mode = "insert" /\ search.completer \in {"shell", "history"}
    /\ ~torn => LET lines == IF search = Closed THEN buffer ELSE search
                IN lines.completer = "shell" /\ ~lines.typing
=============================================================================
