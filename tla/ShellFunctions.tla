--------------------------- MODULE ShellFunctions ---------------------------
(***************************************************************************)
(* anyxonsh's funced and funcsave: a function that several shells share by *)
(* a file of its name.  What other files hold has nothing to do with it,   *)
(* so there is one.  A text is a definition of it, told by its number; the *)
(* convention is kept that the file of a function defines it.              *)
(***************************************************************************)
EXTENDS Naturals

CONSTANTS
    Shells,
    MaxTexts,    \* bound: definitions the user writes
    MaxSaves     \* bound: times that one is saved

VARIABLES
    file,     \* the text it holds, None, or Blank: truncated to be written
    mtime,    \* its time, which every write moves on
    texts,    \* definitions so far
    saves,    \* saves so far
    shell     \* of each shell, the record Shell below

vars == <<file, mtime, texts, saves, shell>>

None  == 0
Blank == MaxTexts + 1
Texts == 1 .. MaxTexts

\* fn is what is callable and made where that comes from, src is _SESSION_SRC
\* and scan _SCAN; text is what its editor opened or its funcsave writes.
Off == [job |-> "off", fn |-> None, made |-> "file", src |-> None, scan |-> 0, text |-> None]

Init ==
    /\ file \in {None, 1} /\ mtime = 1 /\ texts = 1 /\ saves = 0
    /\ shell = [s \in Shells |-> Off]

\* _exec_file: an empty file defines nothing.
ExecFile(r) == IF file = Blank THEN r ELSE [r EXCEPT !.fn = file, !.made = "file"]

\* load, and autoload at the start.
Loaded(r)   == [ExecFile(r) EXCEPT !.scan = mtime]
Autoload(r) == IF file = None THEN r ELSE Loaded(r)

\* setup.
Starts(s) ==
    /\ shell[s].job = "off"
    /\ shell' = [shell EXCEPT ![s] = Autoload([Off EXCEPT !.job = "idle"])]
    /\ UNCHANGED <<file, mtime, texts, saves>>

\* Its end at any point.
Ends(s) ==
    /\ shell[s].job # "off"
    /\ shell' = [shell EXCEPT ![s] = Off]
    /\ UNCHANGED <<file, mtime, texts, saves>>

\* A command that has nothing to do with it, or that is refused.
Other(s) ==
    /\ shell[s].job = "idle"
    /\ shell' = [shell EXCEPT ![s].job = "after"]
    /\ UNCHANGED <<file, mtime, texts, saves>>

\* A definition, or a del, typed at the prompt: nothing records its source.
Types(s) ==
    /\ shell[s].job = "idle"
    /\ \E t \in {None, texts + 1} \cap (0 .. MaxTexts) :
          /\ shell' = [shell EXCEPT ![s].job = "after", ![s].made = "prompt", ![s].fn = t]
          /\ texts' = IF t = None THEN texts ELSE t
    /\ UNCHANGED <<file, mtime, saves>>

\* Another program's, not in the middle of a save.
Removes ==
    /\ file \in Texts /\ file' = None
    /\ UNCHANGED <<mtime, texts, saves, shell>>

\* The file goes before the text that was edited last; None is the template.
Opens(r) == IF file # None THEN file ELSE r.src

Funced(s) ==
    /\ shell[s].job = "idle"
    /\ shell' = [shell EXCEPT ![s].job = "editing", ![s].text = Opens(shell[s])]
    /\ UNCHANGED <<file, mtime, texts, saves>>

\* The editor ends with a new text, or with what it opened, and the shell
\* executes that and remembers it.
ExecutedFirst(r, t) ==
    [r EXCEPT !.job = "after", !.fn = t, !.made = "editor", !.text = None,
              !.src = IF @ = None THEN t ELSE @]
Executed(r, t) == [r EXCEPT !.job = "after", !.fn = t, !.made = "editor", !.src = t, !.text = None]

EditorEnds(s) ==
    /\ shell[s].job = "editing"
    /\ \/ /\ texts < MaxTexts /\ texts' = texts + 1
          /\ shell' = [shell EXCEPT ![s] = Executed(@, texts')]
       \/ /\ shell[s].text \in Texts /\ UNCHANGED texts
          /\ shell' = [shell EXCEPT ![s] = Executed(@, @.text)]
    /\ UNCHANGED <<file, mtime, saves>>

\* It cannot be run, fails, or leaves what does not compile.
EditorFails(s) ==
    /\ shell[s].job = "editing"
    /\ shell' = [shell EXCEPT ![s].job = "after", ![s].text = None]
    /\ UNCHANGED <<file, mtime, texts, saves>>

\* inspect.getsource: the file's lines, as loaded or as they are by now.
GetSource(r) == IF r.made = "file" THEN {r.fn} \cup ({file} \cap Texts) ELSE {}
Sources(r)   == IF r.src # None THEN {r.src} ELSE GetSource(r)

\* open(path, "w") truncates.  Bound: no two saves at the same time.
Funcsave(s) ==
    /\ shell[s].job = "idle" /\ shell[s].fn # None
    /\ saves < MaxSaves /\ saves' = saves + 1
    /\ \A o \in Shells : shell[o].job # "saving"
    /\ \E t \in Sources(shell[s]) :
          shell' = [shell EXCEPT ![s].job = "saving", ![s].text = t]
    /\ file' = Blank /\ mtime' = mtime + 1
    /\ UNCHANGED texts

Saved(s) ==
    /\ shell[s].job = "saving"
    /\ file' = shell[s].text /\ mtime' = mtime + 1
    /\ shell' = [shell EXCEPT ![s].job = "after", ![s].scan = mtime', ![s].text = None]
    /\ UNCHANGED <<texts, saves>>

\* sync: what is new or has changed is loaded, what is gone is dropped.
Sync(r) ==
    CASE file = None /\ r.scan # 0        -> [r EXCEPT !.fn = None, !.scan = 0]
      [] file # None /\ r.scan # mtime    -> Loaded(r)
      [] OTHER                            -> r

\* It is hooked to an event that xonsh does not fire.
Fired     == {"on_precommand", "on_postcommand", "on_chdir", "on_pre_prompt", "on_ptk_create"}
HookFired == "on_postcommand"
Hook      == "on_post_command"

AfterCommand(s) ==
    /\ shell[s].job = "after"
    /\ LET r == [shell[s] EXCEPT !.job = "idle"]
       IN shell' = [shell EXCEPT ![s] = IF Hook \in Fired THEN Sync(r) ELSE r]
    /\ UNCHANGED <<file, mtime, texts, saves>>

Next ==
    \/ Removes
    \/ \E s \in Shells :
          \/ Starts(s) \/ Ends(s) \/ Other(s) \/ Types(s) \/ AfterCommand(s)
          \/ Funced(s) \/ EditorEnds(s) \/ EditorFails(s)
          \/ Funcsave(s) \/ Saved(s)

Spec == Init /\ [][Next]_vars
-----------------------------------------------------------------------------
\* funcsave writes the definition that is callable in its shell, or what the
\* file holds anyway, and no older one (_SESSION_SRC before getsource).  A name
\* that was typed over at the prompt is excepted.
SavesCurrent(s) ==
    shell[s].job = "idle" /\ shell'[s].job = "saving" /\ shell[s].made # "prompt" =>
        shell'[s].text \in {shell[s].fn, file}

SavesWhatRuns == [][\A s \in Shells : SavesCurrent(s)]_vars

\* "Runs after every command.  [...] A function another shell just saved is
\* therefore callable here by its next command" (sync): after a command a
\* shell has loaded the file as it is.
SeenByNextCommand(s) ==
    shell[s].job = "after" /\ shell'[s].job = "idle" /\ file \in Texts =>
        shell'[s].scan = mtime

SharedByNextCommand == [][\A s \in Shells : SeenByNextCommand(s)]_vars

\* Why: what the editor left is callable until another text is typed, and no
\* shell loads the file over it.
Shell == [job : {"off", "idle", "after", "editing", "saving"}, fn : Nat,
          made : {"file", "prompt", "editor"}, src : Nat, scan : Nat, text : Nat]

Inductive ==
    /\ {file, mtime, texts} \subseteq Nat
    /\ shell \in [Shells -> Shell]
    /\ \A s \in Shells : shell[s].src # None /\ shell[s].made # "prompt" =>
          shell[s].src = shell[s].fn
=============================================================================
