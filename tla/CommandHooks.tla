---------------------------- MODULE CommandHooks ----------------------------
(***************************************************************************)
(* The hooks that look at a shell command before an agent may run it: one  *)
(* refuses git's writes in a jj repository, one a wrong trailer in a       *)
(* commit message, one the searches for a process that find the searching  *)
(* shell itself.  All split the words of the command into one argv per     *)
(* command position, with one parser.                                      *)
(*                                                                         *)
(* A behaviour types a command word by word as the shell's grammar has it, *)
(* and notes what the shell would run.  A word stands for all that the     *)
(* hooks treat alike; "script" is one with a command line inside, "tick"   *)
(* the same between backticks, and five are read by the hooks' lexer in    *)
(* another way than by the shell:                                          *)
(*   "nl"     a line break, which the lexer takes for a blank;             *)
(*   "cont"   a backslash and a break before an indented line, which it    *)
(*            takes for a separator;                                       *)
(*   "glue"   separators without a blank between them, as the ); of        *)
(*            $(date); or <( or ;;, which it takes for one word;           *)
(*   "fd"     the number in 2>, which it takes for a word;                 *)
(*   "hash"   a word with a # inside, behind which it skips the line.      *)
(* Left out are heredocs, quoted separators, a bare VAR=value in front, a  *)
(* substitution in the middle of a command, a backslash before a line that *)
(* is not indented, and runners' options with values: there the hooks let  *)
(* writes through, or take an argument for a command.                      *)
(***************************************************************************)
EXTENDS Naturals, Sequences, SequencesExt

CONSTANT MaxWords   \* bound: words of a command

VARIABLES
    line,     \* the words so far
    script,   \* the words inside "script" or "tick", and what they would run
    at,       \* where the shell is: "command", "run" (behind a runner), "git",
              \* "jj", "pkill", "sh", behind a bare "config", or in "words"
    does,     \* what it runs: "write", "message", "ps", "self"; and "parted" if
              \* the lexer has a word stand where the shell has not
    lexer,    \* where it is: "with" the shell, "behind" (the words count as
              \* an earlier command's, or behind a number) or "blind"
    seen      \* what of does was run while it was with the shell

vars == <<line, script, at, does, lexer, seen>>

-----------------------------------------------------------------------------
(* The parser.                                                             *)

\* _argvs: a separator ends a command, what follows a redirection is a file.
SplitsFilesToo(s, w) ==
    CASE w = "redir" -> s
      [] w = "sep" -> [s EXCEPT !.argvs = Append(@, <<>>)]
      [] w \notin {"redir", "sep"} ->
            [s EXCEPT !.argvs = Append(Front(@), Append(Last(@), w))]
Splits(s, w) ==
    CASE s.skip -> [s EXCEPT !.skip = FALSE]
      [] ~s.skip /\ w = "redir" -> [s EXCEPT !.skip = TRUE]
      [] ~s.skip /\ w = "sep" -> [s EXCEPT !.argvs = Append(@, <<>>)]
      [] ~s.skip /\ w \notin {"redir", "sep"} ->
            [s EXCEPT !.argvs = Append(Front(@), Append(Last(@), w))]

\* Backticks are taken out first.  _tokenize: shlex drops line breaks and what
\* is behind a #; a break behind a backslash is a token, and a separator.
Lexes(s, w) ==
    CASE w = "tick" -> s
      [] w = "nl" \/ (w = "cont" /\ s.blind) -> [s EXCEPT !.blind = FALSE]
      [] w \notin {"tick", "nl", "cont"} /\ s.blind -> s
      [] w # "tick" /\ w # "nl" /\ ~s.blind ->
            [tokens |-> Append(s.tokens, IF w = "cont" THEN "sep" ELSE w),
             blind |-> w = "hash"]

Tokenize(ws) == FoldLeft(Lexes, [tokens |-> <<>>, blind |-> FALSE], ws).tokens

Argvs(tokens) == FoldLeft(Splits, [argvs |-> << <<>> >>, skip |-> FALSE], tokens).argvs

Keywords == {"while"}
Runners  == {"env", "sudo", "timeout"}
Options  == {"-o", "-C", "-R", "-c", "-f", "--get", "--unset"}
ReadOnly == {"status"}
GitValued    == {"-C", "-c"}       \* options that take a word along
ConfigReads  == {"get", "--get"}
ConfigWrites == {"set", "--unset"}

From(ws, i)   == SubSeq(ws, i, Len(ws))
LastOf(ws, n) == From(ws, Len(ws) + 1 - n)

Drop(ws, S) ==
    LET others == {i \in DOMAIN ws : ws[i] \notin S}
    IN IF others = {} THEN <<>> ELSE From(ws, Min(others))

\* _strip_prefix_runners: what is left of the last n words.
StripRunners(argv) ==
    LET left[n \in 0 .. Len(argv)] ==
            LET ws   == LastOf(argv, n)
                rest == Drop(Drop(Tail(ws), IF Head(ws) = "env" THEN {"A=b"} ELSE {}), Options)
            IN CASE ws = <<>> \/ Head(ws) \notin Runners -> ws
                 [] ws # <<>> /\ Head(ws) \in Runners ->
                       left[IF Head(ws) = "timeout" /\ rest # <<>> THEN Len(rest) - 1 ELSE Len(rest)]
    IN left[Len(argv)]

Strip(argv) ==
    LET left[n \in 0 .. Len(argv)] ==
            LET bare == StripRunners(LastOf(argv, n))
            IN IF bare # <<>> /\ Head(bare) \in Keywords THEN left[Len(bare) - 1] ELSE bare
    IN left[Len(argv)]

Commands(ws) == LET argvs == Argvs(Tokenize(ws)) IN
    SelectSeq([i \in DOMAIN argvs |-> Strip(argvs[i])], LAMBDA a : a # <<>>)

\* _first_positional and what follows it; a valued option takes a word along.
Positional(args, valued) ==
    LET left[n \in 0 .. Len(args)] ==
            LET ws == LastOf(args, n)
            IN CASE ws = <<>> \/ Head(ws) \notin Options -> ws
                 [] ws # <<>> /\ Head(ws) \in valued -> left[IF n = 1 THEN 0 ELSE n - 2]
                 [] ws # <<>> /\ Head(ws) \in Options \ valued -> left[n - 1]
    IN left[Len(args)]
-----------------------------------------------------------------------------
(* What each hook refuses.                                                 *)

\* sh -c '...': the hook's answer for the text inside.
RunsScript(argv) ==
    Head(argv) = "sh" /\ \E i \in 2 .. Len(argv) - 1 : argv[i] = "-c" /\ argv[i + 1] = "script"

ConfigIsRead(args) ==
    LET sub   == Positional(args, GitValued)
        marks == {w \in ToSet(args) : w \in Options} \cup {sub[i] : i \in 1 .. Min({1, Len(sub)})}
    IN marks \cap ConfigWrites = {} /\ marks \cap ConfigReads # {}

Writes(argv) ==
    LET sub == Positional(Tail(argv), GitValued) IN
    /\ Head(argv) = "git" /\ sub # <<>>
    /\ Head(sub) \notin ReadOnly
    /\ ~(Head(sub) = "config" /\ ConfigIsRead(Tail(sub)))

RefusesWrite(ws, nested) ==
    \/ "tick" \in ToSet(ws) /\ nested
    \/ \E argv \in ToSet(Commands(ws)) : Writes(argv) \/ (RunsScript(argv) /\ nested)

WritesMessage(argv) ==
    LET sub == Positional(Tail(argv), IF Head(argv) = "jj" THEN {"-R"} ELSE GitValued)
    IN Head(argv) \in {"jj", "git"} /\ sub # <<>> /\ Head(sub) = "commit"

\* The text is searched as a whole, but nothing between backticks is a command.
RefusesTrailer(ws, text, nested) ==
    /\ "trailer" \in text
    /\ \E argv \in ToSet(Commands(ws)) : WritesMessage(argv) \/ (RunsScript(argv) /\ nested)

RefusesSelfMatch(ws, nested) ==
    LET cs == Commands(ws) IN
    \/ "tick" \in ToSet(ws) /\ nested
    \/ \E i \in DOMAIN cs :
          \/ RunsScript(cs[i]) /\ nested
          \/ Head(cs[i]) = "pgrep"
          \/ Head(cs[i]) = "pkill" /\ "-f" \in ToSet(Tail(cs[i]))
          \/ Head(cs[i]) = "grep" /\ \E j \in 1 .. i - 1 : Head(cs[j]) = "ps"
-----------------------------------------------------------------------------
(* The command.                                                            *)

NoScript == [words |-> <<>>, runs |-> {}]
Scripts == {[words |-> <<"git", "commit", "trailer">>, runs |-> {"write", "message"}],
            [words |-> <<"word", "git", "commit", "sep", "pgrep">>, runs |-> {"self"}]}

Init ==
    /\ line = <<>> /\ at = "command" /\ does = {} /\ lexer = "with" /\ seen = {}
    /\ script = NoScript

Appends(ws, next) ==
    /\ Len(line) + Len(ws) <= MaxWords /\ line' = line \o ws
    /\ at' = next

Notes(ws, next, runs, sees) ==
    /\ Appends(ws, next)
    /\ does' = does \cup runs /\ seen' = seen \cup sees
    /\ UNCHANGED lexer

Types(ws, next, runs) == Notes(ws, next, runs, IF lexer = "with" THEN runs ELSE {})

\* Every action appends the words of one form, and what they make the shell run.
\* A config without a mark of reading counts as a write, as the hook has it.
Separate ==
    /\ Appends(<<"sep">>, "command")
    /\ lexer' = (IF lexer = "blind" THEN lexer ELSE "with")
    /\ UNCHANGED <<does, seen>>

Redirect == Types(<<"redir", "git">>, at, {})

\* What the lexer reads as something else leaves it where "to" says, takes for a
\* subcommand what is none if "parts", and makes what comes next a word of the
\* config in front if "joins", where a mark of reading would clear it.
Strays(ws, next, to, parts, joins) ==
    /\ Appends(ws, next) /\ lexer' = to
    /\ does' = does \cup (IF parts THEN {"parted"} ELSE {})
    /\ seen' = seen \ (IF joins THEN {"write"} ELSE {})

Stray ==
    \/ Strays(<<"nl">>, "command",
              IF at = "command" /\ lexer = "with" THEN "with" ELSE "behind",
              at = "git", at = "config")
    \/ Strays(<<"glue">>, "command", IF lexer = "blind" THEN "blind" ELSE "behind",
              at = "git", at = "config")
    \/ Strays(<<"cont">>, at,
              IF at \in {"command", "run", "words", "config"} /\ lexer = "with"
              THEN "with" ELSE "behind",
              at \in {"words", "config", "jj"}, FALSE)
    \/ Strays(<<"fd", "redir", "git">>, at,
              IF at \in {"command", "run", "git", "jj"} /\ lexer = "with"
              THEN "behind" ELSE lexer,
              at = "git", FALSE)
    \/ /\ at \in {"words", "config"}
       /\ Strays(<<"hash">>, "words", "blind", FALSE, at = "config")

\* while, and a loop variable, where a command stands; runners also behind one.
Introduce ==
    \/ at = "command" /\ Types(<<"while">>, "command", {})
    \/ at = "command" /\ Types(<<"for", "git">>, "words", {})
    \/ at \in {"command", "run"} /\
          \E ws \in {<<"sudo", "-o">>, <<"env", "A=b">>, <<"timeout", "word">>} :
              Types(ws, "run", {})

Command ==
    /\ at \in {"command", "run"}
    /\ \/ \E w \in {"git", "jj", "pkill", "sh"} : Types(<<w>>, w, {})
       \/ Types(<<"word">>, "words", {}) \/ Types(<<"pgrep">>, "words", {"self"})
       \/ Types(<<"ps">>, "words", {"ps"})
       \/ LET Self(ran) == IF "ps" \in ran THEN {"self"} ELSE {}
          IN Notes(<<"grep">>, "words", Self(does), IF lexer = "with" THEN Self(seen) ELSE {})

Option ==
    \/ at \in {"git", "jj", "pkill", "sh"} /\ Types(<<"-o">>, at, {})
    \/ at = "git" /\ Types(<<"-C", "commit">>, at, {})
    \/ at = "jj" /\ Types(<<"-R", "commit">>, at, {})

Subcommand ==
    \/ at = "git" /\ \/ Types(<<"commit">>, "words", {"write", "message"})
                     \/ Types(<<"status">>, "words", {})
                     \/ \E o \in {<<"config">>, <<"config", "-o">>} :
                           \/ \E w \in ConfigReads : Types(o \o <<w>>, "words", {})
                           \/ \E w \in ConfigWrites : Types(o \o <<w>>, "words", {"write"})
                           \/ Types(Append(o, "word"), "config", {"write"})
    \/ at = "jj" /\ (Types(<<"commit">>, "words", {"message"}) \/ Types(<<"git">>, "words", {}))
    \/ at = "pkill" /\ (Types(<<"word">>, at, {}) \/ Types(<<"-f">>, at, {"self"}))

\* What else may stand behind a command.
Argument ==
    /\ at \in {"words", "config"}
    /\ \E ws \in {<<"git", "commit">>, <<"pgrep">>, <<"trailer">>} : Types(ws, at, {})

\* sh -c, an argument, and backticks, which the trailer hook passes over.
Script ==
    \E s \in Scripts :
        /\ script \in {NoScript, s} /\ script' = s
        /\ \/ at = "sh" /\ Types(<<"-c", "script">>, "words", s.runs)
           \/ at \in {"words", "config"} /\ Types(<<"script">>, at, {})
           \/ at \in {"words", "config"} /\ Types(<<"tick">>, at, s.runs \ {"message"})

Next ==
    \/ /\ Separate \/ Redirect \/ Stray \/ Introduce \/ Command \/ Option
          \/ Subcommand \/ Argument
       /\ UNCHANGED script
    \/ Script

Spec == Init /\ [][Next]_vars
-----------------------------------------------------------------------------
Text == ToSet(line) \cup ToSet(script.words)
Write == RefusesWrite(line, RefusesWrite(script.words, FALSE))
Trailer == RefusesTrailer(line, Text, RefusesTrailer(script.words, ToSet(script.words), FALSE))
SelfMatch == RefusesSelfMatch(line, RefusesSelfMatch(script.words, FALSE))

\* "A false positive costs more than a false negative" (_denied_in): what is
\* refused does run what it is refused for, and is not prose about it, a file
\* name, an option's value or jj's business, unless a break behind a backslash
\* made an argument look like a command, or something came between a git and
\* its subcommand that the lexer took for that.
NoFalseAlarm ==
    /\ Write => {"write", "parted"} \cap does # {}
    /\ Trailer => {"message", "parted"} \cap does # {}
    /\ SelfMatch => {"self", "parted"} \cap does # {}

\* A write, a trailer or a self-match in command position is refused, behind
\* whatever keywords, runners, options and redirections it stands, if the lexer
\* has its command begin where the shell has.
CatchesCommands ==
    /\ "write" \in seen => Write
    /\ "message" \in seen /\ "trailer" \in ToSet(line) => Trailer
    /\ "self" \in seen => SelfMatch
=============================================================================
