------------------------------ MODULE Terminal ------------------------------
(***************************************************************************)
(* The terminal side of wrapty: what is typed into the child's pty, by the *)
(* human's keys and by the wrapper's own tasks, and the job control of the *)
(* two processes.  The child runs under a shepherd, which reports its      *)
(* stops and continues over a pipe; the wrapper stops with it, and wakes   *)
(* it when it is brought back itself.                                      *)
(*                                                                         *)
(* One event loop: a callback is one step, and a stopped wrapper takes     *)
(* none.  What is written is a sequence of units <<writer, number>>.       *)
(***************************************************************************)
EXTENDS Naturals, Sequences, SequencesExt

CONSTANTS
    Typists,      \* tasks in _type_and_submit
    Cancellable,  \* those of them that are the idle watchdog's
    TextLen,      \* units of a text, its Enter the last
    ChunkLen,     \* TYPE_CHUNK_SIZE
    Keys,         \* keys the human presses
    Room,         \* units the pty takes before a write would block
    PipeRoom      \* reports the shepherd's pipe takes

VARIABLES
    buffer,      \* _master_write_buffer
    registered,  \* _master_writer_registered
    pty,         \* written and not yet read by the child
    due,         \* for checking: offered to write_master and not yet read
    typed,       \* units each typist has offered; its text ends early if cancelled
    pressed,     \* keys read from the terminal
    suspend,     \* which of the keys is the suspend character
    rest,        \* keys read behind it, to be written on the way back
    child,       \* "runs", "stopped", "dying", "ended"
    chld,        \* the shepherd has a SIGCHLD to handle
    news,        \* its reports in the pipe
    flag,        \* child_stopped
    self,        \* "runs", "suspended" (_suspend_self), "stopped", "closing",
                 \* "waiting", "ended"
    cont,        \* _on_sigcont is to run
    tty          \* "raw" or "cooked"

writing == <<buffer, registered, pty, due>>
processes == <<child, chld, news, flag>>
control == <<processes, self, cont, tty>>
input == <<writing, typed, pressed, suspend, rest>>
vars == <<input, control>>

\* The shepherd has forked the child into a process group of its own.
Forked == child = "runs" /\ chld = FALSE /\ news = <<>> /\ flag = FALSE

Init ==
    /\ buffer = <<>> /\ registered = FALSE /\ pty = <<>> /\ due = <<>>
    /\ typed = [w \in Typists |-> 0]
    /\ pressed = 0 /\ suspend \in 1 .. Keys /\ rest = <<>>
    /\ Forked
    /\ self = "runs" /\ cont = FALSE /\ tty = "raw"

-----------------------------------------------------------------------------
(* Writing to the pty.                                                     *)

NeedsWriterAtFirst(left) == left # <<>> /\ buffer = <<>>
NeedsWriter(left) == left # <<>>

\* _flush_master_buffer: the pty takes what it has room for; when the child is
\* gone the bytes are dropped.
Flush(all) ==
    LET n == IF child = "ended" THEN Len(all)
             ELSE Min({Len(all), Room - Len(pty)})
        left == SubSeq(all, n + 1, Len(all))
    IN /\ buffer' = left
       /\ registered' = NeedsWriter(left)
       /\ pty' = IF child = "ended" THEN <<>> ELSE pty \o SubSeq(all, 1, n)

WriteMaster(data) ==
    /\ Flush(buffer \o data)
    /\ due' = IF child = "ended" THEN <<>> ELSE due \o data

MasterWritable ==
    /\ self = "runs" /\ registered
    /\ child = "ended" \/ Len(pty) < Room
    /\ Flush(buffer)
    /\ due' = IF child = "ended" THEN <<>> ELSE due
    /\ UNCHANGED <<typed, pressed, suspend, rest, control>>

Stretch(w, from, to) == [i \in 1 .. (to - from) |-> <<w, from + i>>]

\* The next chunk of _type_and_submit, the Enter apart from the text.
Type(w) ==
    LET to == IF typed[w] + 1 = TextLen THEN TextLen
              ELSE Min({typed[w] + ChunkLen, TextLen - 1})
    IN /\ self = "runs" /\ typed[w] < TextLen
       /\ WriteMaster(Stretch(w, typed[w], to))
       /\ typed' = [typed EXCEPT ![w] = to]
       /\ UNCHANGED <<pressed, suspend, rest, control>>

\* on_stop cancels the watchdog in the middle of its text.
Cancel(w) ==
    /\ self = "runs" /\ w \in Cancellable /\ typed[w] \in 1 .. TextLen - 1
    /\ typed' = [typed EXCEPT ![w] = TextLen]
    /\ UNCHANGED <<writing, pressed, suspend, rest, control>>

ChildReads ==
    /\ child = "runs" /\ pty # <<>>
    /\ pty' = Tail(pty) /\ due' = Tail(due)
    /\ UNCHANGED <<buffer, registered, typed, pressed, suspend, rest, control>>
-----------------------------------------------------------------------------
(* Stopping and waking.                                                    *)

\* The terminal is reset and cooked for the shell, and the wrapper stops.
SuspendSelf == self' = "suspended" /\ tty' = "cooked"

OnStdin(n) ==
    LET to == pressed + n IN
    /\ self = "runs" /\ to <= Keys
    /\ pressed' = to
    /\ IF suspend \in pressed + 1 .. to
         THEN /\ WriteMaster(Stretch("keys", pressed, suspend - 1))
              /\ rest' = Stretch("keys", suspend, to)
              /\ SuspendSelf
         ELSE /\ WriteMaster(Stretch("keys", pressed, to))
              /\ UNCHANGED <<rest, self, tty>>
    /\ UNCHANGED <<typed, suspend, child, chld, news, flag, cont>>

\* What _suspend_self does when the shell brings the wrapper back: a child that
\* stopped is continued with its group, another is only told to redraw.
Wake ==
    /\ self = "suspended"
    /\ self' = "runs" /\ tty' = "raw" /\ cont' = TRUE
    /\ flag' = FALSE
    /\ IF flag /\ child = "stopped"
         THEN child' = "runs" /\ chld' = TRUE
         ELSE UNCHANGED <<child, chld>>
    /\ WriteMaster(rest) /\ rest' = <<>>
    /\ UNCHANGED <<typed, pressed, suspend, news>>

\* Stopped by somebody's kill -TSTP, which nothing catches.
Tstp ==
    /\ self = "runs" /\ self' = "stopped"
    /\ UNCHANGED <<input, processes, cont, tty>>
Fg ==
    /\ self = "stopped" /\ self' = "runs" /\ cont' = TRUE
    /\ UNCHANGED <<input, processes, tty>>
OnSigcont ==
    /\ self \in {"runs", "closing"} /\ cont
    /\ cont' = FALSE /\ tty' = "raw"
    /\ UNCHANGED <<input, processes, self>>

\* The child's own suspend key, and a continue by somebody else.
ChildMoves ==
    /\ \/ child = "runs" /\ child' = "stopped"
       \/ child = "stopped" /\ child' = "runs"
    /\ chld' = TRUE
    /\ UNCHANGED <<input, news, flag, self, cont, tty>>

\* _shepherd_on_sigchld: signals that came meanwhile are one, and the child is
\* reported as it is now.
Report ==
    /\ chld /\ chld' = FALSE /\ Len(news) < PipeRoom
    /\ news' = CASE child = "stopped" -> Append(news, "T")
                 [] child = "runs" -> Append(news, "C")
                 [] child \in {"dying", "ended"} -> news
    /\ UNCHANGED <<input, child, flag, self, cont, tty>>

OldestWord(words) == Head(words)
LatestWord(words) == Last(words)

OnChildState ==
    /\ self = "runs" /\ news # <<>>
    /\ news' = <<>>
    /\ flag' = (LatestWord(news) = "T")
    /\ IF LatestWord(news) = "T" /\ ~flag THEN SuspendSelf ELSE UNCHANGED <<self, tty>>
    /\ UNCHANGED <<input, child, chld, cont>>

ChildEnds ==
    /\ child = "runs" /\ child' = "ended"
    /\ UNCHANGED <<input, chld, news, flag, self, cont, tty>>
ChildDies ==
    /\ child = "dying" /\ child' = "ended"
    /\ UNCHANGED <<input, chld, news, flag, self, cont, tty>>

TermOnly(c)    == IF c = "runs" THEN "dying" ELSE c
TermReaches(c) == IF c \in {"runs", "stopped"} THEN "dying" ELSE c

\* SIGTERM or SIGHUP: the group is continued and then told to end.
OnTerminate ==
    /\ self = "runs"
    /\ self' = "closing" /\ tty' = "cooked"
    /\ child' = TermReaches(child)
    /\ UNCHANGED <<input, chld, news, flag, cont>>

\* The end of file on the pty ends the loop too.
OnMasterEof ==
    /\ self = "runs" /\ child = "ended"
    /\ self' = "closing"
    /\ UNCHANGED <<input, processes, cont, tty>>

\* The finally clause, and the wait for the shepherd.
RestoredBySignal(t) == t
Restored(t) == "cooked"
Finally ==
    /\ self = "closing" /\ self' = "waiting"
    /\ tty' = Restored(tty) /\ cont' = FALSE
    /\ UNCHANGED <<input, processes>>
Exit ==
    /\ self = "waiting" /\ child = "ended"
    /\ self' = "ended"
    /\ UNCHANGED <<input, processes, cont, tty>>
-----------------------------------------------------------------------------
Next ==
    \/ MasterWritable \/ ChildReads
    \/ \E w \in Typists : Type(w) \/ Cancel(w)
    \/ \E n \in 1 .. Keys : OnStdin(n)
    \/ Wake \/ Tstp \/ Fg \/ OnSigcont
    \/ ChildMoves \/ Report \/ OnChildState \/ ChildEnds \/ ChildDies
    \/ OnTerminate \/ OnMasterEof \/ Finally \/ Exit

Spec == Init /\ [][Next]_vars

\* The loop, the shepherd and a child that is awake go on; nobody need bring
\* the wrapper back, press a key or end anything.
FairSpec ==
    /\ Spec
    /\ WF_vars(MasterWritable) /\ WF_vars(ChildReads)
    /\ WF_vars(OnChildState) /\ WF_vars(Report) /\ WF_vars(ChildDies)
    /\ WF_vars(Finally) /\ WF_vars(Exit)
-----------------------------------------------------------------------------
\* What is offered reaches the child once and in order, over partial writes
\* and several writers (write_master): nothing but what the pty and the buffer
\* hold is still to come, and a rest has the writer that will send it.
InOrder ==
    /\ due = pty \o buffer
    /\ buffer # <<>> => registered

\* While both go on, everything offered arrives in the end.
BothGoOn == self = "runs" /\ child = "runs"
AllRead  == due = <<>>

Arrives == <>[]BothGoOn => <>[]AllRead

\* A child that stopped itself is not left behind a wrapper that runs
\* (on_child_state_readable, _suspend_self): it is awake, or the shell is told.
LeftBehind == child = "stopped" /\ self = "runs"

StopsTogether == LeftBehind ~> ~LeftBehind

\* The terminal goes back cooked, by whatever order the signals of a teardown
\* are handled in (_on_terminate, _on_sigcont, _run).
LeavesCooked == self \in {"waiting", "ended"} => tty = "cooked"

Unit == (Typists \cup {"keys"}) \X Nat

Typed ==
    /\ {buffer, pty, due, rest} \subseteq Seq(Unit) /\ Len(pty) <= Room
    /\ typed \in [Typists -> 0 .. TextLen]
    /\ pressed \in 0 .. Keys /\ suspend \in 1 .. Keys

Inductive == Typed /\ InOrder /\ LeavesCooked

\* Teardown ends the child too, one that had stopped included (_on_terminate).
Closing == self = "closing"
Over    == self = "ended"

TeardownEnds == Closing ~> Over
=============================================================================
