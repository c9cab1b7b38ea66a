--------------------------- MODULE ProgramsProofs ---------------------------
(***************************************************************************)
(* The safety of the parts of Programs, proved for every value of their    *)
(* constants.  A behaviour of Programs is one of one part (InitOf,         *)
(* StepOf), so each section proves the Inductive of its part's module and  *)
(* lifts it.  What makes a property inductive is said beside Inductive.    *)
(***************************************************************************)
EXTENDS Programs, Sequences, SequenceTheorems, TLAPS

\* A behaviour starts as one part's does, and its steps are that part's.
LEMMA InitOf ==
    ASSUME Init
    PROVE  /\ part = "nudge" => Nudge!Init
           /\ part = "retry" => Retry!Init
           /\ part = "compact" => Compact!Init
           /\ part = "env" => Env!Init
           /\ part = "toggles" => Toggles!Init
           /\ part = "client" => Client!Init
           /\ part = "term" => Term!Init
           /\ part = "listener" => Listener!Init
           /\ part = "deploy" => Deploy!Init
           /\ part = "merge" => Merge!Init
           /\ part = "funcs" => Funcs!Init
           /\ part = "prompt" => Prompt!Init
           /\ part = "browser" => Browser!Init
BY DEF Init

LEMMA StepOf ==
    ASSUME [Next]_vars
    PROVE  /\ part' = part
           /\ part = "nudge" => [Nudge!Next]_(Nudge!vars)
           /\ part = "retry" => [Retry!Next]_(Retry!vars)
           /\ part = "compact" => [Compact!Next]_(Compact!vars)
           /\ part = "env" => [Env!Next]_(Env!vars)
           /\ part = "toggles" => [Toggles!Next]_(Toggles!vars)
           /\ part = "client" => [Client!Next]_(Client!vars)
           /\ part = "term" => [Term!Next]_(Term!vars)
           /\ part = "listener" => [Listener!Next]_(Listener!vars)
           /\ part = "deploy" => [Deploy!Next]_(Deploy!vars)
           /\ part = "merge" => [Merge!Next]_(Merge!vars)
           /\ part = "funcs" => [Funcs!Next]_(Funcs!vars)
           /\ part = "prompt" => [Prompt!Next]_(Prompt!vars)
           /\ part = "browser" => [Browser!Next]_(Browser!vars)
<1>1. CASE Next
  BY <1>1 DEF Next
<1>2. CASE UNCHANGED vars
  BY <1>2 DEF vars, From6, From7, From8, From10, From11,
     Env!vars, Toggles!vars, Client!vars, Deploy!vars, Deploy!profile, Merge!vars, Funcs!vars,
     Prompt!vars, Prompt!install, Prompt!line, Browser!vars, Nudge!vars, Retry!vars,
     Compact!vars, Term!vars, Term!input, Term!writing, Term!control, Term!processes, Listener!vars
<1> QED BY <1>1, <1>2

-----------------------------------------------------------------------------
(* KagiBrowser *)

LEMMA BrowserInit == Browser!Init => Browser!Inductive
<1> SUFFICES ASSUME Browser!Init PROVE Browser!Inductive
  OBVIOUS
<1> USE DEF Browser!Init, Browser!NoTimer, Browser!Off
<1>1. Browser!Typed
  BY DEF Browser!Typed
<1>2. Browser!PutAway
  BY DEF Browser!PutAway
<1> QED BY <1>1, <1>2 DEF Browser!Inductive

LEMMA BrowserStep == Browser!Inductive /\ [Browser!Next]_(Browser!vars) => Browser!Inductive'
<1> SUFFICES ASSUME Browser!Typed, Browser!PutAway, [Browser!Next]_(Browser!vars)
             PROVE  Browser!Typed' /\ Browser!PutAway'
  BY DEF Browser!Inductive
<1> USE DEF Browser!Typed, Browser!PutAway, Browser!At, Browser!In, Browser!Goes,
        Browser!running, Browser!globals, Browser!NoTimer
<1>1. CASE Browser!Tick
  BY <1>1, BrowserAssumption DEF Browser!Tick, Browser!Older
<1>2. CASE Browser!Wakes
  <2> USE <1>2, BrowserAssumption DEF Browser!Wakes
  <2>1. CASE v5 # 0 /\ v7 >= BROWSER_TTL
    BY <2>1
  <2>2. CASE ~(v5 # 0 /\ v7 >= BROWSER_TTL)
    <3>1. v8' = Browser!NoTimer /\ v9' = v9 /\ v3' = v3 /\ v5' = v5
      BY <2>2
    <3>2. v5 \in v3 => ~(v8.slept <= v7)
      BY <2>2
    <3> QED BY <3>1, <3>2
  <2> QED BY <2>1, <2>2
<1>3. CASE Browser!Closed
  BY <1>3 DEF Browser!Closed
<1>4. CASE Browser!Stopped
  BY <1>4 DEF Browser!Stopped
<1>5. ASSUME NEW n \in Browser!Launches, Browser!BrowserExits(n) \/ Browser!DriverExits(n)
      PROVE  Browser!Typed' /\ Browser!PutAway'
  BY <1>5 DEF Browser!BrowserExits, Browser!DriverExits
<1>6. ASSUME NEW c \in Lookups, Browser!Uses(c), UNCHANGED <<Browser!running, Browser!globals>>
      PROVE  Browser!Typed' /\ Browser!PutAway'
  BY <1>6 DEF Browser!Uses, Browser!Schedules
<1>7. ASSUME NEW c \in Lookups, Browser!Shares(c) \/ Browser!Ready(c)
      PROVE  Browser!Typed' /\ Browser!PutAway'
  BY <1>6, <1>7 DEF Browser!Shares, Browser!Ready
<1>8. ASSUME NEW c \in Lookups, Browser!StartsAnew(c)
      PROVE  Browser!Typed' /\ Browser!PutAway'
  BY <1>8 DEF Browser!StartsAnew
<1>9. ASSUME NEW c \in Lookups, Browser!Started(c)
      PROVE  Browser!Typed' /\ Browser!PutAway'
  BY <1>9 DEF Browser!Started
<1>10. ASSUME NEW c \in Lookups, Browser!Launched(c)
       PROVE  Browser!Typed' /\ Browser!PutAway'
  BY <1>10 DEF Browser!Launched
<1>11. ASSUME NEW c \in Lookups, Browser!Opened(c)
       PROVE  Browser!Typed' /\ Browser!PutAway'
  BY <1>11 DEF Browser!Opened
<1>12. ASSUME NEW c \in Lookups, Browser!HasPage(c) \/ Browser!Works(c) \/ Browser!Leaves(c)
       PROVE  Browser!Typed' /\ Browser!PutAway'
  BY <1>12 DEF Browser!HasPage, Browser!Works, Browser!Leaves
<1>13. ASSUME NEW c \in Lookups, Browser!Fails(c)
       PROVE  Browser!Typed' /\ Browser!PutAway'
  BY <1>13 DEF Browser!Fails
<1>14. CASE UNCHANGED Browser!vars
  BY <1>14 DEF Browser!vars
<1> QED BY <1>1, <1>2, <1>3, <1>4, <1>5, <1>7, <1>8, <1>9, <1>10, <1>11, <1>12, <1>13, <1>14
        DEF Browser!Next

\* The browser that kagi-mcp's globals hold is put away by somebody: a timer
\* is to close it or a lookup is in it that schedules one when it leaves
\* (_get_ephemeral_page, _schedule_shutdown, _ttl_shutdown).
THEOREM PutAwayHolds == Spec => []PutAway
<1> DEFINE Inv == part = "browser" => Browser!Inductive
<1>1. Init => Inv
  BY InitOf, BrowserInit
<1>2. Inv /\ [Next]_vars => Inv'
  BY StepOf, BrowserStep
<1>3. Inv => PutAway
  BY DEF PutAway, Browser!Inductive
<1> QED BY <1>1, <1>2, <1>3, PTL DEF Spec

-----------------------------------------------------------------------------
(* Direnv *)

Rcs   == [Names -> Values \cup {Untouched}]
Bases == [Names -> Values \cup {Absent}]

\* Undoing what DIRENV_DIFF says gives the base back.
LEMMA DiffUndoes ==
    ASSUME NEW b \in Bases, NEW r \in Rcs
    PROVE  Env!Over(Env!Over(b, r), Env!DiffOf(b, r)) = b
BY DirenvAssumption DEF Env!Over, Env!DiffOf, Rcs, Bases

\* A delta leads from the environment it was made in to that of the rc it was
\* made of, if what it unsets was applied here.
Delta(b, old, new) ==
    [n \in Names |-> IF Env!Over(b, new)[n] = Env!Over(b, old)[n]
                     THEN Untouched ELSE Env!Over(b, new)[n]]
Named(d) == {n \in Names : d[n] # Untouched}
Unset(d) == {n \in Named(d) : d[n] = Absent}

LEMMA DeltaLeads ==
    ASSUME NEW b \in Bases, NEW old \in Rcs, NEW new \in Rcs, NEW done,
           {n \in Names : Env!Over(b, old)[n] # b[n]} \subseteq done
    PROVE  LET d == Delta(b, old, new) IN
           /\ Env!Over(Env!Over(b, old),
                       [n \in Names |-> IF n \in Unset(d) \ done THEN Untouched ELSE d[n]])
                = Env!Over(b, new)
           /\ {n \in Names : Env!Over(b, new)[n] # b[n]} \subseteq (done \cup Named(d)) \ Unset(d)
<1> DEFINE delta == Delta(b, old, new)
           named == Named(delta)
           unset == Unset(delta)
<1>0. /\ delta = [n \in Names |-> IF Env!Over(b, new)[n] = Env!Over(b, old)[n]
                                  THEN Untouched ELSE Env!Over(b, new)[n]]
      /\ named = {n \in Names : delta[n] # Untouched}
      /\ unset = {n \in named : delta[n] = Absent}
  BY DEF Delta, Named, Unset
<1> HIDE DEF delta, named, unset
<1>1. unset \subseteq done
  BY <1>0, DirenvAssumption DEF Env!Over, Rcs, Bases
<1>2. \A n \in Names : Env!Over(b, new)[n] # Untouched
  BY <1>0, DirenvAssumption DEF Env!Over, Rcs, Bases
<1>3. ASSUME NEW n \in Names
      PROVE  (IF delta[n] = Untouched THEN Env!Over(b, old)[n] ELSE delta[n]) = Env!Over(b, new)[n]
  BY <1>0, <1>2
<1>4. Env!Over(Env!Over(b, old), delta) = Env!Over(b, new)
  BY <1>0, <1>3 DEF Env!Over
<1>5. [n \in Names |-> IF n \in unset \ done THEN Untouched ELSE delta[n]] = delta
  BY <1>0, <1>1
<1>6. ASSUME NEW n \in Names, Env!Over(b, new)[n] # b[n]
      PROVE  n \in (done \cup named) \ unset
  <2>1. new[n] \in Values /\ Env!Over(b, new)[n] # Absent
    BY <1>6, DirenvAssumption DEF Env!Over, Rcs, Bases
  <2>2. n \notin unset
    BY <1>0, <2>1, DirenvAssumption
  <2>3. CASE delta[n] = Untouched
    BY <1>0, <1>2, <1>6, <2>2, <2>3
  <2>4. CASE delta[n] # Untouched
    BY <1>0, <2>2, <2>4
  <2> QED BY <2>3, <2>4
<1> QED BY <1>4, <1>5, <1>6 DEF delta, named, unset

LEMMA DirenvInit ==
    ASSUME ~Inherited, Env!Init
    PROVE  Env!Inductive
<1>1. v2 \in Bases /\ v1 \in Rcs /\ v7 = Env!NoDiff /\ v3 = v2 /\ v4 = Env!NoDiff
  BY DEF Env!Init, Rcs, Bases
<1>2. Env!NoDiff \in Rcs /\ v3 = Env!Over(v2, v7) /\ v4 = Env!DiffOf(v2, v7)
  BY <1>1 DEF Env!NoDiff, Env!Over, Env!DiffOf, Rcs, Bases
<1> QED BY <1>1, <1>2 DEF Env!Inductive, Env!Init, Env!Prepared, Rcs, Bases

LEMMA DirenvStep ==
    ASSUME ~Overlap, Env!Inductive, [Env!Next]_(Env!vars)
    PROVE  Env!Inductive'
<1> USE DEF Env!Inductive, Rcs, Bases
<1>1. ASSUME NEW n \in Names, NEW v \in Values \cup {Untouched}, Env!Edit(n, v)
      PROVE  Env!Inductive'
  BY <1>1 DEF Env!Edit, Env!Prepared, Env!DeltaTo
<1>2. ASSUME NEW r \in Reloads, Env!Evaluate(r)
      PROVE  Env!Inductive'
  BY <1>2 DEF Env!Evaluate, Env!Prepared, Env!DeltaTo, Env!Idle
<1>3. ASSUME NEW r \in Reloads, Env!Export(r)
      PROVE  Env!Inductive'
  <2> USE <1>3 DEF Env!Export
  <2>1. v6[r].env = v3 /\ v6[r].diff = v4
    BY DEF Env!Prepared, Env!Idle
  <2>2. Env!Over(v6[r].env, v6[r].diff) = v2
    BY <2>1, DiffUndoes
  <2>3. v6'[r] = [at |-> "printed", rc |-> v1, diff |-> Env!DiffOf(v2, v1),
                  delta |-> Env!DeltaTo(v1)]
    BY <2>1, <2>2 DEF Env!DeltaTo
  <2>4. UNCHANGED <<v1, v2, v3, v4, v5, v7>> /\ v6' = [v6 EXCEPT ![r] = v6'[r]]
    OBVIOUS
  <2> QED BY <2>3, <2>4 DEF Env!Prepared, Env!DeltaTo, Env!Idle
<1>4. ASSUME NEW r \in Reloads, Env!Fails(r)
      PROVE  Env!Inductive'
  BY <1>4 DEF Env!Fails, Env!Prepared, Env!DeltaTo, Env!Idle
<1>5. ASSUME NEW r \in Reloads, Env!ApplyDelta(r)
      PROVE  Env!Inductive'
  <2> USE <1>5 DEF Env!ApplyDelta, Env!Bookkeeping
  <2> DEFINE new   == v6[r].rc
             delta == v6[r].delta
  <2>1. new \in Rcs /\ v6[r].diff = Env!DiffOf(v2, new) /\ delta = Delta(v2, v7, new)
    BY DEF Env!Prepared, Env!Idle, Env!DeltaTo, Delta
  <2>2. /\ v3' = Env!Over(v3, [n \in Names |-> IF n \in Unset(delta) \ v5
                                               THEN Untouched ELSE delta[n]])
        /\ v5' = (v5 \cup Named(delta)) \ Unset(delta)
    BY DEF Named, Unset
  <2>3. v3' = Env!Over(v2, new) /\ {n \in Names : Env!Over(v2, new)[n] # v2[n]} \subseteq v5'
    <3>1. /\ v2 \in Bases /\ v7 \in Rcs /\ v3 = Env!Over(v2, v7)
          /\ {n \in Names : Env!Over(v2, v7)[n] # v2[n]} \subseteq v5
      OBVIOUS
    <3> HIDE DEF Env!ApplyDelta, Env!Inductive, Rcs, Bases
    <3> QED BY <2>1, <2>2, <3>1, DeltaLeads
  <2>4. \A q \in Reloads : v6'[q] = Env!Idle
    BY DEF Env!Idle
  <2>5. v7' = new /\ v4' = Env!DiffOf(v2, new) /\ UNCHANGED <<v1, v2>>
    BY <2>1
  <2>6. v6' = [q \in Reloads |-> v6'[q]]
    OBVIOUS
  <2> QED BY <2>1, <2>3, <2>4, <2>5, <2>6 DEF Env!Prepared
<1>6. CASE UNCHANGED Env!vars
  BY <1>6 DEF Env!vars, Env!Prepared, Env!DeltaTo
<1> QED BY <1>1, <1>2, <1>3, <1>4, <1>5, <1>6 DEF Env!Next

\* What an earlier rc set is gone after a reload (direnv.ts), when evaluations
\* do not overlap and the server was not started in an environment of direnv's:
\* either of the two leaves values behind that no delta takes away.
THEOREM NothingStaleHolds == ~Inherited /\ ~Overlap /\ Spec => []NothingStale
<1> DEFINE Inv == part = "env" => Env!Inductive
<1> SUFFICES ASSUME ~Inherited, ~Overlap PROVE Spec => []NothingStale
  OBVIOUS
<1>1. Init => Inv
  BY InitOf, DirenvInit
<1>2. Inv /\ [Next]_vars => Inv'
  BY StepOf, DirenvStep
<1>3. Inv => NothingStale
  BY DEF NothingStale, Env!NothingStale, Env!Inductive
<1> QED BY <1>1, <1>2, <1>3, PTL DEF Spec

-----------------------------------------------------------------------------
(* ToolToggles *)

BeginningOf(list, all) == Len(list) <= Len(all) /\ \A i \in 1 .. Len(list) : list[i] = all[i]

\* The session's rules only grow.
LEMMA BeginningGrows ==
    ASSUME NEW S, NEW all \in Seq(S), NEW more \in Seq(S), NEW list \in Seq(S),
           BeginningOf(list, all)
    PROVE  BeginningOf(list, all \o more) /\ BeginningOf(all, all)
BY DEF BeginningOf

\* Rules behind the beginning that a dialog shows say nothing of the tools whose
\* rules have not changed since: the gate and the dialog read the same.
LEMMA SameOff ==
    ASSUME NEW all \in Seq(Toggles!Rules), NEW list \in Seq(Toggles!Rules),
           BeginningOf(list, all), NEW t,
           t \notin {all[i].permission : i \in Len(list) + 1 .. Len(all)}
    PROVE  Toggles!Off(all, t) <=> Toggles!Off(list, t)
<1> USE DEF Toggles!Off, Toggles!Its, BeginningOf
<1>1. \A i \in 1 .. Len(all) : Toggles!Its(all, i, t) => i \in 1 .. Len(list)
  OBVIOUS
<1>2. \A i \in 1 .. Len(list) : Toggles!Its(all, i, t) <=> Toggles!Its(list, i, t)
  OBVIOUS
<1>3. ASSUME Toggles!Off(all, t) PROVE Toggles!Off(list, t)
  <2>1. PICK i \in 1 .. Len(all) :
           /\ Toggles!Its(all, i, t) /\ all[i].action = "deny"
           /\ \A j \in i + 1 .. Len(all) : ~Toggles!Its(all, j, t)
    BY <1>3
  <2>2. i \in 1 .. Len(list) /\ list[i].action = "deny" /\ Toggles!Its(list, i, t)
    BY <1>1, <1>2, <2>1
  <2>3. \A j \in i + 1 .. Len(list) : ~Toggles!Its(list, j, t)
    BY <1>2, <2>1
  <2> QED BY <2>2, <2>3
<1>4. ASSUME Toggles!Off(list, t) PROVE Toggles!Off(all, t)
  <2>1. PICK i \in 1 .. Len(list) :
           /\ Toggles!Its(list, i, t) /\ list[i].action = "deny"
           /\ \A j \in i + 1 .. Len(list) : ~Toggles!Its(list, j, t)
    BY <1>4
  <2>2. i \in 1 .. Len(all) /\ all[i].action = "deny" /\ Toggles!Its(all, i, t)
    BY <1>2, <2>1
  <2>3. \A j \in i + 1 .. Len(all) : ~Toggles!Its(all, j, t)
    BY <1>1, <1>2, <2>1
  <2> QED BY <2>2, <2>3
<1> QED BY <1>3, <1>4

LEMMA TogglesInit == Toggles!Init => Toggles!Inductive
<1> SUFFICES ASSUME Toggles!Init PROVE Toggles!Inductive
  OBVIOUS
<1>1. <<>> \in Seq(Toggles!Rules) /\ \A r \in Toggles!Rules : <<r>> \in Seq(Toggles!Rules)
  OBVIOUS
<1>2. /\ v1 \in Seq(Toggles!Rules) /\ v6 = 0
      /\ v2 = [d \in Dialogs |-> "closed"] /\ v7 = [d \in Dialogs |-> 0]
      /\ v3 = [d \in Dialogs |-> <<>>] /\ v4 = v3 /\ v5 = v3
  BY <1>1 DEF Toggles!Init
<1>3. \A d \in Dialogs : v2[d] = "closed"
  BY <1>2
<1> QED BY <1>1, <1>2, <1>3 DEF Toggles!Inductive

\* Heard and Beginning survive what only lengthens the session's rules.
LEMMA RulesGrow ==
    ASSUME Toggles!Inductive, NEW more \in Seq(Toggles!Rules), v1' = v1 \o more
    PROVE  /\ v1' \in Seq(Toggles!Rules)
           /\ \A list \in Seq(Toggles!Rules) :
                 BeginningOf(list, v1) => BeginningOf(list, v1')
BY BeginningGrows DEF Toggles!Inductive

LEMMA TogglesStep ==
    ASSUME Toggles!Inductive, [Toggles!Next]_(Toggles!vars)
    PROVE  Toggles!Inductive'
<1> USE DEF Toggles!Inductive, Toggles!Step, Toggles!Beginning, Toggles!Heard
<1>1. ASSUME NEW d \in Dialogs, Toggles!Show(d)
      PROVE  Toggles!Inductive'
  BY <1>1 DEF Toggles!Show
<1>2. ASSUME NEW d \in Dialogs, Toggles!Reads(d)
      PROVE  Toggles!Inductive'
  BY <1>2 DEF Toggles!Reads
<1>3. ASSUME NEW d \in Dialogs, v2[d] \in {"read", "applied"}, Toggles!Shows(d)
      PROVE  Toggles!Inductive'
  BY <1>3 DEF Toggles!Shows, Toggles!Ends
<1>4. ASSUME NEW d \in Dialogs, Toggles!Opens(d) \/ Toggles!Done(d)
      PROVE  Toggles!Inductive'
  BY <1>3, <1>4 DEF Toggles!Opens, Toggles!Done
<1>5. ASSUME NEW d \in Dialogs, Toggles!CouldNotRead(d)
      PROVE  Toggles!Inductive'
  <2>1. /\ v2' = [v2 EXCEPT ![d] = "closed"] /\ v3' = [v3 EXCEPT ![d] = <<>>]
        /\ UNCHANGED <<v1, v4, v5, v6, v7>>
    BY <1>5 DEF Toggles!CouldNotRead
  <2>2. <<>> \in Seq(Toggles!Rules)
    OBVIOUS
  <2> QED BY <2>1, <2>2
<1>6. ASSUME NEW t \in Tools, Toggles!Toggle(t)
      PROVE  Toggles!Inductive'
  <2> DEFINE rule == [permission |-> t, whole |-> TRUE,
                      action |-> IF Toggles!Off(v4[v6], t) THEN "allow" ELSE "deny"]
  <2>1. rule \in Toggles!Rules /\ v6 \in Dialogs
    BY <1>6 DEF Toggles!Rules, Toggles!Toggle
  <2>2. /\ v3' = [v3 EXCEPT ![v6] = <<rule>>]
        /\ v4' = [v4 EXCEPT ![v6] = Append(v4[v6], rule)]
        /\ v5' = [v5 EXCEPT ![v6] = v4[v6]]
        /\ v2' = [v2 EXCEPT ![v6] = "busy"] /\ v2[v6] = "open"
        /\ UNCHANGED <<v1, v6, v7>>
    BY <1>6 DEF Toggles!Toggle
  <2> HIDE DEF rule
  <2> QED BY <2>1, <2>2
<1>7. ASSUME NEW d \in Dialogs, Toggles!Updates(d)
      PROVE  Toggles!Inductive'
  <2>1. /\ v2[d] = "busy" /\ v1' = v1 \o v3[d] /\ v3' = [v3 EXCEPT ![d] = v1']
        /\ v2' = [v2 EXCEPT ![d] = "applied"] /\ UNCHANGED <<v4, v5, v6, v7>>
    BY <1>7 DEF Toggles!Updates
  <2>2. /\ v1' \in Seq(Toggles!Rules)
        /\ \A list \in Seq(Toggles!Rules) : BeginningOf(list, v1) => BeginningOf(list, v1')
    BY <2>1, RulesGrow
  <2>3. BeginningOf(v1', v1')
    BY <2>2, BeginningGrows DEF BeginningOf
  <2> QED BY <2>1, <2>2, <2>3 DEF BeginningOf
<1>8. ASSUME NEW d \in Dialogs, Toggles!Failed(d)
      PROVE  Toggles!Inductive'
  BY <1>8 DEF Toggles!Failed, Toggles!RolledBack, Toggles!Ends
<1>9. ASSUME NEW r \in Toggles!Rules, Toggles!Elsewhere(r)
      PROVE  Toggles!Inductive'
  <2>1. v1' = v1 \o <<r>> /\ UNCHANGED <<v2, v3, v4, v5, v6, v7>>
    BY <1>9 DEF Toggles!Elsewhere
  <2>2. <<r>> \in Seq(Toggles!Rules)
    BY <1>9
  <2>3. /\ v1' \in Seq(Toggles!Rules)
        /\ \A list \in Seq(Toggles!Rules) : BeginningOf(list, v1) => BeginningOf(list, v1')
    BY <2>1, <2>2, RulesGrow
  <2> QED BY <2>1, <2>3 DEF BeginningOf
<1>10. CASE UNCHANGED Toggles!vars
  BY <1>10 DEF Toggles!vars
<1> QED BY <1>1, <1>2, <1>4, <1>5, <1>6, <1>7, <1>8, <1>9, <1>10 DEF Toggles!Next

LEMMA TogglesShow == Toggles!Inductive => Toggles!ShowsWhatIsDenied
<1> SUFFICES ASSUME Toggles!Inductive, NEW d \in Dialogs, v2[d] = "open",
                    NEW t \in Tools \ Toggles!Untold(d)
             PROVE  Toggles!Denied(t) <=> Toggles!Off(v4[d], t)
  BY DEF Toggles!ShowsWhatIsDenied
<1>1. /\ v1 \in Seq(Toggles!Rules) /\ v4[d] \in Seq(Toggles!Rules)
      /\ BeginningOf(v4[d], v1) /\ v7[d] = Len(v4[d])
  BY DEF Toggles!Inductive, Toggles!Heard, Toggles!Beginning, BeginningOf
<1>2. t \notin {v1[i].permission : i \in Len(v4[d]) + 1 .. Len(v1)}
  BY <1>1 DEF Toggles!Untold
<1> QED BY <1>1, <1>2, SameOff DEF Toggles!Denied

\* A dialog with no call under way shows as off what the gate denies and nothing
\* else, for every tool whose rules have not changed at the server behind its
\* back, by another dialog or by an update of its own whose answer was lost:
\* whatever dialogs are opened over one another, each with a call of its own, and
\* wherever calls and answers fail and are rolled back (tool-toggles.ts).
THEOREM ShowsWhatIsDeniedHolds == Spec => []ShowsWhatIsDenied
<1> DEFINE Inv == part = "toggles" => Toggles!Inductive
<1>1. Init => Inv
  BY InitOf, TogglesInit
<1>2. Inv /\ [Next]_vars => Inv'
  BY StepOf, TogglesStep
<1>3. Inv => ShowsWhatIsDenied
  BY TogglesShow DEF ShowsWhatIsDenied
<1> QED BY <1>1, <1>2, <1>3, PTL DEF Spec

-----------------------------------------------------------------------------
(* DevProfile *)

LEMMA DeployInit == Deploy!Init => Deploy!Inductive
BY DeployAssumption DEF Deploy!Init, Deploy!Inductive, Deploy!Commands, Deploy!None

LEMMA CurrentIsABuild == Deploy!Inductive => Deploy!Current \in Builds
BY DEF Deploy!Inductive, Deploy!Current

Steps == {"none", "build", "decide", "switch", "rollback", "restart"}

LEMMA CommandSteps ==
    ASSUME NEW c \in Deploy!Commands, NEW step \in Steps
    PROVE  /\ [c EXCEPT !.step = step] \in Deploy!Commands
           /\ [c EXCEPT !.step = step].step = step
BY DEF Deploy!Commands, Steps

LEMMA CommandRestarts ==
    ASSUME NEW c \in Deploy!Commands
    PROVE  LET d == [c EXCEPT !.step = "restart", !.left = Units]
           IN d \in Deploy!Commands /\ d.step = "restart" /\ d.left = Units
BY DEF Deploy!Commands

LEMMA NoCommandIsOne == Deploy!None \in Deploy!Commands /\ Deploy!None.step = "none"
BY DeployAssumption DEF Deploy!Commands, Deploy!None

LEMMA DeployStep ==
    ASSUME Deploy!Inductive, [Deploy!Next]_(Deploy!vars)
    PROVE  Deploy!Inductive' /\ Deploy!RunsCurrent
<1> USE DEF Deploy!Inductive
<1>0. Deploy!Commands' = Deploy!Commands
  BY DEF Deploy!Commands
<1>1. Deploy!RunsCurrent
  BY DEF Deploy!RunsCurrent, Deploy!Restarted, Deploy!Current
<1>2. ASSUME NEW b \in Builds, Deploy!Edit(b)
      PROVE  Deploy!Inductive'
  BY <1>0, <1>2 DEF Deploy!Edit, Deploy!Current, Deploy!profile
<1>3. ASSUME NEW u \in Units, Deploy!UnitMoves(u)
      PROVE  Deploy!Inductive'
  BY <1>0, <1>3, CurrentIsABuild DEF Deploy!UnitMoves, Deploy!Current, Deploy!profile
<1>4. ASSUME NEW name \in {"deploy", "switch-only", "rollback", "reset"}, Deploy!Begin(name)
      PROVE  Deploy!Inductive'
  <2>1. v6' = [name |-> name, previous |-> Deploy!Current, target |-> Pinned, left |-> {},
               step |-> v6'.step] /\ v6'.step \in {"build", "rollback", "decide"}
    BY <1>4 DEF Deploy!Begin
  <2>2. v6' \in Deploy!Commands /\ v6'.step # "restart"
    BY <2>1, CurrentIsABuild, DeployAssumption DEF Deploy!Commands
  <2> QED BY <1>0, <1>4, <2>2 DEF Deploy!Begin, Deploy!profile
<1>5. CASE Deploy!Build
  <2>1. v6' \in Deploy!Commands /\ v6'.step = "decide"
    BY <1>5 DEF Deploy!Build, Deploy!Commands
  <2> QED BY <1>0, <1>1, <1>5, <2>1 DEF Deploy!Build, Deploy!profile
<1>6. CASE Deploy!Decide
  <2>1. v6' \in Deploy!Commands /\ v6'.step # "restart"
    <3>1. [v6 EXCEPT !.step = "switch"] \in Deploy!Commands
      BY CommandSteps DEF Steps
    <3>2. [v6 EXCEPT !.step = "switch"].step = "switch"
      BY CommandSteps DEF Steps
    <3> QED BY <1>6, <3>1, <3>2, NoCommandIsOne DEF Deploy!Decide, Deploy!Step, Deploy!Quits
  <2> QED BY <1>0, <1>1, <1>6, <2>1 DEF Deploy!Decide, Deploy!profile
<1>7. CASE Deploy!Switch
  <2>1. v1' \in Seq(Builds) /\ v2' \in DOMAIN v1'
    BY <1>7 DEF Deploy!Switch, Deploy!Commands
  <2>2. v6' \in Deploy!Commands /\ (v6'.step = "restart" => v6'.left = Units)
    BY <1>7, CommandRestarts, NoCommandIsOne DEF Deploy!Switch, Deploy!ToRestart, Deploy!Quits
  <2> QED BY <1>0, <1>1, <1>7, <2>1, <2>2 DEF Deploy!Switch
<1>8. CASE Deploy!Rollback
  <2>1. v6' \in Deploy!Commands /\ (v6'.step = "restart" => v6'.left = Units)
    BY <1>8, CommandRestarts, NoCommandIsOne DEF Deploy!Rollback, Deploy!ToRestart, Deploy!Quits
  <2>2. v2' \in DOMAIN v1'
    BY <1>8 DEF Deploy!Rollback
  <2> QED BY <1>0, <1>1, <1>8, <2>1, <2>2 DEF Deploy!Rollback
<1>9. ASSUME NEW u \in Units, Deploy!Restart(u)
      PROVE  Deploy!Inductive'
  <2>1. v6' \in Deploy!Commands /\ v6'.left = v6.left \ {u}
    BY <1>9 DEF Deploy!Restart, Deploy!Commands
  <2> QED BY <1>0, <1>9, <2>1, CurrentIsABuild
          DEF Deploy!Restart, Deploy!RunsAfter, Deploy!Current, Deploy!profile
<1>10. ASSUME Deploy!Restarted \/ Deploy!Fails
       PROVE  Deploy!Inductive'
  BY <1>0, <1>10, NoCommandIsOne DEF Deploy!Restarted, Deploy!Fails, Deploy!Quits, Deploy!profile
<1>11. CASE UNCHANGED Deploy!vars
  BY <1>0, <1>1, <1>11 DEF Deploy!vars, Deploy!Current, Deploy!profile
<1> HIDE DEF Deploy!Inductive
<1> QED BY <1>1, <1>2, <1>3, <1>4, <1>5, <1>6, <1>7, <1>8, <1>9, <1>10, <1>11 DEF Deploy!Next

\* A command of devprofile that ends well has the units run its build, whatever
\* other commands did meanwhile (switch, rollback and the units' restart).
THEOREM RunsWhatItSwitchedToHolds == Spec => RunsWhatItSwitchedTo
<1> DEFINE Inv  == part = "deploy" => Deploy!Inductive
           Step == part = "deploy" => Deploy!RunsCurrent
<1>1. Init => Inv
  BY InitOf, DeployInit
<1>2. Inv /\ [Next]_vars => Inv' /\ Step
  BY StepOf, DeployStep
<1> QED BY <1>1, <1>2, PTL DEF Spec, RunsWhatItSwitchedTo

-----------------------------------------------------------------------------
(* MergedFile *)

LEMMA MergeInit == Merge!Init => Merge!Inductive
BY MergeAssumption DEF Merge!Init, Merge!Inductive, Merge!Document, Merge!Missing, Merge!Broken,
   Merge!Empty, Merge!StaysPrivate

LEMMA MergeStep ==
    ASSUME Merge!Inductive, [Merge!Next]_(Merge!vars)
    PROVE  Merge!Inductive' /\ Merge!RestKept
<1> USE MergeAssumption DEF Merge!Inductive, Merge!Document, Merge!Missing, Merge!Broken,
        Merge!Empty, Merge!StaysPrivate, Merge!RestKept, Merge!ModeOfTmp
<1>1. CASE Merge!AppWrites
  BY <1>1 DEF Merge!AppWrites
<1>2. CASE Merge!Redeclares
  BY <1>2 DEF Merge!Redeclares
<1>3. CASE Merge!Merges
  BY <1>3 DEF Merge!Merges, Merge!DeepMerge
<1>4. CASE Merge!Opens
  BY <1>4 DEF Merge!Opens
<1>5. CASE Merge!Writes
  BY <1>5 DEF Merge!Writes
<1>6. CASE Merge!Replaces
  BY <1>6 DEF Merge!Replaces
<1>7. CASE Merge!Fails
  BY <1>7 DEF Merge!Fails
<1>8. CASE UNCHANGED Merge!vars
  BY <1>8 DEF Merge!vars
<1> QED BY <1>1, <1>2, <1>3, <1>4, <1>5, <1>6, <1>7, <1>8 DEF Merge!Next

\* The keys that the application or the user wrote outlive the runs of
\* merged-file, and the file stays private (merged-file's merge and replace).
THEOREM KeepsTheRestHolds == Spec => KeepsTheRest
<1> DEFINE Inv  == part = "merge" => Merge!Inductive
           Step == part = "merge" => Merge!RestKept
           Priv == part = "merge" => Merge!StaysPrivate
<1>1. Init => Inv
  BY InitOf, MergeInit
<1>2. Inv /\ [Next]_vars => Inv' /\ Step
  BY StepOf, MergeStep
<1>3. Inv => Priv
  BY DEF Merge!Inductive
<1> QED BY <1>1, <1>2, <1>3, PTL DEF Spec, KeepsTheRest

-----------------------------------------------------------------------------
(* ShellFunctions *)

LEMMA FuncsInit == Funcs!Init => Funcs!Inductive
BY DEF Funcs!Init, Funcs!Inductive, Funcs!Off, Funcs!None, Funcs!Shell

LEMMA FuncsStep ==
    ASSUME Funcs!Inductive, [Funcs!Next]_(Funcs!vars)
    PROVE  Funcs!Inductive' /\ \A s \in Shells : Funcs!SavesCurrent(s)
<1> USE FunctionAssumption
        DEF Funcs!Inductive, Funcs!Off, Funcs!None, Funcs!Blank, Funcs!Texts, Funcs!Shell,
            Funcs!SavesCurrent
<1>1. CASE Funcs!Removes
  BY <1>1 DEF Funcs!Removes
<1>2. ASSUME NEW s \in Shells, Funcs!Starts(s)
      PROVE  Funcs!Inductive' /\ \A o \in Shells : Funcs!SavesCurrent(o)
  BY <1>2 DEF Funcs!Starts, Funcs!Autoload, Funcs!Loaded, Funcs!ExecFile
<1>3. ASSUME NEW s \in Shells, Funcs!Ends(s) \/ Funcs!Other(s) \/ Funcs!AfterCommand(s)
      PROVE  Funcs!Inductive' /\ \A o \in Shells : Funcs!SavesCurrent(o)
  BY <1>3 DEF Funcs!Ends, Funcs!Other, Funcs!AfterCommand, Funcs!Hook, Funcs!Fired
<1>0. ASSUME NEW s \in Shells, NEW r \in Funcs!Shell, v5' = [v5 EXCEPT ![s] = r],
             {v1', v2', v3'} \subseteq Nat,
             r.src # 0 /\ r.made # "prompt" => r.src = r.fn,
             v5[s].job = "idle" /\ r.job = "saving" /\ v5[s].made # "prompt" =>
                 r.text \in {v5[s].fn, v1}
      PROVE  Funcs!Inductive' /\ \A o \in Shells : Funcs!SavesCurrent(o)
  BY <1>0
<1>4. ASSUME NEW s \in Shells, Funcs!Types(s)
      PROVE  Funcs!Inductive' /\ \A o \in Shells : Funcs!SavesCurrent(o)
  <2>1. PICK t \in {0, v3 + 1} \cap (0 .. MaxTexts) :
            /\ v5' = [v5 EXCEPT ![s].job = "after", ![s].made = "prompt", ![s].fn = t]
            /\ v3' = IF t = 0 THEN v3 ELSE t
    BY <1>4 DEF Funcs!Types
  <2>4. UNCHANGED <<v1, v2>> /\ t \in Nat
    BY <1>4 DEF Funcs!Types
  <2> DEFINE r == [v5[s] EXCEPT !.job = "after", !.made = "prompt", !.fn = t]
  <2>2. v5' = [v5 EXCEPT ![s] = r]
    BY <2>1
  <2>3. r \in Funcs!Shell /\ r.made = "prompt" /\ r.job = "after"
    BY <2>4
  <2> QED BY <1>0, <2>1, <2>2, <2>3, <2>4
<1>5. ASSUME NEW s \in Shells, Funcs!Funced(s)
      PROVE  Funcs!Inductive' /\ \A o \in Shells : Funcs!SavesCurrent(o)
  <2> DEFINE r == [v5[s] EXCEPT !.job = "editing", !.text = Funcs!Opens(v5[s])]
  <2>1. v5' = [v5 EXCEPT ![s] = r] /\ UNCHANGED <<v1, v2, v3>>
    BY <1>5 DEF Funcs!Funced
  <2>2. r \in Funcs!Shell /\ r.job = "editing" /\ r.src = v5[s].src /\ r.fn = v5[s].fn
        /\ r.made = v5[s].made
    BY DEF Funcs!Opens
  <2> QED BY <1>0, <2>1, <2>2
<1>6. ASSUME NEW s \in Shells, Funcs!EditorEnds(s)
      PROVE  Funcs!Inductive' /\ \A o \in Shells : Funcs!SavesCurrent(o)
  <2>1. PICK t \in Nat : /\ v5' = [v5 EXCEPT ![s] = Funcs!Executed(@, t)]
                         /\ v3' \in Nat /\ UNCHANGED <<v1, v2>>
    BY <1>6 DEF Funcs!EditorEnds
  <2> DEFINE r == Funcs!Executed(v5[s], t)
  <2>2. r \in Funcs!Shell /\ r.job = "after" /\ r.src = t /\ r.fn = t
    BY DEF Funcs!Executed
  <2>3. v5' = [v5 EXCEPT ![s] = r]
    BY <2>1
  <2> HIDE DEF r
  <2> QED BY <1>0, <2>1, <2>2, <2>3
<1>7. ASSUME NEW s \in Shells, Funcs!EditorFails(s)
      PROVE  Funcs!Inductive' /\ \A o \in Shells : Funcs!SavesCurrent(o)
  <2> DEFINE r == [v5[s] EXCEPT !.job = "after", !.text = 0]
  <2>1. v5' = [v5 EXCEPT ![s] = r] /\ UNCHANGED <<v1, v2, v3>>
    BY <1>7 DEF Funcs!EditorFails
  <2>2. r \in Funcs!Shell /\ r.job = "after" /\ r.src = v5[s].src /\ r.fn = v5[s].fn
        /\ r.made = v5[s].made
    OBVIOUS
  <2> QED BY <1>0, <2>1, <2>2
<1>8. ASSUME NEW s \in Shells, Funcs!Funcsave(s)
      PROVE  Funcs!Inductive' /\ \A o \in Shells : Funcs!SavesCurrent(o)
  <2>1. PICK t \in Funcs!Sources(v5[s]) :
            v5' = [v5 EXCEPT ![s].job = "saving", ![s].text = t]
    BY <1>8 DEF Funcs!Funcsave
  <2>2. {v1', v2', v3'} \subseteq Nat
    BY <1>8 DEF Funcs!Funcsave
  <2>3. t \in Nat /\ (v5[s].made # "prompt" => t \in {v5[s].fn, v1})
    BY <2>1 DEF Funcs!Sources, Funcs!GetSource
  <2> DEFINE r == [v5[s] EXCEPT !.job = "saving", !.text = t]
  <2>4. r \in Funcs!Shell /\ r.text = t /\ r.src = v5[s].src /\ r.fn = v5[s].fn
        /\ r.made = v5[s].made
    BY <2>3
  <2>5. v5' = [v5 EXCEPT ![s] = r]
    BY <2>1
  <2> HIDE DEF r
  <2> QED BY <1>0, <2>2, <2>3, <2>4, <2>5
<1>10. ASSUME NEW s \in Shells, Funcs!Saved(s)
       PROVE  Funcs!Inductive' /\ \A o \in Shells : Funcs!SavesCurrent(o)
  <2>1. {v1', v2', v3'} \subseteq Nat
    BY <1>10 DEF Funcs!Saved
  <2> DEFINE r == [v5[s] EXCEPT !.job = "after", !.scan = v2', !.text = 0]
  <2>2. v5' = [v5 EXCEPT ![s] = r]
    BY <1>10 DEF Funcs!Saved
  <2>3. r \in Funcs!Shell /\ r.job = "after" /\ r.src = v5[s].src /\ r.fn = v5[s].fn
        /\ r.made = v5[s].made
    BY <2>1
  <2> HIDE DEF r
  <2> QED BY <1>0, <2>1, <2>2, <2>3
<1>9. CASE UNCHANGED Funcs!vars
  BY <1>9 DEF Funcs!vars
<1> QED BY <1>1, <1>2, <1>3, <1>4, <1>5, <1>6, <1>7, <1>8, <1>9, <1>10 DEF Funcs!Next

\* funcsave writes what is callable in its shell, or what the file holds, and
\* never the text of a function that its shell no longer runs (functions.py).
THEOREM SavesWhatRunsHolds == Spec => SavesWhatRuns
<1> DEFINE Inv  == part = "funcs" => Funcs!Inductive
           Step == part = "funcs" => \A s \in Shells : Funcs!SavesCurrent(s)
<1>1. Init => Inv
  BY InitOf, FuncsInit
<1>2. Inv /\ [Next]_vars => Inv' /\ Step
  BY StepOf, FuncsStep
<1> QED BY <1>1, <1>2, PTL DEF Spec, SavesWhatRuns

-----------------------------------------------------------------------------
(* HelixPrompt *)

LEMMA PromptInit == Prompt!Init => Prompt!Inductive
<1> SUFFICES ASSUME Prompt!Init PROVE Prompt!Inductive
  OBVIOUS
<1> USE DEF Prompt!Init, Prompt!Empty, Prompt!Closed
<1>1. v14 = FALSE /\ v13 = Prompt!Closed /\ v9 = "insert"
  OBVIOUS
<1>2. \A b \in {v10, v13} : b = [text |-> b.text, completer |-> b.completer, typing |-> b.typing]
  OBVIOUS
<1>3. v10.completer = "shell" /\ v10.typing = FALSE
  OBVIOUS
<1> QED BY <1>1, <1>2, <1>3 DEF Prompt!Inductive

\* What a step of the prompt owes.
PromptOwes == Prompt!Inductive' /\ Prompt!BeginsAfresh /\ Prompt!GivesBackLine

LEMMA PromptStep ==
    ASSUME Prompt!Inductive, [Prompt!Next]_(Prompt!vars)
    PROVE  PromptOwes
<1> USE DEF Prompt!Inductive, Prompt!BeginsAfresh, Prompt!GivesBackLine, Prompt!Empty,
        Prompt!Closed, Prompt!install, Prompt!line, Prompt!Stays, PromptOwes
<1>1. CASE Prompt!Load
  BY <1>1 DEF Prompt!Load, Prompt!Reused
<1>2. CASE Prompt!Unload
  BY <1>2 DEF Prompt!Unload, Prompt!Off
<1>3. CASE Prompt!Prompt
  <2>1. v3' \subseteq {v2'} /\ v5' \subseteq v3' /\ v6' \subseteq {v7'} \cap v5' /\ v2' \in Nat
        /\ (v3' # {} => v4' = v2')
    <3>1. CASE v1 = "rc"
      BY <1>3, <3>1 DEF Prompt!Prompt, Prompt!PtkCreate, Prompt!Latest
    <3>2. CASE v1 # "rc"
      BY <1>3, <3>2 DEF Prompt!Prompt
    <3> QED BY <3>1, <3>2
  <2>2. v1 # "line" /\ v1' = "line"
    BY <1>3 DEF Prompt!Prompt
  <2>3. v10' = [v10 EXCEPT !.text = "empty"]
    BY <1>3 DEF Prompt!Prompt
  <2>4. v10' = [text |-> v10'.text, completer |-> v10'.completer, typing |-> v10'.typing]
        /\ v10'.completer = v10.completer /\ v10'.typing = v10.typing
    BY <2>3
  <2>5. CASE v3 \cap v5' = {} /\ UNCHANGED <<v8, v9, v13, v14>>
    <3>1. v6' = {}
      BY <1>3, <2>1, <2>5 DEF Prompt!Prompt, Prompt!PtkCreate
    <3> QED BY <2>1, <2>2, <2>4, <2>5, <3>1
  <2>6. CASE v8' = FALSE /\ v9' = "insert" /\ v13' = Prompt!Closed
             /\ v14' = (v14 \/ v13 # Prompt!Closed)
    <3>1. v13' = [text |-> v13'.text, completer |-> v13'.completer, typing |-> v13'.typing]
      BY <2>6
    <3>2. ~v14' => v10'.completer = "shell" /\ ~v10'.typing
      BY <2>4, <2>6
    <3> QED BY <2>1, <2>2, <2>4, <2>6, <3>1, <3>2
  <2> QED BY <1>3, <2>5, <2>6 DEF Prompt!Prompt, Prompt!ResetPrompt
<1>4. CASE Prompt!Types
  BY <1>4 DEF Prompt!Types
<1>5. CASE Prompt!MenuComes
  BY <1>5 DEF Prompt!MenuComes
<1>6. CASE Prompt!Arrow
  BY <1>6 DEF Prompt!Arrow
<1>7. CASE Prompt!NormalKey
  BY <1>7 DEF Prompt!NormalKey, Prompt!Editing
<1>8. CASE Prompt!HistsearchOpen
  BY <1>8 DEF Prompt!HistsearchOpen, Prompt!MayOpen
<1>13. ASSUME NEW text, Prompt!Searching, Prompt!Close(text),
              v9' # v9 => text = v13.text
       PROVE  PromptOwes
  <2>1. v10' = [v13 EXCEPT !.text = text] /\ v13' = Prompt!Closed
        /\ UNCHANGED <<v1, v2, v3, v4, v5, v6, v7, v8, v14>>
    BY <1>13 DEF Prompt!Close
  <2>2. v10' = [text |-> v10'.text, completer |-> v13.completer, typing |-> v13.typing]
    BY <2>1
  <2>3. text = v13.text => v10' = v13
    BY <2>1
  <2>4. v13 # Prompt!Closed /\ v9 = "insert"
    BY <1>13 DEF Prompt!Searching
  <2>5. v13.completer \in {"shell", "history"}
    BY <2>4
  <2> QED BY <1>13, <2>1, <2>2, <2>3, <2>4, <2>5
<1>9. CASE Prompt!HistsearchAccept
  <2>1. PICK text \in Prompt!Chosen :
           \/ Prompt!Close(text) /\ v9' = v9
           \/ Prompt!Close(v13.text) /\ v9' = "normal"
    BY <1>9 DEF Prompt!HistsearchAccept
  <2> QED BY <1>9, <1>13, <2>1 DEF Prompt!HistsearchAccept
<1>10. CASE Prompt!Escape
  <2>1. CASE Prompt!Searching /\ Prompt!Close(v13.text)
    BY <1>13, <2>1
  <2>2. CASE ~Prompt!Searching /\ v11 # {}
    BY <1>10, <2>2 DEF Prompt!Escape, Prompt!Editing, Prompt!Searching, Prompt!Close
  <2>3. CASE ~Prompt!Searching /\ v11 = {}
    BY <1>10, <2>3 DEF Prompt!Escape, Prompt!Editing, Prompt!Searching, Prompt!Close
  <2> QED BY <1>10, <2>1, <2>2, <2>3 DEF Prompt!Escape
<1>11. CASE Prompt!Accept \/ Prompt!Interrupt
  BY <1>11 DEF Prompt!Accept, Prompt!Interrupt
<1>12. CASE UNCHANGED Prompt!vars
  BY <1>12 DEF Prompt!vars
<1> HIDE DEF Prompt!Inductive, Prompt!BeginsAfresh, Prompt!GivesBackLine, Prompt!Empty,
        Prompt!Closed, Prompt!install, Prompt!line, Prompt!Stays, PromptOwes
<1> QED BY <1>1, <1>2, <1>3, <1>4, <1>5, <1>6, <1>7, <1>8, <1>9, <1>10, <1>11, <1>12
        DEF Prompt!Next

\* The keys of the prompt go to one editor, and a search gives the line back
\* as it was, with its completer and mode (integration.py, search).
THEOREM EditsOneLineHolds == Spec => EditsOneLine
<1> DEFINE Inv  == part = "prompt" => Prompt!Inductive
           Safe == part = "prompt" => Prompt!OneEditor /\ Prompt!GivesBackCompleter
           Step == part = "prompt" => Prompt!BeginsAfresh /\ Prompt!GivesBackLine
<1>1. Init => Inv
  BY InitOf, PromptInit
<1>2. Inv /\ [Next]_vars => Inv' /\ Step
  BY StepOf, PromptStep DEF PromptOwes
<1>3. Inv => Safe
  BY DEF Prompt!Inductive, Prompt!OneEditor, Prompt!GivesBackCompleter, Prompt!Shown
<1> QED BY <1>1, <1>2, <1>3, PTL DEF Spec, EditsOneLine

-----------------------------------------------------------------------------
(* Clients *)

LEMMA WhatOf ==
    ASSUME Client!Typed
    PROVE  /\ Client!What("mail") = v2
           /\ \A c \in Callers : c # "mail" /\ Client!What(c) = v7[c] \o v6[c]
           /\ \A p \in Client!Places : Client!What(p) \in Seq(Nat)
BY ClientsAssumption DEF Client!Typed, Client!What, Client!Places

\* t is a piece of s.
Piece(t, s) == \E k \in Nat : \A i \in DOMAIN t : i + k \in DOMAIN s /\ t[i] = s[i + k]

LEMMA ConcatPieces ==
    ASSUME NEW s \in Seq(Nat), NEW t \in Seq(Nat)
    PROVE  /\ Piece(<<>>, s \o t) /\ Piece(s, s \o t)
           /\ s # <<>> => Piece(<<Head(s)>>, s \o t)
           /\ t # <<>> => Piece(<<Head(t)>>, s \o t) /\ Piece(<<>> \o Tail(t), <<>> \o t)
<1> USE DEF Piece
<1>1. Piece(<<>>, s \o t) /\ Piece(s, s \o t)
  <2>1. \A i \in DOMAIN s : i + 0 \in DOMAIN (s \o t) /\ s[i] = (s \o t)[i + 0]
    OBVIOUS
  <2>2. \A i \in DOMAIN <<>> : i + 0 \in DOMAIN (s \o t) /\ <<>>[i] = (s \o t)[i + 0]
    OBVIOUS
  <2> QED BY <2>1, <2>2
<1>2. ASSUME s # <<>> PROVE Piece(<<Head(s)>>, s \o t)
  <2>1. \A i \in DOMAIN <<Head(s)>> :
            i + 0 \in DOMAIN (s \o t) /\ <<Head(s)>>[i] = (s \o t)[i + 0]
    BY <1>2
  <2> QED BY <2>1
<1>3. ASSUME t # <<>> PROVE Piece(<<Head(t)>>, s \o t)
  <2>1. \A i \in DOMAIN <<Head(t)>> :
            i + Len(s) \in DOMAIN (s \o t) /\ <<Head(t)>>[i] = (s \o t)[i + Len(s)]
    BY <1>3
  <2> QED BY <2>1
<1>4. ASSUME t # <<>> PROVE Piece(<<>> \o Tail(t), <<>> \o t)
  <2>1. \A i \in DOMAIN Tail(t) : i + 1 \in DOMAIN t /\ Tail(t)[i] = t[i + 1]
    BY <1>4
  <2>2. <<>> \o Tail(t) = Tail(t) /\ <<>> \o t = t
    BY <1>4
  <2> QED BY <2>1, <2>2
<1> QED BY <1>1, <1>2, <1>3, <1>4

LEMMA PieceOf ==
    ASSUME NEW s \in Seq(Nat), NEW t \in Seq(Nat), Piece(t, s)
    PROVE  Client!ToSet(t) \subseteq Client!ToSet(s)
BY DEF Piece, Client!ToSet

\* The steps that take nothing new in keep the places as they should be, and are
\* moves of Delivery.
MessagesMove == Client!Contents' /\ ClientPromise!Move

\* From the places to Delivery.
LEMMA PlacesMove ==
    ASSUME v1' = v1, v8 \subseteq v8', Client!At("mail")' \subseteq Client!At("mail"),
           \A c \in Callers :
              Client!At(c)' \subseteq Client!At(c) \cup (Client!At("mail") \ Client!At("mail")'),
           \A c, d \in Callers : c # d =>
              Client!At(c)' \cap Client!At(d)' \cap (Client!At("mail") \ Client!At("mail")') = {},
           \A m \in Client!Seen' \ Client!Seen :
              \E c \in Callers : m \in Client!At(c) \ Client!At(c)'
    PROVE  ClientPromise!Move
<1> DEFINE given == [c \in Callers |-> Client!At(c)]
           taken == Client!At("mail") \ Client!At("mail")'
           left  == UNION {given[c] \ given'[c] : c \in Callers}
<1>1. \A c \in Callers : given[c] = Client!At(c) /\ given'[c] = Client!At(c)'
  OBVIOUS
<1>2. Client!Seen \subseteq Client!Seen'
  BY DEF Client!Seen
<1>3. Client!Seen' \subseteq Client!Seen \cup left
  BY <1>1
<1>4. /\ \A c \in Callers : given'[c] \subseteq given[c] \cup taken
      /\ \A c, d \in Callers : c # d => given'[c] \cap given'[d] \cap taken = {}
  BY <1>1
<1> QED BY <1>2, <1>3, <1>4 DEF ClientPromise!Move

\* A step that only takes away from one place, and shows what is gone from it.
LEMMA TakesAway ==
    ASSUME Client!Typed, Client!Typed', Client!Contents, NEW c \in Callers,
           UNCHANGED <<v1, v9>>,
           \A p \in Client!Places \ {c} : Client!What(p)' = Client!What(p),
           Piece(Client!What(c)', Client!What(c)),
           v8 \subseteq v8', v8' \subseteq v8 \cup Client!ToSet(Client!What(c)),
           Client!ToSet(Client!What(c)') \cap v8' \subseteq {0}
    PROVE  MessagesMove
<1> USE DEF Client!Contents, Client!Ack
<1>0. /\ \A p \in Client!Places : Client!What(p) \in Seq(Nat) /\ Client!What(p)' \in Seq(Nat)
      /\ Client!Places' = Client!Places /\ c \in Client!Places
      /\ \A p \in Client!Places : Client!Own(p)' = Client!Own(p)
      /\ Client!Own("asker")' = Client!Own("asker") /\ Client!Own("mail")' = Client!Own("mail")
  BY WhatOf DEF Client!Places, Client!Typed, Client!What, Client!Own, Client!Reply
<1>1. \A p \in Client!Places : Client!ToSet(Client!What(p)') \subseteq Client!ToSet(Client!What(p))
  BY <1>0, PieceOf
<1>2. \A p \in Client!Places : Client!ToSet(Client!What(p)') \subseteq {0} \cup Client!Own(p)'
  BY <1>0, <1>1
<1>3. v8' \subseteq {0} \cup Client!Own("asker")' \cup Client!Own("mail")'
  <2>1. Client!Own(c) \subseteq Client!Own("asker") \cup Client!Own("mail")
    BY DEF Client!Own
  <2> QED BY <1>0, <2>1
<1>4. Client!InOnePlace'
  <2>1. ASSUME NEW p \in Client!Places
        PROVE  Client!ToSet(Client!What(p)') \cap v8' \subseteq {0}
    <3>1. CASE p = c
      BY <3>1
    <3>2. CASE p # c
      BY <1>0, <1>1, <3>2 DEF Client!InOnePlace
    <3> QED BY <3>1, <3>2
  <2>2. ASSUME NEW p \in Client!Places, NEW q \in Client!Places \ {p}
        PROVE  Client!ToSet(Client!What(p)') \cap Client!ToSet(Client!What(q)') \subseteq {0}
    BY <1>1 DEF Client!InOnePlace
  <2> QED BY <1>0, <2>1, <2>2 DEF Client!InOnePlace, Client!ToSet
<1>5. Client!ShownInOrder'
  <2>1. ASSUME NEW p \in Client!Places, NEW i \in DOMAIN Client!What(p)',
               NEW j \in DOMAIN Client!What(p)', i < j,
               0 \notin {Client!What(p)'[i], Client!What(p)'[j]}
        PROVE  Client!What(p)'[i] < Client!What(p)'[j]
    <3>1. CASE p = c
      <4>1. PICK k \in Nat : \A n \in DOMAIN Client!What(c)' :
                n + k \in DOMAIN Client!What(c) /\ Client!What(c)'[n] = Client!What(c)[n + k]
        BY DEF Piece
      <4>2. i + k < j + k
        BY <1>0, <2>1
      <4> QED BY <2>1, <3>1, <4>1, <4>2 DEF Client!ShownInOrder
    <3>2. CASE p # c
      BY <2>1, <3>2 DEF Client!ShownInOrder
    <3> QED BY <3>1, <3>2
  <2> QED BY <1>0, <2>1 DEF Client!ShownInOrder
<1>6. ClientPromise!Move
  <2>1. "mail" \in Client!Places /\ c # "mail" /\ \A d \in Callers : d \in Client!Places
    BY WhatOf DEF Client!Places
  <2>2. Client!At("mail")' = Client!At("mail")
    BY <2>1 DEF Client!At, Client!ToSet
  <2>3. \A d \in Callers : Client!At(d)' \subseteq Client!At(d)
    BY <1>1, <2>1 DEF Client!At, Client!ToSet
  <2>4. ASSUME NEW m \in Client!Seen' \ Client!Seen
        PROVE  m \in Client!At(c) \ Client!At(c)'
    <3>1. m \in v8' /\ m \notin v8 /\ m \in 1 .. MaxMsgs
      BY <2>4 DEF Client!Seen
    <3>2. m # 0
      BY <3>1
    <3>3. m \in Client!ToSet(Client!What(c)) /\ m \notin Client!ToSet(Client!What(c)')
      BY <3>1, <3>2
    <3> QED BY <3>1, <3>3 DEF Client!At, Client!ToSet
  <2> QED BY <2>2, <2>3, <2>4, PlacesMove
<1> QED BY <1>0, <1>2, <1>3, <1>4, <1>5, <1>6 DEF MessagesMove

LEMMA ClientInit ==
    ASSUME Client!Init
    PROVE  Client!Typed /\ Client!Contents /\ ClientPromise!Init
<1>1. Client!Typed
  <2>1. <<>> \in Seq(Nat)
    OBVIOUS
  <2>2. v1 \in 0 .. MaxMsgs
    BY ClientsAssumption DEF Client!Init
  <2>5. v9 \in BOOLEAN
    BY DEF Client!Init
  <2>6. v2 \in Seq(Nat) /\ v3 # "asker"
    BY <2>1 DEF Client!Init
  <2>3. v6 \in [Callers -> Seq(Nat)] /\ v7 \in [Callers -> Seq(Nat)]
    BY <2>1 DEF Client!Init
  <2>4. /\ v4 \in [Callers -> {"off", "sent", "reading", "waiting", "asks"}]
        /\ \A c \in Callers : v4[c] = "off" /\ v6[c] = <<>> /\ v7[c] = <<>>
    BY DEF Client!Init
  <2>7. /\ v5 \in [Callers -> {"hello", "poll", "poll_wait", "send_wait"}]
        /\ \A c \in Callers : v5[c] = "send_wait" => c = "asker"
    BY ClientsAssumption DEF Client!Init, Client!FirstOp
  <2> QED BY <2>2, <2>3, <2>4, <2>5, <2>6, <2>7 DEF Client!Typed
<1>2. \A p \in Client!Places : Client!What(p) = <<>>
  BY DEF Client!Init, Client!Places, Client!What
<1>3. Client!InOnePlace /\ Client!ShownInOrder
  BY <1>2 DEF Client!Init, Client!InOnePlace, Client!ShownInOrder, Client!ToSet
<1>4. ClientPromise!Init
  <2>1. \A p \in Client!Places : Client!At(p) = {}
    BY <1>2 DEF Client!At, Client!ToSet
  <2>2. v1 = 0 /\ v8 = {} /\ "mail" \in Client!Places /\ \A c \in Callers : c \in Client!Places
    BY DEF Client!Init, Client!Places
  <2> QED BY <2>1, <2>2 DEF ClientPromise!Init, Client!Seen
<1> QED BY <1>1, <1>2, <1>3, <1>4 DEF Client!Init, Client!Contents, Client!ToSet

LEMMA ClientTyped ==
    ASSUME Client!Typed, Client!Next
    PROVE  Client!Typed'
<1> USE ClientsAssumption DEF Client!Typed
<1>1. CASE Client!Accept
  <2>1. v1' \in Nat \ {0} /\ v6' \in [Callers -> Seq(Nat)] /\ v2' \in Seq(Nat) /\ v1' \in 0 .. MaxMsgs
    BY <1>1 DEF Client!Accept
  <2>2. \A c \in Callers : v4[c] \in {"off", "sent"} => v6'[c] = <<>>
    BY <1>1 DEF Client!Accept, Client!Gets, Client!Connected
  <2> QED BY <1>1, <2>1, <2>2 DEF Client!Accept
<1>2. CASE Client!Answer
  <2>1. Append(v6["asker"], MaxMsgs + 1) \in Seq(Nat)
    BY <1>2 DEF Client!Answer
  <2> QED BY <1>2, <2>1 DEF Client!Answer, Client!Reply, Client!Connected
<1>3. ASSUME NEW c \in Callers, Client!Request(c) PROVE Client!Typed'
  BY <1>3 DEF Client!Request, Client!FirstOp
<1>4. ASSUME NEW c \in Callers, Client!Serve(c) PROVE Client!Typed'
  <2>1. Append(v2, 0) \in Seq(Nat) /\ <<0>> \in Seq(Nat) /\ <<>> \in Seq(Nat)
    OBVIOUS
  <2>2. v6' \in [Callers -> Seq(Nat)] /\ v2' \in Seq(Nat) /\ v7' = v7 /\ v5' = v5
    <3>1. CASE v5[c] = "send_wait"
      <4>1. v6' = [v6 EXCEPT ![c] = <<0>>] /\ v2' = v2
        BY <1>4, <3>1 DEF Client!Serve, Client!Ack
      <4> QED BY <1>4, <2>1, <4>1 DEF Client!Serve
    <3>2. CASE v5[c] # "send_wait"
      <4>1. v6' = [v6 EXCEPT ![c] = Append(v2, 0)] /\ v2' = <<>>
        BY <1>4, <3>2 DEF Client!Serve, Client!Ack
      <4> QED BY <1>4, <2>1, <4>1 DEF Client!Serve
    <3> QED BY <3>1, <3>2
  <2>3. v3' # "asker" /\ v4' = [v4 EXCEPT ![c] = "reading"] /\ v1' = v1 /\ v9' = v9
    BY <1>4 DEF Client!Serve
  <2>4. \A d \in Callers \ {c} : v6'[d] = v6[d] /\ v4'[d] = v4[d]
    BY <1>4 DEF Client!Serve
  <2>5. v4[c] = "sent" /\ v4'[c] = "reading"
    BY <1>4 DEF Client!Serve
  <2> QED BY <2>2, <2>3, <2>4, <2>5
<1>5. ASSUME NEW c \in Callers, Client!Keep(c) PROVE Client!Typed'
  <2>1. Append(v7[c], Head(v6[c])) \in Seq(Nat) /\ Tail(v6[c]) \in Seq(Nat)
    BY <1>5 DEF Client!Keep
  <2> QED BY <1>5, <2>1 DEF Client!Keep, Client!Kept
<1>6. ASSUME NEW c \in Callers, NEW next \in {"off", "sent", "asks"}, NEW keeps \in Seq(Nat), NEW shows,
             Client!Closes(c, next, keeps, shows), keeps = <<>> \/ next = "asks",
             c = "asker" => next = "off",
             v5' = v5 \/ (c = "monitor" /\ v5' = [v5 EXCEPT ![c] = "poll_wait"])
      PROVE  Client!Typed'
  <2>1. v4' = [v4 EXCEPT ![c] = next] /\ v6' = [v6 EXCEPT ![c] = <<>>]
        /\ v7' = [v7 EXCEPT ![c] = keeps] /\ UNCHANGED <<v1, v2, v3, v9>>
    BY <1>6 DEF Client!Closes
  <2>2. v6' \in [Callers -> Seq(Nat)] /\ v7' \in [Callers -> Seq(Nat)]
    <3>1. <<>> \in Seq(Nat)
      OBVIOUS
    <3> QED BY <1>6, <2>1, <3>1
  <2>3. v4' \in [Callers -> {"off", "sent", "reading", "waiting", "asks"}]
    BY <1>6, <2>1
  <2>4. v5' \in [Callers -> {"hello", "poll", "poll_wait", "send_wait"}]
    BY <1>6
  <2>5. ASSUME NEW d \in Callers
        PROVE  /\ v5'[d] = "send_wait" => d = "asker"
               /\ d = "asker" /\ v4'[d] # "off" => v5'[d] = "send_wait"
               /\ v4'[d] \in {"off", "sent"} => v7'[d] = <<>> /\ v6'[d] = <<>>
    BY <1>6, <2>1
  <2> QED BY <2>1, <2>2, <2>3, <2>4, <2>5
<1>7. ASSUME NEW c \in Callers, Client!GetAck(c) PROVE Client!Typed'
  <2>1. /\ v7[c] # <<>> => <<Head(v7[c])>> \in Seq(Nat)
        /\ v7[c] \in Seq(Nat) /\ <<>> \in Seq(Nat) /\ Tail(v6[c]) \in Seq(Nat)
    BY <1>7 DEF Client!GetAck
  <2>2. CASE v4' = [v4 EXCEPT ![c] = "waiting"] /\ v6' = [v6 EXCEPT ![c] = Tail(@)]
             /\ UNCHANGED <<v1, v2, v3, v5, v7, v8, v9>>
    <3>1. v6' \in [Callers -> Seq(Nat)] /\ v4[c] = "reading"
      BY <1>7, <2>1, <2>2 DEF Client!GetAck
    <3> QED BY <2>2, <3>1
  <2>3. CASE /\ v5[c] # "send_wait"
             /\ \E next \in {"off", "sent", "asks"}, keeps \in Seq(Nat), shows \in Seq(Nat) :
                   /\ Client!Closes(c, next, keeps, shows)
                   /\ keeps = <<>> \/ next = "asks"
             /\ v5' = v5 \/ (c = "monitor" /\ v5' = [v5 EXCEPT ![c] = "poll_wait"])
    <3>1. c # "asker"
      BY <1>7, <2>3 DEF Client!GetAck
    <3>2. PICK next \in {"off", "sent", "asks"}, keeps \in Seq(Nat), shows \in Seq(Nat) :
              /\ Client!Closes(c, next, keeps, shows)
              /\ keeps = <<>> \/ next = "asks"
      BY <2>3
    <3> HIDE DEF Client!Typed
    <3> QED BY <1>6, <2>3, <3>1, <3>2
  <2>4. CASE c = "keepalive" /\ Client!Closes(c, "off", <<>>, <<>>) /\ v5' = v5
    BY <1>6, <2>1, <2>4
  <2> QED BY <1>7, <2>1, <2>2, <2>3, <2>4 DEF Client!GetAck
<1>8. ASSUME NEW c \in Callers, Client!GetMessage(c) PROVE Client!Typed'
  <2>1. <<Head(v6[c])>> \in Seq(Nat) /\ <<>> \in Seq(Nat)
    BY <1>8 DEF Client!GetMessage
  <2> QED BY <1>6, <1>8, <2>1 DEF Client!GetMessage
<1>9. ASSUME NEW c \in Callers, Client!AsksAnswered(c) \/ Client!AsksFails(c) \/ Client!TimesOut(c)
      PROVE  Client!Typed'
  <2>1. <<>> \in Seq(Nat)
    OBVIOUS
  <2> QED BY <1>6, <1>9, <2>1 DEF Client!AsksAnswered, Client!AsksFails, Client!TimesOut
<1> HIDE DEF Client!Typed
<1> QED BY <1>1, <1>2, <1>3, <1>4, <1>5, <1>7, <1>8, <1>9 DEF Client!Next

\* A step after which every place has what it had.
LEMMA SameContents ==
    ASSUME Client!Contents, UNCHANGED <<v1, v8, v9>>,
           \A p \in Client!Places : Client!What(p)' = Client!What(p)
    PROVE  MessagesMove
<1>1. /\ Client!Places' = Client!Places /\ \A p \in Client!Places : Client!Own(p)' = Client!Own(p)
      /\ Client!Own("asker")' = Client!Own("asker") /\ Client!Own("mail")' = Client!Own("mail")
  BY DEF Client!Places, Client!Own, Client!Reply
<1>2. \A p \in Client!Places : Client!ToSet(Client!What(p)') = Client!ToSet(Client!What(p))
  BY DEF Client!ToSet
<1>3. Client!InOnePlace'
  BY <1>1, <1>2 DEF Client!Contents, Client!InOnePlace, Client!ToSet, Client!Ack
<1>4. Client!ShownInOrder'
  BY <1>1 DEF Client!Contents, Client!ShownInOrder, Client!Ack
<1>5. ClientPromise!Move
  <2>1. \A p \in Client!Places : Client!At(p)' = Client!At(p)
    BY DEF Client!At, Client!ToSet
  <2>2. "mail" \in Client!Places /\ \A c \in Callers : c \in Client!Places
    BY DEF Client!Places
  <2>3. Client!Seen' = Client!Seen
    BY DEF Client!Seen
  <2> QED BY <2>1, <2>2, <2>3, PlacesMove
<1>6. Client!Contents'
  BY <1>1, <1>2, <1>3, <1>4 DEF Client!Contents, Client!ToSet, Client!Ack
<1> QED BY <1>5, <1>6 DEF MessagesMove

LEMMA AppendedTo ==
    ASSUME NEW s \in Seq(Nat), NEW m \in Nat
    PROVE  /\ Client!ToSet(Append(s, m)) = Client!ToSet(s) \cup {m}
           /\ DOMAIN Append(s, m) = DOMAIN s \cup {Len(s) + 1} /\ DOMAIN s = 1 .. Len(s)
           /\ Append(s, m)[Len(s) + 1] = m
           /\ \A i \in DOMAIN s : Append(s, m)[i] = s[i]
<1>1. /\ DOMAIN Append(s, m) = DOMAIN s \cup {Len(s) + 1} /\ DOMAIN s = 1 .. Len(s)
      /\ Append(s, m)[Len(s) + 1] = m
      /\ \A i \in DOMAIN s : Append(s, m)[i] = s[i]
  OBVIOUS
<1> QED BY <1>1 DEF Client!ToSet

LEMMA MovesAlong ==
    ASSUME NEW s \in Seq(Nat), NEW t \in Seq(Nat), NEW m \in Nat
    PROVE  /\ s \o Append(t, m) = Append(s \o t, m)
           /\ t # <<>> => Append(s, Head(t)) \o Tail(t) = s \o t
           /\ t # <<>> => <<Head(t)>> \in Seq(Nat) /\ Head(t) \in Nat /\ Tail(t) \in Seq(Nat)
<1>1. s \o Append(t, m) = Append(s \o t, m)
  OBVIOUS
<1>2. ASSUME t # <<>>
      PROVE  Append(s, Head(t)) \o Tail(t) = s \o t
  <2> DEFINE a == Append(s, Head(t)) \o Tail(t)  b == s \o t
  <2>1. Head(t) \in Nat /\ Tail(t) \in Seq(Nat) /\ Append(s, Head(t)) \in Seq(Nat)
    BY <1>2
  <2>2. a \in Seq(Nat) /\ b \in Seq(Nat) /\ Len(a) = Len(b)
    BY <1>2, <2>1
  <2>3. ASSUME NEW i \in 1 .. Len(a) PROVE a[i] = b[i]
    BY <1>2, <2>1, <2>2, <2>3
  <2> QED BY <2>2, <2>3, SeqEqual
<1>3. ASSUME t # <<>>
      PROVE  <<Head(t)>> \in Seq(Nat) /\ Head(t) \in Nat /\ Tail(t) \in Seq(Nat)
  <2>1. Head(t) \in Nat /\ Tail(t) \in Seq(Nat)
    BY <1>3
  <2> QED BY <2>1
<1> QED BY <1>1, <1>2, <1>3

\* A step that puts a new message at the end of one place.
LEMMA Puts ==
    ASSUME Client!Typed, Client!Contents, NEW p \in Client!Places, NEW m \in Nat \ {0},
           Client!What(p)' = Append(Client!What(p), m),
           \A q \in Client!Places \ {p} : Client!What(q)' = Client!What(q),
           \A q \in Client!Places \cup {"asker"} : Client!Own(q) \subseteq Client!Own(q)',
           m \in Client!Own(p)', v8' = v8, m \notin v8,
           \A q \in Client!Places : m \notin Client!ToSet(Client!What(q)),
           \A i \in DOMAIN Client!What(p) : Client!What(p)[i] < m
    PROVE  Client!Contents'
<1> USE DEF Client!Ack
<1>1. /\ Client!Places' = Client!Places /\ "mail" \in Client!Places
      /\ \A q \in Client!Places : Client!What(q) \in Seq(Nat)
  BY WhatOf DEF Client!Places
<1>2. Client!ToSet(Client!What(p)') = Client!ToSet(Client!What(p)) \cup {m}
  BY <1>1, AppendedTo
<1>3. ASSUME NEW q \in Client!Places, q # p
      PROVE  Client!ToSet(Client!What(q)') = Client!ToSet(Client!What(q))
  BY <1>3 DEF Client!ToSet
<1>4. \A q \in Client!Places : Client!ToSet(Client!What(q)') \subseteq {0} \cup Client!Own(q)'
  <2> TAKE q \in Client!Places
  <2>1. Client!ToSet(Client!What(q)) \subseteq {0} \cup Client!Own(q)
    BY DEF Client!Contents
  <2>2. Client!Own(q) \subseteq Client!Own(q)'
    OBVIOUS
  <2>3. CASE q = p
    BY <1>2, <2>1, <2>2, <2>3
  <2>4. CASE q # p
    BY <1>3, <2>1, <2>2, <2>4
  <2> QED BY <2>3, <2>4
<1>5. v8' \subseteq {0} \cup Client!Own("asker")' \cup Client!Own("mail")'
  BY <1>1 DEF Client!Contents
<1>6. Client!InOnePlace'
  <2>1. ASSUME NEW q \in Client!Places
        PROVE  Client!ToSet(Client!What(q)') \cap v8' \subseteq {0}
    <3>1. Client!ToSet(Client!What(q)) \cap v8 \subseteq {0}
      BY DEF Client!Contents, Client!InOnePlace
    <3>2. CASE q = p
      BY <1>2, <3>1, <3>2
    <3>3. CASE q # p
      BY <1>3, <3>1, <3>3
    <3> QED BY <3>2, <3>3
  <2>2. ASSUME NEW q \in Client!Places, NEW r \in Client!Places \ {q}
        PROVE  Client!ToSet(Client!What(q)') \cap Client!ToSet(Client!What(r)') \subseteq {0}
    <3>1. Client!ToSet(Client!What(q)) \cap Client!ToSet(Client!What(r)) \subseteq {0}
      BY DEF Client!Contents, Client!InOnePlace
    <3>2. m \notin Client!ToSet(Client!What(q)) /\ m \notin Client!ToSet(Client!What(r))
      OBVIOUS
    <3>3. CASE q = p
      BY <1>2, <1>3, <3>1, <3>2, <3>3
    <3>4. CASE r = p
      BY <1>2, <1>3, <3>1, <3>2, <3>4
    <3>5. CASE q # p /\ r # p
      BY <1>3, <3>1, <3>5
    <3> QED BY <3>3, <3>4, <3>5
  <2> QED BY <1>1, <2>1, <2>2 DEF Client!InOnePlace, Client!ToSet
<1>7. Client!ShownInOrder'
  <2>1. ASSUME NEW q \in Client!Places, NEW i \in DOMAIN Client!What(q)',
               NEW j \in DOMAIN Client!What(q)', i < j,
               0 \notin {Client!What(q)'[i], Client!What(q)'[j]}
        PROVE  Client!What(q)'[i] < Client!What(q)'[j]
    <3>1. CASE q # p
      BY <2>1, <3>1 DEF Client!Contents, Client!ShownInOrder
    <3>2. CASE q = p
      <4>1. /\ DOMAIN Client!What(q)' = DOMAIN Client!What(p) \cup {Len(Client!What(p)) + 1}
            /\ DOMAIN Client!What(p) = 1 .. Len(Client!What(p)) /\ Len(Client!What(p)) \in Nat
            /\ Client!What(q)'[Len(Client!What(p)) + 1] = m
            /\ \A k \in DOMAIN Client!What(p) : Client!What(q)'[k] = Client!What(p)[k]
        BY <1>1, <3>2, AppendedTo
      <4>2. i \in DOMAIN Client!What(p)
        BY <2>1, <4>1
      <4>3. CASE j \in DOMAIN Client!What(p)
        BY <2>1, <4>1, <4>2, <4>3 DEF Client!Contents, Client!ShownInOrder
      <4>4. CASE j = Len(Client!What(p)) + 1
        BY <4>1, <4>2, <4>4
      <4> QED BY <4>1, <4>3, <4>4
    <3> QED BY <3>1, <3>2
  <2> QED BY <1>1, <2>1 DEF Client!ShownInOrder
<1> QED BY <1>1, <1>4, <1>5, <1>6, <1>7 DEF Client!Contents, Client!ToSet

\* What a call has is closed with it, or shown, or kept.
LEMMA ClosingTakes ==
    ASSUME Client!Typed, Client!Typed', Client!Contents, NEW c \in Callers,
           NEW next, NEW keeps \in Seq(Nat), NEW shows \in Seq(Nat),
           Client!Closes(c, next, keeps, shows),
           Piece(keeps, Client!What(c)), Piece(shows, Client!What(c)),
           keeps = <<>> \/ shows = <<>>
    PROVE  MessagesMove
<1>1. v6'[c] = <<>> /\ v7'[c] = keeps
  BY DEF Client!Closes, Client!Typed
<1>2. c # "mail" /\ Client!What(c) \in Seq(Nat) /\ Client!What(c)' = keeps
  <2>1. c # "mail" /\ Client!What(c) \in Seq(Nat)
    BY WhatOf DEF Client!Places
  <2>2. Client!What(c)' = v7'[c] \o v6'[c]
    BY <2>1 DEF Client!What
  <2>3. keeps \o <<>> = keeps
    OBVIOUS
  <2> QED BY <1>1, <2>1, <2>2, <2>3
<1>3. \A p \in Client!Places \ {c} : Client!What(p)' = Client!What(p)
  BY DEF Client!Closes, Client!What, Client!Places, Client!Typed
<1>4. v8' = v8 \cup Client!ToSet(shows) /\ Client!ToSet(shows) \subseteq Client!ToSet(Client!What(c))
  BY <1>2, PieceOf DEF Client!Closes
<1>5. Client!ToSet(keeps) \cap v8' \subseteq {0}
  <2>1. CASE keeps = <<>>
    BY <2>1 DEF Client!ToSet
  <2>2. CASE shows = <<>>
    <3>1. Client!ToSet(keeps) \subseteq Client!ToSet(Client!What(c)) /\ v8' = v8
      <4>1. Client!ToSet(shows) = {}
        BY <2>2 DEF Client!ToSet
      <4> QED BY <1>2, <1>4, <4>1, PieceOf
    <3> QED BY <3>1 DEF Client!Contents, Client!InOnePlace, Client!Places, Client!Ack
  <2> QED BY <2>1, <2>2
<1> QED BY <1>2, <1>3, <1>4, <1>5, TakesAway DEF Client!Closes

\* What the hub has for a session goes to its call, before the ACK.
LEMMA ServeMoves ==
    ASSUME Client!Typed, Client!Typed', Client!Contents, NEW c \in Callers, Client!Serve(c)
    PROVE  MessagesMove
<1> USE DEF Client!Ack
<1>1. /\ c \in Client!Places /\ "mail" \in Client!Places /\ c # "mail" /\ Client!Places' = Client!Places
      /\ v7[c] = <<>> /\ v6[c] = <<>> /\ v7'[c] = <<>>
  BY WhatOf DEF Client!Serve, Client!Typed, Client!Places
<1>2. Client!What("mail") = v2 /\ Client!What("mail")' = v2' /\ v2 \in Seq(Nat)
  BY WhatOf DEF Client!What, Client!Typed
<1>3. Client!What(c)' = v7'[c] \o v6'[c] /\ Client!What(c) = v7[c] \o v6[c]
  BY <1>1 DEF Client!What
<1>4. \A p \in Client!Places \ {c, "mail"} : Client!What(p)' = Client!What(p)
  BY DEF Client!Serve, Client!What, Client!Places, Client!Typed
<1>5. CASE v5[c] = "send_wait"
  <2>1. v6'[c] = <<0>> /\ v2' = v2
    BY <1>5 DEF Client!Serve, Client!Typed
  <2>2. Client!What(c)' = <<0>> /\ Client!What(c) = <<>> /\ <<>> \o <<0>> = <<0>>
    BY <1>1, <1>3, <2>1
  <2>3. \A p \in Client!Places \ {c} : Client!What(p)' = Client!What(p)
    BY <1>2, <1>4, <2>1
  <2>4. Client!ToSet(Client!What(c)') = {0}
    BY <2>2 DEF Client!ToSet
  <2>5. \A p \in Client!Places \ {c} : Client!ToSet(Client!What(p)') = Client!ToSet(Client!What(p))
    BY <2>3 DEF Client!ToSet
  <2>6. Client!InOnePlace'
    <3>1. ASSUME NEW p \in Client!Places
          PROVE  Client!ToSet(Client!What(p)') \cap v8' \subseteq {0}
      BY <2>4, <2>5 DEF Client!Contents, Client!InOnePlace, Client!Serve
    <3>2. ASSUME NEW p \in Client!Places, NEW q \in Client!Places \ {p}
          PROVE  Client!ToSet(Client!What(p)') \cap Client!ToSet(Client!What(q)') \subseteq {0}
      BY <2>4, <2>5 DEF Client!Contents, Client!InOnePlace
    <3> QED BY <1>1, <3>1, <3>2 DEF Client!InOnePlace, Client!ToSet
  <2>7. Client!ShownInOrder'
    <3>1. ASSUME NEW p \in Client!Places, NEW i \in DOMAIN Client!What(p)',
                 NEW j \in DOMAIN Client!What(p)', i < j,
                 0 \notin {Client!What(p)'[i], Client!What(p)'[j]}
          PROVE  Client!What(p)'[i] < Client!What(p)'[j]
      <4>1. CASE p = c
        BY <2>2, <3>1, <4>1
      <4>2. CASE p # c
        BY <2>3, <3>1, <4>2 DEF Client!Contents, Client!ShownInOrder
      <4> QED BY <4>1, <4>2
    <3> QED BY <1>1, <3>1 DEF Client!ShownInOrder
  <2>8. /\ v1' = v1 /\ v8' = v8 /\ v9' = v9
    BY DEF Client!Serve
  <2>9. /\ \A p \in Client!Places : Client!Own(p)' = Client!Own(p)
        /\ Client!Own("asker")' = Client!Own("asker") /\ Client!Own("mail")' = Client!Own("mail")
    BY <2>8 DEF Client!Own, Client!Reply
  <2>10. \A p \in Client!Places : Client!ToSet(Client!What(p)') \subseteq {0} \cup Client!Own(p)'
    BY <2>4, <2>5, <2>9 DEF Client!Contents
  <2>11. ClientPromise!Move
    <3>1. \A p \in Client!Places : Client!At(p)' = Client!At(p)
      <4>1. Client!At(c)' = Client!At(c)
        <5>1. Client!At(c)' = {} /\ Client!ToSet(<<>>) = {}
          BY <2>4 DEF Client!At, Client!ToSet
        <5> QED BY <2>2, <5>1 DEF Client!At
      <4> QED BY <2>5, <4>1 DEF Client!At, Client!ToSet
    <3>2. Client!Seen' = Client!Seen /\ \A d \in Callers : d \in Client!Places
      BY <2>8 DEF Client!Seen, Client!Places
    <3> QED BY <1>1, <2>8, <3>1, <3>2, PlacesMove
  <2>12. Client!Contents'
    BY <1>1, <2>6, <2>7, <2>8, <2>9, <2>10 DEF Client!Contents, Client!ToSet
  <2> QED BY <2>11, <2>12 DEF MessagesMove
<1>6. CASE v5[c] # "send_wait"
  <2>0. c # "asker"
    BY <1>6 DEF Client!Typed, Client!Serve
  <2>1. v6'[c] = Append(v2, 0) /\ v2' = <<>>
    BY <1>6 DEF Client!Serve, Client!Typed
  <2>2. Client!What(c)' = Append(v2, 0) /\ Client!What(c) = <<>> /\ Client!What("mail")' = <<>>
    <3>1. <<>> \o Append(v2, 0) = Append(v2, 0)
      BY <1>2
    <3> QED BY <1>1, <1>2, <1>3, <2>1, <3>1
  <2>3. /\ Client!ToSet(Client!What(c)') = Client!ToSet(Client!What("mail")) \cup {0}
        /\ Client!ToSet(Client!What("mail")') = {}
    <3>1. Client!ToSet(<<>>) = {}
      BY DEF Client!ToSet
    <3> QED BY <1>2, <2>2, <3>1, AppendedTo
  <2>4. \A p \in Client!Places \ {c, "mail"} : Client!ToSet(Client!What(p)') = Client!ToSet(Client!What(p))
    BY <1>4 DEF Client!ToSet
  <2>5. v1' = v1 /\ v8' = v8 /\ v9' = v9
    BY DEF Client!Serve
  <2>6. /\ \A p \in Client!Places : Client!Own(p)' = Client!Own(p)
        /\ Client!Own("asker")' = Client!Own("asker") /\ Client!Own("mail")' = Client!Own("mail")
        /\ Client!Own(c) = Client!Own("mail")
    BY <2>0, <2>5 DEF Client!Own, Client!Reply
  <2>7. \A p \in Client!Places : Client!ToSet(Client!What(p)') \subseteq {0} \cup Client!Own(p)'
    BY <1>1, <2>3, <2>4, <2>6 DEF Client!Contents
  <2>8. Client!InOnePlace'
    <3>1. ASSUME NEW p \in Client!Places
          PROVE  Client!ToSet(Client!What(p)') \cap v8' \subseteq {0}
      BY <1>1, <2>3, <2>4, <2>5 DEF Client!Contents, Client!InOnePlace
    <3>2. ASSUME NEW p \in Client!Places, NEW q \in Client!Places \ {p}
          PROVE  Client!ToSet(Client!What(p)') \cap Client!ToSet(Client!What(q)') \subseteq {0}
      <4>1. CASE p = c
        BY <1>1, <2>3, <2>4, <4>1 DEF Client!Contents, Client!InOnePlace
      <4>2. CASE q = c
        BY <1>1, <2>3, <2>4, <4>2 DEF Client!Contents, Client!InOnePlace
      <4>3. CASE p = "mail" \/ q = "mail"
        BY <1>1, <2>3, <2>4, <4>3
      <4>4. CASE {p, q} \cap {c, "mail"} = {}
        BY <2>4, <4>4 DEF Client!Contents, Client!InOnePlace
      <4> QED BY <4>1, <4>2, <4>3, <4>4
    <3> QED BY <1>1, <3>1, <3>2 DEF Client!InOnePlace, Client!ToSet
  <2>9. Client!ShownInOrder'
    <3>1. ASSUME NEW p \in Client!Places, NEW i \in DOMAIN Client!What(p)',
                 NEW j \in DOMAIN Client!What(p)', i < j,
                 0 \notin {Client!What(p)'[i], Client!What(p)'[j]}
          PROVE  Client!What(p)'[i] < Client!What(p)'[j]
      <4>1. CASE p = c
        <5>1. i \in DOMAIN v2 /\ j \in DOMAIN v2 /\ Append(v2, 0)[i] = v2[i] /\ Append(v2, 0)[j] = v2[j]
          BY <1>2, <2>2, <3>1, <4>1, AppendedTo
        <5> QED BY <1>1, <1>2, <2>2, <3>1, <4>1, <5>1 DEF Client!Contents, Client!ShownInOrder
      <4>2. CASE p = "mail"
        BY <2>2, <3>1, <4>2
      <4>3. CASE p \notin {c, "mail"}
        BY <1>4, <3>1, <4>3 DEF Client!Contents, Client!ShownInOrder
      <4> QED BY <4>1, <4>2, <4>3
    <3> QED BY <1>1, <3>1 DEF Client!ShownInOrder
  <2>10. ClientPromise!Move
    <3>1. /\ Client!At("mail")' = {}
          /\ Client!At(c)' = Client!At("mail")
          /\ \A d \in Callers \ {c} : Client!At(d)' = Client!At(d)
      <4>1. \A p \in Client!Places : /\ Client!At(p) = Client!ToSet(Client!What(p)) \cap 1 .. MaxMsgs
                                     /\ Client!At(p)' = Client!ToSet(Client!What(p)') \cap 1 .. MaxMsgs
        BY DEF Client!At, Client!ToSet
      <4>2. ({0} \cap 1 .. MaxMsgs = {}) /\ \A d \in Callers : d \in Client!Places \ {"mail"}
        BY ClientsAssumption DEF Client!Places
      <4> QED BY <1>1, <2>3, <2>4, <4>1, <4>2
    <3>2. Client!Seen' = Client!Seen
      BY <2>5 DEF Client!Seen
    <3>3. ASSUME NEW d \in Callers \ {c}
          PROVE  Client!At(d) \cap Client!At("mail") = {}
      <4>1. d \in Client!Places \ {"mail"}
        BY ClientsAssumption DEF Client!Places
      <4>2. Client!ToSet(Client!What(d)) \cap Client!ToSet(Client!What("mail")) \subseteq {0}
        BY <1>1, <4>1 DEF Client!Contents, Client!InOnePlace
      <4> QED BY <4>2 DEF Client!At
    <3> QED BY <2>5, <3>1, <3>2, <3>3, PlacesMove
  <2>11. Client!Contents'
    BY <1>1, <2>5, <2>6, <2>7, <2>8, <2>9 DEF Client!Contents, Client!ToSet
  <2> QED BY <2>10, <2>11 DEF MessagesMove
<1> QED BY <1>5, <1>6

LEMMA AcceptTells ==
    ASSUME Client!Typed, Client!Typed', Client!Contents, Client!Accept
    PROVE  Client!Contents' /\ ClientPromise!Tell
<1>0. PICK p \in Client!Places : /\ p # "asker"
                                 /\ p = IF \E c \in Callers : Client!Gets(c) THEN v3 ELSE "mail"
  BY DEF Client!Gets, Client!Places, Client!Typed
<1>1. p \in Client!Places /\ p # "asker"
  BY <1>0
<1>2. v1' \in Nat \ {0} /\ v1' = v1 + 1 /\ v1 < MaxMsgs /\ MaxMsgs \in Nat
  BY ClientsAssumption DEF Client!Accept, Client!Typed
<1>3. Client!What(p)' = Append(Client!What(p), v1')
  <2>1. CASE \E c \in Callers : Client!Gets(c)
    <3>1. v3 \in Callers /\ v3 # "mail" /\ v6'[v3] = Append(v6[v3], v1')
      BY <2>1, WhatOf DEF Client!Accept, Client!Gets
    <3>2. v7[v3] \o Append(v6[v3], v1') = Append(v7[v3] \o v6[v3], v1')
      <4>1. v7[v3] \in Seq(Nat) /\ v6[v3] \in Seq(Nat) /\ v1' \in Nat
        BY <1>2, <3>1 DEF Client!Typed
      <4> QED BY <4>1, MovesAlong
    <3>3. p = v3 /\ v7' = v7
      BY <1>0, <2>1 DEF Client!Accept
    <3> QED BY <3>1, <3>2, <3>3 DEF Client!What
  <2>2. CASE ~\E c \in Callers : Client!Gets(c)
    BY <1>0, <2>2 DEF Client!Accept, Client!What
  <2> QED BY <2>1, <2>2
<1>4. \A q \in Client!Places \ {p} : Client!What(q)' = Client!What(q)
  BY <1>0 DEF Client!Accept, Client!Gets, Client!What, Client!Places
<1>5. \A q \in Client!Places \cup {"asker"} : Client!Own(q) \subseteq Client!Own(q)'
  BY <1>2 DEF Client!Own, Client!Typed, Client!Accept, Client!Reply
<1>6. v1' \in Client!Own(p)'
  BY <1>1, <1>2 DEF Client!Own
<1>7. \A q \in Client!Places \cup {"asker"} : v1' \notin Client!Own(q) \cup {0}
  BY <1>2 DEF Client!Own, Client!Typed, Client!Reply
<1>8. /\ v8' = v8 /\ v1' \notin v8
      /\ \A q \in Client!Places : v1' \notin Client!ToSet(Client!What(q))
  BY <1>7 DEF Client!Accept, Client!Contents, Client!Ack, Client!Places
<1>9. \A i \in DOMAIN Client!What(p) : Client!What(p)[i] < v1'
  <2>1. \A i \in DOMAIN Client!What(p) : Client!What(p)[i] \in {0} \cup 1 .. v1
    BY <1>1 DEF Client!Contents, Client!Own, Client!ToSet, Client!Ack
  <2>2. \A n \in {0} \cup 1 .. v1 : n < v1'
    BY <1>2 DEF Client!Typed
  <2> QED BY <2>1, <2>2
<1>10. Client!Contents'
  BY <1>1, <1>2, <1>3, <1>4, <1>5, <1>6, <1>8, <1>9, Puts
<1>11. ClientPromise!Tell
  <2>1. v1' \in 1 .. MaxMsgs /\ Client!What(p) \in Seq(Nat)
    BY <1>1, <1>2, WhatOf DEF Client!Typed
  <2>2. Client!At(p)' = Client!At(p) \cup {v1'}
    <3>1. Client!ToSet(Client!What(p)') = Client!ToSet(Client!What(p)) \cup {v1'}
      BY <1>2, <1>3, <2>1, AppendedTo
    <3> QED BY <2>1, <3>1 DEF Client!At, Client!ToSet
  <2>3. \A q \in Client!Places \ {p} : Client!At(q)' = Client!At(q)
    BY <1>4 DEF Client!At, Client!ToSet
  <2>4. Client!Seen' = Client!Seen /\ "mail" \in Client!Places /\ "mail" \notin Callers
        /\ \A c \in Callers : c \in Client!Places
    BY <1>8, ClientsAssumption DEF Client!Seen, Client!Places
  <2> DEFINE given == [c \in Callers |-> Client!At(c)]
  <2>5. \/ Client!At("mail")' = Client!At("mail") \cup {v1'} /\ given' = given
        \/ /\ Client!At("mail")' = Client!At("mail")
           /\ \E c \in Callers : given' = [given EXCEPT ![c] = @ \cup {v1'}]
    <3>1. CASE p = "mail"
      BY <2>2, <2>3, <2>4, <3>1
    <3>2. CASE p # "mail"
      <4>1. p \in Callers
        BY <1>1, <3>2 DEF Client!Places
      <4>2. given' = [given EXCEPT ![p] = @ \cup {v1'}]
        BY <2>2, <2>3, <2>4, <4>1
      <4> QED BY <2>3, <2>4, <3>2, <4>1, <4>2
    <3> QED BY <3>1, <3>2
  <2> QED
    BY <1>2, <2>1, <2>4, <2>5
    DEF ClientPromise!Tell, ClientPromise!Accept, ClientPromise!New, ClientPromise!ledger
<1> QED BY <1>10, <1>11

LEMMA AnswerMoves ==
    ASSUME Client!Typed, Client!Typed', Client!Contents, Client!Answer
    PROVE  MessagesMove
<1> DEFINE m == MaxMsgs + 1
<1>1. /\ "asker" \in Client!Places /\ m \in Nat \ {0}
      /\ v9 = FALSE /\ v9' = TRUE /\ v1' = v1 /\ v8' = v8
  BY ClientsAssumption DEF Client!Answer, Client!Places, Client!Typed
<1>2. Client!What("asker")' = Append(Client!What("asker"), m)
  <2>1. v6'["asker"] = Append(v6["asker"], m) /\ v7' = v7
    BY DEF Client!Answer, Client!Reply, Client!Typed
  <2>2. v7["asker"] \o Append(v6["asker"], m) = Append(v7["asker"] \o v6["asker"], m)
    BY <1>1 DEF Client!Typed, Client!Answer
  <2> QED BY <2>1, <2>2 DEF Client!What
<1>3. \A q \in Client!Places \ {"asker"} : Client!What(q)' = Client!What(q)
  BY DEF Client!Answer, Client!What, Client!Places, Client!Typed
<1>4. \A q \in Client!Places \cup {"asker"} : Client!Own(q) \subseteq Client!Own(q)'
  BY <1>1 DEF Client!Own, Client!Reply
<1>5. m \in Client!Own("asker")'
  BY <1>1 DEF Client!Own, Client!Reply
<1>6. \A q \in Client!Places \cup {"asker", "mail"} : m \notin Client!Own(q) \cup {0}
  BY <1>1, ClientsAssumption DEF Client!Own, Client!Typed
<1>7. m \notin v8 /\ \A q \in Client!Places : m \notin Client!ToSet(Client!What(q))
  BY <1>6 DEF Client!Contents, Client!Ack
<1>8. \A i \in DOMAIN Client!What("asker") : Client!What("asker")[i] < m
  <2>1. \A i \in DOMAIN Client!What("asker") : Client!What("asker")[i] = 0
    BY <1>1 DEF Client!Contents, Client!Own, Client!ToSet, Client!Ack
  <2> QED BY <1>1, <2>1
<1>9. ClientPromise!Move
  <2>1. Client!What("asker") \in Seq(Nat) /\ m \notin 1 .. MaxMsgs
    BY <1>1, WhatOf, ClientsAssumption
  <2>2. Client!At("asker")' = Client!At("asker")
    <3>1. Client!ToSet(Client!What("asker")') = Client!ToSet(Client!What("asker")) \cup {m}
      BY <1>1, <1>2, <2>1, AppendedTo
    <3> QED BY <2>1, <3>1 DEF Client!At, Client!ToSet
  <2>3. \A q \in Client!Places : Client!At(q)' = Client!At(q)
    BY <1>3, <2>2 DEF Client!At, Client!ToSet
  <2>4. Client!Seen' = Client!Seen /\ "mail" \in Client!Places
        /\ \A c \in Callers : c \in Client!Places
    BY <1>1 DEF Client!Seen, Client!Places
  <2> QED BY <1>1, <2>3, <2>4, PlacesMove
<1> HIDE DEF m
<1>10. Client!Contents'
  BY <1>1, <1>2, <1>3, <1>4, <1>5, <1>7, <1>8, Puts
<1> QED BY <1>9, <1>10 DEF MessagesMove

LEMMA GivesOut ==
    ASSUME Client!Typed, Client!Typed', Client!Contents, NEW c \in Callers,
           Client!GetAck(c) \/ Client!GetMessage(c) \/ Client!AsksAnswered(c)
           \/ Client!AsksFails(c) \/ Client!TimesOut(c)
    PROVE  MessagesMove
<1>1. v7[c] \in Seq(Nat) /\ v6[c] \in Seq(Nat) /\ Client!What(c) = v7[c] \o v6[c]
  BY WhatOf DEF Client!Typed
<1>2. /\ Piece(<<>>, Client!What(c)) /\ Piece(v7[c], Client!What(c))
      /\ v7[c] # <<>> => Piece(<<Head(v7[c])>>, Client!What(c)) /\ <<Head(v7[c])>> \in Seq(Nat)
      /\ v6[c] # <<>> => Piece(<<Head(v6[c])>>, Client!What(c)) /\ <<Head(v6[c])>> \in Seq(Nat)
      /\ <<>> \in Seq(Nat)
  <2>1. /\ Piece(<<>>, v7[c] \o v6[c]) /\ Piece(v7[c], v7[c] \o v6[c])
        /\ v7[c] # <<>> => Piece(<<Head(v7[c])>>, v7[c] \o v6[c])
        /\ v6[c] # <<>> => Piece(<<Head(v6[c])>>, v7[c] \o v6[c])
    BY <1>1, ConcatPieces
  <2>2. /\ v7[c] # <<>> => <<Head(v7[c])>> \in Seq(Nat)
        /\ v6[c] # <<>> => <<Head(v6[c])>> \in Seq(Nat)
    BY <1>1, MovesAlong
  <2> QED BY <1>1, <2>1, <2>2, EmptySeq
<1>3. ASSUME NEW next, Client!Closes(c, next, <<>>, <<>>) PROVE MessagesMove
  BY <1>2, <1>3, ClosingTakes
<1>4. ASSUME Client!GetAck(c) PROVE MessagesMove
  <2>1. ASSUME NEW next, Client!Closes(c, next, <<>>, v7[c]) PROVE MessagesMove
    BY <1>1, <1>2, <2>1, ClosingTakes
  <2>2. ASSUME NEW next, Client!Closes(c, next, v7[c], <<>>) PROVE MessagesMove
    BY <1>1, <1>2, <2>2, ClosingTakes
  <2>3. ASSUME NEW next, v7[c] # <<>>, Client!Closes(c, next, <<Head(v7[c])>>, <<>>)
        PROVE  MessagesMove
    BY <1>2, <2>3, ClosingTakes
  <2>4. ASSUME NEW next, v7[c] # <<>>, Client!Closes(c, next, <<>>, <<Head(v7[c])>>)
        PROVE  MessagesMove
    BY <1>2, <2>4, ClosingTakes
  <2>5. ASSUME v7[c] = <<>>, v6[c] # <<>>, v6' = [v6 EXCEPT ![c] = Tail(@)],
               UNCHANGED <<v1, v2, v7, v8, v9>>
        PROVE  MessagesMove
    <3>1. v6'[c] = Tail(v6[c]) /\ v7'[c] = <<>>
      BY <2>5 DEF Client!Typed
    <3>2. c # "mail" /\ c \in Client!Places /\ Client!What(c) \in Seq(Nat)
      BY WhatOf DEF Client!Places
    <3>3. Client!What(c)' = <<>> \o Tail(v6[c]) /\ Client!What(c) = <<>> \o v6[c]
      BY <1>1, <2>5, <3>1, <3>2 DEF Client!What
    <3>4. Piece(Client!What(c)', Client!What(c))
      BY <1>1, <1>2, <2>5, <3>3, ConcatPieces
    <3>5. \A p \in Client!Places \ {c} : Client!What(p)' = Client!What(p)
      BY <2>5 DEF Client!What, Client!Places, Client!Typed
    <3>6. Client!What(c)' \in Seq(Nat)
      BY <1>1, <2>5, <3>3
    <3>7. Client!ToSet(Client!What(c)') \cap v8' \subseteq {0}
      BY <2>5, <3>2, <3>4, <3>6, PieceOf DEF Client!Contents, Client!InOnePlace, Client!Ack
    <3> QED BY <2>5, <3>4, <3>5, <3>7, TakesAway
  <2> QED BY <1>3, <1>4, <2>1, <2>2, <2>3, <2>4, <2>5 DEF Client!GetAck
<1>5. ASSUME Client!GetMessage(c) PROVE MessagesMove
  <2>1. CASE Client!Closes(c, "asks", <<Head(v6[c])>>, <<>>)
    BY <1>2, <1>5, <2>1, ClosingTakes DEF Client!GetMessage
  <2>2. CASE Client!Closes(c, "off", <<>>, <<Head(v6[c])>>)
    BY <1>2, <1>5, <2>2, ClosingTakes DEF Client!GetMessage
  <2> QED BY <1>5, <2>1, <2>2 DEF Client!GetMessage
<1>6. ASSUME Client!AsksAnswered(c) PROVE MessagesMove
  BY <1>1, <1>2, <1>6, ClosingTakes DEF Client!AsksAnswered
<1>7. ASSUME Client!AsksFails(c) \/ Client!TimesOut(c) PROVE MessagesMove
  BY <1>3, <1>7 DEF Client!AsksFails, Client!TimesOut
<1> QED BY <1>4, <1>5, <1>6, <1>7

LEMMA ClientStep ==
    ASSUME Client!Typed, Client!Typed', Client!Contents, Client!Next
    PROVE  Client!Contents' /\ (ClientPromise!Tell \/ ClientPromise!Move)
<1>1. ASSUME NEW c \in Callers, Client!Request(c) PROVE MessagesMove
  BY <1>1, SameContents DEF Client!Request, Client!What, Client!Places
<1>2. ASSUME NEW c \in Callers, Client!Keep(c) PROVE MessagesMove
  <2>1. v7'[c] = Append(v7[c], Head(v6[c])) /\ v6'[c] = Tail(v6[c])
    BY <1>2 DEF Client!Keep, Client!Kept, Client!Typed
  <2>2. Append(v7[c], Head(v6[c])) \o Tail(v6[c]) = v7[c] \o v6[c]
    <3>1. v7[c] \in Seq(Nat) /\ v6[c] \in Seq(Nat) /\ v6[c] # <<>>
      BY <1>2 DEF Client!Keep, Client!Typed
    <3> QED BY <3>1, MovesAlong
  <2>3. \A p \in Client!Places : Client!What(p)' = Client!What(p)
    BY <1>2, <2>1, <2>2 DEF Client!Keep, Client!What, Client!Places, Client!Typed
  <2> QED BY <1>2, <2>3, SameContents DEF Client!Keep
<1> QED BY <1>1, <1>2, ServeMoves, AcceptTells, AnswerMoves, GivesOut DEF Client!Next, MessagesMove

\* Delivered (Programs): the clients implement Delivery.  Every message that the
\* hub has accepted for a session is with one call or in the mailbox at most, none
\* that an agent was shown or that was lost is to come again, and a call has what
\* it has in the order it was sent, for any number of messages and of calls.
THEOREM DeliveredHolds == Spec => Delivered
<1> DEFINE Inv  == part = "client" => Client!Typed /\ Client!Contents
           Keep == part = "client" => [ClientPromise!Next]_(ClientPromise!deliveryVars)
<1>1. Init => Inv /\ (part = "client" => ClientPromise!Init)
  BY InitOf, ClientInit
<1>2. Inv /\ [Next]_vars => Inv' /\ [Keep]_vars
  <2> SUFFICES ASSUME Inv, [Next]_vars, part' = "client" \/ part = "client"
               PROVE  Inv' /\ Keep
    OBVIOUS
  <2>1. part = "client" /\ [Client!Next]_(Client!vars)
    BY StepOf
  <2>2. CASE Client!Next
    BY <2>1, <2>2, ClientTyped, ClientStep DEF ClientPromise!Next
  <2>3. CASE UNCHANGED Client!vars
    <3>1. Client!Typed'
      BY <2>1, <2>3 DEF Client!vars, Client!Typed
    <3>2. MessagesMove
      BY <2>1, <2>3, SameContents DEF Client!vars, Client!What, Client!Places
    <3> QED BY <3>1, <3>2 DEF MessagesMove, ClientPromise!Next
  <2> QED BY <2>1, <2>2, <2>3
<1>3. Inv => (part = "client" => Client!ShownInOrder)
  BY DEF Client!Contents
<1> QED BY <1>1, <1>2, <1>3, PTL DEF Spec, Delivered

-----------------------------------------------------------------------------
(* StopHook *)

LEMMA HookInit == Nudge!Init => Nudge!Inductive
<1> SUFFICES ASSUME Nudge!Init PROVE Nudge!Inductive
  OBVIOUS
<1>1. {} \in SUBSET Asks /\ 0 \in Nat
  OBVIOUS
<1>2. Nudge!Typed
  BY <1>1 DEF Nudge!Init, Nudge!Typed, Nudge!Nobody
<1>3. Nudge!Counted
  BY DEF Nudge!Init, Nudge!Counted, Nudge!Nobody
<1> QED BY <1>2, <1>3 DEF Nudge!Inductive

LEMMA HookStep == Nudge!Inductive /\ [Nudge!Next]_(Nudge!vars) => Nudge!Inductive'
<1> SUFFICES ASSUME Nudge!Typed, Nudge!Counted, [Nudge!Next]_(Nudge!vars)
             PROVE  Nudge!Typed' /\ Nudge!Counted'
  BY DEF Nudge!Inductive
<1> USE DEF Nudge!Typed, Nudge!Counted
<1>0. ASSUME v5' = Nudge!Nobody, UNCHANGED <<v1, v2, v6>>
      PROVE  Nudge!Typed' /\ Nudge!Counted'
  <2>1. v5' = [session |-> "none", set |-> {}, count |-> 0]
    BY <1>0 DEF Nudge!Nobody
  <2>2. v5' \in [session : Sessions \cup {"none"}, set : SUBSET Asks, count : Nat]
    <3>1. {} \in SUBSET Asks /\ 0 \in Nat
      OBVIOUS
    <3> QED BY <2>1, <3>1
  <2>3. Nudge!Typed'
    BY <1>0, <2>2
  <2>4. Nudge!Counted'
    BY <2>1
  <2> QED BY <2>3, <2>4
<1>1. ASSUME NEW s \in Sessions, NEW a \in Asks, Nudge!AskArrives(s, a) \/ Nudge!Answer(s, a)
      PROVE  Nudge!Typed' /\ Nudge!Counted'
  <2>1. UNCHANGED <<v1, v5, v6>> /\ v2' \in [Sessions -> SUBSET Asks]
    BY <1>1 DEF Nudge!AskArrives, Nudge!Answer
  <2>2. Nudge!Typed'
    BY <2>1
  <2>3. Nudge!Counted'
    BY <2>1
  <2> QED BY <2>2, <2>3
<1>2. ASSUME NEW s \in Sessions, Nudge!UserPrompts(s) \/ Nudge!GoesIdle(s)
      PROVE  Nudge!Typed' /\ Nudge!Counted'
  BY <1>2 DEF Nudge!UserPrompts, Nudge!GoesIdle
<1>3. ASSUME NEW s \in Sessions, Nudge!OpenAsksFails(s)
      PROVE  Nudge!Typed' /\ Nudge!Counted'
  BY <1>3, <1>0 DEF Nudge!OpenAsksFails
<1>4. ASSUME NEW s \in Sessions, Nudge!OpenAsks(s)
      PROVE  Nudge!Typed' /\ Nudge!Counted'
  <2>1. CASE Nudge!OwesNothing(s)
    <3>1. v5' = Nudge!Nobody /\ UNCHANGED <<v1, v2, v6>>
      BY <1>4, <2>1 DEF Nudge!OpenAsks, Nudge!OwesNothing
    <3> QED BY <3>1, <1>0
  <2>2. CASE Nudge!GivesUp(s)
    <3>1. UNCHANGED <<v1, v2, v5, v6>>
      BY <1>4, <2>2 DEF Nudge!OpenAsks, Nudge!GivesUp
    <3> QED BY <3>1
  <2>3. CASE Nudge!PromptsAgain(s)
    <3> DEFINE n == IF Nudge!SameSet(s) THEN v5.count + 1 ELSE 1
               old == v6[s][v2[s]]
               new == IF old > NUDGE_LIMIT THEN old ELSE old + 1
    <3>1. /\ v5' = [session |-> s, set |-> v2[s], count |-> n]
          /\ v6' = [v6 EXCEPT ![s][v2[s]] = new]
          /\ v1' \in {v1, [v1 EXCEPT ![s] = "busy"]} /\ v2' = v2 /\ ~Nudge!Spent(s)
      BY <1>4, <2>3 DEF Nudge!OpenAsks, Nudge!PromptsAgain
    <3>2. old \in Nat /\ v5.count \in Nat /\ v2[s] \in SUBSET Asks
      OBVIOUS
    <3>3. n \in Nat /\ new \in Nat
      BY <3>2, HookAssumption
    <3>4. Nudge!Typed'
      BY <3>1, <3>2, <3>3
    <3>5. v6'[s][v2[s]] = new
      BY <3>1, <3>2
    <3>6. new >= n \/ new > NUDGE_LIMIT
      <4>1. CASE Nudge!SameSet(s)
        BY <4>1, <3>1, <3>2, HookAssumption DEF Nudge!SameSet, Nudge!Spent
      <4>2. CASE ~Nudge!SameSet(s)
        BY <4>2, <3>2, HookAssumption
      <4> QED BY <4>1, <4>2
    <3>7. v5'.session = s /\ v5'.set = v2[s] /\ v5'.count = n
      BY <3>1
    <3> QED BY <3>4, <3>5, <3>6, <3>7
  <2> QED BY <1>4, <2>1, <2>2, <2>3 DEF Nudge!OpenAsks
<1>5. CASE UNCHANGED Nudge!vars
  BY <1>5 DEF Nudge!vars
<1> QED BY <1>1, <1>2, <1>3, <1>4, <1>5 DEF Nudge!Next

LEMMA HookGivesUpLate ==
    ASSUME Nudge!Inductive, NEW s \in Sessions
    PROVE  Nudge!GivenUpLate(s)
<1> SUFFICES ASSUME Nudge!GivesUp(s)
             PROVE  v6[s][v2[s]] >= NUDGE_LIMIT
  BY DEF Nudge!GivenUpLate
<1>1. Nudge!Typed /\ Nudge!Counted
  BY DEF Nudge!Inductive
<1>2. Nudge!Spent(s)
  BY DEF Nudge!GivesUp
<1>3. v6[s][v2[s]] \in Nat /\ v5.count \in Nat
  BY <1>1 DEF Nudge!Typed
<1> QED BY <1>1, <1>2, <1>3, HookAssumption DEF Nudge!Spent, Nudge!SameSet, Nudge!Counted

-----------------------------------------------------------------------------
(* Continuations *)

LEMMA RetryInit == Retry!Init => Retry!Inductive
BY DEF Retry!Init, Retry!Inductive, Retry!Typed, Retry!Outcomes, Retry!OneUnderWay, Retry!OneNudge

LEMMA RetryStepKeeps == Retry!Inductive /\ [Retry!Next]_(Retry!vars) => Retry!Inductive'
<1> SUFFICES ASSUME Retry!Typed, Retry!OneUnderWay, Retry!OneNudge, [Retry!Next]_(Retry!vars)
             PROVE  Retry!Typed' /\ Retry!OneUnderWay' /\ Retry!OneNudge'
  BY DEF Retry!Inductive
<1> USE DEF Retry!Typed, Retry!OneUnderWay, Retry!OneNudge, Retry!Goes
<1>1. CASE Retry!UserPrompts \/ Retry!Tick
  BY <1>1 DEF Retry!UserPrompts, Retry!Tick
<1>2. ASSUME NEW h \in Handlers, Retry!TurnEnds(h)
      PROVE  Retry!Typed' /\ Retry!OneUnderWay' /\ Retry!OneNudge'
  BY <1>2 DEF Retry!TurnEnds
<1>3. ASSUME NEW h \in Handlers, Retry!Settle(h) \/ Retry!CallFails(h)
      PROVE  Retry!Typed' /\ Retry!OneUnderWay' /\ Retry!OneNudge'
  BY <1>3 DEF Retry!Settle, Retry!CallFails
<1>4. ASSUME NEW h \in Handlers, Retry!Look(h)
      PROVE  Retry!Typed' /\ Retry!OneUnderWay' /\ Retry!OneNudge'
  <2>1. v5[h] = "looking" /\ UNCHANGED <<v1, v2, v3, v7>>
    BY <1>4 DEF Retry!Look
  <2>2. \/ v5' = [v5 EXCEPT ![h] = "off"] /\ v4' = v4
        \/ v5' = [v5 EXCEPT ![h] = "off"] /\ Retry!Sweep
        \/ v5' = [v5 EXCEPT ![h] = "waiting"] /\ Retry!Sweep
    <3> DEFINE verdict(seen) == IF seen = "newer" THEN "leave" ELSE Retry!Verdict(seen)
    <3>1. PICK seen \in Retry!Seen :
            CASE verdict(seen) = "leave" ->
                    Retry!Goes(h, "off") /\ UNCHANGED <<v6, v4>>
              [] verdict(seen) = "clean" ->
                    Retry!Goes(h, "off") /\ v6' = Retry!None /\ Retry!Sweep
              [] verdict(seen) = "push" /\ v6 = Window ->
                    Retry!Goes(h, "off") /\ v6' = Retry!None /\ UNCHANGED v4
              [] verdict(seen) = "push" /\ v6 # Window ->
                    Retry!Goes(h, "waiting") /\ v6' = Retry!Since(v6) /\ Retry!Sweep
      BY <1>4 DEF Retry!Look
    <3>2. seen \in Retry!Outcomes \cup {"newer"}
      <4>1. v2 \in {"busy", "idle"} /\ v1 \in {"retry", "needs"} /\ v3 \in Retry!Outcomes
        OBVIOUS
      <4> HIDE DEF Retry!Typed, Retry!OneUnderWay, Retry!OneNudge
      <4> QED BY <3>1, <4>1 DEF Retry!Seen, Retry!Outcomes
    <3>3. seen = "newer" \/ Retry!Verdict(seen) \in {"leave", "clean", "push"}
      BY <3>2 DEF Retry!Outcomes, Retry!Verdict, Retry!RetryVerdict, Retry!NeedsVerdict
    <3>4. verdict(seen) \in {"leave", "clean", "push"}
      BY <3>3
    <3> HIDE DEF verdict
    <3> QED BY <3>1, <3>4 DEF Retry!Goes
  <2>3. v4' \in [new : Nat, stuck : Nat] /\ (v4' = v4 \/ v4'.new = 0)
    <3>1. CASE Retry!Sweep
      <4>1. PICK left \in 0 .. v4.new + v4.stuck : v4' = [new |-> 0, stuck |-> left]
        BY <3>1 DEF Retry!Sweep
      <4> QED BY <4>1
    <3> QED BY <2>2, <3>1
  <2>4. v5' = [v5 EXCEPT ![h] = "waiting"] => v4'.new = 0
    <3>1. v5' = [v5 EXCEPT ![h] = "waiting"] => v5'[h] = "waiting"
      OBVIOUS
    <3>2. v5' = [v5 EXCEPT ![h] = "off"] => v5'[h] = "off"
      OBVIOUS
    <3>3. Retry!Sweep => v4'.new = 0
      BY DEF Retry!Sweep
    <3> QED BY <2>2, <3>1, <3>2, <3>3
  <2>5. v5' \in {[v5 EXCEPT ![h] = "off"], [v5 EXCEPT ![h] = "waiting"]}
    BY <2>2
  <2> QED BY <2>1, <2>3, <2>4, <2>5
<1>5. ASSUME NEW h \in Handlers, Retry!Push(h)
      PROVE  Retry!Typed' /\ Retry!OneUnderWay' /\ Retry!OneNudge'
  <2>1. /\ v5[h] = "waiting" /\ v5' = [v5 EXCEPT ![h] = "off"] /\ v2' = "busy"
        /\ UNCHANGED <<v1, v3, v6, v7>>
        /\ v4' \in {v4, [v4 EXCEPT !.new = v4.new + 1]}
    BY <1>5 DEF Retry!Push
  <2>2. v4' \in [new : Nat, stuck : Nat] /\ v4'.new <= v4.new + 1
    BY <2>1
  <2> QED BY <2>1, <2>2
<1>6. CASE UNCHANGED Retry!vars
  BY <1>6 DEF Retry!vars
<1> QED BY <1>1, <1>2, <1>3, <1>4, <1>5, <1>6 DEF Retry!Next

-----------------------------------------------------------------------------
(* SelfCompact *)

LEMMA CompactInit == Compact!Init => Compact!Inductive
<1> SUFFICES ASSUME Compact!Init PROVE Compact!Inductive
  OBVIOUS
<1> USE DEF Compact!Init, Compact!Off
<1>1. Compact!Typed
  BY TurnsAssumption DEF Compact!Typed
<1>2. Compact!MarkIsLatest /\ Compact!OncePerAnswer
  BY DEF Compact!MarkIsLatest, Compact!OncePerAnswer
<1> QED BY <1>1, <1>2 DEF Compact!Inductive

LEMMA CompactStepKeeps ==
    (\A c, d \in CompactCalls : c = d) =>
        (Compact!Inductive /\ [Compact!Next]_(Compact!vars) => Compact!Inductive')
<1> SUFFICES ASSUME \A c, d \in CompactCalls : c = d,
                    Compact!Typed, Compact!MarkIsLatest, Compact!OncePerAnswer,
                    [Compact!Next]_(Compact!vars)
             PROVE  Compact!Typed' /\ Compact!MarkIsLatest' /\ Compact!OncePerAnswer'
  BY DEF Compact!Inductive
<1> USE TurnsAssumption
    DEF Compact!Typed, Compact!MarkIsLatest, Compact!OncePerAnswer, Compact!Requesters,
        Compact!Off, Compact!session, Compact!plugin
<1>1. CASE Compact!Answers
  BY <1>1 DEF Compact!Answers, Compact!Settled
<1>2. CASE Compact!GoesIdle
  BY <1>2 DEF Compact!GoesIdle, Compact!Settled
<1>3. CASE Compact!Compacts \/ Compact!Prompt
  BY <1>3 DEF Compact!Compacts, Compact!Prompt
<1>4. ASSUME NEW c \in CompactCalls, Compact!Call(c)
      PROVE  Compact!Typed' /\ Compact!MarkIsLatest' /\ Compact!OncePerAnswer'
  BY <1>4 DEF Compact!Call
<1>5. ASSUME NEW c \in Compact!Requesters, Compact!Checks(c)
      PROVE  Compact!Typed' /\ Compact!MarkIsLatest' /\ Compact!OncePerAnswer'
  BY <1>5 DEF Compact!Checks, Compact!MayCompact
<1>6. ASSUME NEW c \in Compact!Requesters, Compact!QueueCompaction(c)
      PROVE  Compact!Typed' /\ Compact!MarkIsLatest' /\ Compact!OncePerAnswer'
  BY <1>6 DEF Compact!QueueCompaction
<1>7. CASE UNCHANGED Compact!vars
  BY <1>7 DEF Compact!vars
<1> QED BY <1>1, <1>2, <1>3, <1>4, <1>5, <1>6, <1>7 DEF Compact!Next

\* The plugins that prompt or compact by themselves keep measure (StopHook,
\* Continuations, SelfCompact): the nudges counted are those sent, failed prompts
\* among them, and the one continuation prompt is beside those whose deletion
\* failed.  The compact calls of a turn must not overlap: two that do may both
\* find the mark where it was.
THEOREM NudgesInMeasureHolds ==
    (\A c, d \in CompactCalls : c = d) /\ Spec => NudgesInMeasure
<1> DEFINE Inv  == /\ part = "nudge" => Nudge!Inductive
                   /\ part = "retry" => Retry!Inductive
                   /\ part = "compact" => Compact!Inductive
           Step == part = "nudge" => \A s \in Sessions : Nudge!GivenUpLate(s)
           One  == part = "retry" => Retry!OneNudge
           Once == part = "compact" => Compact!OncePerAnswer
<1> SUFFICES ASSUME \A c, d \in CompactCalls : c = d PROVE Spec => NudgesInMeasure
  OBVIOUS
<1>1. Init => Inv
  BY InitOf, HookInit, RetryInit, CompactInit
<1>2. Inv /\ [Next]_vars => Inv' /\ Step
  BY StepOf, HookStep, HookGivesUpLate, RetryStepKeeps, CompactStepKeeps
<1>3. Inv => One /\ Once
  BY DEF Retry!Inductive, Compact!Inductive
<1> QED BY <1>1, <1>2, <1>3, PTL DEF Spec, NudgesInMeasure

-----------------------------------------------------------------------------
(* Inbox *)

LEMMA ListenerInit == Listener!Init => Listener!Inductive
BY DEF Listener!Init, Listener!Inductive, Listener!Typed, Listener!OneUp,
       Listener!ServesInTheOpen

LEMMA ListenerStepKeeps ==
    Listener!Inductive /\ [Listener!Next]_(Listener!vars) => Listener!Inductive'
<1> SUFFICES ASSUME Listener!Typed, Listener!OneUp, Listener!ServesInTheOpen,
                    [Listener!Next]_(Listener!vars)
             PROVE  Listener!Typed' /\ Listener!OneUp' /\ Listener!ServesInTheOpen'
  BY DEF Listener!Inductive
<1> USE DEF Listener!Typed, Listener!OneUp, Listener!ServesInTheOpen, Listener!Goes
<1>1. CASE Listener!Post \/ Listener!Reap
  BY <1>1 DEF Listener!Post, Listener!Reap
<1>2. ASSUME NEW l \in Listeners, Listener!Listen(l)
      PROVE  Listener!Typed' /\ Listener!OneUp' /\ Listener!ServesInTheOpen'
  <2>1. \A k \in Listeners : v1[k] = "off"
    BY <1>2, ListenerAssumption DEF Listener!Listen, Listener!Refused, Listener!Live
  <2> QED BY <1>2, <2>1 DEF Listener!Listen
<1>3. ASSUME NEW l \in Listeners, Listener!AlreadyListening(l)
      PROVE  Listener!Typed' /\ Listener!OneUp' /\ Listener!ServesInTheOpen'
  BY <1>3 DEF Listener!AlreadyListening, Listener!Leaves
<1>4. ASSUME NEW l \in Listeners, Listener!Bind(l)
      PROVE  Listener!Typed' /\ Listener!OneUp' /\ Listener!ServesInTheOpen'
  BY <1>4 DEF Listener!Bind
<1>5. ASSUME NEW l \in Listeners, Listener!Handle(l) \/ Listener!Interrupt(l) \/ Listener!Killed(l)
      PROVE  Listener!Typed' /\ Listener!OneUp' /\ Listener!ServesInTheOpen'
  BY <1>5 DEF Listener!Handle, Listener!Interrupt, Listener!Killed
<1>6. ASSUME NEW l \in Listeners, Listener!Unregister(l) \/ Listener!Unlink(l)
      PROVE  Listener!Typed' /\ Listener!OneUp' /\ Listener!ServesInTheOpen'
  BY <1>6 DEF Listener!Unregister, Listener!Unlink
<1>7. CASE UNCHANGED Listener!vars
  BY <1>7 DEF Listener!vars
<1> QED BY <1>1, <1>2, <1>3, <1>4, <1>5, <1>6, <1>7 DEF Listener!Next

\* A listener that serves can be reached and is registered (monitor.py), over
\* any kills and rivals.
THEOREM ServesInTheOpenHolds == Spec => []ServesInTheOpen
<1> DEFINE Inv == part = "listener" => Listener!Inductive
<1>1. Init => Inv
  BY InitOf, ListenerInit
<1>2. Inv /\ [Next]_vars => Inv'
  BY StepOf, ListenerStepKeeps
<1>3. Inv => ServesInTheOpen
  BY DEF ServesInTheOpen, Listener!Inductive
<1> QED BY <1>1, <1>2, <1>3, PTL DEF Spec

-----------------------------------------------------------------------------
(* Terminal *)

LEMMA MinOfTwo ==
    ASSUME NEW a \in Int, NEW b \in Int
    PROVE  /\ Term!Min({a, b}) \in {a, b}
           /\ Term!Min({a, b}) <= a /\ Term!Min({a, b}) <= b
<1>1. \E x \in {a, b} : \A y \in {a, b} : x <= y
  <2>1. CASE a <= b
    BY <2>1
  <2>2. CASE ~(a <= b)
    BY <2>2
  <2> QED BY <2>1, <2>2
<1>2. Term!Min({a, b}) \in {a, b} /\ \A y \in {a, b} : Term!Min({a, b}) <= y
  BY <1>1 DEF Term!Min
<1> QED BY <1>2

\* A sequence is its beginning and its rest.
LEMMA SplitAt ==
    ASSUME NEW S, NEW s \in Seq(S), NEW n \in 0 .. Len(s)
    PROVE  /\ SubSeq(s, 1, n) \in Seq(S) /\ Len(SubSeq(s, 1, n)) = n
           /\ SubSeq(s, n + 1, Len(s)) \in Seq(S)
           /\ SubSeq(s, 1, n) \o SubSeq(s, n + 1, Len(s)) = s
<1>1. Len(s) \in Nat /\ \A i \in 1 .. Len(s) : s[i] \in S
  BY LenProperties, ElementOfSeq
<1>2. PICK l \in Nat : l = Len(s)
  BY <1>1
<1>3. \A i \in 1 .. n : s[i] \in S
  BY <1>1, <1>2
<1>4. \A i \in n + 1 .. l : s[i] \in S
  BY <1>1, <1>2
<1>5. SubSeq(s, 1, n) \in Seq(S) /\ Len(SubSeq(s, 1, n)) = n
  BY <1>2, <1>3, SubSeqProperties
<1>6. SubSeq(s, n + 1, l) \in Seq(S)
  BY <1>2, <1>4, SubSeqProperties
<1>7. SubSeq(s, 1, n) \o SubSeq(s, n + 1, l) = SubSeq(s, 1, l)
  <2>1. 1 \in 1 .. Len(s) + 1 /\ n \in 1 - 1 .. Len(s) /\ l \in n .. Len(s)
    BY <1>2
  <2> QED BY <2>1, ConcatAdjacentSubSeq
<1>8. SubSeq(s, 1, l) = s
  BY <1>2, SubSeqFull
<1> QED BY <1>2, <1>5, <1>6, <1>7, <1>8

LEMMA TailOfConcat ==
    ASSUME NEW S, NEW s \in Seq(S), NEW t \in Seq(S), s # <<>>, s \o t # <<>>
    PROVE  Tail(s \o t) = Tail(s) \o t
<1>1. PICK a \in Nat, b \in Nat : a = Len(s) /\ b = Len(t)
  BY LenProperties
<1>2. a # 0
  BY <1>1, EmptySeq
<1>3. s \o t \in Seq(S) /\ Len(s \o t) = a + b
  BY <1>1, ConcatProperties
<1>4. Tail(s) \in Seq(S) /\ Len(Tail(s)) = a - 1
  BY <1>1, HeadTailProperties
<1>5. Tail(s \o t) \in Seq(S) /\ Len(Tail(s \o t)) = a + b - 1
  BY <1>3, HeadTailProperties
<1>6. Tail(s) \o t \in Seq(S) /\ Len(Tail(s) \o t) = a - 1 + b
  BY <1>1, <1>4, ConcatProperties
<1>7. ASSUME NEW i \in 1 .. a + b - 1
      PROVE  Tail(s \o t)[i] = (Tail(s) \o t)[i]
  <2>1. Tail(s \o t)[i] = (s \o t)[i + 1]
    BY <1>3, <1>5, HeadTailProperties
  <2>2. (s \o t)[i + 1] = IF i + 1 <= a THEN s[i + 1] ELSE t[i + 1 - a]
    BY <1>1, ConcatProperties
  <2>3. (Tail(s) \o t)[i] = IF i <= a - 1 THEN Tail(s)[i] ELSE t[i - (a - 1)]
    BY <1>1, <1>2, <1>4, ConcatProperties
  <2>4. i <= a - 1 => Tail(s)[i] = s[i + 1]
    BY <1>2, <1>4, HeadTailProperties
  <2>5. i + 1 - a = i - (a - 1) /\ (i + 1 <= a <=> i <= a - 1)
    OBVIOUS
  <2> QED BY <2>1, <2>2, <2>3, <2>4, <2>5
<1>8. a + b - 1 = a - 1 + b /\ a + b - 1 \in Nat
  BY <1>2
<1> QED BY <1>5, <1>6, <1>7, <1>8, SeqEqual

\* A flush moves units from the buffer to the pty, or drops them all.
LEMMA FlushMoves ==
    ASSUME NEW all \in Seq(Term!Unit), Term!Typed, Term!Flush(all)
    PROVE  /\ v1' \in Seq(Term!Unit) /\ v3' \in Seq(Term!Unit) /\ Len(v3') <= Room
           /\ v9 = "ended" => v3' = <<>> /\ v1' = <<>>
           /\ v9 # "ended" => v3' \o v1' = v3 \o all
           /\ v1' # <<>> => v2'
<1> DEFINE n == IF v9 = "ended" THEN Len(all) ELSE Term!Min({Len(all), Room - Len(v3)})
           left == SubSeq(all, n + 1, Len(all))
<1>1. /\ v1' = left /\ v2' = (left # <<>>)
      /\ v3' = IF v9 = "ended" THEN <<>> ELSE v3 \o SubSeq(all, 1, n)
  BY DEF Term!Flush, Term!NeedsWriter
<1>2. v3 \in Seq(Term!Unit) /\ Len(v3) <= Room /\ Room \in Nat
  BY TerminalAssumption DEF Term!Typed
<1>3. PICK l \in Nat, p \in Nat : l = Len(all) /\ p = Len(v3)
  BY <1>2, LenProperties
<1>4. n \in 0 .. l /\ (v9 # "ended" => n <= Room - p)
  <2>1. CASE v9 = "ended"
    BY <2>1, <1>3
  <2>2. CASE v9 # "ended"
    <3>1. n = Term!Min({l, Room - p})
      BY <2>2, <1>3
    <3>2. Room - p \in Nat
      BY <1>2, <1>3
    <3> HIDE DEF n
    <3>3. l \in Int /\ Room - p \in Int
      BY <3>2
    <3>4. n \in {l, Room - p} /\ n <= l /\ n <= Room - p
      BY <3>1, <3>3, MinOfTwo
    <3> QED BY <3>2, <3>4
  <2> QED BY <2>1, <2>2
<1>5. v1' # <<>> => v2'
  BY <1>1
<1> HIDE DEF n
<1>6. /\ SubSeq(all, 1, n) \in Seq(Term!Unit) /\ Len(SubSeq(all, 1, n)) = n
      /\ left \in Seq(Term!Unit) /\ SubSeq(all, 1, n) \o left = all
  <2>1. n \in 0 .. Len(all)
    BY <1>3, <1>4
  <2> QED BY <2>1, SplitAt
<1>7. CASE v9 = "ended"
  <2>1. n = l
    BY <1>3, <1>7 DEF n
  <2>2. left = <<>>
    BY <2>1, <1>3, SubSeqEmpty
  <2>3. Len(<<>>) <= Room
    BY <1>2, EmptySeq
  <2> QED BY <1>1, <1>5, <1>7, <2>2, <2>3, EmptySeq
<1>8. CASE v9 # "ended"
  <2>1. v3' = v3 \o SubSeq(all, 1, n)
    BY <1>1, <1>8
  <2>2. v3' \in Seq(Term!Unit) /\ Len(v3') = p + n
    BY <2>1, <1>2, <1>3, <1>6, ConcatProperties
  <2>3. v3' \o left = v3 \o all
    <3>1. PICK s \in Seq(Term!Unit), t \in Seq(Term!Unit) : s = SubSeq(all, 1, n) /\ t = left
      BY <1>6
    <3>2. (v3 \o s) \o t = v3 \o (s \o t)
      BY <1>2, ConcatAssociative
    <3> QED BY <2>1, <1>6, <3>1, <3>2
  <2>4. Len(v3') <= Room
    BY <2>2, <1>2, <1>3, <1>4, <1>8
  <2> HIDE DEF left
  <2> QED BY <1>1, <1>5, <1>6, <1>8, <2>2, <2>3, <2>4
<1> QED BY <1>7, <1>8

\* write_master adds what it is given to what is still to come.
LEMMA WriteKeeps ==
    ASSUME NEW data \in Seq(Term!Unit), Term!Typed, Term!InOrder, Term!WriteMaster(data)
    PROVE  /\ {v1', v3', v4'} \subseteq Seq(Term!Unit) /\ Len(v3') <= Room
           /\ Term!InOrder'
<1>1. /\ v1 \in Seq(Term!Unit) /\ v3 \in Seq(Term!Unit) /\ v4 \in Seq(Term!Unit)
      /\ v4 = v3 \o v1
  BY DEF Term!Typed, Term!InOrder
<1>2. v1 \o data \in Seq(Term!Unit) /\ v4 \o data \in Seq(Term!Unit)
  BY <1>1, ConcatProperties
<1>3. Term!Flush(v1 \o data) /\ v4' = IF v9 = "ended" THEN <<>> ELSE v4 \o data
  BY DEF Term!WriteMaster
<1>4. /\ v1' \in Seq(Term!Unit) /\ v3' \in Seq(Term!Unit) /\ Len(v3') <= Room
      /\ v9 = "ended" => v3' = <<>> /\ v1' = <<>>
      /\ v9 # "ended" => v3' \o v1' = v3 \o (v1 \o data)
      /\ v1' # <<>> => v2'
  BY <1>2, <1>3, FlushMoves
<1>5. v4 \o data = v3 \o (v1 \o data)
  BY <1>1, ConcatAssociative
<1>6. <<>> \in Seq(Term!Unit) /\ <<>> \o <<>> = <<>>
  BY EmptySeq, ConcatEmptySeq
<1> QED BY <1>2, <1>3, <1>4, <1>5, <1>6 DEF Term!InOrder

LEMMA StretchIsText ==
    ASSUME NEW w \in Typists \cup {"keys"}, NEW from \in Nat, NEW to \in Nat, from <= to
    PROVE  Term!Stretch(w, from, to) \in Seq(Term!Unit)
<1>1. PICK k \in Nat : k = to - from
  OBVIOUS
<1>2. \A i \in 1 .. k : <<w, from + i>> \in Term!Unit
  BY DEF Term!Unit
<1>3. Term!Stretch(w, from, to) = [i \in 1 .. k |-> <<w, from + i>>]
  BY <1>1 DEF Term!Stretch
<1>4. [i \in 1 .. k |-> <<w, from + i>>] \in [1 .. k -> Term!Unit]
  BY <1>2
<1>5. [1 .. k -> Term!Unit] \subseteq Seq(Term!Unit)
  OBVIOUS
<1> QED BY <1>3, <1>4, <1>5

LEMMA TermInit == Term!Init => Term!Inductive
<1> SUFFICES ASSUME Term!Init PROVE Term!Inductive
  OBVIOUS
<1>1. <<>> \in Seq(Term!Unit) /\ Len(<<>>) = 0 /\ <<>> \o <<>> = <<>>
  BY EmptySeq, ConcatEmptySeq
<1>2. Term!Typed
  BY <1>1, TerminalAssumption DEF Term!Init, Term!Typed
<1>3. Term!InOrder /\ Term!LeavesCooked
  BY <1>1 DEF Term!Init, Term!InOrder, Term!LeavesCooked
<1> QED BY <1>2, <1>3 DEF Term!Inductive

LEMMA TermStepKeeps == Term!Inductive /\ [Term!Next]_(Term!vars) => Term!Inductive'
<1> SUFFICES ASSUME Term!Typed, Term!InOrder, Term!LeavesCooked, [Term!Next]_(Term!vars)
             PROVE  Term!Typed' /\ Term!InOrder' /\ Term!LeavesCooked'
  BY DEF Term!Inductive
<1>t. /\ v1 \in Seq(Term!Unit) /\ v3 \in Seq(Term!Unit) /\ v4 \in Seq(Term!Unit)
      /\ v8 \in Seq(Term!Unit) /\ Len(v3) <= Room
      /\ v5 \in [Typists -> 0 .. TextLen] /\ v6 \in 0 .. Keys /\ v7 \in 1 .. Keys
      /\ TextLen \in Nat /\ ChunkLen \in Nat /\ Keys \in Nat /\ Room \in Nat
  BY TerminalAssumption DEF Term!Typed
<1>1. CASE Term!MasterWritable
  <2>1. /\ Term!Flush(v1) /\ v4' = (IF v9 = "ended" THEN <<>> ELSE v4)
        /\ UNCHANGED <<v5, v6, v7, v8, v13, v15>>
    BY <1>1 DEF Term!MasterWritable, Term!control, Term!processes
  <2>2. /\ v1' \in Seq(Term!Unit) /\ v3' \in Seq(Term!Unit) /\ Len(v3') <= Room
        /\ v9 = "ended" => v3' = <<>> /\ v1' = <<>>
        /\ v9 # "ended" => v3' \o v1' = v3 \o v1
        /\ v1' # <<>> => v2'
    BY <1>t, <2>1, FlushMoves
  <2>3. <<>> \in Seq(Term!Unit) /\ <<>> \o <<>> = <<>>
    BY EmptySeq, ConcatEmptySeq
  <2>4. v4' \in Seq(Term!Unit)
    BY <1>t, <2>1, <2>3
  <2>5. Term!Typed'
    BY <1>t, <2>1, <2>2, <2>4 DEF Term!Typed
  <2>6. Term!InOrder'
    BY <2>1, <2>2, <2>3 DEF Term!InOrder
  <2>7. Term!LeavesCooked'
    BY <2>1 DEF Term!LeavesCooked
  <2> QED BY <2>5, <2>6, <2>7
<1>2. CASE Term!ChildReads
  <2>1. /\ v3 # <<>> /\ v3' = Tail(v3) /\ v4' = Tail(v4)
        /\ UNCHANGED <<v1, v2, v5, v6, v7, v8, v13, v15>>
    BY <1>2 DEF Term!ChildReads, Term!control, Term!processes
  <2>2. PICK p \in Nat \ {0}, b \in Nat : p = Len(v3) /\ b = Len(v1)
    BY <1>t, <2>1, EmptySeq, LenProperties
  <2>3. Tail(v3) \in Seq(Term!Unit) /\ Len(Tail(v3)) = p - 1
    BY <1>t, <2>1, <2>2, HeadTailProperties
  <2>4. v4 = v3 \o v1
    BY DEF Term!InOrder
  <2>5. v4 # <<>>
    BY <1>t, <2>1, <2>4, ConcatEqualIffEmpty
  <2>6. Tail(v4) \in Seq(Term!Unit)
    BY <1>t, <2>5, HeadTailProperties
  <2>7. Tail(v4) = Tail(v3) \o v1
    BY <1>t, <2>1, <2>4, <2>5, TailOfConcat
  <2>8. Term!Typed'
    BY <1>t, <2>1, <2>2, <2>3, <2>6 DEF Term!Typed
  <2> QED BY <2>1, <2>7, <2>8 DEF Term!InOrder, Term!LeavesCooked
<1>3. ASSUME NEW w \in Typists, Term!Type(w)
      PROVE  Term!Typed' /\ Term!InOrder' /\ Term!LeavesCooked'
  <2> DEFINE to == IF v5[w] + 1 = TextLen THEN TextLen
                   ELSE Term!Min({v5[w] + ChunkLen, TextLen - 1})
  <2>1. /\ v5[w] < TextLen /\ Term!WriteMaster(Term!Stretch(w, v5[w], to))
        /\ v5' = [v5 EXCEPT ![w] = to] /\ UNCHANGED <<v6, v7, v8, v13, v15>>
    BY <1>3 DEF Term!Type, Term!control, Term!processes
  <2>2. v5[w] \in Nat /\ to \in Nat /\ v5[w] <= to /\ to <= TextLen
    <3>1. v5[w] \in Nat /\ v5[w] + ChunkLen \in Int /\ TextLen - 1 \in Int
      BY <1>t
    <3>2. CASE v5[w] + 1 = TextLen
      BY <3>1, <3>2, <1>t
    <3>3. CASE v5[w] + 1 # TextLen
      <4>1. to = Term!Min({v5[w] + ChunkLen, TextLen - 1})
        BY <3>3
      <4>2. v5[w] <= TextLen - 1
        BY <1>t, <2>1, <3>1
      <4> HIDE DEF to
      <4>3. to \in {v5[w] + ChunkLen, TextLen - 1} /\ to <= TextLen - 1
        BY <3>1, <4>1, MinOfTwo
      <4> QED BY <1>t, <3>1, <4>2, <4>3
    <3> QED BY <3>2, <3>3
  <2> HIDE DEF to
  <2>3. Term!Stretch(w, v5[w], to) \in Seq(Term!Unit)
    BY <2>2, StretchIsText
  <2>4. {v1', v3', v4'} \subseteq Seq(Term!Unit) /\ Len(v3') <= Room /\ Term!InOrder'
    BY <2>1, <2>3, WriteKeeps
  <2>5. Term!Typed'
    BY <1>t, <2>1, <2>2, <2>4 DEF Term!Typed
  <2> QED BY <2>1, <2>4, <2>5 DEF Term!LeavesCooked
<1>4. ASSUME NEW w \in Typists, Term!Cancel(w)
      PROVE  Term!Typed' /\ Term!InOrder' /\ Term!LeavesCooked'
  <2>1. /\ v5' = [v5 EXCEPT ![w] = TextLen]
        /\ UNCHANGED <<v1, v2, v3, v4, v6, v7, v8, v13, v15>>
    BY <1>4 DEF Term!Cancel, Term!writing, Term!control, Term!processes
  <2>2. Term!Typed'
    BY <1>t, <2>1 DEF Term!Typed
  <2> QED BY <2>1, <2>2 DEF Term!InOrder, Term!LeavesCooked
<1>5. ASSUME NEW n \in 1 .. Keys, Term!OnStdin(n)
      PROVE  Term!Typed' /\ Term!InOrder' /\ Term!LeavesCooked'
  <2> DEFINE to == v6 + n
  <2>1. v13 = "runs" /\ to <= Keys /\ v6' = to /\ UNCHANGED <<v5, v7>>
    BY <1>5 DEF Term!OnStdin
  <2>2. v6 \in Nat /\ v7 \in Nat /\ to \in Nat /\ v6 <= to /\ v6' \in 0 .. Keys
    BY <1>t, <2>1
  <2> HIDE DEF to
  <2>3. CASE v7 \in v6 + 1 .. to
    <3>1. /\ Term!WriteMaster(Term!Stretch("keys", v6, v7 - 1))
          /\ v8' = Term!Stretch("keys", v7, to) /\ v13' = "suspended"
      BY <1>5, <2>3 DEF Term!OnStdin, Term!SuspendSelf, to
    <3>2. v7 - 1 \in Nat /\ v6 <= v7 - 1 /\ v7 <= to
      BY <2>2, <2>3
    <3>3. Term!Stretch("keys", v6, v7 - 1) \in Seq(Term!Unit) /\ v8' \in Seq(Term!Unit)
      BY <2>2, <3>1, <3>2, StretchIsText
    <3>4. {v1', v3', v4'} \subseteq Seq(Term!Unit) /\ Len(v3') <= Room /\ Term!InOrder'
      BY <3>1, <3>3, WriteKeeps
    <3>5. Term!Typed'
      BY <1>t, <2>1, <2>2, <3>3, <3>4 DEF Term!Typed
    <3> QED BY <3>1, <3>4, <3>5 DEF Term!LeavesCooked
  <2>4. CASE v7 \notin v6 + 1 .. to
    <3>1. /\ Term!WriteMaster(Term!Stretch("keys", v6, to))
          /\ UNCHANGED <<v8, v13, v15>>
      BY <1>5, <2>4 DEF Term!OnStdin, to
    <3>2. Term!Stretch("keys", v6, to) \in Seq(Term!Unit)
      BY <2>2, StretchIsText
    <3>3. {v1', v3', v4'} \subseteq Seq(Term!Unit) /\ Len(v3') <= Room /\ Term!InOrder'
      BY <3>1, <3>2, WriteKeeps
    <3>4. Term!Typed'
      BY <1>t, <2>1, <2>2, <3>1, <3>3 DEF Term!Typed
    <3> QED BY <3>1, <3>3, <3>4 DEF Term!LeavesCooked
  <2> QED BY <2>3, <2>4
<1>6. CASE Term!Wake
  <2>1. /\ v13' = "runs" /\ Term!WriteMaster(v8) /\ v8' = <<>>
        /\ UNCHANGED <<v5, v6, v7>>
    BY <1>6 DEF Term!Wake
  <2>2. {v1', v3', v4'} \subseteq Seq(Term!Unit) /\ Len(v3') <= Room /\ Term!InOrder'
    BY <1>t, <2>1, WriteKeeps
  <2>3. v8' \in Seq(Term!Unit)
    BY <2>1, EmptySeq
  <2>4. Term!Typed'
    BY <1>t, <2>1, <2>2, <2>3 DEF Term!Typed
  <2> QED BY <2>1, <2>2, <2>4 DEF Term!LeavesCooked
<1>7. ASSUME UNCHANGED Term!input, Term!LeavesCooked'
      PROVE  Term!Typed' /\ Term!InOrder' /\ Term!LeavesCooked'
  BY <1>7 DEF Term!input, Term!writing, Term!Typed, Term!InOrder
<1>8. CASE Term!Tstp \/ Term!Fg \/ Term!OnSigcont \/ Term!ChildMoves \/ Term!Report
  BY <1>7, <1>8 DEF Term!LeavesCooked, Term!Tstp, Term!Fg, Term!OnSigcont, Term!ChildMoves,
     Term!Report, Term!processes
<1>9. CASE Term!OnChildState \/ Term!ChildEnds \/ Term!ChildDies \/ Term!OnTerminate
  BY <1>7, <1>9 DEF Term!LeavesCooked, Term!OnChildState, Term!SuspendSelf, Term!ChildEnds,
     Term!ChildDies, Term!OnTerminate
<1>10. CASE Term!OnMasterEof \/ Term!Finally \/ Term!Exit
  BY <1>7, <1>10 DEF Term!LeavesCooked, Term!OnMasterEof, Term!Finally, Term!Restored, Term!Exit
<1>11. CASE UNCHANGED Term!vars
  BY <1>7, <1>11 DEF Term!vars, Term!control, Term!LeavesCooked
<1> QED BY <1>1, <1>2, <1>3, <1>4, <1>5, <1>6, <1>8, <1>9, <1>10, <1>11 DEF Term!Next

\* What wrapty writes reaches the child in order, and the terminal goes back
\* cooked (wrapper.py), for any typists, keys and sizes of chunk and pty.
THEOREM TypesInOrderHolds == Spec => []TypesInOrder
<1> DEFINE Inv == part = "term" => Term!Inductive
<1>1. Init => Inv
  BY InitOf, TermInit
<1>2. Inv /\ [Next]_vars => Inv'
  BY StepOf, TermStepKeeps
<1>3. Inv => TypesInOrder
  BY DEF TypesInOrder, Term!Inductive
<1> QED BY <1>1, <1>2, <1>3, PTL DEF Spec
=============================================================================
