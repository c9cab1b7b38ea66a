------------------------------- MODULE Direnv -------------------------------
(***************************************************************************)
(* The direnv plugin of opencode: it evaluates the project's .envrc once   *)
(* at startup and again on request, and applies what `direnv export json`  *)
(* prints to the environment the server's commands inherit.                *)
(*                                                                         *)
(* direnv itself is external: it undoes what DIRENV_DIFF says, evaluates   *)
(* the rc and prints how the result differs from the environment given.    *)
(***************************************************************************)
EXTENDS Naturals, FiniteSets

CONSTANTS
    Names,       \* environment variables
    Values,      \* what an rc or a parent process sets them to
    Absent,      \* of a variable not set; null in a delta
    Untouched,   \* of a variable an rc, a diff or a delta does not name
    Inherited,   \* whether opencode may be started by a shell direnv has hooked
    Reloads,     \* evaluations: the startup's and the tool's
    Overlap      \* bound: whether one may begin while another runs

VARIABLES
    rc,        \* what .envrc sets
    base,      \* for checking: the environment below direnv's
    env,       \* process.env
    diff,      \* its DIRENV_DIFF: a variable's value before direnv changed it
    applied,   \* names direnv has set through this plugin and not removed
    reload,    \* of each evaluation: the environment it was given, or what it printed
    loaded     \* for checking: the rc of the latest delta applied

vars == <<rc, base, env, diff, applied, reload, loaded>>

Over(b, r) == [n \in Names |-> IF r[n] = Untouched THEN b[n] ELSE r[n]]
NoDiff     == [n \in Names |-> Untouched]
DiffOf(b, r) == [n \in Names |-> IF Over(b, r)[n] = b[n] THEN Untouched ELSE b[n]]

Idle == [at |-> "off"]

Init ==
    /\ rc \in [Names -> Values \cup {Untouched}]
    /\ base \in [Names -> Values \cup {Absent}]
    /\ \/ env = base /\ diff = NoDiff /\ loaded = NoDiff
       \/ Inherited /\ env = Over(base, rc) /\ diff = DiffOf(base, rc) /\ loaded = rc
    /\ applied = {}
    /\ reload = [r \in Reloads |-> Idle]

Edit(n, v) ==
    /\ rc' = [rc EXCEPT ![n] = v]
    /\ UNCHANGED <<base, env, diff, applied, reload, loaded>>

\* evaluate: direnv is started with a copy of the environment.
Evaluate(r) ==
    /\ reload[r] = Idle
    /\ Overlap \/ \A q \in Reloads : reload[q] = Idle
    /\ reload' = [reload EXCEPT ![r] = [at |-> "given", env |-> env, diff |-> diff]]
    /\ UNCHANGED <<rc, base, env, diff, applied, loaded>>

Export(r) ==
    /\ reload[r].at = "given"
    /\ LET given == reload[r].env
           under == Over(given, reload[r].diff)
           fresh == Over(under, rc)
       IN reload' = [reload EXCEPT ![r] =
             [at |-> "printed", rc |-> rc, diff |-> DiffOf(under, rc),
              delta |-> [n \in Names |->
                           IF fresh[n] = given[n] THEN Untouched ELSE fresh[n]]]]
    /\ UNCHANGED <<rc, base, env, diff, applied, loaded>>

\* No .envrc, a blocked one, or one that does not evaluate.
Fails(r) ==
    /\ reload[r].at = "given"
    /\ reload' = [reload EXCEPT ![r] = Idle]
    /\ UNCHANGED <<rc, base, env, diff, applied, loaded>>

BookkeepingLost(d) == IF applied = {} THEN d ELSE diff
Bookkeeping(d)     == d

ApplyDelta(r) ==
    /\ reload[r].at = "printed"
    /\ LET delta == reload[r].delta
           named == {n \in Names : delta[n] # Untouched}
           unset == {n \in named : delta[n] = Absent}
           kept  == unset \ applied              \* "removed something we never had"
       IN /\ env' = Over(env, [n \in Names |-> IF n \in kept THEN Untouched ELSE delta[n]])
          /\ applied' = (applied \cup named) \ unset
    /\ diff' = Bookkeeping(reload[r].diff)
    /\ loaded' = reload[r].rc
    /\ reload' = [reload EXCEPT ![r] = Idle]
    /\ UNCHANGED <<rc, base>>

Next ==
    \/ \E n \in Names, v \in Values \cup {Untouched} : Edit(n, v)
    \/ \E r \in Reloads : Evaluate(r) \/ Export(r) \/ Fails(r) \/ ApplyDelta(r)

Spec == Init /\ [][Next]_vars
-----------------------------------------------------------------------------
\* After any number of reloads commands see the environment the server was
\* started in with the rc last loaded over it and nothing that an earlier rc
\* set (applyDelta, DIRENV_DIFF).  "Null-valued entries must translate into
\* deletions" (direnv.ts), but one for a variable that this instance has not
\* set, because the shell that started it had, is skipped.
NothingStale == (\A r \in Reloads : reload[r] = Idle) => env = Over(base, loaded)

\* Why, if no evaluation overlaps another and direnv had not changed what the
\* server inherited: process.env is the base with the rc last loaded over it,
\* DIRENV_DIFF says what that has changed, all of it was applied here, and a
\* delta is what separates the environment it was evaluated in from the next.
DeltaTo(r) ==
    [n \in Names |-> IF Over(base, r)[n] = env[n] THEN Untouched ELSE Over(base, r)[n]]

Prepared(r) ==
    LET now == reload[r] IN
    \/ now = Idle
    \/ now.at = "given" /\ now.env = env /\ now.diff = diff
    \/ /\ now.at = "printed" /\ now.rc \in [Names -> Values \cup {Untouched}]
       /\ now.diff = DiffOf(base, now.rc) /\ now.delta = DeltaTo(now.rc)

Inductive ==
    /\ {rc, loaded} \subseteq [Names -> Values \cup {Untouched}]
    /\ base \in [Names -> Values \cup {Absent}]
    /\ env = Over(base, loaded) /\ diff = DiffOf(base, loaded)
    /\ {n \in Names : env[n] # base[n]} \subseteq applied
    /\ reload = [r \in Reloads |-> reload[r]]
    /\ \A r \in Reloads : Prepared(r)
    /\ \A q, r \in Reloads : reload[q] # Idle /\ reload[r] # Idle => q = r
=============================================================================
