----------------------------- MODULE MergedFile -----------------------------
(***************************************************************************)
(* merged-file: at activation the settings of the configuration are merged *)
(* into a file that an application owns too.  A run reads the file, writes *)
(* a temporary one beside it and renames that over it.  It may end at any  *)
(* point, and the next finds what it left.                                 *)
(***************************************************************************)
EXTENDS Naturals

CONSTANTS
    Settings,    \* versions of the declared settings
    MaxWrites    \* bound: writes of the application

VARIABLES
    file,      \* what it holds, or Missing or Broken
    private,   \* whether its mode shuts others out
    tmp,       \* the same of the temporary file
    tmpPrivate,
    run,       \* "off", "merged", "opened" (the temporary) or "written"
    merged,    \* what the run writes
    create,    \* it was started without --no-create
    settings,  \* declared now
    writes     \* of the application, whose keys hold their number

vars == <<file, private, tmp, tmpPrivate, run, merged, create, settings, writes>>

Document(d, n) == [declared |-> d, own |-> n]
Missing == Document("missing", 0)
Broken  == Document("broken", 0)
Empty   == Document("unset", 0)

Init ==
    /\ file \in {Missing, Broken, Empty} \cup {Document(s, 0) : s \in Settings}
    /\ private \in BOOLEAN
    /\ tmp = Missing /\ tmpPrivate = TRUE
    /\ run = "off" /\ merged = Empty /\ create \in BOOLEAN
    /\ settings \in Settings /\ writes = 0

\* Its own keys and perhaps the declared ones, too.  Bound: not during a run,
\* which would undo it.
AppWrites ==
    /\ run = "off" /\ writes < MaxWrites /\ writes' = writes + 1
    /\ \E d \in Settings \cup {"unset"} : file' = Document(d, writes')
    /\ UNCHANGED <<private, tmp, tmpPrivate, run, merged, create, settings>>

Redeclares ==
    /\ run = "off" /\ settings' \in Settings /\ create' \in BOOLEAN
    /\ UNCHANGED <<file, private, tmp, tmpPrivate, run, merged, writes>>

\* deep_merge: what the settings name is replaced, the rest is left alone.
DeepMergeOver(d) == Document(settings, 0)
DeepMerge(d)     == Document(settings, d.own)

\* Reads and merges, unless the file does not parse, is missing and not to be
\* created, or is up to date.
Merges ==
    /\ run = "off" /\ file # Broken
    /\ file = Missing => create
    /\ DeepMerge(file) # file
    /\ run' = "merged" /\ merged' = DeepMerge(file)
    /\ UNCHANGED <<file, private, tmp, tmpPrivate, create, settings, writes>>

\* os.open with O_TRUNC, and fchmod to the mode of the original.
ModeByUmask == FALSE
ModeOfTmp   == file # Missing /\ private

Opens ==
    /\ run = "merged" /\ run' = "opened"
    /\ tmp' = Broken /\ tmpPrivate' = ModeOfTmp
    /\ UNCHANGED <<file, private, merged, create, settings, writes>>

Writes ==
    /\ run = "opened" /\ run' = "written"
    /\ tmp' = merged
    /\ UNCHANGED <<file, private, tmpPrivate, merged, create, settings, writes>>

Replaces ==
    /\ run = "written" /\ run' = "off"
    /\ file' = tmp /\ private' = tmpPrivate /\ tmp' = Missing
    /\ UNCHANGED <<tmpPrivate, merged, create, settings, writes>>

\* An error, or the end of the process: the temporary file stays.
Fails ==
    /\ run # "off" /\ run' = "off"
    /\ UNCHANGED <<file, private, tmp, tmpPrivate, merged, create, settings, writes>>

Next == AppWrites \/ Redeclares \/ Merges \/ Opens \/ Writes \/ Replaces \/ Fails

Spec == Init /\ [][Next]_vars
-----------------------------------------------------------------------------
\* Runs that end anywhere, and runs that follow them, never cost the
\* application its keys or leave a half-written file in the place of a good
\* one (merge_file).
RestKept ==
    file \notin {Missing, Broken} => file' \notin {Missing, Broken} /\ file'.own = writes'

KeepsTheRest == [][RestKept]_vars

\* What the application wrote into a file that shuts others out is in no file
\* that does not, the temporary one of a run that ended early included.
StaysPrivate == private /\ tmp \notin {Missing, Broken} /\ tmp.own > 0 => tmpPrivate

\* Why: a file that parses has the keys of the last write, which a run that is
\* under way keeps, and a mode for the temporary one that is no wider.
Inductive ==
    /\ writes \in Nat /\ settings \in Settings /\ {private, tmpPrivate} \subseteq BOOLEAN
    /\ IF file \in {Missing, Broken} THEN writes = 0
       ELSE file.own = writes /\ file = Document(file.declared, file.own)
    /\ file.declared = "missing" => file = Missing
    /\ file.declared = "broken" => file = Broken
    /\ run \in {"off", "merged", "opened", "written"}
    /\ run # "off" => file # Broken /\ merged = Document(settings, writes)
    /\ run \in {"opened", "written"} => tmpPrivate = ModeOfTmp
    /\ run = "written" => tmp = merged
    /\ StaysPrivate
=============================================================================
