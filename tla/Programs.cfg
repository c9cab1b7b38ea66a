SPECIFICATION Spec
CONSTANTS
    Sessions = {"s1", "s2"}
    Asks = {"a"}
    NUDGE_LIMIT = 2
    MaxFails = 1
    Titles = {"t1", "t2"}
    Untitled = "untitled"
    MaxRenames = 1
    Handlers = {1, 2}
    Window = 2
    MaxPrompts = 2
    MaxNudges = 2
    MaxLevel = 3
    MIN_PCT = 1
    HINT_PCT = 2
    FORCE_PCT = 3
    MaxTurns = 3
    CompactCalls = {"tool"}
    MaxCompactions = 1
    Names = {"v", "w"}
    Values = {"x", "y"}
    Absent = "absent"
    Untouched = "untouched"
    Inherited = FALSE
    Reloads = {"r1"}
    Overlap = FALSE
    Tools = {"edit", "bash"}
    Dialogs = {1, 2}
    MaxRules = 3
    Callers = {"keepalive", "poll", "wait", "monitor", "asker"}
    MaxCalls = 2
    MaxMsgs = 2
    Typists = {"w1"}
    Cancellable = {"w1"}
    TextLen = 3
    ChunkLen = 2
    Keys = 2
    Room = 1
    PipeRoom = 2
    Listeners = {"l1", "l2"}
    MaxPosts = 2
    Units = {"u", "v"}
    Builds = {"b1", "b2", "b3"}
    Pinned = "b1"
    MaxGenerations = 3
    Settings = {"s", "t"}
    MaxWrites = 2
    MaxWords = 5
    Shells = {"a", "b"}
    MaxTexts = 2
    MaxSaves = 2
    MaxLoads = 2
    LineTexts = {"c1", "c2"}
    Lookups = {"k1", "k2"}
    BROWSER_TTL = 2
    MaxLaunches = 2
INVARIANTS
    NothingStale
    ShowsWhatIsDenied
    
    PutAway
    TypesInOrder
    ServesInTheOpen
PROPERTIES
    Delivered
    NudgesInMeasure
    ComesToRest
    TerminalGoesOn
    RunsWhatItSwitchedTo
    KeepsTheRest
    SavesWhatRuns
    EditsOneLine
\* Most of these programs may end.
CHECK_DEADLOCK FALSE
