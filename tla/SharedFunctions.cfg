SPECIFICATION Spec
CONSTANTS
    Shells = {"a", "b"}
    MaxTexts = 2
    MaxSaves = 2
PROPERTY SharedByNextCommand
\* All shells may have ended.
CHECK_DEADLOCK FALSE
