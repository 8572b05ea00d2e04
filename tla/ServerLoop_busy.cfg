\* Any line at the console.  The server may end.
SPECIFICATION LoopSpec
CONSTANTS
    Connections = {c1, c2}
    Listener = 3
    Lines = {"exit", "word", "blank", "end"}
    MaxTyped = 2
CHECK_DEADLOCK FALSE
INVARIANTS
    LoopTypeOK
    ReadsOnlyWhatIsThere
PROPERTIES
    OnlyTheConsoleStalls
    ConnectionsComeAndGo
    ExitAloneEnds
