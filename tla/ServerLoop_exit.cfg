\* A word that is no command may be typed before exit.  The server may end.
SPECIFICATION LoopSpec
CONSTANTS
    Connections = {c1}
    Listener = 3
    Lines = {"exit", "word"}
    MaxTyped = 2
CHECK_DEADLOCK FALSE
PROPERTIES
    ExitIsHeard
