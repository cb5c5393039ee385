\* Streams of one or two commands, split and merged in every way.
CONSTANTS
    Command <- Commands
    MaxCommands = 2
SPECIFICATION Spec
INVARIANTS
    TypeOK
    CleanStreamParsed
    WithinAnnounced
\* A stream ends.
CHECK_DEADLOCK FALSE
