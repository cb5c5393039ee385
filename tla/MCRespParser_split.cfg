\* A single command that arrives in several reads.
CONSTANTS
    Command <- OneCommand
    MaxCommands = 1
SPECIFICATION Spec
INVARIANTS
    PartialReads
\* A stream ends.
CHECK_DEADLOCK FALSE
