\* Up to four replies of two pieces each, of which the kernel may take one.
CONSTANTS
    Parts = 2
    MaxReplies = 4
SPECIFICATION FairSpec
INVARIANTS
    TypeOK
    WholeRepliesInOrder
PROPERTIES
    RepliesWritten
\* The model ends where a deleted connection or undefined behaviour ends it.
CHECK_DEADLOCK FALSE
