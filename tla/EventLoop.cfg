\* Two clients, a table with two or three free numbers, a queue of two entries.
CONSTANTS
    Client = {a, b}
    MaxFds = 5
    SqSize = 2
    MaxQueue = 2
    MaxOther = 2
SPECIFICATION FairSpec
INVARIANTS TypeOK EachOperationOnce OwnFilesOnly
PROPERTY Accepted
\* The model ends where undefined behaviour ends it.
CHECK_DEADLOCK FALSE
