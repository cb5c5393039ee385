\* One core owns both keys and has room for one: the second SET makes it fail.
CONSTANTS
    c1 = c1
    c2 = c2
    k1 = k1
    k2 = k2
    Core = {c1, c2}
    None = None
    MaxQueue = 9
    Key = {k1, k2}
    Owner <- Skewed
    Capacity = 1
    MaxConns = 2
    IdSpace = 3
    MaxSends = 2
    MaxErrors = 1
    Window = 1
    Workload <- FullLoad
SPECIFICATION FairSpec
INVARIANTS
    TypeOK
    StrictPartitioning
    OwnReply
    NoCommandLost
PROPERTIES
    Linearizable
    Answered
\* Once the clients have sent their commands, the cores wait for events.
CHECK_DEADLOCK FALSE
