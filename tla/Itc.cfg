\* Two cores under fair scheduling, failures included.
CONSTANTS
    Core = {c1, c2}
    Body = {b}
    None = None
    MaxQueue = 2
SPECIFICATION FairSpec
INVARIANTS
    TypeOK
    NoLostWakeup
    RegisteredBeforeMessage
PROPERTIES
    InboxDrained
    BarrierReleasesAll
\* A core may fail before it registers; the others then wait for ever.
CHECK_DEADLOCK FALSE
