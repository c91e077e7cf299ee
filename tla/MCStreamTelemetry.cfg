SPECIFICATION FairSpec
CONSTANTS
    MaxBatch = 5
    MaxIdle = 1
    MaxPending = 2
    Retained = 3
INVARIANTS
    NothingEvicted
    NoFalseAlarm
    ReturnIsComplete
PROPERTY
    ShutdownEnds
\* A run ends: the query, the logger and run_stream have nothing left to do.
CHECK_DEADLOCK FALSE
