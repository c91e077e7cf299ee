\* Two full runs, the first outlasting its lease.
SPECIFICATION BatchSpec
CONSTANTS
    Procs <- FullRuns
    Owners <- FullRuns
    OwnerOf <- OwnFull
    NoOwner = NoOwner
    NoProc = NoProc
    Lease = 1
    RespectLease = FALSE
    Writers <- FullRuns
    Captures = {}
    Readers = {}
    Tasks <- TaskFull
    Warm <- WarmFull
    WithTrend = {}
    NoWriter = NoWriter
INVARIANT
    ReadyPairIsWhole
CHECK_DEADLOCK FALSE
