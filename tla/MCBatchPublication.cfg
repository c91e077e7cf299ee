SPECIFICATION BatchSpec
CONSTANTS
    Procs <- ProcSet
    Owners <- ProcSet
    OwnerOf <- Own
    NoOwner = NoOwner
    NoProc = NoProc
    Lease = 1
    RespectLease = TRUE
    Writers <- WriterSet
    Captures <- CaptureSet
    Readers = {"dashboard"}
    Tasks <- TaskMap
    Warm <- WarmSet
    WithTrend <- CaptureSet
    NoWriter = NoWriter
INVARIANTS
    ReadinessTruthful
    CaptureFaithful
    ApiAnswerFaithful
PROPERTY
    ImplementsServingPair
CHECK_DEADLOCK FALSE
