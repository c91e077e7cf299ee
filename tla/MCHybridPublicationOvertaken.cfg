\* Three versions of increasing event time are promoted at once, the lease lapsing.
SPECIFICATION HybridSpec
CONSTANTS
    a1 = a1  a2 = a2  a3 = a3  a4 = a4
    g1 = g1  g2 = g2
    v1 = v1  v2 = v2
    None = None
    NoOwner = NoOwner
    NoProc = NoProc
    Procs <- MCFourProcs
    Owners <- MCThreeOwners
    OwnerOf <- MCThreeOwnerOf
    Lease = 1
    RespectLease = FALSE
    Attempts <- MCFourAttempts
    Publishers <- MCOnePublisher
    Versions <- MCThreeVersions
    VersionOf <- MCSecondRetried
    GenOf <- MCThreeGenOf
    Spaces = {"trend"}
    SpaceOf <- MCSpaceOf
    AsOf <- MCThreeAsOf
    Ranks = {1, 2}
    RowsOf <- MCThreeRowsOf
    Stamp <- MCStamp
INVARIANT
    PublishedIsVisible
PROPERTIES
    ImplementsPointerRegister
    ReleaseOnlyOwnLease
\* Every process makes one attempt, then the system has nothing left to do.
CHECK_DEADLOCK FALSE
