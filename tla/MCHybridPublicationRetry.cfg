\* The lease outlasts every section.
SPECIFICATION HybridSpec
CONSTANTS
    a1 = a1  a2 = a2  a3 = a3  a4 = a4
    g1 = g1  g2 = g2
    v1 = v1  v2 = v2
    None = None
    NoOwner = NoOwner
    NoProc = NoProc
    Procs <- MCProcs
    Owners <- MCOwners
    OwnerOf <- MCOwnerOf
    Lease = 1
    RespectLease = TRUE
    Attempts <- MCAttempts
    Publishers <- MCPublishers
    Versions <- MCVersions
    VersionOf <- MCVersionOf
    GenOf <- MCGenOf
    Spaces = {"trend"}
    SpaceOf <- MCSpaceOf
    AsOf <- MCAsOf
    Ranks = {1, 2}
    RowsOf <- MCRowsOf
    Stamp <- MCStamp
INVARIANT
    ReadyPointerServable
\* Every process makes one attempt, then the system has nothing left to do.
CHECK_DEADLOCK FALSE
