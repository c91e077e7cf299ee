SPECIFICATION ReaderSpec
CONSTANTS
    p1 = p1  p2 = p2  p3 = p3
    w1 = 1  w2 = 2
    x = x  y = y
    None = None
    Publishers <- MCPublishers
    Windows <- MCWindows
    Contents <- MCContents
    ChunksOf <- MCChunksOf
    ContentOf <- MCContentOf
    Documents <- MCDocuments
    Expires = {p1}
    Found <- MCFound
    AsOf = {1, 2}
    MaxAge = 0
INVARIANTS
    TypeOK
    SuccessMeansStored
    CreatedIsTruthful
    ConflictsAreReal
    ReadsSeePublished
PROPERTY
    ImplementsBundleStore
\* Every publisher makes one call.
CHECK_DEADLOCK FALSE
