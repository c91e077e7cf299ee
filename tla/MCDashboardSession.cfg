SPECIFICATION Spec
CONSTANTS
    g1 = g1  g2 = g2  v1 = v1  v2 = v2  m = m
    count = count  rate = rate
    None = None
    Callers = {1, 2, 3}
    Generations = {g1, g2}
    ModelOf <- MCModelOf
    Versions = {v1, v2}
    GenOf <- MCGenOf
    AsOf <- MCAsOf
    MaxFailures = 1
    Links <- MCLinks
    Begins <- MCBegins
    Orders = {count, rate}
    MaxCached = 3
SYMMETRY OrderSymmetry
INVARIANTS
    TypeOK
    ClearedIsFresh
    ComparisonHonest
    FiltersMatch
\* The clicks are bounded; after the last the session rests.
CHECK_DEADLOCK FALSE
