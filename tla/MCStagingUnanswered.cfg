SPECIFICATION Spec
CONSTANTS
    Runs = {r1, r2}
    FileCount = 2
    None = None
INVARIANT
    FailureRestores
\* Every run ends.
CHECK_DEADLOCK FALSE
