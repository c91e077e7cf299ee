SPECIFICATION Spec
CONSTANTS
    Runs = {r1, r2, r3}
    FileCount = 2
    None = None
SYMMETRY RunSymmetry
INVARIANTS
    TargetWhole
    SnapshotKept
    RollbackRestores
PROPERTY
    ServedMovesToBackup
\* Every run ends.
CHECK_DEADLOCK FALSE
