SPECIFICATION Spec
CONSTANTS
    r1 = r1  r2 = r2
    None = None  Torn = Torn
    Runs = {r1, r2}
    Operated = {r1}
    Steps <- MCSteps
    Strays <- MCStrays
    Listed = {"policy"}
    Policies = {"policy"}
    MaxFaults = 1
    MaxDrift = 1
INVARIANTS
    TypeOK
    JournalTruthful
    VerifiedWasLive
    PipelineRunsOnce
PROPERTIES
    DeletesOnlyOwn
    StepsInOrder
\* The runs end.
CHECK_DEADLOCK FALSE
