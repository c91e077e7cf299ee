SPECIFICATION FairSpec
CONSTANTS
    None = None
    Expected = 2
    MaxTries = 2
    MaxStarts = 2
    MaxFaults = 2
INVARIANTS
    CompletedIsExact
    ReportTruthful
    ProducerReaped
PROPERTY
    StepEnds
\* The starts of the step are bounded.
CHECK_DEADLOCK FALSE
