SPECIFICATION WorkflowSpec
CONSTANTS
    Cycle = {k1, k2}
    Job = {j1}
    NoState = NoState
    Named = TRUE
    ReplyWindow = 1
    SourceId = SourceId
    NoBatch = NoBatch
    NoCycle = NoCycle
    MaxTime = 3
    Contact = {c1}
    Worker = {w1}
    NoWorker = NoWorker
    MaxAttempts = 2
    LeaseTime = 1
    MaxSends = 2
    MayCrash = FALSE
SYMMETRY Symmetry
CHECK_DEADLOCK FALSE
INVARIANTS RetractionStands
