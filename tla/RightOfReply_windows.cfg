SPECIFICATION WorkflowSpec
CONSTANTS
    Cycle = {k1, k2}
    Job = {j1}
    NoState = NoState
    Named = TRUE
    ReplyWindow = 1
    SourceId = SourceId
    NoBatch = NoBatch
    NoCycle = NoCycle
    MaxTime = 2
    Contact = {c1, c2}
    Worker = {w1,w2}
    NoWorker = NoWorker
    MaxAttempts = 2
    LeaseTime = 1
    MaxSends = 2
    MayCrash = TRUE
SYMMETRY Symmetry
CHECK_DEADLOCK FALSE
INVARIANTS PublicationEarned WindowMatches ReplyAccepted
PROPERTIES NoticeNotStolen
