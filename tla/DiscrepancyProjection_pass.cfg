SPECIFICATION Spec
CONSTANTS
    Cycle = {k1, k2, k3}
    NoState = NoState
    Named = FALSE
    ReplyWindow = 1
    Job = {j1, j2}
    SourceId = SourceId
    NoBatch = NoBatch
    NoCycle = NoCycle
    MaxTime = 4
SYMMETRY Symmetry
CHECK_DEADLOCK FALSE
INVARIANTS StreakBacked HistoryReplays RuleHolds OpenCycleAccepted
PROPERTIES NoRewind
