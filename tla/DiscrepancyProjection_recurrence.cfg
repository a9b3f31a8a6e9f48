SPECIFICATION Spec
CONSTANTS
    Cycle = {k1, k2, k3, k4}
    NoState = NoState
    Named = FALSE
    ReplyWindow = 1
    Job = {j1}
    SourceId = SourceId
    NoBatch = NoBatch
    NoCycle = NoCycle
    MaxTime = 4
SYMMETRY Symmetry
CHECK_DEADLOCK FALSE
INVARIANTS OccurrenceResolves
