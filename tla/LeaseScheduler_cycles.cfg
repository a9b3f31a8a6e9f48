SPECIFICATION FairSpec
CONSTANTS
    w1 = w1  w2 = w2  c1 = c1  c2 = c2  c3 = c3
    Subject = {s1}
    Worker = {w1, w2}
    Consumer = {c1, c2, c3}
    WorkerOf <- SharedOwner
    Skew <- Ahead
    Interval = 2
    LeaseDuration = 2
    MaxAttempts = 2
    NoOwner = NoOwner
    NoKey = NoKey
    Horizon = 1
    MaxFaults = 1
INVARIANTS AttemptsBounded ExclusiveClaim
PROPERTIES LeaseNotStolen ImplementsLifecycle ImplementsLiveLifecycle PassesRecur
