SPECIFICATION Spec
CONSTANTS
    r1 = r1  r2 = r2  o1 = o1  k1 = k1  k2 = k2
    Request = {r1, r2}
    Operator = {o1}
    Key = {k1, k2}
    NoKey = NoKey
    Never = Never
    Expiry <- ExpirySet
    SustainedLimit = 2
    SustainedWindow = 3
    BurstLimit = 1
    BurstWindow = 1
    Policies = {"allowed", "inactive", "unscoped"}
    Retention = 1
    MaxReopened = 1
    MaxTime = 2
SYMMETRY Symmetry
INVARIANTS NotOversubscribed CountersHonest Admitted OneEnd
