SPECIFICATION Spec
CONSTANTS
    k1 = k1
    k2 = k2
    Key = {k1, k2}
    Kinds <- SomeKinds
    Request = {r1, r2}
    None = None
    Interval = 2
    MaxAge = 3
    Timeout = 1
    TTL = 1
    MaxLife = 2
    Claims <- ClaimSets
CHECK_DEADLOCK FALSE
SYMMETRY Symmetry
INVARIANTS KeysInv NeverOutlives
PROPERTIES TrustFollowsIssuer LoginSucceeds
