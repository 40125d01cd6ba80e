SPECIFICATION Spec
CONSTANTS
    Replica = {i1}
    Payload = {x1, x2}
    Principal = {p1}
    Binding = {b1, b2}
    Request = {q1}
    Presented <- WithoutPrefix
    None = None
    Human = Human
    TTL = 2
    MaxLookup = 1
SYMMETRY Symmetry
CHECK_DEADLOCK FALSE
INVARIANTS TokenInv NegativesAreFinal RevokedAtOnce
PROPERTIES StaticRevocationBounded
