CONSTANTS
    t1 = t1
    t2 = t2
    u1 = u1
    u2 = u2
    n1 = n1
    n2 = n2
    Tx = {t1, t2}
    Row = {1}
    Owner <- OwnerEach
    Group = {1, 2}
    Name = {n1, n2}
    Clients <- MCClients
    Role = {viewer, dev}
    Viewer = viewer
    None = None
    Human = Human
SPECIFICATION Spec
INVARIANTS ScimInv ReconciledWhenQuiet WireFormat
PROPERTIES HumanGrantsSurvive NoLostMemberUpdate
SYMMETRY TxSymmetry
CHECK_DEADLOCK FALSE
