SPECIFICATION Spec
CONSTANTS
    Project = {p1}
    Env = {e1}
    p1 = p1
    ProjectOf <- FirstProject
    Slot = {s1, s2}
    Request = {q1}
    SyncFor = {p1}
    None = None
    MaxDeliver = 2
    MaxFaults = 1
    MaxOps = 1
SYMMETRY Symmetry
CHECK_DEADLOCK FALSE
INVARIANTS WorkerInv DeletedLosesAccess
PROPERTIES SyncRepairs
