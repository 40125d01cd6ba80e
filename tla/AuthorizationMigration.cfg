SPECIFICATION Spec
CONSTANTS
    Replica = {r1, r2}
    Operator = Operator
    Org = Org
    p1 = p1
    e1 = e1
    Project = {p1}
    Env = {e1}
    ProjectOf <- InFirst
    Admin = Admin
    Viewer = Viewer
    Role = {Admin, Viewer}
    None = None
    Legacy = 2
    Casbin = 4
    Latest = 5
    Start <- Everywhere
    MaxFaults = 4
    MaxWrites = 2
CHECK_DEADLOCK FALSE
INVARIANTS MigrationInv
PROPERTIES UpgradeKeepsPolicy EventuallyServes
