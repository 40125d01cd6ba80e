SPECIFICATION MembershipsSpec
CONSTANTS
    Tx = {t1, t2}
    m1 = m1
    Membership = {m1, m2, m3, m4}
    u1 = u1
    User = {u1, u2}
    Role = {OrgAdmin, EnvAdmin, Viewer}
    Admin = {OrgAdmin, EnvAdmin}
    Viewer = Viewer
    None = None
    Initial <- OneViewer
    Ops = {"create", "delete", "replace", "remove"}
    MaxRequests = 5
SYMMETRY Symmetry
INVARIANTS MembershipInv
PROPERTIES DeletionsHold ReplaceIsExact
CHECK_DEADLOCK FALSE
