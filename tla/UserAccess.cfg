SPECIFICATION Spec
CONSTANTS
    u1 = u1
    u2 = u2
    Tx = {t1, t2}
    User = {u1, u2}
    Elsewhere = {u2}
    Session = {s1, s2}
    Request = {q1}
    Invitation = {v1}
    Addressee <- ToFirst
    Invited <- AsViewer
    Admin = Admin
    Viewer = Viewer
    None = None
    MaxOps = 5
SYMMETRY Symmetry
INVARIANTS AccessInv DeprovisioningIsFinal
CHECK_DEADLOCK FALSE
