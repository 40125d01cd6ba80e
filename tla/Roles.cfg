SPECIFICATION Spec
CONSTANTS
    c1 = c1
    c2 = c2
    Proc <- MCProc
    Subject <- MCSubject
    ServiceUser <- MCServiceUser
    Holder <- MCSubject
    Workload <- MCServiceUser
    MaxRole = 4
    MaxBinding = 3
    MaxOps = 3
    PerPage = 1
SYMMETRY MCSymmetry
CHECK_DEADLOCK FALSE
INVARIANTS RolesInv RevokedIsRefused DecisionsAgree WalkIsComplete
