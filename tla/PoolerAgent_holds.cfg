SPECIFICATION Spec
CONSTANTS
    c1 = c1
    c2 = c2
    a1 = a1
    a2 = a2
    b1 = b1
    r1 = r1
    r2 = r2
    r3 = r3
    Cluster = {c1, c2}
    Pool = {a1, a2, b1}
    ClusterOf <- LeadsTo
    Request = {r1, r2}
    MaxRequests = 3
    MaxRestarts = 1
SYMMETRY RequestSymmetry
INVARIANTS
    TypeOK
    Covered
    OneLiveDeadline
CHECK_DEADLOCK FALSE
