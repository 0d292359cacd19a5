\* The clock passes two lifetimes; two changes are a withdrawal and its reversal,
\* or two withdrawals.
SPECIFICATION Spec
CONSTANTS
    k1 = k1
    k2 = k2
    u1 = u1
    u2 = u2
    f1 = f1
    r1 = r1
    r2 = r2
    None = None
    Flows = {f1}
    Clients = {k1, k2}
    Users = {u1, u2}
    Requests = {r1, r2}
    ClientOf <- MCClientOf
    Lifetime = 2
    MaxChanges = 2
    MaxNow = 4
SYMMETRY MCSymmetry
INVARIANTS
    DenialsIssueNoCode
CHECK_DEADLOCK FALSE
