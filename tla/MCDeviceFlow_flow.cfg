\* Five slow_downs cannot be told from two within one lifetime; two changes are
\* a withdrawal and its reversal, or two withdrawals.
SPECIFICATION Spec
CONSTANTS
    k1 = k1
    k2 = k2
    u1 = u1
    u2 = u2
    c1 = c1
    r1 = r1
    r2 = r2
    None = None
    Codes = {c1}
    Clients = {k1, k2}
    Users = {u1, u2}
    Requests = {r1, r2}
    ClientOf <- MCClientOf
    Interval = 1
    Backoff = 1
    Lifetime = 3
    MaxSlowDowns = 2
    MaxChanges = 2
    MaxNow = 4
SYMMETRY MCSymmetry
INVARIANTS
    TypeOK
PROPERTIES
    IssuanceIsCurrent
    PendingIsPaced
    ImplementsGrant
CHECK_DEADLOCK FALSE
