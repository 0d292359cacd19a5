\* Two requests at a time, up to two commits.
SPECIFICATION Spec
CONSTANTS
    u1 = u1
    u2 = u2
    u3 = u3
    o1 = o1
    o2 = o2
    c1 = c1
    k1 = k1
    k2 = k2
    k3 = k3
    k4 = k4
    k5 = k5
    k6 = k6
    r1 = r1
    r2 = r2
    acme = acme
    initech = initech
    None = None
    Users = {u1, u2, u3}
    Organizations = {o1, o2}
    Clients = {c1}
    Credentials = {k1, k2, k3, k4, k5, k6}
    Names = {acme, initech}
    ScopeSets <- MCScopeSets
    MaxSessionsPerUser = 1
    Requests = {r1, r2}
    MaxCommits = 2
    Start <- MCStart
SYMMETRY Symmetry
\* The bound on commits ends every behaviour.
CHECK_DEADLOCK FALSE
INVARIANTS
    TypeOK
    SessionsCarryCurrentAuthority
    CredentialsFitTheirClient
PROPERTIES
    AdministratorsRemain
    TenantsAreIsolated
    ImplementsSerial
