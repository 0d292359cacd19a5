\* Two concurrent requests with one family of a public client.
SPECIFICATION Spec
CONSTANTS
    web = web
    spa = spa
    alice = alice
    r1 = r1
    r2 = r2
    None = None
    Families = {1}
    Clients = {spa}
    Users = {alice}
    ClientOf <- PublicOnly
    UserOf <- OneUser
    AccessOnly = {}
    Confidential = {}
    Requests = {r1, r2}
    AccessLifetime = 1
    RefreshLifetime = 2
    BatchSize = 1
    MaxRotations = 2
    MaxSecrets = 0
    MaxNow = 2
SYMMETRY Interchangeable
INVARIANTS
    TypeOK
    ReplayEndsFamily
PROPERTIES
    LosersSpareTheFamily
    ImplementsAuthority
