\* Two links for three addresses in turn, one request.
SPECIFICATION Spec
CONSTANTS
    alice = alice
    m1 = m1
    m2 = m2
    m3 = m3
    r1 = r1
    r2 = r2
    None = None
    Users = {alice}
    Emails = {m1, m2, m3}
    Holder <- OneUser
    Events = {1, 2}
    Requests = {r1}
    Lifetime <- OneTick
    MaxPasswords = 1
    MaxNow = 3
SYMMETRY Interchangeable
INVARIANTS
    TypeOK
    NewestLinkWins
    WorkingLinksHaveATarget
PROPERTIES
    ImplementsLinks
