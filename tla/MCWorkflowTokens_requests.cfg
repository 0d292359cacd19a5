\* Two requests that set a password, two links, an address and its replacement.
SPECIFICATION Spec
CONSTANTS
    alice = alice
    m1 = m1
    m2 = m2
    m3 = m3
    r1 = r1
    r2 = r2
    None = None
    Users = {alice}
    Emails = {m1, m2}
    Holder <- OneUser
    Events = {1, 2}
    Requests = {r1, r2}
    Lifetime <- OneTick
    MaxPasswords = 2
    MaxNow = 3
SYMMETRY Interchangeable
PROPERTIES
    SpentLinksStayDead
    InvitationsOnlySetFirstPasswords
    NoLostPasswordChange
