\* Three sessions of one user, two of them at a time.
SPECIFICATION Spec
CONSTANTS
    alice = alice
    home = home
    l1 = l1
    None = None
    NumSessions = 3
    Users = {alice}
    Addresses = {home}
    Logins = {l1}
    Ttl = 3
    Slide = 2
    AbsoluteTtl = 4
    MaxSessions = 2
    BatchSize = 2
    MaxPasswords = 1
    MaxNow = 5
INVARIANTS
    TypeOK
    EndedSessionsStayEnded
PROPERTIES
    OldestSessionsGiveWay
    PassesAreComplete
    ImplementsSessions
