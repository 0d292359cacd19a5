\* One request of a confidential client, two families (one of them a machine's),
\* and the cleanup worker under fairness.
SPECIFICATION FairSpec
CONSTANTS
    web = web
    spa = spa
    alice = alice
    r1 = r1
    r2 = r2
    None = None
    Families = {1, 2}
    Clients = {web}
    Users = {alice}
    ClientOf <- OneClient
    UserOf <- UserAndMachine
    AccessOnly = {2}
    Confidential = {web}
    Requests = {r1}
    AccessLifetime = 1
    RefreshLifetime = 2
    BatchSize = 1
    MaxRotations = 1
    MaxSecrets = 1
    MaxNow = 2
INVARIANTS
    AuthorityIsBacked
PROPERTIES
    IssuanceIsFresh
    CleanupSparesLiveFamilies
    PurgesAreComplete
    DeadFamiliesArePurged
