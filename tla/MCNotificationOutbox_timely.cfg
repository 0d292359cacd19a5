\* Heartbeats are served in time; fairness; the contract as a refinement, with a poisonous
\* row before one that can be delivered.
SPECIFICATION FairSpec
CONSTANTS
    w1 = w1
    w2 = w2
    w3 = w3
    None = None
    NumEvents = 2
    Workers = {w1, w2, w3}
    Lease = 2
    RetryMax = 2
    Retention = 0
    CleanupBatch = 1
    MailDisabled = {w3}
    Poison = {1}
    Timely = TRUE
    MaxFaults = 2
    MaxMails = 4
INVARIANTS
    OneDeliveryAtATime
    DuplicatesNeedFaults
PROPERTIES
    ImplementsContract
