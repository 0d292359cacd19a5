\* Any schedule: leases may lapse under a live heartbeat.
SPECIFICATION Spec
CONSTANTS
    w1 = w1
    w2 = w2
    None = None
    NumEvents = 2
    Workers = {w1, w2}
    Lease = 3
    RetryMax = 3
    Retention = 1
    CleanupBatch = 1
    MailDisabled = {}
    Poison = {2}
    Timely = FALSE
    MaxFaults = 2
    MaxMails = 2
SYMMETRY Interchangeable
INVARIANTS
    TypeOK
PROPERTIES
    LiveClaimEndsOnlyByHolder
    ClosedRowsAreFinal
