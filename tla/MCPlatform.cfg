SPECIFICATION Spec
CONSTANTS
    Senders = {d1, d2}
    Alone = d1
    Addresses = {a, b}
    Invited = a
    OUTBOX_MAX_ATTEMPTS = 2
    MaxRows = 2
    MaxCrashes = 1
    MaxChanges = 1
    Requests = {q1, q2}
    Challenges = {c1}
    ResetLinks = {k1}
    MaxStep = 2
    MaxVersion = 2
    MaxSecrets = 2
    Appenders = {w1, w2}
    MaxAudit = 3
    MaxArchive = 2
    AuditBatch = 1
    Backends = {b1, b2}
    DeletionRequests = {x1, x2}
    JobRunners = {r1, r2}
    Uploads = {u1}
    MaxFaults = 1
    MaxActivity = 1
CHECK_DEADLOCK FALSE
INVARIANTS
    IdentityProven
    OnlySensorDeadlocks
    CompletedMeansErased
PROPERTIES
    AtLeastOnce
    
    HonestChainVerifies
