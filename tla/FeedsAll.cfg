CONSTANTS
    Feeds = {f1}
    Owners = {alice, bob}
    Ttl = 1
    NoLock = NoLock
    Sweeper = TRUE
    Supervisor = TRUE
    AllowSteal = TRUE
    LeaseTtl = 1
    MaxClock = 2
    MaxVersion = 2
    NoLease = NoLease
    Idle = Idle
    None = None
    e1 = e1
    e2 = e2
    o1 = o1
    o2 = o2
    DiscoveryRequests <- MCRequests
    Listed <- MCListed
    Words <- MCWords
    MaxFeeds = 3
    Evaluations = {e1, e2}
    Assessed <- MCAssessed
    Spellings <- MCSpellings
    Observers = {o1, o2}
    Standard <- MCStandard
    Custom = {"own"}
    Observed = {"queue", "job"}
    MaxReadings = 2
SYMMETRY Symmetry
SPECIFICATION Spec
CHECK_DEADLOCK FALSE
INVARIANTS ExclusiveExecution BoundedLife IdentitiesHold HealthFollowsMetrics OnlyActivationIsDenied ObservationsHold
PROPERTIES AuthorizedHoldsLock OnlyOwnerEnds
