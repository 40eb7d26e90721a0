CONSTANTS
    Requests = {r1, r2, r3}
    MayFail = TRUE
    InitialStates = {"READY", "ACTIVE"}
    Commands <- FewCommands
    MaxVersion = 3
    NoAggregate = NoAggregate
    AdminRequests = {a1, a2}
    Kinds = {"enable", "disable", "archive", "unarchive", "reset", "remove", "configure"}
    NoRow = NoRow
    NoConfig = NoConfig
    Unset = Unset
    Feeds = {f1, f2}
    Synced = {f1}
    Workers = {w1}
    Hashes = {h1}
    Ttl = 1
    NoState = NoState
    NoId = NoId
    NoCheckpoint = NoCheckpoint
    MaxCurrent = 2
    MaxClock = 1
    MaxCopies = 2
    MaxRetries = 1
    Messages = {{"timeout", "permanent"}}
    NamedKinds = {"permanent"}
    NoKind = NoKind
    RetryIds = {"custom"}
    CustomDelays = {}
    RecoveryIds = {"resume-from-checkpoint"}
    NoPlan = NoPlan
    Parts = {"aggregate", "administration", "recovery"}
SYMMETRY Symmetry
SPECIFICATION MCSpec
CHECK_DEADLOCK FALSE
INVARIANTS NoLostTransition HistoriesHold ExpiredIsOld PlansHold
PROPERTIES ImplementsAtomic ActivationGated
