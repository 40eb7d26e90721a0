CONSTANTS
    Triggers = {t1}
    Policies = {"priority"}
    Interval = 1
    BaseDelay = 2
    Priorities = {1}
    Built = {b1}
    Attempts = 2
    NoTrigger = NoTrigger
    MaxTime = 1
    MaxJobs = 2
    Consumers = {c1, c2}
    Stoppers = {s1}
    Configured = TRUE
    Fates = {"handled", "cancelled", "unknown"}
    HooksMayThrow = TRUE
    HandlersMayThrow = TRUE
    NoRuntime = NoRuntime
    NoJob = NoJob
SPECIFICATION FairSpec
CHECK_DEADLOCK FALSE
INVARIANTS  RuntimesHold AnswersHold
PROPERTY CallsEnd
