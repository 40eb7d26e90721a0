CONSTANTS
    c1 = c1
    c2 = c2
    c3 = c3
    NoCall = NoCall
    Calls = {c1, c2, c3}
    Targets = 2
    IdOf <- OwnIds
    Within <- OneWithin
    j1 = j1
    j2 = j2
    Jobs = {j1, j2}
    Attempts <- MCAttempts
    Concurrency = 1
    QueueMayFail = FALSE
    MaxCrashes = 0
    Passes = {p1, p2, p3, p4}
    MaxItems = 3
    MaxAttempts = 3
    Parts = {"jobs"}
SPECIFICATION BackgroundSpec
INVARIANT ExhaustedIsDeadLettered
