CONSTANTS
    r1 = r1
    r2 = r2
    r3 = r3
    r4 = r4
    alice = alice
    bob = bob
    carol = carol
    Feeds = {f1, f2}
    Owners = {alice, bob, carol}
    Ttl = 1
    NoLock = NoLock
    Requests = {r1, r2, r3}
    ActorOf <- Actors
    EngineMayThrow = TRUE
    MaxTime = 1
    None = None
SPECIFICATION FairSpec
INVARIANTS MutualExclusion NoOrphanLock
PROPERTIES ImplementsMutex RequestsEnd EventuallyUnlocked
