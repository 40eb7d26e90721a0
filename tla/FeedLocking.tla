----------------------------- MODULE FeedLocking -----------------------------
(***************************************************************************)
(* The locking layer of @castaminofen/rss as a library: owners that call   *)
(* FeedLockManager, FeedLeaseManager and FeedConcurrencyController         *)
(* (packages/rss/src/synchronization/{locking,leases,concurrency}).        *)
(*                                                                         *)
(* An owner works with the lock and the lease its last call returned, as   *)
(* the unit tests do, and keeps the lock it has released: every operation  *)
(* accepts it.  What else may make that lock stale is in the constants: a  *)
(* sweeper that calls expireLock on whatever getLock returns, a supervisor *)
(* that calls recoverLock or invalidateLock on it, and requests whose      *)
(* policy has allowSteal.                                                  *)
(***************************************************************************)
EXTENDS FeedLocks

CONSTANTS
    Sweeper,     \* expireLock(getLock(feed)) is called by a third party
    Supervisor,  \* so are recoverLock and invalidateLock
    AllowSteal,  \* a request's policy may have allowSteal
    LeaseTtl,    \* ttlMs of the leases, in ticks
    MaxClock,    \* bound of the clock
    MaxVersion,  \* bound of the renewals (maxRenewals is never looked at)
    NoLease,
    Idle         \* not executing

ASSUME SwitchAssumption ==
    Sweeper \in BOOLEAN /\ Supervisor \in BOOLEAN /\ AllowSteal \in BOOLEAN
ASSUME BoundAssumption ==
    LeaseTtl \in Nat \ {0} /\ MaxClock \in Nat /\ MaxVersion \in Nat \ {0}
ASSUME IdleAssumption == Idle \notin Feeds

VARIABLES
    lockMap,    \* FeedLockManager.locks
    clock,      \* Date.now()
    hand,       \* the lock each owner has in hand
    spent,      \* history: the owners that have released that lock
    lease,      \* the lease each owner has in hand
    executing,  \* the feed each owner was authorized for and works on
    disturbed   \* history: the feeds whose lock was held and was stolen, or
                \* changed by a third party or by a lock already released,
                \* and those somebody was authorized for with such a lock

libVars == <<lockMap, clock, hand, spent, lease, executing, disturbed>>

\* The lease table is not modelled: authorizeExecution is given the lease
\* itself and looks nothing up.
Lease == [owner : Owners, expiration : Nat, state : {"Active", "Expired", "Released"}]

LibTypeOK ==
    /\ lockMap \in LockTable
    /\ clock \in 0..MaxClock
    /\ hand \in [Owners -> Lock \cup {NoLock}]
    /\ spent \subseteq Owners
    /\ lease \in [Owners -> Lease \cup {NoLease}]
    /\ executing \in [Owners -> Feeds \cup {Idle}]
    /\ disturbed \subseteq Feeds

LibInit ==
    /\ lockMap = EmptyTable
    /\ clock = 0
    /\ hand = [o \in Owners |-> NoLock]
    /\ spent = {}
    /\ lease = [o \in Owners |-> NoLease]
    /\ executing = [o \in Owners |-> Idle]
    /\ disturbed = {}

------------------------------------------------------------------------------
(* The calls of an owner o *)

\* The lock h was stored and returned to o.
Hands(o, h) ==
    /\ lockMap' = Store(lockMap, h)
    /\ hand' = [hand EXCEPT ![o] = h]
    /\ spent' = spent \ {o}

\* The history records a call that changes the lock of f if it was held.
Disturbs(f) == disturbed' = IF Held(lockMap, f) THEN disturbed \cup {f} ELSE disturbed

\* So it does for a call of o with a lock that o has released.
DisturbsIfSpent(o) ==
    IF o \in spent THEN Disturbs(hand[o].feed) ELSE UNCHANGED disturbed

\* An owner asks again for the feed it has, or for any when it has released.
AcquireLock(o, f, allowSteal) ==
    /\ hand[o] # NoLock /\ o \notin spent => hand[o].feed = f
    /\ allowSteal => AllowSteal
    /\ ~Refused(lockMap, f, o, allowSteal)
    /\ Hands(o, AcquiredLock(lockMap, f, o, clock))
    /\ IF allowSteal /\ ~Reentrant(lockMap, f, o) THEN Disturbs(f) ELSE UNCHANGED disturbed
    /\ UNCHANGED <<clock, lease, executing>>

RenewLock(o) ==
    /\ hand[o] # NoLock
    /\ MayRenew(hand[o], o)
    /\ hand[o].version < MaxVersion
    /\ Hands(o, Renewed(hand[o], clock))
    /\ DisturbsIfSpent(o)
    /\ UNCHANGED <<clock, lease, executing>>

\* The owner stops before it releases.  The lock it passed stays what it was,
\* and it may pass it again: the manager does not look at its state.
ReleaseLock(o) ==
    /\ hand[o] # NoLock
    /\ MayRelease(hand[o], o)
    /\ lockMap' = Store(lockMap, ReleasedLock(hand[o]))
    /\ spent' = spent \cup {o}
    /\ executing' = [executing EXCEPT ![o] = Idle]
    /\ DisturbsIfSpent(o)
    /\ UNCHANGED <<clock, hand, lease>>

\* createLeaseFromLock does not look at the lock's state or expiry.
CreateLease(o) ==
    /\ hand[o] # NoLock
    /\ lease' = [lease EXCEPT ![o] =
                    [owner |-> o, expiration |-> clock + LeaseTtl, state |-> "Active"]]
    /\ UNCHANGED <<lockMap, clock, hand, spent, executing, disturbed>>

\* renewLease checks the owner only, which is o, and leaves the state alone.
RenewLease(o) ==
    /\ lease[o] # NoLease
    /\ lease' = [lease EXCEPT ![o].expiration = clock + LeaseTtl]
    /\ UNCHANGED <<lockMap, clock, hand, spent, executing, disturbed>>

ReleaseLease(o) ==
    /\ lease[o] # NoLease
    /\ lease' = [lease EXCEPT ![o].state = "Released"]
    /\ UNCHANGED <<lockMap, clock, hand, spent, executing, disturbed>>

ExpireLease(o) ==
    /\ lease[o] # NoLease
    /\ lease' = [lease EXCEPT ![o].state =
                    IF clock >= lease[o].expiration THEN "Expired" ELSE @]
    /\ UNCHANGED <<lockMap, clock, hand, spent, executing, disturbed>>

\* validateLease refuses an expired lease and another owner's, but no
\* released one.
LeaseValid(l, o) ==
    /\ l.state # "Expired"
    /\ clock < l.expiration
    /\ l.owner = o

\* authorizeExecution(lock, lease, feedId, ownerId): everything it looks at
\* is in the arguments.  The lock manager it was constructed with is unused,
\* and lock.expiresAt matters to a warning only.
AuthorizeExecution(o, f) ==
    /\ hand[o] # NoLock
    /\ hand[o].state = "Acquired"
    /\ hand[o].owner = o
    /\ lease[o] # NoLease => LeaseValid(lease[o], o)
    /\ hand[o].feed = f
    /\ executing' = [executing EXCEPT ![o] = f]
    /\ disturbed' = IF o \in spent THEN disturbed \cup {f} ELSE disturbed
    /\ UNCHANGED <<lockMap, clock, hand, spent, lease>>

Stop(o) ==
    /\ executing[o] # Idle
    /\ executing' = [executing EXCEPT ![o] = Idle]
    /\ UNCHANGED <<lockMap, clock, hand, spent, lease, disturbed>>

------------------------------------------------------------------------------
(* The calls of others, on the lock getLock returns *)

ExpireLock(f) ==
    /\ Sweeper
    /\ lockMap[f] # NoLock
    /\ MayExpire(lockMap[f])
    /\ lockMap' = Store(lockMap, ExpiredLock(lockMap[f], clock))
    /\ Disturbs(f)
    /\ UNCHANGED <<clock, hand, spent, lease, executing>>

RecoverLock(f) ==
    /\ Supervisor
    /\ lockMap[f] # NoLock
    /\ lockMap' = Store(lockMap, RecoveredLock(lockMap[f]))
    /\ Disturbs(f)
    /\ UNCHANGED <<clock, hand, spent, lease, executing>>

InvalidateLock(f) ==
    /\ Supervisor
    /\ lockMap[f] # NoLock
    /\ lockMap' = Store(lockMap, InvalidatedLock(lockMap[f]))
    /\ Disturbs(f)
    /\ UNCHANGED <<clock, hand, spent, lease, executing>>

LibTick ==
    /\ clock < MaxClock
    /\ clock' = clock + 1
    /\ UNCHANGED <<lockMap, hand, spent, lease, executing, disturbed>>

OwnerStep(o) ==
    \/ \E f \in Feeds, allowSteal \in BOOLEAN : AcquireLock(o, f, allowSteal)
    \/ \E f \in Feeds : AuthorizeExecution(o, f)
    \/ RenewLock(o)
    \/ ReleaseLock(o)
    \/ CreateLease(o)
    \/ RenewLease(o)
    \/ ReleaseLease(o)
    \/ ExpireLease(o)
    \/ Stop(o)

ThirdParty(f) == ExpireLock(f) \/ RecoverLock(f) \/ InvalidateLock(f)

LibNext ==
    \/ \E o \in Owners : OwnerStep(o)
    \/ \E f \in Feeds : ThirdParty(f)
    \/ LibTick

LibSpec == LibInit /\ [][LibNext]_libVars

------------------------------------------------------------------------------
(* Properties *)

\* authorizeExecution lets an owner in only while the manager's table shows
\* that owner as the holder of the feed's lock, unless others interfered or
\* it comes with a lock it has released.
AuthorizedHoldsLock ==
    [][\A o \in Owners \ spent, f \in Feeds \ disturbed :
           AuthorizeExecution(o, f) => Held(lockMap, f) /\ lockMap[f].owner = o]_libVars

Exclusive(f) ==
    \A o, p \in Owners : executing[o] = f /\ executing[p] = f => o = p

\* Two owners never work on one feed at a time, whatever is done to the locks
\* of other feeds, and to its own when nobody holds it.
ExclusiveExecution == \A f \in Feeds \ disturbed : Exclusive(f)

\* Whoever ends or replaces the lock that another owner holds does so with a
\* lock it has released before, or as a thief: as long as an owner releases
\* once and renews before, none of its calls hits the lock of the next owner,
\* though it decides on a copy and no call compares that with the table.
OnlyOwnerEnds ==
    [][\A o \in Owners \ spent, f \in Feeds \ disturbed' :
           OwnerStep(o) /\ Held(lockMap, f) /\ lockMap'[f] # lockMap[f]
               => lockMap[f].owner = o]_libVars

\* No lock is marked expired before its time, also when it was renewed,
\* recovered or overwritten in between.
ExpiredInTime ==
    \A f \in Feeds : lockMap[f] # NoLock /\ lockMap[f].state = "Expired"
                         => clock >= lockMap[f].expiresAt

\* A lock in the table ends at most one ttl from now, whoever renewed,
\* recovered or stored an old copy of it: nobody blocks a feed for longer
\* once a sweeper looks.
BoundedLife == \A f \in Feeds : lockMap[f] # NoLock => lockMap[f].expiresAt <= clock + Ttl
==============================================================================
