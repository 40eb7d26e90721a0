------------------------------ MODULE FeedLocks ------------------------------
(***************************************************************************)
(* The lock table of FeedLockManager                                       *)
(* (packages/rss/src/synchronization/locking/feed-lock-manager.ts) and the *)
(* transformations its operations apply to a lock.                         *)
(*                                                                         *)
(* A FeedLock is a frozen object: an operation never changes one, it makes *)
(* an altered copy, stores the copy under the copy's feed and hands it to  *)
(* the caller.  So a caller's handle is simply the lock record it was      *)
(* given, and it can be older than the record in the table.  No operation  *)
(* but acquireLock looks at the table: each one starts from the handle.    *)
(*                                                                         *)
(* The lock id ("lock:feed:ms") is determined by feed and createdAt and is *)
(* left out, and so are the correlation id, the strategy, the metadata and *)
(* the transition history, which no operation reads back.                  *)
(***************************************************************************)
EXTENDS Integers

CONSTANTS
    Feeds,      \* feed ids
    Owners,     \* owner ids: an actor id or 'api-trigger'
    Ttl,        \* policy.ttlMs, in ticks of the model's clock
    NoLock      \* locks.get(feedId) === undefined

ASSUME TtlAssumption == Ttl \in Nat \ {0}

\* The states an operation assigns.  Available, Pending, Renewing and
\* Cancelled are in the type but no operation ever stores them.
LockStates == {"Acquired", "Expired", "Released", "Failed"}

Lock == [feed : Feeds, owner : Owners, createdAt : Nat, expiresAt : Nat,
         version : Nat, state : LockStates]

ASSUME NoLockAssumption == NoLock \notin Lock

LockTable == [Feeds -> Lock \cup {NoLock}]

EmptyTable == [f \in Feeds |-> NoLock]

\* this.locks.set(lock.feedId, lock), whatever the table holds there
Store(locks, h) == [locks EXCEPT ![h.feed] = h]

------------------------------------------------------------------------------
(* acquireLock *)

Held(locks, f) == locks[f] # NoLock /\ locks[f].state = "Acquired"

\* The expiry time of a held lock is not looked at: a lock past its expiry
\* goes on blocking until expireLock is called with it.
Reentrant(locks, f, o) == Held(locks, f) /\ locks[f].owner = o

\* Mutants: the owner test inverted; allowSteal read the wrong way round.
RefusesItsOwner(locks, f, o, steal) ==
    Held(locks, f) /\ locks[f].owner = o /\ ~steal

RefusesThieves(locks, f, o, steal) ==
    Held(locks, f) /\ locks[f].owner # o /\ steal

Refused(locks, f, o, steal) == Held(locks, f) /\ locks[f].owner # o /\ ~steal

FreshLock(f, o, time) ==
    [feed |-> f, owner |-> o, createdAt |-> time, expiresAt |-> time + Ttl,
     version |-> 1, state |-> "Acquired"]

\* What an acquireLock that is not refused returns and leaves in the table.
AcquiredLock(locks, f, o, time) ==
    IF Reentrant(locks, f, o) THEN locks[f] ELSE FreshLock(f, o, time)

------------------------------------------------------------------------------
(* The operations on a handle h, requested by owner o *)

MayRenew(h, o) == h.owner = o /\ h.state \notin {"Expired", "Released", "Failed"}

\* Mutant: the ttl is added to the old expiry.
RenewedFromExpiry(h, time) == [h EXCEPT !.expiresAt = @ + Ttl,
                                        !.version = @ + 1,
                                        !.state = "Acquired"]

Renewed(h, time) == [h EXCEPT !.expiresAt = time + Ttl,
                              !.version = @ + 1,
                              !.state = "Acquired"]

\* The owner is checked, the state is not.
MayRelease(h, o) == h.owner = o

ReleasedLock(h) == [h EXCEPT !.state = "Released"]

\* expireLock returns a released or failed handle without storing it.
MayExpire(h) == h.state \notin {"Released", "Failed"}

ExpiredLock(h, time) ==
    [h EXCEPT !.state = IF time >= h.expiresAt THEN "Expired" ELSE @]

\* recoverLock and invalidateLock check neither owner nor state.
RecoveredLock(h) == [h EXCEPT !.state = "Acquired"]

InvalidatedLock(h) == [h EXCEPT !.state = "Failed"]
==============================================================================
