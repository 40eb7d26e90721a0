------------------------------ MODULE FeedSync -------------------------------
(***************************************************************************)
(* FeedsSynchronizationService                                             *)
(* (apps/api/src/modules/feeds/feeds-synchronization.service.ts): the HTTP *)
(* requests POST /feeds/:id/sync and POST /feeds/sync-all, which look a    *)
(* feed up, lock it, ask the concurrency controller, run the               *)
(* synchronization engine and release the lock.  Requests run concurrently *)
(* in one Node process: what is between two awaits is one step, and the    *)
(* steps of the requests interleave.                                       *)
(*                                                                         *)
(* sync-all is the same code run for each feed of one findMany, one after  *)
(* the other (findMany has no orderBy: any order); the first exception     *)
(* ends the loop.  A single sync is a loop over one feed.                  *)
(***************************************************************************)
EXTENDS FeedLocks

CONSTANTS
    Requests,        \* the HTTP requests of a run
    ActorOf,         \* ActorOf[r]: actorId ?? 'api-trigger'
    EngineMayThrow,  \* whether synchronizationEngine.synchronize can reject
    MaxTime,         \* bound of the clock
    None

ASSUME ActorAssumption == ActorOf \in [Requests -> Owners]
ASSUME TimeAssumption == MaxTime \in Nat
ASSUME EngineAssumption == EngineMayThrow \in BOOLEAN

VARIABLES
    locks,      \* lockManager.locks
    podcasts,   \* feeds that have a podcast row
    now,        \* Date.now()
    pc,         \* where each request is
    todo,       \* feeds the request has still to synchronize
    cur,        \* the feed it is synchronizing
    handle,     \* the lock acquireLock gave it
    shared      \* history: the feeds whose lock was handed to its owner again
                \* while another request was under it

vars == <<locks, podcasts, now, pc, todo, cur, handle, shared>>

PcStates == {"new", "next", "found", "locked", "synchronizing", "done", "failed"}

TypeOK ==
    /\ locks \in LockTable
    /\ podcasts \in SUBSET Feeds
    /\ now \in 0..MaxTime
    /\ pc \in [Requests -> PcStates]
    /\ todo \in [Requests -> SUBSET Feeds]
    /\ cur \in [Requests -> Feeds \cup {None}]
    /\ handle \in [Requests -> Lock \cup {NoLock}]
    /\ shared \subseteq Feeds

Init ==
    /\ locks = EmptyTable
    /\ podcasts \in SUBSET Feeds
    /\ now = 0
    /\ pc = [r \in Requests |-> "new"]
    /\ todo = [r \in Requests |-> {}]
    /\ cur = [r \in Requests |-> None]
    /\ handle = [r \in Requests |-> NoLock]
    /\ shared = {}

Goto(r, label) == pc' = [pc EXCEPT ![r] = label]

\* An exception ends the request, and its variables are gone.
Fails(r) ==
    /\ Goto(r, "failed")
    /\ todo' = [todo EXCEPT ![r] = {}]
    /\ cur' = [cur EXCEPT ![r] = None]


------------------------------------------------------------------------------

\* POST /feeds/:id/sync, with any id
StartOne(r, f) ==
    /\ pc[r] = "new"
    /\ todo' = [todo EXCEPT ![r] = {f}]
    /\ Goto(r, "next")
    /\ UNCHANGED <<locks, podcasts, now, cur, handle, shared>>

\* POST /feeds/sync-all: podcast.findMany, one snapshot of the table
StartAll(r) ==
    /\ pc[r] = "new"
    /\ todo' = [todo EXCEPT ![r] = podcasts]
    /\ Goto(r, IF podcasts = {} THEN "done" ELSE "next")
    /\ UNCHANGED <<locks, podcasts, now, cur, handle, shared>>

\* Mutant: the feed stays on the list.
LookupForever(r, f) ==
    /\ pc[r] = "next"
    /\ f \in todo[r]
    /\ cur' = [cur EXCEPT ![r] = f]
    /\ Goto(r, IF f \in podcasts THEN "found" ELSE "failed")
    /\ UNCHANGED <<locks, podcasts, now, todo, handle, shared>>

\* podcast.findUnique; a missing row throws NotFoundException
Lookup(r, f) ==
    /\ pc[r] = "next"
    /\ f \in todo[r]
    /\ \/ /\ f \in podcasts
          /\ todo' = [todo EXCEPT ![r] = @ \ {f}]
          /\ cur' = [cur EXCEPT ![r] = f]
          /\ Goto(r, "found")
       \/ f \notin podcasts /\ Fails(r)
    /\ UNCHANGED <<locks, podcasts, now, handle, shared>>

\* r asks for its feed and gets a lock.  While other requests are under the
\* feed's lock, r gets it only if the table shows its own owner: what it is
\* handed is the lock they work under, or it is one that was taken after
\* sharing had begun.  Otherwise r is alone, and what was shared is over.
UnderLock(q) == pc[q] \in {"locked", "synchronizing"}

Beside(r) == \E q \in Requests \ {r} : UnderLock(q) /\ cur[q] = cur[r]

Shares(r) ==
    shared' = CASE ~Beside(r) -> shared \ {cur[r]}
                [] Beside(r) /\ Reentrant(locks, cur[r], ActorOf[r]) -> shared \cup {cur[r]}
                [] OTHER -> shared

\* Mutant: the lock is created without looking whether one is held.
AcquireAnyway(r) ==
    /\ pc[r] = "found"
    /\ LET lock == FreshLock(cur[r], ActorOf[r], now)
       IN  /\ handle' = [handle EXCEPT ![r] = lock]
           /\ locks' = Store(locks, lock)
    /\ Shares(r)
    /\ Goto(r, "locked")
    /\ UNCHANGED <<podcasts, now, todo, cur>>

\* lockManager.acquireLock with allowSteal: false
Acquire(r) ==
    /\ pc[r] = "found"
    /\ ~Refused(locks, cur[r], ActorOf[r], FALSE)
    /\ LET lock == AcquiredLock(locks, cur[r], ActorOf[r], now)
       IN  /\ handle' = [handle EXCEPT ![r] = lock]
           /\ locks' = Store(locks, lock)
    /\ Shares(r)
    /\ Goto(r, "locked")
    /\ UNCHANGED <<podcasts, now, todo, cur>>

\* acquireLock throws LockAcquisitionError, which ends the request
AcquireRefused(r) ==
    /\ pc[r] = "found"
    /\ Refused(locks, cur[r], ActorOf[r], FALSE)
    /\ Fails(r)
    /\ UNCHANGED <<locks, podcasts, now, handle, shared>>

\* After one feed the loop goes on with the next.
Continue(r) ==
    /\ Goto(r, IF todo[r] = {} THEN "done" ELSE "next")
    /\ cur' = [cur EXCEPT ![r] = None]

\* authorizeExecution(lock, feedId, ownerId), no lease: it looks at the
\* handle only.  A refusal returns a result and leaves the lock as it is.
Authorized(r) ==
    /\ handle[r].state = "Acquired"
    /\ handle[r].owner = ActorOf[r]
    /\ handle[r].feed = cur[r]

Authorize(r) ==
    /\ pc[r] = "locked"
    /\ IF Authorized(r) THEN Goto(r, "synchronizing") /\ UNCHANGED cur ELSE Continue(r)
    /\ UNCHANGED <<locks, podcasts, now, todo, handle, shared>>

\* Mutant: the release is forgotten.
FinishHolding(r) ==
    /\ pc[r] = "synchronizing"
    /\ handle' = [handle EXCEPT ![r] = NoLock]
    /\ Continue(r)
    /\ UNCHANGED <<locks, podcasts, now, todo, shared>>

\* synchronize resolves and, in the same step, releaseLock(lock) is called
\* with the handle acquireLock gave.
Finish(r) ==
    /\ pc[r] = "synchronizing"
    /\ MayRelease(handle[r], ActorOf[r])
    /\ locks' = Store(locks, ReleasedLock(handle[r]))
    /\ handle' = [handle EXCEPT ![r] = NoLock]
    /\ Continue(r)
    /\ UNCHANGED <<podcasts, now, todo, shared>>

\* synchronize rejects: there is no finally, releaseLock is not reached.
SynchronizeThrows(r) ==
    /\ EngineMayThrow
    /\ pc[r] = "synchronizing"
    /\ Fails(r)
    /\ UNCHANGED <<locks, podcasts, now, handle, shared>>

\* DELETE /feeds/:id (FeedsService.remove) takes no lock.
Remove(f) ==
    /\ f \in podcasts
    /\ podcasts' = podcasts \ {f}
    /\ UNCHANGED <<locks, now, pc, todo, cur, handle, shared>>

Tick ==
    /\ now < MaxTime
    /\ now' = now + 1
    /\ UNCHANGED <<locks, podcasts, pc, todo, cur, handle, shared>>

\* What a started request does by itself
Step(r) ==
    \/ \E f \in Feeds : Lookup(r, f)
    \/ Acquire(r)
    \/ AcquireRefused(r)
    \/ Authorize(r)
    \/ Finish(r)
    \/ SynchronizeThrows(r)

Terminated ==
    /\ \A r \in Requests : pc[r] \in {"done", "failed"}
    /\ UNCHANGED vars

Next ==
    \/ \E r \in Requests : StartAll(r) \/ Step(r)
    \/ \E r \in Requests, f \in Feeds : StartOne(r, f)
    \/ \E f \in Feeds : Remove(f)
    \/ Tick
    \/ Terminated

Spec == Init /\ [][Next]_vars

\* The event loop runs every promise continuation that is ready, and the
\* database and the engine answer: a started request keeps moving.
FairSpec == Spec /\ \A r \in Requests : WF_vars(Step(r))

------------------------------------------------------------------------------
(* Properties *)

Synchronizing(r, f) == pc[r] = "synchronizing" /\ cur[r] = f

\* At most one request synchronizes a feed at a time, whoever sent it: what
\* answer 409 of the sync route says ('already running or locked').
OneSynchronizationPerFeed ==
    \A r1, r2 \in Requests, f \in Feeds :
        Synchronizing(r1, f) /\ Synchronizing(r2, f) => r1 = r2

\* What of it the code keeps: two requests synchronize a feed at a time only
\* if a second request of one account was handed the lock its first one works
\* under, and the feed has not been at rest since.  Then other accounts lose
\* exclusion too: the first of the two to end releases the lock of both.
MutualExclusion ==
    \A r1, r2 \in Requests, f \in Feeds \ shared :
        Synchronizing(r1, f) /\ Synchronizing(r2, f) => r1 = r2

\* The lock a request works under is the one the manager's table holds: no
\* other request has replaced or released it meanwhile.
HandleIsCurrent ==
    \A r \in Requests :
        UnderLock(r) /\ cur[r] \notin shared => locks[cur[r]] = handle[r]

\* The engine threw at a request that held the lock of f: it is not released.
Abandoned(f) ==
    /\ EngineMayThrow
    /\ \E r \in Requests : pc[r] = "failed" /\ handle[r] = locks[f]

\* A lock the table shows as held belongs to a request that is under way and
\* will release it, or to one at which the engine threw: no other way of
\* ending, a removed feed's included, leaves a feed locked by nobody.
NoOrphanLock ==
    \A f \in Feeds :
        Held(locks, f) =>
            \/ \E r \in Requests :
                   UnderLock(r) /\ handle[r] = locks[f]
            \/ Abandoned(f)

Inside(f) == {r \in Requests : UnderLock(r) /\ cur[r] = f}

\* The locking promise, as a refinement: the requests under a lock behave as
\* the clients of FeedMutex, accounts being the owners of locks.
Mutex == INSTANCE FeedMutex WITH
    Clients <- Requests, AccountOf <- ActorOf,
    inside <- [f \in Feeds |-> Inside(f)]

ImplementsMutex == Mutex!Spec

\* Every request that was started ends, and a feed that is locked is
\* eventually unlocked, unless the engine throws: a request never waits for
\* another one.
RequestsEnd == <>[](\A r \in Requests : pc[r] \in {"new", "done", "failed"})

EventuallyUnlocked ==
    \A f \in Feeds : Held(locks, f) ~> ~Held(locks, f) \/ Abandoned(f)
==============================================================================
