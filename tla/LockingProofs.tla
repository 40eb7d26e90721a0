---------------------------- MODULE LockingProofs ----------------------------
(***************************************************************************)
(* Proofs about locks, for any feeds, owners, requests, ttls and bounds:   *)
(* what the operators of FeedLocks return, which the two parts after it    *)
(* cite by name; the synchronization API (FeedSync); and the locking       *)
(* library (FeedLocking).                                                  *)
(***************************************************************************)
EXTENDS FeedSync, FeedLocking, TLAPS

------------------------------------------------------------------------------
(* Locks *)

\* A fresh lock is a lock, of the feed and owner it was asked for.
LEMMA FreshLockOK ==
    ASSUME NEW f \in Feeds, NEW o \in Owners, NEW t \in Nat
    PROVE  /\ FreshLock(f, o, t) \in Lock
           /\ FreshLock(f, o, t).feed = f
           /\ FreshLock(f, o, t).owner = o
           /\ FreshLock(f, o, t).state = "Acquired"
           /\ FreshLock(f, o, t).expiresAt = t + Ttl
BY TtlAssumption DEF FreshLock, Lock, LockStates

\* acquireLock, whether it creates a lock or returns the one that is held,
\* gives an acquired lock of that feed and owner.
LEMMA AcquiredLockOK ==
    ASSUME NEW f \in Feeds, NEW o \in Owners, NEW t \in Nat,
           NEW table \in LockTable,
           table[f] # NoLock => table[f].feed = f
    PROVE  /\ AcquiredLock(table, f, o, t) \in Lock
           /\ AcquiredLock(table, f, o, t).feed = f
           /\ AcquiredLock(table, f, o, t).owner = o
           /\ AcquiredLock(table, f, o, t).state = "Acquired"
           /\ \/ AcquiredLock(table, f, o, t).expiresAt = t + Ttl
              \/ /\ table[f] # NoLock
                 /\ AcquiredLock(table, f, o, t) = table[f]
<1>1. CASE Reentrant(table, f, o)
  BY <1>1 DEF AcquiredLock, Reentrant, Held, LockTable
<1>2. CASE ~Reentrant(table, f, o)
  BY <1>2, FreshLockOK DEF AcquiredLock
<1> QED BY <1>1, <1>2

\* Releasing keeps everything of a lock but its state.
LEMMA ReleasedLockOK ==
    ASSUME NEW h \in Lock
    PROVE  /\ ReleasedLock(h) \in Lock
           /\ ReleasedLock(h).feed = h.feed
           /\ ReleasedLock(h).state = "Released"
           /\ ReleasedLock(h).expiresAt = h.expiresAt
BY DEF ReleasedLock, Lock, LockStates

\* Storing a lock changes the entry of its own feed and nothing else.
LEMMA StoreOK ==
    ASSUME NEW table \in LockTable, NEW h \in Lock
    PROVE  /\ Store(table, h) \in LockTable
           /\ Store(table, h)[h.feed] = h
           /\ \A f \in Feeds : f # h.feed => Store(table, h)[f] = table[f]
BY DEF Store, LockTable, Lock

\* Renewing an acquired lock gives an acquired lock of the same feed and
\* owner that ends one ttl from now.
LEMMA RenewedOK ==
    ASSUME NEW h \in Lock, NEW t \in Nat
    PROVE  /\ Renewed(h, t) \in Lock
           /\ Renewed(h, t).feed = h.feed
           /\ Renewed(h, t).owner = h.owner
           /\ Renewed(h, t).state = "Acquired"
           /\ Renewed(h, t).expiresAt = t + Ttl
<1> DEFINE later == [h EXCEPT !.expiresAt = t + Ttl]
           next == [later EXCEPT !.version = h.version + 1]
           held == [next EXCEPT !.state = "Acquired"]
<1>1. t + Ttl \in Nat /\ h.version + 1 \in Nat
  BY TtlAssumption DEF Lock
<1>2. /\ later \in Lock /\ later.feed = h.feed /\ later.owner = h.owner
      /\ later.expiresAt = t + Ttl
  BY <1>1 DEF Lock
<1>3. /\ next \in Lock /\ next.feed = h.feed /\ next.owner = h.owner
      /\ next.expiresAt = t + Ttl
  BY <1>1, <1>2 DEF Lock
<1>4. /\ held \in Lock /\ held.feed = h.feed /\ held.owner = h.owner
      /\ held.expiresAt = t + Ttl /\ held.state = "Acquired"
  BY <1>3 DEF Lock, LockStates
<1>5. Renewed(h, t) = held
  BY Zenon DEF Renewed
<1> QED BY <1>4, <1>5

\* Expiring, recovering and invalidating change the state of a lock only,
\* and only a lock whose time is over becomes expired.
LEMMA ThirdPartyOK ==
    ASSUME NEW h \in Lock, NEW t \in Nat
    PROVE  /\ ExpiredLock(h, t) \in Lock
           /\ ExpiredLock(h, t).feed = h.feed
           /\ ExpiredLock(h, t).expiresAt = h.expiresAt
           /\ ExpiredLock(h, t).state = "Expired" =>
                  t >= h.expiresAt \/ h.state = "Expired"
           /\ RecoveredLock(h) \in Lock
           /\ RecoveredLock(h).feed = h.feed
           /\ RecoveredLock(h).expiresAt = h.expiresAt
           /\ RecoveredLock(h).state = "Acquired"
           /\ InvalidatedLock(h) \in Lock
           /\ InvalidatedLock(h).feed = h.feed
           /\ InvalidatedLock(h).expiresAt = h.expiresAt
           /\ InvalidatedLock(h).state = "Failed"
<1>1. /\ ExpiredLock(h, t) \in Lock
      /\ ExpiredLock(h, t).feed = h.feed
      /\ ExpiredLock(h, t).expiresAt = h.expiresAt
      /\ ExpiredLock(h, t).state = "Expired" =>
             t >= h.expiresAt \/ h.state = "Expired"
  BY DEF ExpiredLock, Lock, LockStates
<1>2. /\ RecoveredLock(h) \in Lock
      /\ RecoveredLock(h).feed = h.feed
      /\ RecoveredLock(h).expiresAt = h.expiresAt
      /\ RecoveredLock(h).state = "Acquired"
  BY DEF RecoveredLock, Lock, LockStates
<1>3. /\ InvalidatedLock(h) \in Lock
      /\ InvalidatedLock(h).feed = h.feed
      /\ InvalidatedLock(h).expiresAt = h.expiresAt
      /\ InvalidatedLock(h).state = "Failed"
  BY DEF InvalidatedLock, Lock, LockStates
<1> QED BY <1>1, <1>2, <1>3

------------------------------------------------------------------------------
(***************************************************************************)
(* The synchronization API                                                 *)
(*                                                                         *)
(* TypeOK alone is not inductive: that the lock a request works under is a *)
(* lock, and that cur is a feed, follows from where the request is.  The   *)
(* inductive invariant adds what acquireLock established:                  *)
(*   TableInv   a lock is stored under its own feed,                       *)
(*   CursorInv  a request past the lookup has a feed,                      *)
(*   GrantInv   a request past acquireLock has an acquired lock of its own *)
(*              actor on that feed.                                        *)
(* Nothing is assumed of the owners: several requests may be of one        *)
(* account.  What they share, and what exclusion is left, comes after.     *)
(***************************************************************************)

TableInv == \A f \in Feeds : locks[f] # NoLock => locks[f].feed = f

CursorInv ==
    \A r \in Requests :
        pc[r] \in {"found", "locked", "synchronizing"} => cur[r] \in Feeds

GrantInv ==
    \A r \in Requests : UnderLock(r) => handle[r] \in Lock /\ Authorized(r)

IInv == TypeOK /\ TableInv /\ CursorInv /\ GrantInv

------------------------------------------------------------------------------
(* The inductive invariant *)

LEMMA InitIInv == Init => IInv
<1> SUFFICES ASSUME Init PROVE IInv
  OBVIOUS
<1>1. TypeOK
  BY TimeAssumption
  DEF Init, TypeOK, EmptyTable, LockTable, PcStates
<1>2. TableInv
  BY DEF Init, TableInv, EmptyTable
<1>3. CursorInv /\ GrantInv
  BY DEF Init, CursorInv, GrantInv, UnderLock
<1> QED BY <1>1, <1>2, <1>3 DEF IInv

\* Every step keeps the invariant: only Acquire and Finish touch the table,
\* and both store a lock under its own feed.
LEMMA StepIInv == IInv /\ [Next]_vars => IInv'
<1> SUFFICES ASSUME IInv, [Next]_vars PROVE IInv'
  OBVIOUS
<1> USE DEF IInv
<1>1. ASSUME NEW r \in Requests, StartAll(r) PROVE IInv'
  <2>1. TypeOK'
    BY <1>1 DEF StartAll, TypeOK, Goto, PcStates
  <2>2. TableInv' /\ CursorInv' /\ GrantInv'
    BY <1>1
    DEF StartAll, TypeOK, TableInv, CursorInv, GrantInv, UnderLock, Authorized, Goto
  <2> QED BY <2>1, <2>2
<1>2. ASSUME NEW r \in Requests, NEW f \in Feeds, StartOne(r, f) PROVE IInv'
  <2>1. TypeOK'
    BY <1>2 DEF StartOne, TypeOK, Goto, PcStates
  <2>2. TableInv' /\ CursorInv' /\ GrantInv'
    BY <1>2
    DEF StartOne, TypeOK, TableInv, CursorInv, GrantInv, UnderLock, Authorized, Goto
  <2> QED BY <2>1, <2>2
<1>3. ASSUME NEW r \in Requests, NEW f \in Feeds, Lookup(r, f) PROVE IInv'
  <2>1. TypeOK'
    BY <1>3 DEF Lookup, Fails, TypeOK, Goto, PcStates
  <2>2. TableInv' /\ CursorInv' /\ GrantInv'
    BY <1>3
    DEF Lookup, Fails, TypeOK, TableInv, CursorInv, GrantInv, UnderLock, Authorized, Goto
  <2> QED BY <2>1, <2>2
<1>4. ASSUME NEW r \in Requests, Acquire(r) PROVE IInv'
  <2> DEFINE lock == AcquiredLock(locks, cur[r], ActorOf[r], now)
  <2>1. /\ cur[r] \in Feeds
        /\ ActorOf[r] \in Owners
        /\ now \in Nat
        /\ locks \in LockTable
    <3>1. pc[r] = "found"
      BY <1>4 DEF Acquire
    <3> QED BY <3>1, ActorAssumption, TimeAssumption DEF CursorInv, TypeOK
  <2>2. /\ lock \in Lock
        /\ lock.feed = cur[r]
        /\ lock.owner = ActorOf[r]
        /\ lock.state = "Acquired"
    <3>1. locks[cur[r]] # NoLock => locks[cur[r]].feed = cur[r]
      BY <2>1 DEF TableInv
    <3> QED BY ONLY <2>1, <3>1, AcquiredLockOK
  <2>3. /\ locks' \in LockTable
        /\ locks'[cur[r]] = lock
        /\ \A g \in Feeds : g # cur[r] => locks'[g] = locks[g]
    BY <1>4, <2>1, <2>2, StoreOK DEF Acquire
  <2>4. /\ handle' = [handle EXCEPT ![r] = lock]
        /\ pc' = [pc EXCEPT ![r] = "locked"]
        /\ UNCHANGED <<podcasts, now, todo, cur>>
        /\ shared' \subseteq Feeds
    <3>1. shared \subseteq Feeds
      BY DEF TypeOK
    <3> QED BY <1>4, <2>1, <3>1 DEF Acquire, Goto, Shares
  <2> HIDE DEF lock
  <2>5. TypeOK'
    BY <2>2, <2>3, <2>4 DEF TypeOK, PcStates
  <2>6. TableInv'
    BY <2>2, <2>3 DEF TableInv
  <2>7. CursorInv'
    BY <2>1, <2>4 DEF CursorInv, TypeOK
  <2>8. GrantInv'
    BY <2>2, <2>4 DEF GrantInv, UnderLock, Authorized, TypeOK
  <2> QED BY <2>5, <2>6, <2>7, <2>8
<1>5. ASSUME NEW r \in Requests, AcquireRefused(r) PROVE IInv'
  <2>1. TypeOK'
    BY <1>5 DEF AcquireRefused, Fails, TypeOK, Goto, PcStates
  <2>2. TableInv' /\ CursorInv' /\ GrantInv'
    BY <1>5
    DEF AcquireRefused, Fails, TypeOK, TableInv, CursorInv, GrantInv, UnderLock, Authorized, Goto
  <2> QED BY <2>1, <2>2
<1>6. ASSUME NEW r \in Requests, Authorize(r) PROVE IInv'
  <2>1. Authorized(r)
    BY <1>6 DEF Authorize, GrantInv, UnderLock
  <2>2. /\ pc' = [pc EXCEPT ![r] = "synchronizing"]
        /\ pc[r] = "locked"
        /\ UNCHANGED <<locks, podcasts, now, todo, cur, handle, shared>>
    BY <1>6, <2>1 DEF Authorize, Goto
  <2>3. TypeOK'
    BY <2>2 DEF TypeOK, PcStates
  <2>4. TableInv' /\ CursorInv' /\ GrantInv'
    BY <2>2 DEF TypeOK, TableInv, CursorInv, GrantInv, UnderLock, Authorized
  <2> QED BY <2>3, <2>4
<1>7. ASSUME NEW r \in Requests, Finish(r) PROVE IInv'
  <2>1. handle[r] \in Lock /\ locks \in LockTable
    BY <1>7 DEF Finish, GrantInv, UnderLock, TypeOK
  <2> DEFINE lock == ReleasedLock(handle[r])
  <2>2. lock \in Lock /\ lock.feed = handle[r].feed
    BY <2>1, ReleasedLockOK
  <2>3. /\ locks' \in LockTable
        /\ locks'[lock.feed] = lock
        /\ \A g \in Feeds : g # lock.feed => locks'[g] = locks[g]
    BY <1>7, <2>1, <2>2, StoreOK DEF Finish
  <2> HIDE DEF lock
  <2>4. /\ handle' = [handle EXCEPT ![r] = NoLock]
        /\ \E label \in {"next", "done"} : pc' = [pc EXCEPT ![r] = label]
        /\ cur' = [cur EXCEPT ![r] = None]
        /\ UNCHANGED <<podcasts, now, todo, shared>>
    BY <1>7 DEF Finish, Continue, Goto
  <2>5. TypeOK'
    BY <2>3, <2>4 DEF TypeOK, PcStates
  <2>6. TableInv'
    BY <2>2, <2>3 DEF TableInv
  <2>7. CursorInv' /\ GrantInv'
    BY <2>4 DEF CursorInv, GrantInv, UnderLock, Authorized, TypeOK
  <2> QED BY <2>5, <2>6, <2>7
<1>8. ASSUME NEW r \in Requests, SynchronizeThrows(r) PROVE IInv'
  <2>1. TypeOK'
    BY <1>8 DEF SynchronizeThrows, Fails, TypeOK, Goto, PcStates
  <2>2. TableInv' /\ CursorInv' /\ GrantInv'
    BY <1>8
    DEF SynchronizeThrows, Fails, TypeOK, TableInv, CursorInv, GrantInv, UnderLock, Authorized, Goto
  <2> QED BY <2>1, <2>2
<1>9. ASSUME NEW f \in Feeds, Remove(f) PROVE IInv'
  BY <1>9
  DEF Remove, TypeOK, TableInv, CursorInv, GrantInv, UnderLock, Authorized
<1>10. ASSUME Tick PROVE IInv'
  BY <1>10, TimeAssumption
  DEF Tick, TypeOK, TableInv, CursorInv, GrantInv, UnderLock, Authorized
<1>11. ASSUME UNCHANGED vars PROVE IInv'
  BY <1>11
  DEF vars, TypeOK, TableInv, CursorInv, GrantInv, UnderLock, Authorized
<1> QED
  BY <1>1, <1>2, <1>3, <1>4, <1>5, <1>6, <1>7, <1>8, <1>9, <1>10, <1>11
  DEF Next, Step, Terminated

\* What every request and every lock looks like, in every reachable state.
THEOREM SpecIInv == Spec => []IInv
BY InitIInv, StepIInv, PTL DEF Spec

\* The lock table, the requests and the locks they were given keep their
\* types whatever requests run, whoever sends them.
THEOREM TypeCorrect == Spec => []TypeOK
<1>1. IInv => TypeOK
  BY DEF IInv
<1> QED BY <1>1, SpecIInv, PTL

------------------------------------------------------------------------------
(* No feed stays locked by nobody, unless the engine throws *)

\* r has a lock it will release, or would have if the engine had not thrown.
AccountsFor(r) == UnderLock(r) \/ (EngineMayThrow /\ pc[r] = "failed")

LEMMA NoOrphanAccounts ==
    NoOrphanLock <=>
        \A f \in Feeds : Held(locks, f) =>
            \E r \in Requests : AccountsFor(r) /\ handle[r] = locks[f]
BY DEF NoOrphanLock, Abandoned, AccountsFor, UnderLock

LEMMA InitNoOrphan == Init => NoOrphanLock
BY DEF Init, NoOrphanLock, Held, EmptyTable

\* A step that is neither Acquire nor Finish keeps the witness of every held
\* lock, as no request leaves the states in which it accounts for one.
LEMMA KeepNoOrphan ==
    ASSUME NoOrphanLock, locks' = locks,
           \A r \in Requests :
               AccountsFor(r) => AccountsFor(r)' /\ handle'[r] = handle[r]
    PROVE  NoOrphanLock'
BY Zenon DEF NoOrphanLock, Abandoned, Held, AccountsFor, UnderLock

LEMMA StepNoOrphan == IInv /\ NoOrphanLock /\ [Next]_vars => NoOrphanLock'
<1> SUFFICES ASSUME IInv, NoOrphanLock, [Next]_vars PROVE NoOrphanLock'
  OBVIOUS
<1> USE DEF IInv
<1>1. ASSUME NEW r \in Requests, StartAll(r) PROVE NoOrphanLock'
  BY <1>1, KeepNoOrphan DEF StartAll, AccountsFor, UnderLock, TypeOK, Goto
<1>2. ASSUME NEW r \in Requests, NEW f \in Feeds, StartOne(r, f)
      PROVE  NoOrphanLock'
  BY <1>2, KeepNoOrphan DEF StartOne, AccountsFor, UnderLock, TypeOK, Goto
<1>3. ASSUME NEW r \in Requests, NEW f \in Feeds, Lookup(r, f)
      PROVE  NoOrphanLock'
  BY <1>3, KeepNoOrphan DEF Lookup, Fails, AccountsFor, UnderLock, TypeOK, Goto
<1>4. ASSUME NEW r \in Requests, Acquire(r) PROVE NoOrphanLock'
  <2> DEFINE lock == AcquiredLock(locks, cur[r], ActorOf[r], now)
  <2>1. lock \in Lock /\ lock.feed = cur[r]
    <3>1. pc[r] = "found"
      BY <1>4 DEF Acquire
    <3>2. cur[r] \in Feeds /\ ActorOf[r] \in Owners /\ now \in Nat
      BY <3>1, ActorAssumption, TimeAssumption DEF CursorInv, TypeOK
    <3>3. locks \in LockTable
      BY DEF TypeOK
    <3> QED BY <3>2, <3>3, AcquiredLockOK DEF TableInv
  <2>2. /\ locks'[lock.feed] = lock
        /\ \A g \in Feeds : g # lock.feed => locks'[g] = locks[g]
    BY <1>4, <2>1, StoreOK DEF Acquire, TypeOK
  <2>3. /\ pc[r] = "found"
        /\ pc' = [pc EXCEPT ![r] = "locked"]
        /\ handle' = [handle EXCEPT ![r] = lock]
    BY <1>4 DEF Acquire, Goto
  <2> HIDE DEF lock
  <2>4. AccountsFor(r)' /\ handle'[r] = lock
    BY <2>3 DEF TypeOK, AccountsFor, UnderLock
  <2>5. \A q \in Requests :
            AccountsFor(q) => AccountsFor(q)' /\ handle'[q] = handle[q]
    BY <2>3 DEF TypeOK, AccountsFor, UnderLock
  <2>6. ASSUME NEW f \in Feeds, Held(locks, f)'
        PROVE  \E q \in Requests : AccountsFor(q)' /\ handle'[q] = locks'[f]
    <3>1. CASE f = lock.feed
      BY <2>2, <2>4, <3>1
    <3>2. CASE f # lock.feed
      <4>1. locks'[f] = locks[f] /\ Held(locks, f)
        BY <2>2, <2>6, <3>2 DEF Held
      <4>2. PICK q \in Requests : AccountsFor(q) /\ handle[q] = locks[f]
        BY <4>1, NoOrphanAccounts
      <4> QED BY <2>5, <4>1, <4>2
    <3> QED BY <3>1, <3>2
  <2> QED
    BY <2>6 DEF NoOrphanLock, Abandoned, Held, AccountsFor, UnderLock
<1>5. ASSUME NEW r \in Requests, AcquireRefused(r) PROVE NoOrphanLock'
  BY <1>5, KeepNoOrphan DEF AcquireRefused, Fails, AccountsFor, UnderLock, TypeOK, Goto
<1>6. ASSUME NEW r \in Requests, Authorize(r) PROVE NoOrphanLock'
  <2>1. Authorized(r)
    BY <1>6 DEF Authorize, GrantInv, UnderLock
  <2> QED
    BY <1>6, <2>1, KeepNoOrphan DEF Authorize, AccountsFor, UnderLock, TypeOK, Goto
<1>7. ASSUME NEW r \in Requests, Finish(r) PROVE NoOrphanLock'
  <2> DEFINE lock == ReleasedLock(handle[r])
  <2>1. lock \in Lock /\ lock.feed = handle[r].feed /\ lock.state = "Released"
    BY <1>7, ReleasedLockOK DEF Finish, GrantInv, UnderLock
  <2>2. /\ locks'[lock.feed] = lock
        /\ \A g \in Feeds : g # lock.feed => locks'[g] = locks[g]
    BY <1>7, <2>1, StoreOK DEF Finish, TypeOK
  <2> HIDE DEF lock
  <2>3. \A q \in Requests : q # r => /\ AccountsFor(q) => AccountsFor(q)'
                                     /\ handle'[q] = handle[q]
    BY <1>7 DEF Finish, Continue, Goto, TypeOK, AccountsFor, UnderLock
  <2>4. ASSUME NEW f \in Feeds, Held(locks, f)'
        PROVE  \E q \in Requests : AccountsFor(q)' /\ handle'[q] = locks'[f]
    <3>1. f # lock.feed /\ locks'[f] = locks[f] /\ Held(locks, f)
      BY <2>1, <2>2, <2>4 DEF Held
    <3>2. PICK q \in Requests : AccountsFor(q) /\ handle[q] = locks[f]
      BY <3>1, NoOrphanAccounts
    <3>3. q # r
      BY <2>1, <3>1, <3>2 DEF TableInv, Held
    <3> QED BY <2>3, <3>1, <3>2, <3>3
  <2> QED
    BY <2>4 DEF NoOrphanLock, Abandoned, Held, AccountsFor, UnderLock
<1>8. ASSUME NEW r \in Requests, SynchronizeThrows(r) PROVE NoOrphanLock'
  BY <1>8, KeepNoOrphan DEF SynchronizeThrows, Fails, AccountsFor, UnderLock, TypeOK, Goto
<1>9. ASSUME NEW f \in Feeds, Remove(f) PROVE NoOrphanLock'
  BY <1>9, KeepNoOrphan DEF Remove, AccountsFor, UnderLock
<1>10. ASSUME Tick PROVE NoOrphanLock'
  BY <1>10, KeepNoOrphan DEF Tick, AccountsFor, UnderLock
<1>11. ASSUME UNCHANGED vars PROVE NoOrphanLock'
  BY <1>11, KeepNoOrphan DEF vars, AccountsFor, UnderLock
<1> QED
  BY <1>1, <1>2, <1>3, <1>4, <1>5, <1>6, <1>7, <1>8, <1>9, <1>10, <1>11
  DEF Next, Step, Terminated

\* A feed is locked only while a request works on it, or because the engine
\* threw at one that did; also when one account sends several requests.
THEOREM LocksAreNotOrphaned == Spec => []NoOrphanLock
BY SpecIInv, InitNoOrphan, StepNoOrphan, PTL DEF Spec

------------------------------------------------------------------------------
(***************************************************************************)
(* Mutual exclusion                                                        *)
(*                                                                         *)
(* On a feed that is not shared, one request is under the lock, and it is  *)
(* the lock of the table.  Each fact needs the other: a second request     *)
(* is kept out by the table, and the table is changed by nobody else.      *)
(***************************************************************************)

Alone ==
    \A q, r \in Requests :
        UnderLock(q) /\ UnderLock(r) /\ cur[q] = cur[r] /\ cur[r] \notin shared => q = r

ExclInv == HandleIsCurrent /\ Alone

\* A step that leaves the table, and the feed and lock of every request it
\* leaves under a lock, as they are.
LEMMA KeepExcl ==
    ASSUME ExclInv, locks' = locks, shared' = shared,
           \A r \in Requests :
               UnderLock(r)' =>
                   UnderLock(r) /\ cur'[r] = cur[r] /\ handle'[r] = handle[r]
    PROVE  ExclInv'
BY DEF ExclInv, HandleIsCurrent, Alone, UnderLock

\* A request that gets a lock beside another one makes its feed a shared one:
\* the other's lock is in the table, so acquireLock let in its owner only.
LEMMA BesideShares ==
    ASSUME IInv, ExclInv, NEW r \in Requests, Acquire(r), Beside(r)
    PROVE  cur[r] \in shared'
<1>1. PICK q \in Requests \ {r} : UnderLock(q) /\ cur[q] = cur[r]
  BY DEF Beside
<1>2. shared' = IF Reentrant(locks, cur[r], ActorOf[r]) THEN shared \cup {cur[r]} ELSE shared
  BY DEF Acquire, Shares
<1>3. CASE cur[r] \in shared
  BY <1>2, <1>3
<1>4. CASE cur[r] \notin shared
  <2>1. locks[cur[r]] = handle[q] /\ handle[q] \in Lock /\ Authorized(q)
    BY <1>1, <1>4 DEF ExclInv, HandleIsCurrent, IInv, GrantInv
  <2>2. Held(locks, cur[r])
    BY <2>1, NoLockAssumption DEF Held, Authorized
  <2>3. Reentrant(locks, cur[r], ActorOf[r])
    BY <2>2 DEF Acquire, Refused, Reentrant
  <2> QED BY <1>2, <2>3
<1> QED BY <1>3, <1>4

\* acquireLock replaces no lock that another request works under alone, and
\* releaseLock releases only the lock of the request that calls it.
LEMMA StepExcl == IInv /\ ExclInv /\ [Next]_vars => ExclInv'
<1> SUFFICES ASSUME IInv, ExclInv, [Next]_vars PROVE ExclInv'
  OBVIOUS
<1> USE DEF IInv
<1>1. ASSUME NEW r \in Requests, StartAll(r) PROVE ExclInv'
  BY <1>1, KeepExcl DEF StartAll, UnderLock, TypeOK, Goto
<1>2. ASSUME NEW r \in Requests, NEW f \in Feeds, StartOne(r, f)
      PROVE  ExclInv'
  BY <1>2, KeepExcl DEF StartOne, UnderLock, TypeOK, Goto
<1>3. ASSUME NEW r \in Requests, NEW f \in Feeds, Lookup(r, f)
      PROVE  ExclInv'
  BY <1>3, KeepExcl DEF Lookup, Fails, UnderLock, TypeOK, Goto
<1>4. ASSUME NEW r \in Requests, Acquire(r) PROVE ExclInv'
  <2> DEFINE lock == AcquiredLock(locks, cur[r], ActorOf[r], now)
  <2>1. pc[r] = "found"
    BY <1>4 DEF Acquire
  <2>2. cur[r] \in Feeds /\ ActorOf[r] \in Owners /\ now \in Nat
    BY <2>1, ActorAssumption, TimeAssumption DEF CursorInv, TypeOK
  <2>3. lock \in Lock /\ lock.feed = cur[r]
    BY <2>2, AcquiredLockOK DEF TableInv, TypeOK
  <2>4. /\ locks'[cur[r]] = lock
        /\ \A g \in Feeds : g # cur[r] => locks'[g] = locks[g]
    BY <1>4, <2>3, StoreOK DEF Acquire, TypeOK
  <2>5. \A g : g # cur[r] => (g \in shared' <=> g \in shared)
    BY <1>4 DEF Acquire, Shares
  <2>6. /\ pc' = [pc EXCEPT ![r] = "locked"]
        /\ handle' = [handle EXCEPT ![r] = lock]
        /\ cur' = cur
    BY <1>4 DEF Acquire, Goto
  <2> HIDE DEF lock
  <2>7. ASSUME NEW q \in Requests, q # r, UnderLock(q)', cur[q] \notin shared'
        PROVE  /\ UnderLock(q) /\ cur[q] \in Feeds /\ handle'[q] = handle[q]
               /\ cur[q] # cur[r] /\ cur[q] \notin shared
    <3>1. UnderLock(q) /\ handle'[q] = handle[q]
      BY <2>6, <2>7 DEF UnderLock, TypeOK
    <3>2. cur[q] \in Feeds
      BY <3>1 DEF CursorInv, UnderLock
    <3>3. cur[q] # cur[r]
      BY <1>4, <2>7, <3>1, BesideShares DEF Beside
    <3> QED BY <2>5, <2>7, <3>1, <3>2, <3>3
  <2>8. ASSUME NEW q \in Requests, UnderLock(q)', cur'[q] \notin shared'
        PROVE  locks'[cur'[q]] = handle'[q]
    <3>1. CASE q = r
      BY <2>4, <2>6, <3>1 DEF TypeOK
    <3>2. CASE q # r
      BY <2>4, <2>6, <2>7, <2>8, <3>2 DEF ExclInv, HandleIsCurrent
    <3> QED BY <3>1, <3>2
  <2>9. ASSUME NEW p \in Requests, NEW q \in Requests, UnderLock(p)', UnderLock(q)',
               cur'[p] = cur'[q], cur'[q] \notin shared'
        PROVE  p = q
    BY <2>6, <2>7, <2>9 DEF ExclInv, Alone
  <2> QED BY <2>8, <2>9 DEF ExclInv, HandleIsCurrent, Alone, UnderLock
<1>5. ASSUME NEW r \in Requests, AcquireRefused(r) PROVE ExclInv'
  BY <1>5, KeepExcl DEF AcquireRefused, Fails, UnderLock, TypeOK, Goto
<1>6. ASSUME NEW r \in Requests, Authorize(r) PROVE ExclInv'
  BY <1>6, KeepExcl DEF Authorize, Continue, UnderLock, TypeOK, Goto
<1>7. ASSUME NEW r \in Requests, Finish(r) PROVE ExclInv'
  <2> DEFINE lock == ReleasedLock(handle[r])
  <2>1. handle[r].feed = cur[r] /\ UnderLock(r) /\ handle[r] \in Lock
    BY <1>7 DEF Finish, GrantInv, UnderLock, Authorized
  <2>2. \A g \in Feeds : g # cur[r] => locks'[g] = locks[g]
    BY <1>7, <2>1, ReleasedLockOK, StoreOK DEF Finish, TypeOK
  <2>3. ASSUME NEW q \in Requests, UnderLock(q)'
        PROVE  q # r /\ UnderLock(q) /\ cur'[q] = cur[q] /\ handle'[q] = handle[q]
    BY <1>7, <2>3 DEF Finish, Continue, Goto, TypeOK, UnderLock
  <2>4. shared' = shared
    BY <1>7 DEF Finish
  <2>5. ASSUME NEW q \in Requests, UnderLock(q)', cur'[q] \notin shared'
        PROVE  locks'[cur'[q]] = handle'[q]
    <3>1. cur[q] # cur[r]
      BY <2>1, <2>3, <2>4, <2>5 DEF ExclInv, Alone
    <3>2. cur[q] \in Feeds /\ locks[cur[q]] = handle[q]
      BY <2>3, <2>4, <2>5 DEF CursorInv, ExclInv, HandleIsCurrent, UnderLock
    <3> QED BY <2>2, <2>3, <2>5, <3>1, <3>2
  <2>6. Alone'
    BY <2>3, <2>4 DEF ExclInv, Alone
  <2> QED BY <2>5, <2>6 DEF ExclInv, HandleIsCurrent, UnderLock
<1>8. ASSUME NEW r \in Requests, SynchronizeThrows(r) PROVE ExclInv'
  BY <1>8, KeepExcl DEF SynchronizeThrows, Fails, UnderLock, TypeOK, Goto
<1>9. ASSUME NEW f \in Feeds, Remove(f) PROVE ExclInv'
  BY <1>9, KeepExcl DEF Remove, UnderLock
<1>10. ASSUME Tick PROVE ExclInv'
  BY <1>10, KeepExcl DEF Tick, UnderLock
<1>11. ASSUME UNCHANGED vars PROVE ExclInv'
  BY <1>11, KeepExcl DEF vars, UnderLock
<1> QED
  BY <1>1, <1>2, <1>3, <1>4, <1>5, <1>6, <1>7, <1>8, <1>9, <1>10, <1>11
  DEF Next, Step, Terminated

\* The lock a request works under stays the one in the table, whoever sends
\* requests and whether or not the engine throws, on a feed that is not shared.
THEOREM HandlesAreCurrent == Spec => []ExclInv
<1>1. Init => ExclInv
  BY DEF Init, ExclInv, HandleIsCurrent, Alone, UnderLock
<1> QED BY <1>1, SpecIInv, StepExcl, PTL DEF Spec

\* Two requests synchronize a feed at a time only where two requests of one
\* account came to share its lock and it has not been at rest since.
THEOREM Exclusion == Spec => []MutualExclusion
<1>1. ExclInv => MutualExclusion
  BY DEF ExclInv, Alone, MutualExclusion, Synchronizing, UnderLock
<1> QED BY <1>1, HandlesAreCurrent, PTL

------------------------------------------------------------------------------
(* The refinement of FeedMutex *)

\* Changing who is inside one feed is an update of the function.
LEMMA InsideUpdate ==
    ASSUME NEW g \in Feeds, NEW value, Inside(g)' = value,
           \A f \in Feeds : f # g => Inside(f)' = Inside(f)
    PROVE  [f \in Feeds |-> Inside(f)]'
             = [[f \in Feeds |-> Inside(f)] EXCEPT ![g] = value]
<1>1. \A f \in Feeds :
          Inside(f)' = [[h \in Feeds |-> Inside(h)] EXCEPT ![g] = value][f]
  OBVIOUS
<1> QED BY <1>1, Zenon

LEMMA InitMutex == Init => Mutex!Init
BY DEF Init, Mutex!Init, Inside, UnderLock

\* A step that puts no request under a lock and takes none away.
LEMMA KeepInside ==
    ASSUME \A r \in Requests :
               /\ UnderLock(r)' <=> UnderLock(r)
               /\ UnderLock(r) => cur'[r] = cur[r]
    PROVE  [f \in Feeds |-> Inside(f)]' = [f \in Feeds |-> Inside(f)]
<1>1. ASSUME NEW f \in Feeds PROVE Inside(f)' = Inside(f)
  BY DEF Inside, UnderLock
<1> QED BY <1>1, Zenon

\* acquireLock lets a request in where nobody is, beside one of its account,
\* or where the lock is shared already.
LEMMA AcquireEnters ==
    ASSUME IInv, ExclInv, NEW r \in Requests, Acquire(r)
    PROVE  cur[r] \in Feeds /\ Mutex!Enter(cur[r], r)
<1> DEFINE g == cur[r]
<1>1. /\ pc[r] = "found" /\ g \in Feeds
      /\ pc' = [pc EXCEPT ![r] = "locked"]
      /\ cur' = cur
  BY DEF Acquire, IInv, CursorInv, Goto
<1>2. Inside(g)' = Inside(g) \cup {r}
  BY <1>1 DEF Inside, UnderLock, IInv, TypeOK
<1>3. ASSUME NEW f \in Feeds, f # g PROVE Inside(f)' = Inside(f)
  BY <1>1, <1>3 DEF Inside, UnderLock, IInv, TypeOK
<1>4. [f \in Feeds |-> Inside(f)]'
        = [[f \in Feeds |-> Inside(f)] EXCEPT ![g] = Inside(g) \cup {r}]
  BY <1>1, <1>2, <1>3, InsideUpdate
<1>5. \/ Inside(g) = {} /\ shared' = shared \ {g}
      \/ (\E d \in Inside(g) \ {r} : ActorOf[d] = ActorOf[r]) /\ shared' = shared \cup {g}
      \/ g \in shared /\ shared' = shared
  <2>1. CASE ~Beside(r)
    <3>1. shared' = shared \ {g}
      BY <2>1 DEF Acquire, Shares
    <3>2. r \notin Inside(g)
      BY <1>1 DEF Inside, UnderLock
    <3>3. Inside(g) = {}
      BY <2>1, <3>2 DEF Beside, Inside
    <3> QED BY <3>1, <3>3
  <2>2. CASE Beside(r) /\ ~Reentrant(locks, g, ActorOf[r])
    <3>1. shared' = shared
      BY <2>2 DEF Acquire, Shares
    <3> QED BY <2>2, <3>1, BesideShares
  <2>3. CASE Beside(r) /\ Reentrant(locks, g, ActorOf[r])
    <3>1. shared' = shared \cup {g}
      BY <2>3 DEF Acquire, Shares
    <3>2. CASE g \in shared
      BY <3>1, <3>2
    <3>3. CASE g \notin shared
      <4>1. PICK d \in Requests \ {r} : UnderLock(d) /\ cur[d] = g
        BY <2>3 DEF Beside
      <4>2. locks[g] = handle[d] /\ Authorized(d)
        BY <3>3, <4>1 DEF ExclInv, HandleIsCurrent, IInv, GrantInv
      <4>3. ActorOf[d] = ActorOf[r] /\ d \in Inside(g) \ {r}
        BY <2>3, <4>1, <4>2 DEF Reentrant, Authorized, Inside
      <4> QED BY <3>1, <4>3
    <3> QED BY <3>2, <3>3
  <2> QED BY <2>1, <2>2, <2>3
<1> HIDE DEF g
<1>6. [f \in Feeds |-> Inside(f)][g] = Inside(g)
  BY <1>1
<1> QED BY <1>1, <1>4, <1>5, <1>6 DEF Mutex!Enter, g

\* The release, and a failure of the engine, let the request out.
LEMMA EndLeaves ==
    ASSUME IInv, NEW r \in Requests, Finish(r) \/ SynchronizeThrows(r)
    PROVE  cur[r] \in Feeds /\ Mutex!Leave(cur[r], r)
<1>0. PICK g \in Feeds : g = cur[r]
  BY DEF Finish, SynchronizeThrows, IInv, CursorInv
<1>1. /\ pc[r] = "synchronizing" /\ shared' = shared
      /\ cur' = [cur EXCEPT ![r] = None]
      /\ \E label \in {"next", "done", "failed"} :
             pc' = [pc EXCEPT ![r] = label]
  BY DEF Finish, SynchronizeThrows, Continue, Fails, Goto
<1>2. Inside(g)' = Inside(g) \ {r} /\ r \in Inside(g)
  BY <1>0, <1>1 DEF Inside, UnderLock, IInv, TypeOK
<1>3. ASSUME NEW f \in Feeds, f # g PROVE Inside(f)' = Inside(f)
  BY <1>0, <1>1, <1>3 DEF Inside, UnderLock, IInv, TypeOK
<1>4. [f \in Feeds |-> Inside(f)]'
        = [[f \in Feeds |-> Inside(f)] EXCEPT ![g] = Inside(g) \ {r}]
  BY <1>2, <1>3, InsideUpdate
<1>5. [f \in Feeds |-> Inside(f)][g] = Inside(g)
  OBVIOUS
<1> QED BY <1>0, <1>1, <1>2, <1>4, <1>5 DEF Mutex!Leave

LEMMA StepMutex ==
    IInv /\ ExclInv /\ [Next]_vars
        => [Mutex!Next]_<<[f \in Feeds |-> Inside(f)], shared>>
<1> SUFFICES ASSUME IInv, ExclInv, [Next]_vars
             PROVE  [Mutex!Next]_<<[f \in Feeds |-> Inside(f)], shared>>
  OBVIOUS
<1> DEFINE Keep == /\ [f \in Feeds |-> Inside(f)]' = [f \in Feeds |-> Inside(f)]
                   /\ shared' = shared
<1>1. ASSUME NEW r \in Requests, StartAll(r) PROVE Keep
  BY <1>1, KeepInside DEF StartAll, UnderLock, IInv, TypeOK, Goto
<1>2. ASSUME NEW r \in Requests, NEW f \in Feeds, StartOne(r, f) PROVE Keep
  BY <1>2, KeepInside DEF StartOne, UnderLock, IInv, TypeOK, Goto
<1>3. ASSUME NEW r \in Requests, NEW f \in Feeds, Lookup(r, f) PROVE Keep
  BY <1>3, KeepInside DEF Lookup, Fails, UnderLock, IInv, TypeOK, Goto
<1>4. ASSUME NEW r \in Requests, Acquire(r) PROVE Mutex!Next
  BY <1>4, AcquireEnters DEF Mutex!Next
<1>5. ASSUME NEW r \in Requests, AcquireRefused(r) PROVE Keep
  BY <1>5, KeepInside DEF AcquireRefused, Fails, UnderLock, IInv, TypeOK, Goto
<1>6. ASSUME NEW r \in Requests, Authorize(r) PROVE Keep
  <2>1. Authorized(r)
    BY <1>6 DEF Authorize, IInv, GrantInv, UnderLock
  <2> QED
    BY <1>6, <2>1, KeepInside DEF Authorize, UnderLock, IInv, TypeOK, Goto
<1>7. ASSUME NEW r \in Requests, Finish(r) \/ SynchronizeThrows(r)
      PROVE  Mutex!Next
  BY <1>7, EndLeaves DEF Mutex!Next
<1>8. ASSUME NEW f \in Feeds, Remove(f) PROVE Keep
  BY <1>8, KeepInside DEF Remove, UnderLock
<1>9. ASSUME Tick PROVE Keep
  BY <1>9, KeepInside DEF Tick, UnderLock
<1>10. ASSUME UNCHANGED vars PROVE Keep
  BY <1>10, KeepInside DEF vars, UnderLock
<1> HIDE DEF Keep
<1>11. Keep => [Mutex!Next]_<<[f \in Feeds |-> Inside(f)], shared>>
  BY DEF Keep
<1> QED
  BY <1>1, <1>2, <1>3, <1>4, <1>5, <1>6, <1>7, <1>8, <1>9, <1>10, <1>11
  DEF Next, Step, Terminated

\* The synchronizations implement FeedMutex, whoever sends the requests: what
\* an account does is felt by others only if it overlaps with itself.
THEOREM Refinement == Spec => ImplementsMutex
BY InitMutex, SpecIInv, HandlesAreCurrent, StepMutex, PTL
DEF Spec, ImplementsMutex, Mutex!Spec

------------------------------------------------------------------------------
(***************************************************************************)
(* The locking library                                                     *)
(*                                                                         *)
(* Two invariants.  TimeInv bounds the life of every lock, in the table    *)
(* and in the owners' hands, and needs nothing of the sweeper, the         *)
(* supervisor or the stealing owners.  HandInv says that a lock that its   *)
(* owner has not released is the one the table holds, as long as the feed  *)
(* is not disturbed.                                                       *)
(***************************************************************************)

\* The table holds h as a lock of its feed that ends within a ttl and, if it
\* is expired, is over.
Timely(h) ==
    /\ h.expiresAt <= clock + Ttl
    /\ h.state = "Expired" => clock >= h.expiresAt

TableTimely ==
    \A f \in Feeds : lockMap[f] # NoLock => lockMap[f].feed = f /\ Timely(lockMap[f])

OwnerInv ==
    \A o \in Owners : hand[o] # NoLock =>
        /\ hand[o].owner = o
        /\ hand[o].state = "Acquired"
        /\ hand[o].expiresAt <= clock + Ttl

TimeInv == LibTypeOK /\ TableTimely /\ OwnerInv

------------------------------------------------------------------------------
(* TimeInv is inductive *)

\* Storing a timely lock, whatever the table held, keeps the table timely.
LEMMA StoreTimely ==
    ASSUME LibTypeOK, TableTimely, NEW h \in Lock, Timely(h),
           lockMap' = Store(lockMap, h), clock' = clock
    PROVE  lockMap' \in LockTable /\ TableTimely'
<1>1. /\ lockMap' \in LockTable
      /\ lockMap'[h.feed] = h
      /\ \A f \in Feeds : f # h.feed => lockMap'[f] = lockMap[f]
  BY StoreOK DEF LibTypeOK
<1>2. ASSUME NEW f \in Feeds, lockMap'[f] # NoLock
      PROVE  lockMap'[f].feed = f /\ Timely(lockMap[f])'
  <2>1. CASE f = h.feed
    BY <1>1, <2>1 DEF Timely
  <2>2. CASE f # h.feed
    BY <1>1, <1>2, <2>2 DEF Timely, TableTimely
  <2> QED BY <2>1, <2>2
<1> QED BY <1>1, <1>2 DEF TableTimely

LEMMA InitTimeInv == LibInit => TimeInv
<1> SUFFICES ASSUME LibInit PROVE TimeInv
  OBVIOUS
<1>1. LibTypeOK
  BY BoundAssumption DEF LibInit, LibTypeOK, EmptyTable, LockTable
<1>2. TableTimely /\ OwnerInv
  BY DEF LibInit, TableTimely, OwnerInv, EmptyTable
<1> QED BY <1>1, <1>2 DEF TimeInv

\* An owner that is handed a timely lock of its own.
LEMMA HandsTimeInv ==
    ASSUME TimeInv, NEW o \in Owners, NEW h \in Lock, Hands(o, h),
           h.owner = o, h.state = "Acquired", h.expiresAt <= clock + Ttl,
           UNCHANGED <<clock, lease, executing>>, disturbed' \subseteq Feeds
    PROVE  TimeInv'
<1>1. lockMap' \in LockTable /\ TableTimely'
  BY StoreTimely DEF Hands, Timely, TimeInv
<1>2. LibTypeOK'
  BY <1>1 DEF TimeInv, LibTypeOK, Hands
<1>3. OwnerInv'
  BY DEF TimeInv, LibTypeOK, OwnerInv, Hands
<1> QED BY <1>1, <1>2, <1>3 DEF TimeInv

\* The lease an owner gets.
LEMMA LeaseTimeInv ==
    ASSUME TimeInv, NEW o \in Owners, NEW l \in Lease,
           lease' = [lease EXCEPT ![o] = l],
           UNCHANGED <<lockMap, clock, hand, spent, executing, disturbed>>
    PROVE  TimeInv'
BY DEF TimeInv, LibTypeOK, TableTimely, OwnerInv, Timely

\* What the history records is feeds.
LEMMA DisturbsOK ==
    ASSUME TimeInv, NEW o \in Owners, hand[o] \in Lock, DisturbsIfSpent(o)
    PROVE  /\ disturbed \subseteq disturbed' /\ disturbed' \subseteq Feeds
           /\ o \in spent /\ Held(lockMap, hand[o].feed) => hand[o].feed \in disturbed'
BY DEF DisturbsIfSpent, Disturbs, TimeInv, LibTypeOK, Lock

LEMMA StepTimeInv == TimeInv /\ [LibNext]_libVars => TimeInv'
<1> SUFFICES ASSUME TimeInv, [LibNext]_libVars PROVE TimeInv'
  OBVIOUS
<1>0. clock \in Nat /\ lockMap \in LockTable
  BY BoundAssumption DEF TimeInv, LibTypeOK
<1>1. ASSUME NEW o \in Owners, NEW f \in Feeds, NEW allowSteal \in BOOLEAN,
             AcquireLock(o, f, allowSteal)
      PROVE  TimeInv'
  <2> DEFINE h == AcquiredLock(lockMap, f, o, clock)
  <2>1. /\ h \in Lock /\ h.feed = f /\ h.owner = o /\ h.state = "Acquired"
        /\ h.expiresAt = clock + Ttl \/ (lockMap[f] # NoLock /\ h = lockMap[f])
    <3>1. lockMap[f] # NoLock => lockMap[f].feed = f
      BY DEF TimeInv, TableTimely
    <3> QED BY ONLY <1>0, <3>1, AcquiredLockOK
  <2>2. h.expiresAt <= clock + Ttl
    <3>1. CASE h.expiresAt = clock + Ttl
      BY <1>0, <3>1, TtlAssumption
    <3>2. CASE lockMap[f] # NoLock /\ h = lockMap[f]
      BY <3>2 DEF TimeInv, TableTimely, Timely
    <3> QED BY <2>1, <3>1, <3>2
  <2>3. Hands(o, h) /\ UNCHANGED <<clock, lease, executing>>
    BY <1>1 DEF AcquireLock
  <2>4. disturbed' \subseteq Feeds
    BY <1>1 DEF AcquireLock, Disturbs, TimeInv, LibTypeOK
  <2> HIDE DEF h
  <2> QED BY <2>1, <2>2, <2>3, <2>4, HandsTimeInv
<1>2. ASSUME NEW o \in Owners, RenewLock(o) PROVE TimeInv'
  <2> DEFINE h == Renewed(hand[o], clock)
  <2>1. hand[o] \in Lock /\ hand[o].owner = o
    BY <1>2 DEF RenewLock, TimeInv, LibTypeOK, OwnerInv
  <2>2. /\ h \in Lock /\ h.owner = o /\ h.state = "Acquired"
        /\ h.expiresAt = clock + Ttl
    BY <1>0, <2>1, RenewedOK
  <2>3. h.expiresAt <= clock + Ttl
    BY <1>0, <2>2, TtlAssumption
  <2>4. /\ Hands(o, h) /\ UNCHANGED <<clock, lease, executing>>
        /\ disturbed' \subseteq Feeds
    BY <1>2, <2>1, DisturbsOK DEF RenewLock
  <2> HIDE DEF h
  <2> QED BY <2>2, <2>3, <2>4, HandsTimeInv
<1>3. ASSUME NEW o \in Owners, ReleaseLock(o) PROVE TimeInv'
  <2> DEFINE h == ReleasedLock(hand[o])
  <2>1. hand[o] \in Lock /\ hand[o].expiresAt <= clock + Ttl
    BY <1>3 DEF ReleaseLock, TimeInv, LibTypeOK, OwnerInv
  <2>2. h \in Lock /\ Timely(h)
    BY <2>1, ReleasedLockOK DEF Timely
  <2>3. /\ lockMap' = Store(lockMap, h)
        /\ executing' = [executing EXCEPT ![o] = Idle]
        /\ spent' = spent \cup {o}
        /\ disturbed' \subseteq Feeds
        /\ UNCHANGED <<clock, hand, lease>>
    BY <1>3, <2>1, DisturbsOK DEF ReleaseLock
  <2> HIDE DEF h
  <2>4. lockMap' \in LockTable /\ TableTimely'
    BY <2>2, <2>3, StoreTimely DEF TimeInv
  <2>5. LibTypeOK'
    BY <2>3, <2>4 DEF TimeInv, LibTypeOK
  <2>6. OwnerInv'
    BY <2>3 DEF TimeInv, LibTypeOK, OwnerInv
  <2> QED BY <2>4, <2>5, <2>6 DEF TimeInv
<1>4. ASSUME NEW o \in Owners, CreateLease(o) PROVE TimeInv'
  <2> DEFINE l == [owner |-> o, expiration |-> clock + LeaseTtl, state |-> "Active"]
  <2>1. l \in Lease
    BY <1>0, BoundAssumption DEF Lease
  <2> QED BY <1>4, <2>1, LeaseTimeInv DEF CreateLease
<1>5. ASSUME NEW o \in Owners,
             RenewLease(o) \/ ReleaseLease(o) \/ ExpireLease(o)
      PROVE  TimeInv'
  <2>1. lease[o] \in Lease
    BY <1>5 DEF RenewLease, ReleaseLease, ExpireLease, TimeInv, LibTypeOK
  <2>2. /\ [lease[o] EXCEPT !.expiration = clock + LeaseTtl] \in Lease
        /\ [lease[o] EXCEPT !.state = "Released"] \in Lease
        /\ [lease[o] EXCEPT !.state =
               IF clock >= lease[o].expiration THEN "Expired" ELSE @] \in Lease
    BY <1>0, <2>1, BoundAssumption DEF Lease
  <2>3. UNCHANGED <<lockMap, clock, hand, spent, executing, disturbed>>
    BY <1>5 DEF RenewLease, ReleaseLease, ExpireLease
  <2>4. PICK l \in Lease : lease' = [lease EXCEPT ![o] = l]
    BY <1>5, <2>2 DEF RenewLease, ReleaseLease, ExpireLease
  <2> QED BY <2>3, <2>4, LeaseTimeInv
<1>6. ASSUME NEW o \in Owners, NEW f \in Feeds, AuthorizeExecution(o, f)
      PROVE  TimeInv'
  BY <1>6 DEF AuthorizeExecution, TimeInv, LibTypeOK, TableTimely, OwnerInv, Timely
<1>7. ASSUME NEW o \in Owners, Stop(o) PROVE TimeInv'
  BY <1>7 DEF Stop, TimeInv, LibTypeOK, TableTimely, OwnerInv, Timely
<1>8. ASSUME NEW f \in Feeds, ThirdParty(f) PROVE TimeInv'
  <2>1. lockMap[f] \in Lock /\ Timely(lockMap[f])
    BY <1>8, <1>0
    DEF ThirdParty, ExpireLock, RecoverLock, InvalidateLock, LockTable, TimeInv, TableTimely
  <2>2. PICK h \in Lock : Timely(h) /\ lockMap' = Store(lockMap, h)
    BY <1>0, <1>8, <2>1, ThirdPartyOK
    DEF ThirdParty, ExpireLock, RecoverLock, InvalidateLock, Timely
  <2>3. UNCHANGED <<clock, hand, spent, lease, executing>> /\ disturbed' \subseteq Feeds
    BY <1>8 DEF ThirdParty, ExpireLock, RecoverLock, InvalidateLock, Disturbs, TimeInv, LibTypeOK
  <2>4. lockMap' \in LockTable /\ TableTimely'
    BY <2>2, <2>3, StoreTimely DEF TimeInv
  <2> QED BY <2>3, <2>4 DEF TimeInv, LibTypeOK, OwnerInv
<1>9. ASSUME LibTick PROVE TimeInv'
  <2>1. LibTypeOK'
    BY <1>9, BoundAssumption DEF LibTick, TimeInv, LibTypeOK
  <2>2. TableTimely'
    BY <1>0, <1>9, TtlAssumption DEF LibTick, TimeInv, TableTimely, Timely, LockTable, Lock
  <2>3. OwnerInv'
    BY <1>0, <1>9, TtlAssumption DEF LibTick, TimeInv, LibTypeOK, OwnerInv, Lock
  <2> QED BY <2>1, <2>2, <2>3 DEF TimeInv
<1>10. ASSUME UNCHANGED libVars PROVE TimeInv'
  BY <1>10 DEF libVars, TimeInv, LibTypeOK, TableTimely, OwnerInv, Timely
<1> QED
  BY <1>1, <1>2, <1>3, <1>4, <1>5, <1>6, <1>7, <1>8, <1>9, <1>10
  DEF LibNext, OwnerStep

\* Locks and leases keep their types, and the two facts about time hold,
\* with sweepers, supervisors and stealing owners as well as without.
THEOREM LocksAreTimely == LibSpec => [](LibTypeOK /\ ExpiredInTime /\ BoundedLife)
<1>1. TimeInv => LibTypeOK /\ ExpiredInTime /\ BoundedLife
  BY DEF TimeInv, TableTimely, Timely, ExpiredInTime, BoundedLife
<1> QED BY <1>1, InitTimeInv, StepTimeInv, PTL DEF LibSpec

------------------------------------------------------------------------------
(* What the owners get on a feed that is not disturbed *)

\* o has a lock in hand that it has not released.
InHand(o) == hand[o] # NoLock /\ o \notin spent

\* Work is done under a lock in hand, which is the table's.
HandInv ==
    \A o \in Owners :
        /\ InHand(o) =>
               hand[o].feed \in disturbed \/ lockMap[hand[o].feed] = hand[o]
        /\ executing[o] # Idle =>
               \/ executing[o] \in disturbed
               \/ InHand(o) /\ hand[o].feed = executing[o]

\* A lock in hand makes the table show its owner as the holder.
LEMMA HandHolds ==
    ASSUME TimeInv, HandInv,
           NEW o \in Owners, InHand(o), hand[o].feed \notin disturbed
    PROVE  /\ hand[o] \in Lock
           /\ lockMap[hand[o].feed] = hand[o]
           /\ Held(lockMap, hand[o].feed)
           /\ lockMap[hand[o].feed].owner = o
BY DEF TimeInv, LibTypeOK, OwnerInv, HandInv, Held, InHand

\* Two owners never have locks of one feed in hand.
LEMMA HandsApart ==
    ASSUME TimeInv, HandInv, NEW o \in Owners, NEW p \in Owners, o # p,
           InHand(o), InHand(p), hand[o].feed \notin disturbed
    PROVE  hand[o].feed # hand[p].feed
BY HandHolds

\* Nor does an owner's call with the lock it was given, released or not, hit
\* a lock that another has in hand, unless the feed is then disturbed.
LEMMA OthersApart ==
    ASSUME TimeInv, HandInv, NEW o \in Owners, NEW p \in Owners, o # p,
           hand[o] \in Lock, InHand(p), hand[p].feed = hand[o].feed,
           DisturbsIfSpent(o)
    PROVE  hand[o].feed \in disturbed'
<1>1. CASE hand[o].feed \in disturbed
  BY <1>1, DisturbsOK
<1>2. CASE hand[o].feed \notin disturbed /\ o \in spent
  BY <1>2, HandHolds, DisturbsOK
<1>3. CASE hand[o].feed \notin disturbed /\ o \notin spent
  BY <1>3, HandsApart, NoLockAssumption DEF InHand
<1> QED BY <1>1, <1>2, <1>3

\* Storing a lock of a feed of which no other owner has a lock in hand, unless
\* the feed is disturbed.
LEMMA StoreHandInv ==
    ASSUME TimeInv, HandInv, NEW o \in Owners, NEW h \in Lock,
           lockMap' = Store(lockMap, h), disturbed \subseteq disturbed',
           \A p \in Owners : p # o => /\ hand'[p] = hand[p]
                                      /\ p \in spent' <=> p \in spent
                                      /\ executing'[p] = executing[p]
                                      /\ InHand(p) /\ hand[p].feed = h.feed
                                             => h.feed \in disturbed',
           InHand(o)' => hand'[o] = h,
           executing'[o] # Idle =>
               \/ executing'[o] \in disturbed'
               \/ InHand(o)' /\ h.feed = executing'[o]
    PROVE  HandInv'
<1>1. /\ lockMap'[h.feed] = h
      /\ \A f \in Feeds : f # h.feed => lockMap'[f] = lockMap[f]
  BY StoreOK DEF TimeInv, LibTypeOK
<1>2. ASSUME NEW p \in Owners, p # o
      PROVE  /\ InHand(p)' =>
                    hand'[p].feed \in disturbed' \/ lockMap'[hand'[p].feed] = hand'[p]
             /\ executing'[p] # Idle =>
                    \/ executing'[p] \in disturbed'
                    \/ InHand(p)' /\ hand'[p].feed = executing'[p]
  <2>1. hand[p] # NoLock => hand[p].feed \in Feeds
    BY DEF TimeInv, LibTypeOK, Lock
  <2> QED BY <1>1, <1>2, <2>1 DEF HandInv, InHand
<1>3. /\ InHand(o)' => lockMap'[hand'[o].feed] = hand'[o]
      /\ executing'[o] # Idle =>
             \/ executing'[o] \in disturbed'
             \/ InHand(o)' /\ hand'[o].feed = executing'[o]
  BY <1>1
<1> QED BY <1>2, <1>3 DEF HandInv

LEMMA StepHandInv == TimeInv /\ HandInv /\ [LibNext]_libVars => HandInv'
<1> SUFFICES ASSUME TimeInv, HandInv, [LibNext]_libVars PROVE HandInv'
  OBVIOUS
<1>0. clock \in Nat /\ lockMap \in LockTable
  BY BoundAssumption DEF TimeInv, LibTypeOK
<1>1. ASSUME NEW o \in Owners, NEW f \in Feeds, NEW allowSteal \in BOOLEAN,
             AcquireLock(o, f, allowSteal)
      PROVE  HandInv'
  <2> DEFINE h == AcquiredLock(lockMap, f, o, clock)
  <2>1. h \in Lock /\ h.feed = f
    <3>1. lockMap[f] # NoLock => lockMap[f].feed = f
      BY DEF TimeInv, TableTimely
    <3> QED BY <1>0, <3>1, AcquiredLockOK
  <2>2. /\ lockMap' = Store(lockMap, h) /\ hand' = [hand EXCEPT ![o] = h]
        /\ spent' = spent \ {o} /\ executing' = executing
        /\ InHand(o) => hand[o].feed = f
    BY <1>1 DEF AcquireLock, Hands, InHand
  <2> HIDE DEF h
  <2>3. disturbed \subseteq disturbed'
    BY <1>1 DEF AcquireLock, Disturbs
  <2>4. ASSUME NEW p \in Owners, p # o, InHand(p), hand[p].feed = f,
               f \notin disturbed
        PROVE  f \in disturbed'
    <3>1. Held(lockMap, f) /\ lockMap[f].owner = p
      BY <2>4, HandHolds
    <3>2. allowSteal /\ ~Reentrant(lockMap, f, o)
      BY <1>1, <2>4, <3>1 DEF AcquireLock, Refused, Reentrant
    <3> QED BY <1>1, <3>1, <3>2 DEF AcquireLock, Disturbs
  <2>5. executing[o] # Idle => executing[o] \in disturbed \/ executing[o] = f
    BY <2>2 DEF HandInv
  <2>6. hand'[o] = h /\ o \notin spent' /\ h # NoLock
    BY <2>1, <2>2, NoLockAssumption DEF TimeInv, LibTypeOK
  <2>7. \A p \in Owners : p # o => /\ hand'[p] = hand[p]
                                   /\ p \in spent' <=> p \in spent
                                   /\ executing'[p] = executing[p]
                                   /\ InHand(p) /\ hand[p].feed = h.feed
                                          => h.feed \in disturbed'
    BY <2>1, <2>2, <2>3, <2>4 DEF TimeInv, LibTypeOK
  <2> QED BY <2>1, <2>2, <2>3, <2>5, <2>6, <2>7, StoreHandInv DEF InHand
<1>2. ASSUME NEW o \in Owners, RenewLock(o) PROVE HandInv'
  <2> DEFINE h == Renewed(hand[o], clock)
  <2>1. hand[o] \in Lock /\ h \in Lock /\ h.feed = hand[o].feed
    BY <1>0, <1>2, RenewedOK DEF RenewLock, TimeInv, LibTypeOK
  <2>2. /\ lockMap' = Store(lockMap, h) /\ hand' = [hand EXCEPT ![o] = h]
        /\ spent' = spent \ {o} /\ executing' = executing /\ DisturbsIfSpent(o)
    BY <1>2 DEF RenewLock, Hands
  <2> HIDE DEF h
  <2>3. disturbed \subseteq disturbed'
    BY <2>1, <2>2, DisturbsOK
  <2>4. ASSUME NEW p \in Owners, p # o, InHand(p), hand[p].feed = h.feed
        PROVE  h.feed \in disturbed'
    BY <2>1, <2>2, <2>4, OthersApart
  <2>5. executing[o] # Idle => executing[o] \in disturbed \/ executing[o] = h.feed
    BY <2>1 DEF HandInv
  <2>6. hand'[o] = h /\ o \notin spent' /\ h # NoLock
    BY <2>1, <2>2, NoLockAssumption DEF TimeInv, LibTypeOK
  <2>7. \A p \in Owners : p # o => /\ hand'[p] = hand[p]
                                   /\ p \in spent' <=> p \in spent
                                   /\ executing'[p] = executing[p]
                                   /\ InHand(p) /\ hand[p].feed = h.feed
                                          => h.feed \in disturbed'
    BY <2>2, <2>4 DEF TimeInv, LibTypeOK
  <2> QED BY <2>1, <2>2, <2>3, <2>5, <2>6, <2>7, StoreHandInv DEF InHand
<1>3. ASSUME NEW o \in Owners, ReleaseLock(o) PROVE HandInv'
  <2> DEFINE h == ReleasedLock(hand[o])
  <2>1. hand[o] \in Lock /\ h \in Lock /\ h.feed = hand[o].feed
    BY <1>3, ReleasedLockOK DEF ReleaseLock, TimeInv, LibTypeOK
  <2>2. /\ lockMap' = Store(lockMap, h) /\ hand' = hand /\ spent' = spent \cup {o}
        /\ executing' = [executing EXCEPT ![o] = Idle] /\ DisturbsIfSpent(o)
    BY <1>3 DEF ReleaseLock
  <2> HIDE DEF h
  <2>3. disturbed \subseteq disturbed'
    BY <2>1, <2>2, DisturbsOK
  <2>4. ASSUME NEW p \in Owners, p # o, InHand(p), hand[p].feed = h.feed
        PROVE  h.feed \in disturbed'
    BY <2>1, <2>2, <2>4, OthersApart
  <2>5. executing'[o] = Idle /\ o \in spent'
    BY <2>2 DEF TimeInv, LibTypeOK
  <2>6. \A p \in Owners : p # o => /\ hand'[p] = hand[p]
                                   /\ p \in spent' <=> p \in spent
                                   /\ executing'[p] = executing[p]
                                   /\ InHand(p) /\ hand[p].feed = h.feed
                                          => h.feed \in disturbed'
    BY <2>2, <2>4 DEF TimeInv, LibTypeOK
  <2> QED BY <2>1, <2>2, <2>3, <2>5, <2>6, StoreHandInv DEF InHand
<1>4. ASSUME NEW o \in Owners,
             \/ CreateLease(o)
             \/ RenewLease(o)
             \/ ReleaseLease(o)
             \/ ExpireLease(o)
      PROVE  HandInv'
  BY <1>4 DEF CreateLease, RenewLease, ReleaseLease, ExpireLease, HandInv, InHand
<1>5. ASSUME NEW o \in Owners, NEW f \in Feeds, AuthorizeExecution(o, f)
      PROVE  HandInv'
  <2>1. /\ lockMap' = lockMap /\ hand' = hand /\ spent' = spent
        /\ executing' = [executing EXCEPT ![o] = f]
        /\ disturbed \subseteq disturbed'
        /\ f \in disturbed' \/ (InHand(o) /\ hand[o].feed = f)
    BY <1>5 DEF AuthorizeExecution, InHand
  <2> QED BY <2>1 DEF TimeInv, LibTypeOK, HandInv, InHand
<1>6. ASSUME NEW o \in Owners, Stop(o) PROVE HandInv'
  BY <1>6 DEF Stop, TimeInv, LibTypeOK, HandInv, InHand
<1>7. ASSUME NEW f \in Feeds, ThirdParty(f) PROVE HandInv'
  <2>1. lockMap[f] \in Lock /\ lockMap[f].feed = f
    BY <1>0, <1>7
    DEF ThirdParty, ExpireLock, RecoverLock, InvalidateLock, LockTable, TimeInv, TableTimely
  <2>2. PICK h \in Lock : h.feed = f /\ lockMap' = Store(lockMap, h)
    <3>1. /\ ExpiredLock(lockMap[f], clock) \in Lock
          /\ ExpiredLock(lockMap[f], clock).feed = f
          /\ RecoveredLock(lockMap[f]) \in Lock /\ RecoveredLock(lockMap[f]).feed = f
          /\ InvalidatedLock(lockMap[f]) \in Lock /\ InvalidatedLock(lockMap[f]).feed = f
      BY ONLY <1>0, <2>1, ThirdPartyOK
    <3> QED BY <1>7, <3>1 DEF ThirdParty, ExpireLock, RecoverLock, InvalidateLock
  <2>3. \A g \in Feeds : g # f => lockMap'[g] = lockMap[g]
    BY <2>2, StoreOK DEF TimeInv, LibTypeOK
  <2>4. /\ UNCHANGED <<hand, spent, executing>> /\ disturbed \subseteq disturbed'
        /\ Held(lockMap, f) => f \in disturbed'
    BY <1>7 DEF ThirdParty, ExpireLock, RecoverLock, InvalidateLock, Disturbs
  <2>5. ASSUME NEW o \in Owners, InHand(o), hand[o].feed \notin disturbed'
        PROVE  lockMap'[hand[o].feed] = hand[o]
    <3>1. hand[o] \in Lock /\ hand[o].feed \in Feeds
      BY <2>5 DEF TimeInv, LibTypeOK, Lock, InHand
    <3>2. lockMap[hand[o].feed] = hand[o] /\ Held(lockMap, hand[o].feed)
      BY <2>4, <2>5, HandHolds
    <3> QED BY <2>3, <2>4, <2>5, <3>1, <3>2
  <2> QED BY <2>4, <2>5 DEF HandInv, InHand
<1>8. ASSUME LibTick PROVE HandInv'
  BY <1>8 DEF LibTick, HandInv, InHand
<1>9. ASSUME UNCHANGED libVars PROVE HandInv'
  BY <1>9 DEF libVars, HandInv, InHand
<1> QED
  BY <1>1, <1>2, <1>3, <1>4, <1>5, <1>6, <1>7, <1>8, <1>9 DEF LibNext, OwnerStep

LEMMA SpecHandInv == LibSpec => [](TimeInv /\ HandInv)
<1>1. LibInit => HandInv
  BY DEF LibInit, HandInv, InHand
<1> QED BY <1>1, InitTimeInv, StepTimeInv, StepHandInv, PTL DEF LibSpec

\* Two owners never work at a time on a feed that is not disturbed.
THEOREM ExecutionIsExclusive == LibSpec => []ExclusiveExecution
<1>1. TimeInv /\ HandInv => ExclusiveExecution
  <2> SUFFICES ASSUME TimeInv, HandInv, NEW f \in Feeds \ disturbed,
                      NEW o \in Owners, NEW p \in Owners,
                      executing[o] = f, executing[p] = f, o # p
               PROVE  FALSE
    BY DEF ExclusiveExecution, Exclusive
  <2>1. InHand(o) /\ hand[o].feed = f /\ InHand(p) /\ hand[p].feed = f
    BY IdleAssumption DEF HandInv
  <2> QED BY <2>1, HandsApart
<1> QED BY <1>1, SpecHandInv, PTL

\* authorizeExecution lets in only the holder of the lock of a feed that is
\* not disturbed, unless it comes with a lock it has released.
THEOREM AuthorizationMeansHolding == LibSpec => AuthorizedHoldsLock
<1>1. TimeInv /\ HandInv /\ [LibNext]_libVars =>
          [\A o \in Owners \ spent, f \in Feeds \ disturbed :
               AuthorizeExecution(o, f) => Held(lockMap, f) /\ lockMap[f].owner = o]_libVars
  BY HandHolds DEF AuthorizeExecution, InHand
<1> QED BY <1>1, SpecHandInv, PTL DEF LibSpec, AuthorizedHoldsLock

\* An owner that has not released the lock it was given changes the lock of a
\* feed that is not disturbed only while it is its own, or while nobody holds
\* it.
THEOREM OnlyOwnersEnd == LibSpec => OnlyOwnerEnds
<1>1. ASSUME TimeInv, HandInv, NEW o \in Owners \ spent, NEW f \in Feeds \ disturbed',
             OwnerStep(o), Held(lockMap, f), lockMap'[f] # lockMap[f]
      PROVE  lockMap[f].owner = o
  <2>0. clock \in Nat /\ lockMap \in LockTable
    BY <1>1, BoundAssumption DEF TimeInv, LibTypeOK
  <2>1. ASSUME NEW g \in Feeds, NEW allowSteal \in BOOLEAN,
               AcquireLock(o, g, allowSteal)
        PROVE  lockMap[f].owner = o
    <3>1. AcquiredLock(lockMap, g, o, clock) \in Lock /\ AcquiredLock(lockMap, g, o, clock).feed = g
      BY <1>1, <2>0, AcquiredLockOK DEF TimeInv, TableTimely
    <3>2. lockMap' = Store(lockMap, AcquiredLock(lockMap, g, o, clock))
      BY <2>1 DEF AcquireLock, Hands
    <3>3. f = g
      BY <1>1, <2>0, <3>1, <3>2, StoreOK
    <3>4. allowSteal /\ ~Reentrant(lockMap, f, o) => f \in disturbed'
      BY <1>1, <2>1, <3>3 DEF AcquireLock, Disturbs
    <3>5. ~Refused(lockMap, f, o, allowSteal)
      BY <2>1, <3>3 DEF AcquireLock
    <3> QED BY <1>1, <3>4, <3>5 DEF Refused, Reentrant
  <2>2. ASSUME RenewLock(o) PROVE lockMap[f].owner = o
    <3>1. hand[o] \in Lock /\ InHand(o)
      BY <1>1, <2>2 DEF RenewLock, TimeInv, LibTypeOK, InHand
    <3>2. Renewed(hand[o], clock) \in Lock /\ Renewed(hand[o], clock).feed = hand[o].feed
      BY <2>0, <3>1, RenewedOK
    <3>3. lockMap' = Store(lockMap, Renewed(hand[o], clock)) /\ disturbed' = disturbed
      BY <1>1, <2>2 DEF RenewLock, Hands, DisturbsIfSpent
    <3>4. hand[o].feed = f
      BY <1>1, <2>0, <3>2, <3>3, StoreOK
    <3> QED BY <1>1, <3>1, <3>3, <3>4, HandHolds
  <2>3. ASSUME ReleaseLock(o) PROVE lockMap[f].owner = o
    <3>1. hand[o] \in Lock /\ InHand(o)
      BY <1>1, <2>3 DEF ReleaseLock, TimeInv, LibTypeOK, InHand
    <3>2. ReleasedLock(hand[o]) \in Lock /\ ReleasedLock(hand[o]).feed = hand[o].feed
      BY <3>1, ReleasedLockOK
    <3>3. lockMap' = Store(lockMap, ReleasedLock(hand[o])) /\ disturbed' = disturbed
      BY <1>1, <2>3 DEF ReleaseLock, DisturbsIfSpent
    <3>4. hand[o].feed = f
      BY <1>1, <2>0, <3>2, <3>3, StoreOK
    <3> QED BY <1>1, <3>1, <3>3, <3>4, HandHolds
  <2>4. ASSUME UNCHANGED lockMap PROVE lockMap[f].owner = o
    BY <1>1, <2>4
  <2>5. \/ \E g \in Feeds, allowSteal \in BOOLEAN : AcquireLock(o, g, allowSteal)
        \/ RenewLock(o) \/ ReleaseLock(o) \/ UNCHANGED lockMap
    BY <1>1
    DEF OwnerStep, AuthorizeExecution, CreateLease, RenewLease, ReleaseLease,
        ExpireLease, Stop
  <2> QED BY <2>1, <2>2, <2>3, <2>4, <2>5
<1>2. TimeInv /\ HandInv /\ [LibNext]_libVars =>
          [\A o \in Owners \ spent, f \in Feeds \ disturbed' :
               OwnerStep(o) /\ Held(lockMap, f) /\ lockMap'[f] # lockMap[f]
                   => lockMap[f].owner = o]_libVars
  BY <1>1
<1> QED BY <1>2, SpecHandInv, PTL DEF LibSpec, OnlyOwnerEnds
==============================================================================
