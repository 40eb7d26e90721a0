------------------------- MODULE NotificationQueue --------------------------
(***************************************************************************)
(* NotificationsService (packages/notifications/src/index.ts): dispatch,   *)
(* schedule and processQueue over one array of queue items.                *)
(*                                                                         *)
(* A pass of processQueue takes the items that are queued when it starts   *)
(* and delivers them one by one, with an await after each; dispatches and  *)
(* other passes run meanwhile.  Delivery is the listeners' business: they  *)
(* are told, and may throw.  An item stands for a channel of a             *)
(* notification that the user's preferences admit; the notification is in  *)
(* the inbox, from which nothing is removed.                               *)
(***************************************************************************)
EXTENDS Naturals, Sequences, FiniteSets

CONSTANTS
    Passes,        \* calls of processQueue, by dispatch and from outside
    MaxItems,      \* bound of the queue, which is never emptied
    MaxAttempts    \* of an item: 3 whatever input.retry asks for

ASSUME QueueAssumption ==
    IsFiniteSet(Passes) /\ MaxItems \in Nat /\ MaxAttempts \in Nat \ {0}

VARIABLES
    queueItems,  \* status and attempts of each item, in the order of creation
    pass,        \* what has become of each pass
    pending,     \* what a pass has still to deliver, in order: places in queueItems
    taken,       \* history: the passes that found an item queued
    told,        \* history: the times the listeners heard of a delivery
    overlapped   \* history: a pass has started while another was under way

queueVars == <<queueItems, pass, pending, taken, told, overlapped>>

Item == [status : {"queued", "completed", "failed"}, attempts : Nat]

QueueTypeOK ==
    /\ queueItems \in Seq(Item) /\ Len(queueItems) <= MaxItems
    /\ pass \in [Passes -> {"new", "running", "done", "rejected"}]
    /\ pending \in [Passes -> SUBSET (1..Len(queueItems))]
    /\ taken \in [1..Len(queueItems) -> SUBSET Passes]
    /\ told \in [1..Len(queueItems) -> Nat]
    /\ overlapped \in BOOLEAN

QueueInit ==
    /\ queueItems = <<>>
    /\ pass = [p \in Passes |-> "new"]
    /\ pending = [p \in Passes |-> {}]
    /\ taken = <<>>
    /\ told = <<>>
    /\ overlapped = FALSE

\* The items of a new notification, one for each channel that is not skipped
WithItems(n) == queueItems \o [i \in 1..n |-> [status |-> "queued", attempts |-> 0]]

Queued(items) == {i \in DOMAIN items : items[i].status = "queued"}

First(todo) == CHOOSE i \in todo : \A j \in todo : i <= j

\* deliverQueueItem: the status is set before the listeners are told.
AfterDelivery(item) ==
    [status |-> IF item.attempts < MaxAttempts THEN "completed" ELSE "failed",
     attempts |-> item.attempts + 1]

------------------------------------------------------------------------------

\* A pass has the items todo left of items; it delivers the first of them, and
\* ends at once if there is none or if a listener throws.
DeliverFirst(p, items, todo, heard) ==
    IF todo = {}
    THEN /\ pass' = [pass EXCEPT ![p] = "done"]
         /\ pending' = [pending EXCEPT ![p] = {}]
         /\ queueItems' = items
         /\ told' = heard
    ELSE LET i == First(todo)
             next == AfterDelivery(items[i])
         IN  /\ queueItems' = [items EXCEPT ![i] = next]
             /\ told' = IF next.status = "completed"
                        THEN [heard EXCEPT ![i] = heard[i] + 1] ELSE heard
             /\ \/ /\ pass' = [pass EXCEPT ![p] = "running"]
                   /\ pending' = [pending EXCEPT ![p] = todo \ {i}]
                \/ /\ pass' = [pass EXCEPT ![p] = "rejected"]
                   /\ pending' = [pending EXCEPT ![p] = {}]

\* processQueue up to its first await, over these items
StartPass(p, items, found, heard) ==
    /\ pass[p] = "new"
    /\ overlapped' = (overlapped \/ \E q \in Passes : pass[q] = "running")
    /\ taken' = [i \in DOMAIN items |->
                    IF items[i].status = "queued" THEN found[i] \cup {p} ELSE found[i]]
    /\ DeliverFirst(p, items, Queued(items), heard)

Times(n, x) == [i \in 1..n |-> x]

\* dispatch with queue or scheduledAt set, schedule: the items wait for a pass.
\* Nothing reads the date.  The items a dispatch had appended when a listener
\* threw at one of its own events are left like this, too.
Schedule(n) ==
    /\ Len(queueItems) + n <= MaxItems
    /\ queueItems' = WithItems(n)
    /\ taken' = taken \o Times(n, {})
    /\ told' = told \o Times(n, 0)
    /\ UNCHANGED <<pass, pending, overlapped>>

\* dispatch otherwise: the items are appended and a pass starts.
Dispatch(p, n) ==
    /\ Len(queueItems) + n <= MaxItems
    /\ StartPass(p, WithItems(n), taken \o Times(n, {}), told \o Times(n, 0))

ProcessQueue(p) == StartPass(p, queueItems, taken, told)

\* Mutants: the pass takes what is queued now, and leaves out nothing; the last
\* item is left for the next pass.
ContinueAfresh(p) ==
    /\ pass[p] = "running"
    /\ DeliverFirst(p, queueItems, DOMAIN queueItems, told)
    /\ UNCHANGED <<taken, overlapped>>

ContinueButLast(p) ==
    /\ pass[p] = "running"
    /\ DeliverFirst(p, queueItems,
                    IF Cardinality(pending[p]) = 1 THEN {} ELSE pending[p], told)
    /\ UNCHANGED <<taken, overlapped>>

\* After the await: the next of the items the pass took at its start
Continue(p) ==
    /\ pass[p] = "running"
    /\ DeliverFirst(p, queueItems, pending[p], told)
    /\ UNCHANGED <<taken, overlapped>>

QueueAtRest ==
    /\ \A p \in Passes : pass[p] \in {"done", "rejected"}
    /\ Len(queueItems) = MaxItems
    /\ UNCHANGED queueVars

QueueNext ==
    \/ \E n \in 1..MaxItems : Schedule(n) \/ \E p \in Passes : Dispatch(p, n)
    \/ \E p \in Passes : ProcessQueue(p) \/ Continue(p)
    \/ QueueAtRest

QueueSpec == QueueInit /\ [][QueueNext]_queueVars

\* Node resumes every pass after its await.
FairQueueSpec == QueueSpec /\ \A p \in Passes : WF_queueVars(Continue(p))

------------------------------------------------------------------------------
(* Properties *)

\* The deliveries of an item are counted by its attempts, up to the limit, and
\* its status tells whether it was delivered within it.
AttemptsTell ==
    \A i \in DOMAIN queueItems :
        /\ told[i] = IF queueItems[i].attempts > MaxAttempts THEN MaxAttempts
                     ELSE queueItems[i].attempts
        /\ queueItems[i].status = "queued" <=> told[i] = 0

\* However passes overlap, an item is delivered at most once by each that was
\* under way before its first delivery.
OncePerPass ==
    \A i \in DOMAIN queueItems : queueItems[i].attempts <= Cardinality(taken[i])

\* What a pass has found queued is delivered, by it or by another one, unless
\* listeners end every pass that found it.
FoundIsDelivered ==
    \A i \in 1..MaxItems :
        i \in DOMAIN taken /\ taken[i] # {} ~>
            /\ i \in DOMAIN taken
            /\ \/ queueItems[i].status # "queued"
               \/ \A p \in taken[i] : pass[p] = "rejected"

\* As long as passes do not overlap, the listeners are told of each item once,
\* also when one of them throws and a later pass goes on with the queue.
DeliveredOnce == ~overlapped => \A i \in DOMAIN told : told[i] <= 1

\* The deliveries of an item are counted: by its attempts and its status, by the
\* passes that took it, and, where passes do not overlap, by one.
DeliveriesCounted == QueueTypeOK /\ AttemptsTell /\ OncePerPass /\ DeliveredOnce
==============================================================================
