------------------------------ MODULE Scheduler ------------------------------
(***************************************************************************)
(* SchedulerRuntime (packages/rss/src/scheduler): triggers in a registry,  *)
(* policies that delay them, and jobs put into a queue.                    *)
(*                                                                         *)
(* The queue is BullMqQueueAdapter (packages/rss/src/queue/adapters),      *)
(* which answers every job that has an id, and looks for no other of it.   *)
(***************************************************************************)
EXTENDS Naturals, FiniteSets

CONSTANTS
    Triggers,     \* ids of triggers
    Policies,     \* the policies that triggers name and that may be registered
    Interval,     \* intervalMs of the fixed-interval policy
    BaseDelay,    \* baseDelayMs of the exponential-backoff policy
    Priorities,   \* priorities of triggers
    Built,        \* jobs that QueueJobBuilder makes, with ids of their own
    Attempts,     \* retryPolicy.attempts of a built job; 3 unless it is set
    NoTrigger,    \* no trigger of that id is registered
    MaxTime,      \* bound of the clock
    MaxJobs       \* bound of the jobs in the queue

ASSUME TriggerAssumption ==
    /\ IsFiniteSet(Triggers) /\ IsFiniteSet(Built)
    /\ Triggers \cap Built = {}
    /\ Priorities \subseteq Nat
ASSUME DelayAssumption == Interval \in Nat \ {0} /\ BaseDelay \in Nat \ {0}
ASSUME AttemptsAssumption == Attempts \in Nat \ {0}
ASSUME SchedulerBounds == MaxTime \in Nat /\ MaxJobs \in Nat

VARIABLES
    registry,   \* the trigger of each id
    policies,   \* the policies that are registered
    clock,
    jobs,       \* the jobs the queue has answered
    dispatched  \* history: how often each trigger's dispatch returned true, by the time

schedulerVars == <<registry, policies, clock, jobs, dispatched>>

Times == 0..MaxTime

\* The policies of SchedulerFactory.createPolicy
PolicyIds ==
    {"fixed-interval", "cron-expression", "adaptive", "exponential-backoff", "priority"}

\* What the code reads of a trigger.  Its kind, expression and nextRunAt are
\* carried along, and no policy looks at them.
Trigger == [policyId : Policies, priority : Priorities]

ASSUME PolicyAssumption == Policies \subseteq PolicyIds
ASSUME NoTriggerAssumption == NoTrigger \notin Trigger

\* Of a job, its place in the queue and its id: the trigger's and the time of the
\* execution, or its own.
Job == [nth : Nat, of : Triggers \cup Built, at : Times, due : Nat, attempts : Nat]

SchedulerTypeOK ==
    /\ registry \in [Triggers -> Trigger \cup {NoTrigger}]
    /\ policies \subseteq PolicyIds
    /\ clock \in Times
    /\ jobs \subseteq Job
    /\ dispatched \in [Triggers \X Times -> Nat]

SchedulerInit ==
    /\ registry = [t \in Triggers |-> NoTrigger]
    /\ policies = {"fixed-interval"}
    /\ clock = 0
    /\ jobs = {}
    /\ dispatched = [d \in Triggers \X Times |-> 0]

RegisterTrigger(t, trigger) ==
    /\ registry[t] = NoTrigger
    /\ registry' = [registry EXCEPT ![t] = trigger]
    /\ UNCHANGED <<policies, clock, jobs, dispatched>>

\* createTrigger, which replaces a trigger that is there
CreateTrigger(t, trigger) ==
    /\ registry' = [registry EXCEPT ![t] = trigger]
    /\ UNCHANGED <<policies, clock, jobs, dispatched>>

RegisterPolicy(p) ==
    /\ policies' = policies \cup {p}
    /\ UNCHANGED <<registry, clock, jobs, dispatched>>

\* resolvePolicy
Resolved(policyId) == IF policyId \in policies THEN policyId ELSE "fixed-interval"

\* The delayMs of each policy's evaluation.  All of them let the trigger fire.
Delay(trigger) ==
    CASE Resolved(trigger.policyId) = "fixed-interval" -> Interval
      [] Resolved(trigger.policyId) = "exponential-backoff" ->
             BaseDelay * (IF trigger.priority > 1 THEN trigger.priority ELSE 1)
      [] OTHER -> 0

\* Mutant: the id is the trigger's alone.
DispatchedById(t) ==
    [nth |-> Cardinality(jobs) + 1, of |-> t, at |-> 0, due |-> clock + Delay(registry[t]),
     attempts |-> 1]

\* The envelope dispatchTrigger makes
Dispatched(t) ==
    [nth |-> Cardinality(jobs) + 1, of |-> t, at |-> clock, due |-> clock + Delay(registry[t]),
     attempts |-> 1]

IdOf(job) == <<job.of, job.at>>

\* BullMqQueueAdapter.enqueue: a job without an id, which no caller makes, is refused.
Enqueued(job) == jobs \cup {job}

\* dispatchTrigger, up to its answer: nothing happens between evaluation and enqueue.
\* A trigger that is not registered is an exception.
DispatchTrigger(t) ==
    /\ registry[t] # NoTrigger
    /\ Cardinality(jobs) < MaxJobs
    /\ jobs' = Enqueued(Dispatched(t))
    /\ dispatched' = [dispatched EXCEPT ![<<t, clock>>] = @ + 1]
    /\ UNCHANGED <<registry, policies, clock>>

\* QueueJobBuilder.build and QueueAdapter.enqueue
Submit(b) ==
    /\ \A j \in jobs : j.of # b
    /\ Cardinality(jobs) < MaxJobs
    /\ jobs' = Enqueued([nth |-> Cardinality(jobs) + 1, of |-> b, at |-> clock, due |-> clock,
                          attempts |-> Attempts])
    /\ UNCHANGED <<registry, policies, clock, dispatched>>

ClockTicks ==
    /\ clock < MaxTime
    /\ clock' = clock + 1
    /\ UNCHANGED <<registry, policies, jobs, dispatched>>

SchedulerNext ==
    \/ \E t \in Triggers :
           \/ \E trigger \in Trigger : RegisterTrigger(t, trigger) \/ CreateTrigger(t, trigger)
           \/ DispatchTrigger(t)
    \/ \E p \in Policies \ policies : RegisterPolicy(p)
    \/ \E b \in Built : Submit(b)
    \/ ClockTicks

------------------------------------------------------------------------------
(* Properties *)

\* A job's id is made of its trigger and of the millisecond of its dispatch, whatever has
\* become of the trigger since: an id is in the queue as often as its trigger's dispatch
\* was answered with true in that millisecond, so that only dispatches of one millisecond
\* share one, and then no job is lost.
JobPerDispatch ==
    \A d \in Triggers \X Times :
        Cardinality({j \in jobs : IdOf(j) = d}) = dispatched[d]
==============================================================================
