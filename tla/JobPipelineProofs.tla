-------------------------- MODULE JobPipelineProofs --------------------------
(***************************************************************************)
(* Proofs about JobPipeline: the scheduler's jobs, the runtimes of the     *)
(* workers and the consumers between them, for any of them and any bounds. *)
(*                                                                         *)
(* The scheduler and the runtimes share nothing, so each has an inductive  *)
(* invariant of its own, and the deliveries a third over both:             *)
(*   QueueInv     the jobs of an id are counted by its dispatches,         *)
(*   PlaceInv     where a call is tells which runtime it has, and whether  *)
(*                that runtime has been started,                           *)
(*   WitnessInv   a runtime that is starting or stopping has a call that   *)
(*                will take it further,                                    *)
(*   ReachInv     what has left the factory is what the registry holds,    *)
(*   ServiceInv   nobody is about to stop a runtime under a job that no    *)
(*                stop has met,                                            *)
(*   OutcomeInv   a handler that resolved is on its way to the answer,     *)
(*   DeliveryInv  of two consumers of one job, one has failed.             *)
(***************************************************************************)
EXTENDS JobPipeline, FiniteSetTheorems, TLAPS

\* A new job has a place of its own.
QueueInv ==
    /\ IsFiniteSet(jobs)
    /\ \A j \in jobs : j.nth <= Cardinality(jobs)
    /\ JobPerDispatch

\* A call has a runtime from its first step on, and what it has was started.
PlaceInv ==
    /\ \A c \in Calls : pc[c] = "new" <=> using[c] = NoRuntime
    /\ \A c \in Calls : using[c] # NoRuntime => lifecycle[using[c]] # "none"
    /\ \A c \in Consumers : pc[c] = "new" => lifecycle[c] = "none"
    /\ \A c \in Consumers : pc[c] \in InFactory => using[c] = c
    /\ \A c \in Consumers : pc[c] # "emitStopped"
    /\ \A s \in Stoppers : pc[s] \in {"new", "emitStopped", "stopped", "refused"}
    /\ registered # NoRuntime => lifecycle[registered] # "none"

Starts(c, r) == using[c] = r /\ pc[c] \in {"emitStarted", "emitStartedAgain"}
Stops(s, r) == using[s] = r /\ pc[s] = "emitStopped"

\* Without a complete configuration no runtime leaves the factory.
WitnessInv ==
    /\ ~Configured =>
           registered = NoRuntime /\ \A c \in Calls : pc[c] \in {"new", "refused"}
    /\ Configured /\ ~disturbed =>
           \A r \in Consumers :
               /\ lifecycle[r] = "starting" => \E c \in Consumers : Starts(c, r)
               /\ lifecycle[r] = "stopping" => \E s \in Stoppers : Stops(s, r)

ReachInv ==
    ~overlapped =>
        /\ \A c \in Consumers : pc[c] \in InFactory =>
               registered = NoRuntime /\ \A d \in Consumers : pc[d] \in InFactory => d = c
        /\ \A r \in Consumers :
               lifecycle[r] # "none" /\ pc[r] \notin InFactory \cup {"refused"} => registered = r

ServiceInv ==
    \A c \in Consumers \ interrupted : pc[c] \in InDispatch =>
        /\ \A s \in Stoppers : ~Stops(s, using[c])
        /\ pc[c] \in {"emitJobStarted", "executing"} => lifecycle[using[c]] \in {"ready", "running"}

OutcomeInv ==
    \A c \in Consumers :
        /\ pc[c] \in {"emitCompleted", "completed"} => c \in resolved
        /\ c \in resolved =>
               \/ pc[c] \in {"emitCompleted", "completed"}
               \/ disturbed /\ pc[c] \in {"emitFailed", "failed"}

DeliveryInv ==
    /\ taken \in [Consumers -> jobs \cup {NoJob}]
    /\ \A c, d \in Consumers :
           c # d /\ taken[c] = taken[d] /\ taken[c] # NoJob =>
               pc[c] \in {"refused", "failed"} \/ pc[d] \in {"refused", "failed"}

RuntimeInv == WorkerTypeOK /\ PlaceInv /\ WitnessInv /\ ReachInv /\ ServiceInv /\ OutcomeInv

IInv == SchedulerTypeOK /\ QueueInv /\ RuntimeInv /\ DeliveryInv

------------------------------------------------------------------------------
(* The scheduler *)

LEMMA QueueStarts == SchedulerInit => SchedulerTypeOK /\ QueueInv
<1> SUFFICES ASSUME SchedulerInit PROVE SchedulerTypeOK /\ QueueInv
  OBVIOUS
<1>1. SchedulerTypeOK
  BY SchedulerBounds DEF SchedulerInit, SchedulerTypeOK, PolicyIds, Times
<1>2. \A d \in Triggers \X Times : {j \in jobs : IdOf(j) = d} = {}
  BY DEF SchedulerInit
<1>3. QueueInv
  BY <1>2, FS_EmptySet DEF SchedulerInit, QueueInv, JobPerDispatch
<1> QED BY <1>1, <1>3

\* What Delay answers is a number, so that an envelope is a job.
LEMMA EnvelopeIsJob ==
    ASSUME SchedulerTypeOK, IsFiniteSet(jobs), NEW t \in Triggers, registry[t] # NoTrigger
    PROVE  Dispatched(t) \in Job
<1>1. registry[t] \in Trigger
  BY DEF SchedulerTypeOK
<1>2. registry[t].priority \in Nat
  BY <1>1, TriggerAssumption DEF Trigger
<1>3. Interval \in Nat /\ BaseDelay \in Nat
  BY DelayAssumption
<1> DEFINE times == IF registry[t].priority > 1 THEN registry[t].priority ELSE 1
<1>4. times \in Nat
  BY <1>2
<1>5. BaseDelay * times \in Nat
  <2> HIDE DEF times
  <2> QED BY <1>3, <1>4
<1>6. Delay(registry[t]) \in Nat
  <2>1. CASE Resolved(registry[t].policyId) = "fixed-interval"
    BY <2>1, <1>3 DEF Delay
  <2>2. CASE Resolved(registry[t].policyId) = "exponential-backoff"
    BY <2>2, <1>5 DEF Delay
  <2>3. CASE Resolved(registry[t].policyId) \notin {"fixed-interval", "exponential-backoff"}
    BY <2>3 DEF Delay
  <2> QED BY <2>1, <2>2, <2>3
<1>7. clock \in Times /\ clock + Delay(registry[t]) \in Nat
  BY <1>6, SchedulerBounds DEF SchedulerTypeOK, Times
<1>8. Cardinality(jobs) + 1 \in Nat
  BY FS_CardinalityType
<1> QED BY <1>7, <1>8 DEF Dispatched, Job

\* A job that is added is one more of its id, and none of another.
LEMMA CountedOnce ==
    ASSUME QueueInv, SchedulerTypeOK, NEW new \in Job, new.nth = Cardinality(jobs) + 1,
           jobs' = jobs \cup {new}
    PROVE  /\ IsFiniteSet(jobs')
           /\ \A j \in jobs' : j.nth <= Cardinality(jobs')
           /\ \A d \in Triggers \X Times :
                  Cardinality({j \in jobs' : IdOf(j) = d}) =
                      IF IdOf(new) = d THEN dispatched[d] + 1 ELSE dispatched[d]
<1>1. IsFiniteSet(jobs) /\ Cardinality(jobs) \in Nat /\ \A j \in jobs : j.nth \in Nat
  BY FS_CardinalityType DEF QueueInv, SchedulerTypeOK, Job
<1>2. new \notin jobs
  BY <1>1 DEF QueueInv
<1>3. IsFiniteSet(jobs') /\ Cardinality(jobs') = Cardinality(jobs) + 1
  BY <1>1, <1>2, FS_AddElement
<1>4. \A j \in jobs' : j.nth <= Cardinality(jobs')
  BY <1>1, <1>3 DEF QueueInv
<1>5. ASSUME NEW d \in Triggers \X Times
      PROVE  Cardinality({j \in jobs' : IdOf(j) = d}) =
                 IF IdOf(new) = d THEN dispatched[d] + 1 ELSE dispatched[d]
  <2> DEFINE mine == {j \in jobs : IdOf(j) = d}
  <2>1. IsFiniteSet(mine) /\ new \notin mine
    BY <1>1, <1>2, FS_Subset
  <2>2. {j \in jobs' : IdOf(j) = d} = IF IdOf(new) = d THEN mine \cup {new} ELSE mine
    OBVIOUS
  <2>3. Cardinality(mine) = dispatched[d]
    BY DEF QueueInv, JobPerDispatch
  <2> HIDE DEF mine
  <2>4. Cardinality(mine \cup {new}) = Cardinality(mine) + 1
    BY <2>1, FS_AddElement
  <2> QED BY <2>2, <2>3, <2>4
<1> QED BY <1>3, <1>4, <1>5

LEMMA QueueSteps ==
    ASSUME SchedulerTypeOK, QueueInv, SchedulerNext
    PROVE  SchedulerTypeOK' /\ QueueInv' /\ jobs \subseteq jobs'
<1>1. ASSUME NEW t \in Triggers, NEW trigger \in Trigger,
             RegisterTrigger(t, trigger) \/ CreateTrigger(t, trigger)
      PROVE  SchedulerTypeOK' /\ QueueInv' /\ jobs \subseteq jobs'
  BY <1>1 DEF RegisterTrigger, CreateTrigger, SchedulerTypeOK, QueueInv, JobPerDispatch
<1>2. ASSUME NEW t \in Triggers, DispatchTrigger(t)
      PROVE  SchedulerTypeOK' /\ QueueInv' /\ jobs \subseteq jobs'
  <2> DEFINE new == Dispatched(t)
  <2>1. new \in Job
    BY <1>2, EnvelopeIsJob DEF DispatchTrigger, QueueInv
  <2>2. new.nth = Cardinality(jobs) + 1 /\ IdOf(new) = <<t, clock>>
    BY DEF Dispatched, IdOf
  <2>3. jobs' = jobs \cup {new}
    BY <1>2 DEF DispatchTrigger, Enqueued
  <2> HIDE DEF new
  <2>4. /\ <<t, clock>> \in Triggers \X Times
        /\ dispatched' = [dispatched EXCEPT ![<<t, clock>>] = dispatched[<<t, clock>>] + 1]
        /\ UNCHANGED <<registry, policies, clock>>
    BY <1>2 DEF DispatchTrigger, SchedulerTypeOK
  <2>5. SchedulerTypeOK'
    BY <2>1, <2>3, <2>4 DEF SchedulerTypeOK
  <2>6. \A d \in Triggers \X Times :
            dispatched'[d] = IF IdOf(new) = d THEN dispatched[d] + 1 ELSE dispatched[d]
    BY <2>2, <2>4 DEF SchedulerTypeOK
  <2>7. QueueInv'
    BY <2>1, <2>2, <2>3, <2>6, CountedOnce DEF QueueInv, JobPerDispatch
  <2> QED BY <2>3, <2>5, <2>7
<1>3. ASSUME NEW p \in Policies \ policies, RegisterPolicy(p)
      PROVE  SchedulerTypeOK' /\ QueueInv' /\ jobs \subseteq jobs'
  BY <1>3, PolicyAssumption DEF RegisterPolicy, SchedulerTypeOK, QueueInv, JobPerDispatch
<1>4. ASSUME NEW b \in Built, Submit(b)
      PROVE  SchedulerTypeOK' /\ QueueInv' /\ jobs \subseteq jobs'
  <2> DEFINE new == [nth |-> Cardinality(jobs) + 1, of |-> b, at |-> clock, due |-> clock,
                     attempts |-> Attempts]
  <2>1. new \in Job /\ new.nth = Cardinality(jobs) + 1
    BY AttemptsAssumption, SchedulerBounds, FS_CardinalityType
    DEF Job, SchedulerTypeOK, QueueInv, Times
  <2>2. \A d \in Triggers \X Times : IdOf(new) # d
    BY TriggerAssumption DEF IdOf
  <2>3. jobs' = jobs \cup {new} /\ UNCHANGED <<registry, policies, clock, dispatched>>
    BY <1>4 DEF Submit, Enqueued
  <2> HIDE DEF new
  <2>4. SchedulerTypeOK'
    BY <2>1, <2>3 DEF SchedulerTypeOK
  <2>5. QueueInv'
    BY <2>1, <2>2, <2>3, CountedOnce DEF QueueInv, JobPerDispatch
  <2> QED BY <2>3, <2>4, <2>5
<1>5. ASSUME ClockTicks PROVE SchedulerTypeOK' /\ QueueInv' /\ jobs \subseteq jobs'
  BY <1>5, SchedulerBounds DEF ClockTicks, SchedulerTypeOK, QueueInv, JobPerDispatch, Times
<1> QED BY <1>1, <1>2, <1>3, <1>4, <1>5 DEF SchedulerNext

------------------------------------------------------------------------------
(* The runtimes *)

LEMMA RuntimeStarts == WorkerInit => RuntimeInv
<1> SUFFICES ASSUME WorkerInit PROVE RuntimeInv
  OBVIOUS
<1>1. WorkerTypeOK
  BY DEF WorkerInit, WorkerTypeOK, LifecycleStates
<1>2. PlaceInv
  BY DEF WorkerInit, PlaceInv, Calls, InFactory
<1>3. WitnessInv /\ ReachInv
  BY DEF WorkerInit, WitnessInv, ReachInv, Calls, InFactory
<1>4. ServiceInv /\ OutcomeInv
  BY DEF WorkerInit, ServiceInv, OutcomeInv, Calls, InDispatch, InStart
<1> QED BY <1>1, <1>2, <1>3, <1>4 DEF RuntimeInv

\* A step of one of the calls on the runtimes
CallStep ==
    \/ \E c \in Consumers : Create(c) \/ ConsumerStep(c)
    \/ \E s \in Stoppers : Stop(s) \/ StopperStep(s)

LEMMA WorkerTypes == WorkerTypeOK /\ PlaceInv /\ CallStep => WorkerTypeOK'
<1> SUFFICES ASSUME WorkerTypeOK, PlaceInv, CallStep PROVE WorkerTypeOK'
  OBVIOUS
<1> USE DEF WorkerTypeOK, Calls, GoesTo, Becomes, LifecycleStates, InFactory, InStart, InDispatch,
            Answered
<1>1. ASSUME NEW c \in Consumers, Create(c) PROVE WorkerTypeOK'
  <2>1. overlapped' \in BOOLEAN
    BY <1>1, Zenon DEF Create
  <2> QED BY <1>1, <2>1, SMT DEF Create
<1>2. ASSUME NEW c \in Consumers, FactoryStarted(c) \/ Register(c) PROVE WorkerTypeOK'
  BY <1>2 DEF FactoryStarted, Register
<1>3. ASSUME NEW c \in Consumers, Dispatch(c) \/ Restarted(c) \/ Accepted(c)
      PROVE  WorkerTypeOK'
  BY <1>3 DEF Dispatch, Restarted, Accepted
<1>4. ASSUME NEW c \in Consumers, JobStarted(c) \/ Executed(c) \/ ExecutionThrows(c) \/ Finished(c)
      PROVE  WorkerTypeOK'
  BY <1>4 DEF JobStarted, Executed, ExecutionThrows, Finished
<1>5. ASSUME NEW c \in Calls, HookThrows(c) PROVE WorkerTypeOK'
  BY <1>5 DEF HookThrows
<1>6. ASSUME NEW s \in Stoppers, Stop(s) \/ Stopped(s) PROVE WorkerTypeOK'
  BY <1>6 DEF Stop, Stopped
<1> QED BY <1>1, <1>2, <1>3, <1>4, <1>5, <1>6 DEF CallStep, ConsumerStep, StopperStep

LEMMA PlacesKept == WorkerTypeOK /\ PlaceInv /\ CallStep => PlaceInv'
<1> SUFFICES ASSUME WorkerTypeOK, PlaceInv, CallStep PROVE PlaceInv'
  OBVIOUS
<1> USE CallsAssumption
    DEF WorkerTypeOK, PlaceInv, Calls, GoesTo, Becomes, InFactory, InStart, InDispatch, Answered
<1>1. ASSUME NEW c \in Consumers, Create(c) PROVE PlaceInv'
  BY <1>1 DEF Create
<1>2. ASSUME NEW c \in Consumers, FactoryStarted(c) \/ Register(c) PROVE PlaceInv'
  BY <1>2 DEF FactoryStarted, Register
<1>3. ASSUME NEW c \in Consumers, Dispatch(c) \/ Restarted(c) \/ Accepted(c)
      PROVE  PlaceInv'
  BY <1>3 DEF Dispatch, Restarted, Accepted
<1>4. ASSUME NEW c \in Consumers, JobStarted(c) \/ Executed(c) \/ ExecutionThrows(c) \/ Finished(c)
      PROVE  PlaceInv'
  BY <1>4 DEF JobStarted, Executed, ExecutionThrows, Finished
<1>5. ASSUME NEW c \in Calls, HookThrows(c) PROVE PlaceInv'
  BY <1>5 DEF HookThrows
<1>6. ASSUME NEW s \in Stoppers, Stop(s) \/ Stopped(s) PROVE PlaceInv'
  BY <1>6 DEF Stop, Stopped
<1> QED BY <1>1, <1>2, <1>3, <1>4, <1>5, <1>6 DEF CallStep, ConsumerStep, StopperStep

\* Whoever took a runtime to "starting" or "stopping" takes it on with its own next step,
\* unless a hook throws; whatever others did to it meanwhile, it is neither then.
LEMMA WitnessesKept == WorkerTypeOK /\ PlaceInv /\ WitnessInv /\ CallStep => WitnessInv'
<1> SUFFICES ASSUME WorkerTypeOK, PlaceInv, WitnessInv, CallStep PROVE WitnessInv'
  OBVIOUS
<1> USE CallsAssumption, SwitchesAssumption
    DEF WorkerTypeOK, PlaceInv, WitnessInv, Starts, Stops, Calls, GoesTo, Becomes, InFactory,
        InStart, InDispatch, Answered
<1>1. ASSUME NEW c \in Consumers, Create(c) PROVE WitnessInv'
  BY <1>1 DEF Create
<1>2. ASSUME NEW c \in Consumers, FactoryStarted(c) PROVE WitnessInv'
  BY <1>2 DEF FactoryStarted
<1>3. ASSUME NEW c \in Consumers, Register(c) PROVE WitnessInv'
  BY <1>3 DEF Register
<1>4. ASSUME NEW c \in Consumers, Dispatch(c) PROVE WitnessInv'
  BY <1>4 DEF Dispatch
<1>5. ASSUME NEW c \in Consumers, Restarted(c) PROVE WitnessInv'
  BY <1>5 DEF Restarted
<1>6. ASSUME NEW c \in Consumers, Accepted(c) PROVE WitnessInv'
  BY <1>6 DEF Accepted
<1>7. ASSUME NEW c \in Consumers, JobStarted(c) \/ Executed(c) \/ ExecutionThrows(c) \/ Finished(c)
      PROVE  WitnessInv'
  BY <1>7 DEF JobStarted, Executed, ExecutionThrows, Finished
<1>8. ASSUME NEW c \in Calls, HookThrows(c) PROVE WitnessInv'
  BY <1>8 DEF HookThrows
<1>9. ASSUME NEW s \in Stoppers, Stop(s) PROVE WitnessInv'
  BY <1>9 DEF Stop
<1>10. ASSUME NEW s \in Stoppers, Stopped(s) PROVE WitnessInv'
  BY <1>10 DEF Stopped
<1> QED
  BY <1>1, <1>2, <1>3, <1>4, <1>5, <1>6, <1>7, <1>8, <1>9, <1>10
  DEF CallStep, ConsumerStep, StopperStep

\* While the factory has one consumer at a time, it is entered only when nothing is
\* registered, and what leaves it is.
LEMMA ReachKept == WorkerTypeOK /\ PlaceInv /\ ReachInv /\ CallStep => ReachInv'
<1> SUFFICES ASSUME WorkerTypeOK, PlaceInv, ReachInv, CallStep PROVE ReachInv'
  OBVIOUS
<1> USE CallsAssumption
    DEF WorkerTypeOK, PlaceInv, ReachInv, Calls, GoesTo, Becomes, InFactory, InStart, InDispatch,
        Answered
<1>1. ASSUME NEW c \in Consumers, Create(c) PROVE ReachInv'
  <2>1. CASE registered # NoRuntime
    BY <1>1, <2>1 DEF Create
  <2>2. CASE registered = NoRuntime
    <3>1. ~overlapped' => ~overlapped /\ \A d \in Consumers : pc[d] \notin InFactory
      BY <1>1, <2>2, Zenon DEF Create
    <3> QED BY <1>1, <2>2, <3>1, SMT DEF Create
  <2> QED BY <2>1, <2>2
<1>2. ASSUME NEW c \in Consumers, FactoryStarted(c) \/ Register(c) PROVE ReachInv'
  BY <1>2 DEF FactoryStarted, Register
<1>3. ASSUME NEW c \in Consumers, Dispatch(c) \/ Restarted(c) \/ Accepted(c)
      PROVE  ReachInv'
  BY <1>3 DEF Dispatch, Restarted, Accepted
<1>4. ASSUME NEW c \in Consumers, JobStarted(c) \/ Executed(c) \/ ExecutionThrows(c) \/ Finished(c)
      PROVE  ReachInv'
  BY <1>4 DEF JobStarted, Executed, ExecutionThrows, Finished
<1>5. ASSUME NEW c \in Calls, HookThrows(c) PROVE ReachInv'
  BY <1>5 DEF HookThrows
<1>6. ASSUME NEW s \in Stoppers, Stop(s) \/ Stopped(s) PROVE ReachInv'
  BY <1>6 DEF Stop, Stopped
<1> QED BY <1>1, <1>2, <1>3, <1>4, <1>5, <1>6 DEF CallStep, ConsumerStep, StopperStep

\* A stop that begins during a dispatch on the same runtime, and a dispatch that begins
\* during a stop of it, are counted as interrupted; nothing else takes a runtime down.
LEMMA ServiceKept == WorkerTypeOK /\ PlaceInv /\ ServiceInv /\ CallStep => ServiceInv'
<1> SUFFICES ASSUME WorkerTypeOK, PlaceInv, ServiceInv, CallStep PROVE ServiceInv'
  OBVIOUS
<1> USE CallsAssumption
    DEF WorkerTypeOK, PlaceInv, ServiceInv, Stops, Calls, GoesTo, Becomes, InFactory, InStart,
        InDispatch, Answered
<1>1. ASSUME NEW c \in Consumers, Create(c) PROVE ServiceInv'
  BY <1>1 DEF Create
<1>2. ASSUME NEW c \in Consumers, FactoryStarted(c) \/ Register(c) PROVE ServiceInv'
  BY <1>2 DEF FactoryStarted, Register
<1>3. ASSUME NEW c \in Consumers, Dispatch(c) PROVE ServiceInv'
  BY <1>3 DEF Dispatch
<1>4. ASSUME NEW c \in Consumers, Restarted(c) \/ Accepted(c) PROVE ServiceInv'
  BY <1>4 DEF Restarted, Accepted
<1>5. ASSUME NEW c \in Consumers, JobStarted(c) \/ Executed(c) \/ ExecutionThrows(c) \/ Finished(c)
      PROVE  ServiceInv'
  BY <1>5 DEF JobStarted, Executed, ExecutionThrows, Finished
<1>6. ASSUME NEW c \in Calls, HookThrows(c) PROVE ServiceInv'
  BY <1>6 DEF HookThrows
<1>7. ASSUME NEW s \in Stoppers, Stop(s) PROVE ServiceInv'
  BY <1>7 DEF Stop
<1>8. ASSUME NEW s \in Stoppers, Stopped(s) PROVE ServiceInv'
  BY <1>8 DEF Stopped
<1> QED
  BY <1>1, <1>2, <1>3, <1>4, <1>5, <1>6, <1>7, <1>8 DEF CallStep, ConsumerStep, StopperStep

LEMMA OutcomesKept == WorkerTypeOK /\ PlaceInv /\ OutcomeInv /\ CallStep => OutcomeInv'
<1> SUFFICES ASSUME WorkerTypeOK, PlaceInv, OutcomeInv, CallStep PROVE OutcomeInv'
  OBVIOUS
<1> USE CallsAssumption
    DEF WorkerTypeOK, PlaceInv, OutcomeInv, Calls, GoesTo, InFactory, InStart, InDispatch, Answered
<1>1. ASSUME NEW c \in Consumers, Create(c) PROVE OutcomeInv'
  BY <1>1 DEF Create
<1>2. ASSUME NEW c \in Consumers, FactoryStarted(c) \/ Register(c) PROVE OutcomeInv'
  BY <1>2 DEF FactoryStarted, Register
<1>3. ASSUME NEW c \in Consumers, Dispatch(c) \/ Restarted(c) \/ Accepted(c)
      PROVE  OutcomeInv'
  BY <1>3 DEF Dispatch, Restarted, Accepted
<1>4. ASSUME NEW c \in Consumers, JobStarted(c) \/ Executed(c) \/ ExecutionThrows(c) \/ Finished(c)
      PROVE  OutcomeInv'
  BY <1>4 DEF JobStarted, Executed, ExecutionThrows, Finished
<1>5. ASSUME NEW c \in Calls, HookThrows(c) PROVE OutcomeInv'
  BY <1>5 DEF HookThrows
<1>6. ASSUME NEW s \in Stoppers, Stop(s) \/ Stopped(s) PROVE OutcomeInv'
  BY <1>6 DEF Stop, Stopped
<1> QED BY <1>1, <1>2, <1>3, <1>4, <1>5, <1>6 DEF CallStep, ConsumerStep, StopperStep

LEMMA RuntimeSteps == RuntimeInv /\ CallStep => RuntimeInv'
BY WorkerTypes, PlacesKept, WitnessesKept, ReachKept, ServiceKept, OutcomesKept DEF RuntimeInv

------------------------------------------------------------------------------
(* The deliveries *)

\* Calls that failed stay failed, so a job that is given out again has no other taker left.
LEMMA DeliveriesKept ==
    ASSUME SchedulerTypeOK, RuntimeInv, DeliveryInv, jobs \subseteq jobs', [Next]_vars
    PROVE  DeliveryInv'
<1> USE CallsAssumption DEF RuntimeInv, WorkerTypeOK, DeliveryInv, Calls, GoesTo
<1>1. ASSUME NEW c \in Consumers, NEW j \in jobs, Take(c, j) PROVE DeliveryInv'
  <2>1. /\ taken' = [taken EXCEPT ![c] = j]
        /\ \A d \in Consumers : taken[d] = j => pc[d] \in {"refused", "failed"}
        /\ pc[c] = "new"
        /\ \A d \in Consumers : d # c => pc'[d] = pc[d]
    BY <1>1 DEF Take, Takers, Create
  <2> QED BY <2>1
<1>2. ASSUME NEW c \in Consumers, Consume(c) PROVE DeliveryInv'
  <2>1. /\ UNCHANGED <<taken, jobs>>
        /\ pc[c] \notin {"refused", "failed"}
        /\ \A d \in Consumers : d # c => pc'[d] = pc[d]
    <3>1. UNCHANGED <<taken, jobs>>
      BY <1>2 DEF Consume, schedulerVars
    <3>2. CASE FactoryStarted(c) \/ Register(c) \/ Dispatch(c) \/ Restarted(c) \/ Accepted(c)
      BY <3>1, <3>2 DEF FactoryStarted, Register, Dispatch, Restarted, Accepted
    <3>3. CASE JobStarted(c) \/ Executed(c) \/ ExecutionThrows(c) \/ Finished(c)
      BY <3>1, <3>3 DEF JobStarted, Executed, ExecutionThrows, Finished
    <3>4. CASE HookThrows(c)
      BY <3>1, <3>4 DEF HookThrows, InFactory, InStart
    <3> QED BY <1>2, <3>2, <3>3, <3>4 DEF Consume, ConsumerStep
  <2> QED BY <2>1
<1>3. ASSUME NEW s \in Stoppers, StopRuntime(s) PROVE DeliveryInv'
  <2>1. UNCHANGED <<taken, jobs>> /\ \A d \in Consumers : pc'[d] = pc[d]
    BY <1>3 DEF StopRuntime, StopperStep, Stop, Stopped, HookThrows, schedulerVars
  <2> QED BY <2>1
<1>4. ASSUME Schedule PROVE DeliveryInv'
  <2>1. UNCHANGED <<taken, pc>>
    BY <1>4 DEF Schedule, workerVars
  <2> QED BY <2>1
<1>5. ASSUME UNCHANGED vars PROVE DeliveryInv'
  <2>1. UNCHANGED <<taken, pc, jobs>>
    BY <1>5 DEF vars, workerVars, schedulerVars
  <2> QED BY <2>1
<1> QED BY <1>1, <1>2, <1>3, <1>4, <1>5 DEF Next

------------------------------------------------------------------------------
(* The invariant, and what follows from it *)

LEMMA InitIInv == Init => IInv
<1> SUFFICES ASSUME Init PROVE IInv
  OBVIOUS
<1>1. SchedulerTypeOK /\ QueueInv
  BY QueueStarts DEF Init
<1>2. RuntimeInv
  BY RuntimeStarts DEF Init
<1>3. DeliveryInv
  BY DEF Init, DeliveryInv
<1> QED BY <1>1, <1>2, <1>3 DEF IInv

\* A step of the scheduler leaves the runtimes alone, and a step of a call the scheduler.
LEMMA StepIInv == IInv /\ [Next]_vars => IInv'
<1> SUFFICES ASSUME IInv, [Next]_vars PROVE IInv'
  OBVIOUS
<1>1. SchedulerTypeOK' /\ QueueInv' /\ jobs \subseteq jobs'
  <2>1. CASE Schedule
    BY <2>1, QueueSteps DEF Schedule, IInv
  <2>2. CASE UNCHANGED schedulerVars
    BY <2>2 DEF IInv, schedulerVars, SchedulerTypeOK, QueueInv, JobPerDispatch
  <2> QED BY <2>1, <2>2 DEF Next, Consume, Take, StopRuntime, vars
<1>2. RuntimeInv'
  <2>1. CASE CallStep
    BY <2>1, RuntimeSteps DEF IInv
  <2>2. CASE UNCHANGED workerVars
    BY <2>2
    DEF IInv, RuntimeInv, workerVars, WorkerTypeOK, PlaceInv, WitnessInv, ReachInv, ServiceInv,
        OutcomeInv, Starts, Stops
  <2> QED BY <2>1, <2>2 DEF Next, Schedule, Consume, Take, StopRuntime, CallStep, vars
<1>3. DeliveryInv'
  BY <1>1, DeliveriesKept DEF IInv
<1> QED BY <1>1, <1>2, <1>3 DEF IInv

\* The invariant of scheduler, runtimes and deliveries holds in every reachable state.
THEOREM SpecIInv == Spec => []IInv
BY InitIInv, StepIInv, PTL DEF Spec

\* An id is in the queue as often as its trigger was dispatched in its millisecond: no
\* dispatch is without a job, and only dispatches of one millisecond share an id
\* (SchedulerRuntime.dispatchTrigger, BullMqQueueAdapter.enqueue).
THEOREM JobsAreCounted == Spec => []JobPerDispatch
<1>1. IInv => JobPerDispatch
  BY DEF IInv, QueueInv
<1> QED BY <1>1, SpecIInv, PTL

\* Whoever creates, starts, stops and uses runtimes side by side: a runtime that was started
\* can be reached and comes to rest, and jobs are executed while it is up, unless a hook
\* threw, two creations overlapped or a stop met the job.
THEOREM RuntimesAreSound == Spec => []RuntimesHold
<1>1. IInv => RuntimesHold
  <2> SUFFICES ASSUME IInv PROVE RuntimesHold
    OBVIOUS
  <2> USE DEF IInv, RuntimeInv, WorkerTypeOK, Calls
  <2>1. Settled
    <3> SUFFICES ASSUME ~disturbed, \A c \in Calls : ~Working(c), registered # NoRuntime
                 PROVE  lifecycle[registered] \in {"ready", "running", "stopped"}
      BY DEF Settled
    <3>1. Configured /\ registered \in Consumers /\ lifecycle[registered] # "none"
      BY DEF WitnessInv, PlaceInv
    <3>2. \A c \in Calls : pc[c] \notin {"emitStarted", "emitStartedAgain", "emitStopped"}
      BY DEF Working, Answered
    <3>3. lifecycle[registered] \notin {"starting", "stopping"}
      BY <3>1, <3>2 DEF WitnessInv, Starts, Stops
    <3> QED BY <3>1, <3>3 DEF LifecycleStates
  <2>2. NoStrayRuntime
    BY DEF ReachInv, NoStrayRuntime
  <2>3. RunsWhileExecuting
    BY DEF ServiceInv, RunsWhileExecuting, InDispatch
  <2> QED BY <2>1, <2>2, <2>3 DEF RuntimesHold
<1> QED BY <1>1, SpecIInv, PTL

\* What a dispatch answers tells what became of its job, and however often the queue gives
\* a job out, its handler resolves at most once, unless a hook threw.
THEOREM AnswersAreTold == Spec => []AnswersHold
<1>1. IInv => AnswersHold
  <2> SUFFICES ASSUME IInv PROVE AnswersHold
    OBVIOUS
  <2> USE DEF IInv, RuntimeInv
  <2>1. TypeOK
    BY DEF TypeOK, DeliveryInv
  <2>2. AnswersTell
    BY DEF OutcomeInv, AnswersTell
  <2>3. SucceedsOnce
    <3> SUFFICES ASSUME ~disturbed, NEW j \in jobs
                 PROVE  Cardinality(Takers(j) \cap resolved) <= 1
      BY DEF SucceedsOnce
    <3> DEFINE both == Takers(j) \cap resolved
    <3>1. j # NoJob
      BY NoJobAssumption DEF SchedulerTypeOK
    <3>2. \A c, d \in both : c = d
      BY <3>1 DEF Takers, DeliveryInv, OutcomeInv
    <3>3. both = {} \/ \E c \in both : both = {c}
      BY <3>2
    <3> HIDE DEF both
    <3>4. Cardinality(both) \in {0, 1}
      BY <3>3, FS_EmptySet, FS_Singleton
    <3> QED BY <3>4 DEF both
  <2> QED BY <2>1, <2>2, <2>3 DEF AnswersHold
<1> QED BY <1>1, SpecIInv, PTL
==============================================================================
