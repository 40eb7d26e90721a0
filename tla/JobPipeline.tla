----------------------------- MODULE JobPipeline -----------------------------
(***************************************************************************)
(* The scheduler's jobs on their way to the workers: a consumer takes a    *)
(* job that is due from the queue, gets the runtime from the registry and  *)
(* dispatches the job.                                                     *)
(*                                                                         *)
(* The delivery is external: a job goes to one consumer at a time, and is  *)
(* given out again while its dispatch fails and attempts are left.         *)
(***************************************************************************)
EXTENDS Scheduler, WorkerRuntime

CONSTANT NoJob

ASSUME NoJobAssumption == NoJob \notin Job

VARIABLE taken \* the job of each consumer

vars == <<schedulerVars, workerVars, taken>>

TypeOK ==
    /\ SchedulerTypeOK
    /\ WorkerTypeOK
    /\ taken \in [Consumers -> jobs \cup {NoJob}]

Init ==
    /\ SchedulerInit
    /\ WorkerInit
    /\ taken = [c \in Consumers |-> NoJob]

Takers(j) == {c \in Consumers : taken[c] = j}

Take(c, j) ==
    /\ j.due <= clock
    /\ \A d \in Takers(j) : pc[d] \in {"refused", "failed"}
    /\ Cardinality(Takers(j)) < j.attempts
    /\ taken' = [taken EXCEPT ![c] = j]
    /\ Create(c)
    /\ UNCHANGED schedulerVars

Schedule == SchedulerNext /\ UNCHANGED <<workerVars, taken>>

Consume(c) == ConsumerStep(c) /\ UNCHANGED <<schedulerVars, taken>>

StopRuntime(s) == (Stop(s) \/ StopperStep(s)) /\ UNCHANGED <<schedulerVars, taken>>

Next ==
    \/ Schedule
    \/ \E c \in Consumers : Consume(c) \/ \E j \in jobs : Take(c, j)
    \/ \E s \in Stoppers : StopRuntime(s)

Spec == Init /\ [][Next]_vars

\* Node resumes every call whose promise is settled, and hooks and handlers
\* settle theirs.  Nobody has to schedule, and no queue has to deliver.
FairSpec ==
    /\ Spec
    /\ \A c \in Consumers : WF_vars(Consume(c))
    /\ \A s \in Stoppers : WF_vars(StopperStep(s) /\ UNCHANGED <<schedulerVars, taken>>)

------------------------------------------------------------------------------
(* Properties *)

\* However often the queue gives a job out again, its handler resolves at most
\* once, unless a hook threw after it.
SucceedsOnce ==
    ~disturbed => \A j \in jobs : Cardinality(Takers(j) \cap resolved) <= 1

\* What a dispatch answers tells what became of its job, and no job succeeds twice.
AnswersHold == TypeOK /\ AnswersTell /\ SucceedsOnce

\* Every call that has begun ends, whatever is thrown and whoever stops the
\* runtime meanwhile.  Each consumer and stopper makes one call.
CallsEnd == <>[](\A c \in Calls : ~Working(c))
==============================================================================
