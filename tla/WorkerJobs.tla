----------------------------- MODULE WorkerJobs -----------------------------
(***************************************************************************)
(* The background worker (apps/worker/src): WorkerService.enqueue and      *)
(* handleJob over a BullMQ queue and a dead-letter queue.                  *)
(*                                                                         *)
(* BullMQ is external, modelled from its use here: it gives a waiting job  *)
(* to at most Concurrency handlers, counts an attempt when the handler     *)
(* rejects (attemptsMade is 0 during the first one), delays the job if     *)
(* attempts are left and fails it if not, and puts the jobs of a worker    *)
(* that died back, once each.  What a processor does is left open: it      *)
(* resolves, or rejects with an error that isTransientFailure tells apart. *)
(***************************************************************************)
EXTENDS Naturals, FiniteSets

CONSTANTS
    Jobs,
    Attempts,     \* options.attempts of each job, 3 by default
    Concurrency,
    QueueMayFail, \* Queue.add may reject
    MaxCrashes    \* bound of the deaths of the worker process

ASSUME JobsAssumption == IsFiniteSet(Jobs) /\ Attempts \in [Jobs -> Nat \ {0}]
ASSUME ConcurrencyAssumption == Concurrency \in Nat \ {0}
ASSUME CrashAssumption == MaxCrashes \in Nat /\ QueueMayFail \in BOOLEAN

VARIABLES
    state,         \* of each job: in the queue, or in its handler
    attemptsMade,
    deadLetters,   \* the copies of each job in the dead-letter queue
    succeeded,     \* history: how often each job's processor resolved
    stalled,       \* the jobs that were in a worker that died
    metrics,
    crashes

workerVars == <<state, attemptsMade, deadLetters, succeeded, stalled, metrics, crashes>>

Counters == {"queued", "processed", "failed", "deadLettered"}

InHandler == {"processing", "deadLettering", "returning"}

Finished == {"refused", "completed", "failed"}

Answered == {"returning", "completed"}

WorkerTypeOK ==
    /\ state \in [Jobs -> {"new", "adding", "waiting", "delayed"} \cup InHandler \cup Finished]
    /\ attemptsMade \in [Jobs -> Nat]
    /\ \A j \in Jobs : attemptsMade[j] <= Attempts[j]
    /\ deadLetters \in [Jobs -> Nat]
    /\ succeeded \in [Jobs -> Nat]
    /\ stalled \subseteq Jobs
    /\ metrics \in [Counters -> Nat]
    /\ crashes \in 0..MaxCrashes

WorkerInit ==
    /\ state = [j \in Jobs |-> "new"]
    /\ attemptsMade = [j \in Jobs |-> 0]
    /\ deadLetters = [j \in Jobs |-> 0]
    /\ succeeded = [j \in Jobs |-> 0]
    /\ stalled = {}
    /\ metrics = [c \in Counters |-> 0]
    /\ crashes = 0

Moves(j, s) == state' = [state EXCEPT ![j] = s]

Count(counter) == metrics' = [metrics EXCEPT ![counter] = @ + 1]

------------------------------------------------------------------------------
(* enqueue *)

Enqueue(j) ==
    /\ state[j] = "new"
    /\ Count("queued")
    /\ Moves(j, "adding")
    /\ UNCHANGED <<attemptsMade, deadLetters, succeeded, stalled, crashes>>

Added(j) ==
    /\ state[j] = "adding"
    /\ \/ Moves(j, "waiting")
       \/ QueueMayFail /\ Moves(j, "refused")
    /\ UNCHANGED <<attemptsMade, deadLetters, succeeded, stalled, metrics, crashes>>

------------------------------------------------------------------------------
(* BullMQ *)

Take(j) ==
    /\ state[j] = "waiting"
    /\ Cardinality({k \in Jobs : state[k] \in InHandler}) < Concurrency
    /\ Moves(j, "processing")
    /\ UNCHANGED <<attemptsMade, deadLetters, succeeded, stalled, metrics, crashes>>

BackoffEnds(j) ==
    /\ state[j] = "delayed"
    /\ Moves(j, "waiting")
    /\ UNCHANGED <<attemptsMade, deadLetters, succeeded, stalled, metrics, crashes>>

\* The handler rejects.
Rejects(j) ==
    /\ attemptsMade' = [attemptsMade EXCEPT ![j] = @ + 1]
    /\ Moves(j, IF attemptsMade[j] + 1 < Attempts[j] THEN "delayed" ELSE "failed")

\* The process dies and another one starts: a job it handled waits again, or
\* fails if that has happened to it before; the metrics are the process's.
Crash ==
    /\ crashes < MaxCrashes
    /\ crashes' = crashes + 1
    /\ metrics' = [c \in Counters |-> 0]
    /\ stalled' = stalled \cup {j \in Jobs : state[j] \in InHandler}
    /\ \E added \in SUBSET {j \in Jobs : state[j] = "adding"} :
           state' = [j \in Jobs |->
               CASE state[j] \in InHandler -> IF j \in stalled THEN "failed" ELSE "waiting"
                 [] state[j] = "adding" -> IF j \in added THEN "waiting" ELSE "refused"
                 [] OTHER -> state[j]]
    /\ UNCHANGED <<attemptsMade, deadLetters, succeeded>>

------------------------------------------------------------------------------
(* handleJob *)

\* resolveRetryDecision: retried, or else dead-lettered
ShouldRetry(transient, made, max) == transient /\ max > made

Processed(j) ==
    /\ state[j] = "processing"
    /\ succeeded' = [succeeded EXCEPT ![j] = @ + 1]
    /\ Count("processed")
    /\ Moves(j, "returning")
    /\ UNCHANGED <<attemptsMade, deadLetters, stalled, crashes>>

\* Mutants: a job to be retried is put back by hand, and nothing is counted; the
\* failure of an attempt that is dead-lettered is not counted.
RequeuedByHandler(j, transient) ==
    /\ state[j] = "processing"
    /\ Moves(j, IF ShouldRetry(transient, attemptsMade[j], Attempts[j])
                THEN "waiting" ELSE "deadLettering")
    /\ UNCHANGED <<attemptsMade, metrics, deadLetters, succeeded, stalled, crashes>>

CountsRetriesOnly(j, transient) ==
    /\ state[j] = "processing"
    /\ IF ShouldRetry(transient, attemptsMade[j], Attempts[j])
       THEN Rejects(j) /\ Count("failed")
       ELSE Moves(j, "deadLettering") /\ UNCHANGED attemptsMade /\ Count("deadLettered")
    /\ UNCHANGED <<deadLetters, succeeded, stalled, crashes>>

\* The error is thrown on, or the job is sent to the dead-letter queue.
ProcessorFails(j, transient) ==
    /\ state[j] = "processing"
    /\ IF ShouldRetry(transient, attemptsMade[j], Attempts[j])
       THEN Rejects(j) /\ Count("failed")
       ELSE /\ Moves(j, "deadLettering")
            /\ metrics' = [metrics EXCEPT !["failed"] = @ + 1, !["deadLettered"] = @ + 1]
            /\ UNCHANGED attemptsMade
    /\ UNCHANGED <<deadLetters, succeeded, stalled, crashes>>

DeadLettered(j) ==
    /\ state[j] = "deadLettering"
    /\ deadLetters' = [deadLetters EXCEPT ![j] = @ + 1]
    /\ Moves(j, "returning")
    /\ UNCHANGED <<attemptsMade, succeeded, stalled, metrics, crashes>>

\* sendToDeadLetterQueue: the rejection of its add is the handler's.
DeadLetterRefused(j) ==
    /\ QueueMayFail
    /\ state[j] = "deadLettering"
    /\ Rejects(j)
    /\ UNCHANGED <<deadLetters, succeeded, stalled, metrics, crashes>>

\* BullMQ hears that the handler resolved.
Completes(j) ==
    /\ state[j] = "returning"
    /\ Moves(j, "completed")
    /\ UNCHANGED <<attemptsMade, deadLetters, succeeded, stalled, metrics, crashes>>

JobStep(j) ==
    \/ Added(j) \/ Take(j) \/ BackoffEnds(j) \/ Processed(j)
    \/ \E transient \in BOOLEAN : ProcessorFails(j, transient)
    \/ DeadLettered(j) \/ DeadLetterRefused(j) \/ Completes(j)

WorkerAtRest ==
    /\ \A j \in Jobs : state[j] \in Finished
    /\ UNCHANGED workerVars

WorkerNext ==
    \/ \E j \in Jobs : Enqueue(j) \/ JobStep(j)
    \/ Crash
    \/ WorkerAtRest

WorkerSpec == WorkerInit /\ [][WorkerNext]_workerVars

\* Redis answers, processors settle and timers fire.  The jobs compete for the
\* handlers, and none waits for ever: BullMQ's list is first in, first out.
FairWorkerSpec == WorkerSpec /\ \A j \in Jobs : WF_workerVars(JobStep(j)) /\ SF_workerVars(Take(j))

------------------------------------------------------------------------------
(* Properties *)

\* The sum of what f counts of each job, by a mark for each time it counted one
Marks(f) == UNION {{j} \X (1..f[j]) : j \in Jobs}

Total(f) == Cardinality(Marks(f))

In(place) == {j \in Jobs : state[j] = place}

\* While one process lives, its metrics are what became of the jobs: a failure
\* for each attempt that was counted or dead-lettered, a job processed for each
\* that succeeded, no dead letter that was not counted.
MetricsAgree ==
    crashes = 0 =>
        /\ metrics["failed"] = Total(attemptsMade) + Total(deadLetters)
               + Cardinality(In("deadLettering"))
        /\ metrics["processed"] = Total(succeeded)
        /\ metrics["deadLettered"] >= Total(deadLetters)
        /\ metrics["queued"] = Cardinality(Jobs \ In("new"))

Outcomes(j) == deadLetters[j] + succeeded[j]

\* A job whose worker did not die succeeds or is dead-lettered exactly once before
\* BullMQ hears that it is completed, and not at all if BullMQ counts it as failed: then
\* its attempts are used up.  A job whose worker died has an outcome if it completes, and
\* two at the most, however often workers die.
OneOutcome ==
    \A j \in Jobs :
        IF j \notin stalled
        THEN /\ Outcomes(j) = (IF state[j] \in Answered THEN 1 ELSE 0)
             /\ state[j] = "failed" => attemptsMade[j] = Attempts[j]
        ELSE Outcomes(j) \in (IF state[j] \in Answered THEN 1..2 ELSE 0..2)

\* A job that fails for good, or whose attempts are used up, is moved to the dead-letter
\* queue, as apps/worker/README.md has it.
ExhaustedIsDeadLettered == \A j \in Jobs : state[j] = "failed" => deadLetters[j] > 0

\* A job that is queued ends, whatever fails: its attempts run out, and so do
\* its returns from dead workers.
JobsEnd == \A j \in Jobs : state[j] = "waiting" ~> state[j] \in Finished

\* Every job is accounted for: by the worker's metrics while it lives, and by its
\* outcome whether it does or not.
JobsAccounted == WorkerTypeOK /\ MetricsAgree /\ OneOutcome
==============================================================================
