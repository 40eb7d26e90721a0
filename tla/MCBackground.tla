----------------------------- MODULE MCBackground -----------------------------
(* What goes on behind the API: transactions, the worker's jobs and the queue of
   notifications.  The three share nothing; a behaviour is of one of them.  *)
EXTENDS Persistence, WorkerJobs, NotificationQueue, TLC

CONSTANTS
    Parts,  \* those of the three that are looked at
    c1, c2, c3, j1, j2

VARIABLE part

backgroundVars == <<callVars, workerVars, queueVars, part>>

BackgroundInit ==
    /\ CallInit /\ WorkerInit /\ QueueInit
    /\ part \in Parts

Transact == part = "transactions" /\ CallNext /\ UNCHANGED <<workerVars, queueVars, part>>
Work == part = "jobs" /\ WorkerNext /\ UNCHANGED <<callVars, queueVars, part>>
Notify == part = "notifications" /\ QueueNext /\ UNCHANGED <<callVars, workerVars, part>>

BackgroundNext == Transact \/ Work \/ Notify

\* Each part's own fairness; nothing of it is enabled in the parts that rest.
BackgroundSpec ==
    /\ BackgroundInit /\ [][BackgroundNext]_backgroundVars
    /\ \A c \in Calls : WF_callVars(Proceed(c))
    /\ \A j \in Jobs : WF_workerVars(JobStep(j)) /\ SF_workerVars(Take(j))
    /\ \A p \in Passes : WF_queueVars(Continue(p))

\* c2 is made in a repository of c1, the others from outside.
OneWithin == (c1 :> NoCall @@ c2 :> c1 @@ c3 :> NoCall)

\* Each call has a UUID.
OwnIds == [c \in Calls |-> c]

\* j1 has attempts to spare; j2 asks for one fewer.
MCAttempts == [j \in Jobs |-> IF j = j1 THEN 3 ELSE 2]
=============================================================================
