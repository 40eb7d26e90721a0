-------------------------- MODULE BackgroundProofs --------------------------
(***************************************************************************)
(* What is done beside the requests: the jobs of the background worker,    *)
(* the notification queue, and the calls of the persistence coordinator.   *)
(* The three share nothing; each has an inductive invariant of its own.    *)
(***************************************************************************)
EXTENDS WorkerJobs, NotificationQueue, Persistence, FiniteSetTheorems,
        SequenceTheorems, WellFoundedInduction, TLAPS

------------------------------------------------------------------------------
(* The background worker *)

\* The marks that Total counts are finitely many.
MarksInv ==
    /\ IsFiniteSet(Marks(attemptsMade))
    /\ IsFiniteSet(Marks(deadLetters))
    /\ IsFiniteSet(Marks(succeeded))

\* What the metrics are compared with
Attempted == Total(attemptsMade)
Lettered == Total(deadLetters)
Resolved == Total(succeeded)
Lettering == Cardinality(In("deadLettering"))
Used == Cardinality(Jobs \ In("new"))

\* A dead letter that is on its way is counted, too.
MetricsInv ==
    crashes = 0 =>
        /\ metrics["failed"] = Attempted + Lettered + Lettering
        /\ metrics["processed"] = Resolved
        /\ metrics["deadLettered"] >= Lettered + Lettering
        /\ metrics["queued"] = Used

\* A job has its outcome once its handler returns, and an earlier one only if a worker
\* died with it.
OutcomeInv ==
    \A j \in Jobs :
        /\ j \notin stalled =>
               /\ Outcomes(j) = (IF state[j] \in Answered THEN 1 ELSE 0)
               /\ state[j] = "failed" => attemptsMade[j] = Attempts[j]
        /\ j \in stalled =>
               /\ Outcomes(j) <= (IF state[j] \in Answered \cup {"failed"} THEN 2 ELSE 1)
               /\ state[j] \in Answered => Outcomes(j) >= 1

\* A job that has not ended has an attempt left.
AttemptInv == \A j \in Jobs : state[j] \notin Finished => attemptsMade[j] < Attempts[j]

WorkerInv == WorkerTypeOK /\ MarksInv /\ MetricsInv /\ OutcomeInv /\ AttemptInv

\* What one job counts once more adds one to the total.
LEMMA TotalGrows ==
    ASSUME NEW f \in [Jobs -> Nat], IsFiniteSet(Marks(f)), NEW j \in Jobs,
           NEW g, g = [f EXCEPT ![j] = @ + 1]
    PROVE  IsFiniteSet(Marks(g)) /\ Total(g) = Total(f) + 1
  <1> DEFINE mark == <<j, f[j] + 1>>
  <1>1. Marks(g) = Marks(f) \cup {mark}
    <2>1. \A k \in Jobs \ {j} : g[k] = f[k]
      OBVIOUS
    <2>2. g[j] = f[j] + 1 /\ 1..g[j] = (1..f[j]) \cup {f[j] + 1}
      OBVIOUS
    <2>3. ASSUME NEW m \in Marks(g) PROVE m \in Marks(f) \cup {mark}
      <3>1. PICK k \in Jobs : m \in {k} \X (1..g[k])
        BY DEF Marks
      <3>2. CASE k = j
        BY <2>2, <3>1, <3>2 DEF Marks
      <3>3. CASE k # j
        BY <2>1, <3>1, <3>3 DEF Marks
      <3> QED
        BY <3>2, <3>3
    <2>4. ASSUME NEW m \in Marks(f) PROVE m \in Marks(g)
      <3>1. PICK k \in Jobs : m \in {k} \X (1..f[k])
        BY DEF Marks
      <3>2. 1..f[k] \subseteq 1..g[k]
        BY <2>1, <2>2
      <3> QED
        BY <3>1, <3>2 DEF Marks
    <2>5. mark \in Marks(g)
      BY <2>2 DEF Marks
    <2> QED
      BY <2>3, <2>4, <2>5
  <1>2. mark \notin Marks(f)
    <2> SUFFICES ASSUME NEW k \in Jobs, mark \in {k} \X (1..f[k]) PROVE FALSE
      BY DEF Marks
    <2> QED
      OBVIOUS
  <1> HIDE DEF mark
  <1>3. /\ IsFiniteSet(Marks(f) \cup {mark})
        /\ Cardinality(Marks(f) \cup {mark}) = Cardinality(Marks(f)) + 1
    BY <1>2, FS_AddElement
  <1> QED
    BY <1>1, <1>3 DEF Total

LEMMA CountsAreNumbers ==
    ASSUME MarksInv
    PROVE  Attempted \in Nat /\ Lettered \in Nat /\ Resolved \in Nat /\ Lettering \in Nat /\ Used \in Nat
  <1>1. IsFiniteSet(In("deadLettering")) /\ IsFiniteSet(Jobs \ In("new"))
    BY JobsAssumption, FS_Subset DEF In
  <1> QED
    BY <1>1, FS_CardinalityType
    DEF MarksInv, Attempted, Lettered, Resolved, Lettering, Used, Total

\* f becomes g, which counts n more of the job j.
Counts(f, g, j, n) ==
    \/ n = 0 /\ g = f
    \/ n = 1 /\ g = [f EXCEPT ![j] = @ + 1]

LEMMA TotalMoves ==
    ASSUME NEW f \in [Jobs -> Nat], IsFiniteSet(Marks(f)), NEW j \in Jobs, NEW g, NEW n,
           Counts(f, g, j, n)
    PROVE  IsFiniteSet(Marks(g)) /\ Total(g) = Total(f) + n /\ n \in Nat
  <1>1. Total(f) \in Nat
    BY FS_CardinalityType DEF Total
  <1>2. CASE n = 0 /\ g = f
    BY <1>1, <1>2
  <1>3. CASE n = 1 /\ g = [f EXCEPT ![j] = @ + 1]
    BY <1>3, TotalGrows
  <1> QED
    BY <1>2, <1>3 DEF Counts

\* The places of the jobs, after one of them has moved
LEMMA PlacesMove ==
    ASSUME WorkerTypeOK, NEW j \in Jobs, NEW s, Moves(j, s), s # "new"
    PROVE  /\ Lettering' + (IF state[j] = "deadLettering" THEN 1 ELSE 0)
                = Lettering + (IF s = "deadLettering" THEN 1 ELSE 0)
           /\ Used' = Used + (IF state[j] = "new" THEN 1 ELSE 0)
           /\ Lettering' \in Nat
  <1> DEFINE dead == In("deadLettering")
             used == Jobs \ In("new")
  <1>1. IsFiniteSet(dead) /\ IsFiniteSet(used)
    BY JobsAssumption, FS_Subset DEF In
  <1>2. state'[j] = s /\ \A k \in Jobs \ {j} : state'[k] = state[k]
    BY DEF WorkerTypeOK, Moves
  <1>3. dead' = IF s = "deadLettering" THEN dead \cup {j} ELSE dead \ {j}
    BY <1>2 DEF In
  <1>4. used' = used \cup {j}
    BY <1>2 DEF In
  <1>5. (j \in dead <=> state[j] = "deadLettering") /\ (j \in used <=> state[j] # "new")
    BY DEF In
  <1>6. Cardinality(dead) \in Nat /\ Cardinality(used) \in Nat
    BY <1>1, FS_CardinalityType
  <1>7. Cardinality(used') = IF j \in used THEN Cardinality(used) ELSE Cardinality(used) + 1
    BY <1>1, <1>4, FS_AddElement
  <1>8. CASE s = "deadLettering"
    <2>1. Cardinality(dead') = IF j \in dead THEN Cardinality(dead) ELSE Cardinality(dead) + 1
      BY <1>1, <1>3, <1>8, FS_AddElement
    <2> QED
      BY <1>5, <1>6, <1>7, <1>8, <2>1 DEF Lettering, Used
  <1>9. CASE s # "deadLettering"
    <2>1. Cardinality(dead') = IF j \in dead THEN Cardinality(dead) - 1 ELSE Cardinality(dead)
      BY <1>1, <1>3, <1>9, FS_RemoveElement
    <2>2. j \in dead => Cardinality(dead) # 0
      BY <1>1, FS_EmptySet
    <2> QED
      BY <1>5, <1>6, <1>7, <1>9, <2>1, <2>2 DEF Lettering, Used
  <1> QED
    BY <1>8, <1>9

\* The metrics follow a step of the job j to s that counts a attempts, d dead letters and
\* r results.
MetricsFollow(j, s, a, d, r) ==
    /\ metrics' \in [Counters -> Nat]
    /\ Counts(attemptsMade, attemptsMade', j, a)
    /\ Counts(deadLetters, deadLetters', j, d)
    /\ Counts(succeeded, succeeded', j, r)
    /\ metrics'["failed"] + (IF state[j] = "deadLettering" THEN 1 ELSE 0)
           = metrics["failed"] + a + d + (IF s = "deadLettering" THEN 1 ELSE 0)
    /\ metrics'["processed"] = metrics["processed"] + r
    /\ metrics'["deadLettered"] + (IF state[j] = "deadLettering" THEN 1 ELSE 0)
           >= metrics["deadLettered"] + d + (IF s = "deadLettering" THEN 1 ELSE 0)
    /\ metrics'["queued"] = metrics["queued"] + (IF state[j] = "new" THEN 1 ELSE 0)

\* Such a step keeps the invariant of the metrics.
LEMMA MetricsMove ==
    ASSUME WorkerTypeOK, MarksInv, MetricsInv, UNCHANGED crashes,
           NEW j \in Jobs, NEW s, Moves(j, s), s # "new",
           NEW a \in Nat, NEW d \in Nat, NEW r \in Nat, MetricsFollow(j, s, a, d, r)
    PROVE  MarksInv' /\ MetricsInv'
  <1> USE DEF MetricsFollow
  <1>1. IsFiniteSet(Marks(attemptsMade')) /\ Total(attemptsMade') = Total(attemptsMade) + a /\ a \in Nat
    BY TotalMoves DEF WorkerTypeOK, MarksInv
  <1>2. IsFiniteSet(Marks(deadLetters')) /\ Total(deadLetters') = Total(deadLetters) + d /\ d \in Nat
    BY TotalMoves DEF WorkerTypeOK, MarksInv
  <1>3. IsFiniteSet(Marks(succeeded')) /\ Total(succeeded') = Total(succeeded) + r /\ r \in Nat
    BY TotalMoves DEF WorkerTypeOK, MarksInv
  <1>4. MarksInv'
    BY <1>1, <1>2, <1>3 DEF MarksInv
  <1>5. Attempted' = Attempted + a /\ Lettered' = Lettered + d /\ Resolved' = Resolved + r
    BY <1>1, <1>2, <1>3 DEF Attempted, Lettered, Resolved
  <1>6. /\ metrics["failed"] \in Nat /\ metrics["processed"] \in Nat
        /\ metrics["deadLettered"] \in Nat /\ metrics["queued"] \in Nat
        /\ metrics'["deadLettered"] \in Nat
    BY DEF WorkerTypeOK, Counters
  <1>7. MetricsInv'
    <2> SUFFICES ASSUME crashes = 0 PROVE MetricsInv'
      BY DEF MetricsInv
    <2>1. /\ metrics["failed"] = Attempted + Lettered + Lettering
          /\ metrics["processed"] = Resolved
          /\ metrics["deadLettered"] >= Lettered + Lettering
          /\ metrics["queued"] = Used
      BY DEF MetricsInv
    <2> DEFINE was == IF state[j] = "deadLettering" THEN 1 ELSE 0
               is == IF s = "deadLettering" THEN 1 ELSE 0
               first == IF state[j] = "new" THEN 1 ELSE 0
    <2>2. /\ metrics'["failed"] + was = metrics["failed"] + a + d + is
          /\ metrics'["processed"] = metrics["processed"] + r
          /\ metrics'["deadLettered"] + was >= metrics["deadLettered"] + d + is
          /\ metrics'["queued"] = metrics["queued"] + first
      OBVIOUS
    <2>3. Lettering' + was = Lettering + is /\ Used' = Used + first /\ Lettering' \in Nat
      BY PlacesMove
    <2>4. /\ was \in Nat /\ is \in Nat /\ first \in Nat
          /\ metrics'["failed"] \in Nat /\ metrics'["deadLettered"] \in Nat
      BY DEF Counters
    <2> HIDE DEF was, is, first, MetricsFollow
    <2>5. metrics'["failed"] = Attempted' + Lettered' + Lettering'
      BY <1>1, <1>2, <1>5, <2>1, <2>2, <2>3, <2>4, CountsAreNumbers
    <2>6. metrics'["deadLettered"] >= Lettered' + Lettering'
      BY <1>2, <1>5, <1>6, <2>1, <2>2, <2>3, <2>4, CountsAreNumbers
    <2> QED
      BY <1>5, <2>1, <2>2, <2>3, <2>5, <2>6 DEF MetricsInv
  <1> QED
    BY <1>4, <1>7

LEMMA WorkerInitially == WorkerInit => WorkerInv
  <1> SUFFICES ASSUME WorkerInit PROVE WorkerInv
    OBVIOUS
  <1>1. WorkerTypeOK
    BY JobsAssumption, CrashAssumption DEF WorkerInit, WorkerTypeOK, Counters
  <1>2. Marks([j \in Jobs |-> 0]) = {}
    BY DEF Marks
  <1>3. In("deadLettering") = {} /\ Jobs \ In("new") = {}
    BY DEF WorkerInit, In
  <1>4. MarksInv /\ MetricsInv
    BY <1>2, <1>3, FS_EmptySet DEF WorkerInit, MarksInv, MetricsInv, Total, Counters, Attempted, Lettered, Resolved,
        Lettering, Used
  <1>5. OutcomeInv
    BY DEF WorkerInit, OutcomeInv, Outcomes, Answered
  <1>6. AttemptInv
    BY JobsAssumption DEF WorkerInit, AttemptInv
  <1> QED
    BY <1>1, <1>4, <1>5, <1>6 DEF WorkerInv

LEMMA WorkerStep == WorkerInv /\ [WorkerNext]_workerVars => WorkerInv'
  <1> SUFFICES ASSUME WorkerInv, [WorkerNext]_workerVars PROVE WorkerInv'
    OBVIOUS
  <1> USE JobsAssumption, CrashAssumption DEF WorkerInv
  <1>1. ASSUME NEW j \in Jobs, Enqueue(j) PROVE WorkerInv'
    <2>1. WorkerTypeOK'
      BY <1>1 DEF Enqueue, Moves, Count, WorkerTypeOK, Counters
    <2>2. OutcomeInv' /\ AttemptInv'
      BY <1>1 DEF Enqueue, Moves, WorkerTypeOK, OutcomeInv, Outcomes, Answered, AttemptInv, Finished
    <2>3. MarksInv' /\ MetricsInv'
      <3>1. /\ Counts(attemptsMade, attemptsMade', j, 0) /\ Counts(deadLetters, deadLetters', j, 0)
            /\ Counts(succeeded, succeeded', j, 0)
        BY <1>1 DEF Enqueue, Counts
      <3>2. /\ metrics' \in [Counters -> Nat] /\ metrics'["queued"] = metrics["queued"] + 1
            /\ \A c \in Counters \ {"queued"} : metrics'[c] = metrics[c]
            /\ \A c \in Counters : metrics[c] \in Nat
        BY <1>1, <2>1 DEF Enqueue, Count, WorkerTypeOK
      <3>3. Moves(j, "adding") /\ state[j] = "new" /\ UNCHANGED crashes
        BY <1>1 DEF Enqueue
      <3>4. MetricsFollow(j, "adding", 0, 0, 0)
        BY <3>1, <3>2, <3>3 DEF MetricsFollow, Counters
      <3> QED
        BY <3>3, <3>4, MetricsMove
    <2> QED
      BY <2>1, <2>2, <2>3
  <1>2. ASSUME NEW j \in Jobs, Added(j) \/ Take(j) \/ BackoffEnds(j) \/ Completes(j)
        PROVE  WorkerInv'
    <2>1. PICK s \in {"waiting", "refused", "processing", "completed"} :
              /\ Moves(j, s)
              /\ state[j] \notin Finished \cup {"new", "deadLettering"}
              /\ state[j] \in Answered <=> s = "completed"
      BY <1>2 DEF Added, Take, BackoffEnds, Completes, Finished, Answered
    <2>2. UNCHANGED <<attemptsMade, deadLetters, succeeded, stalled, metrics, crashes>>
      BY <1>2 DEF Added, Take, BackoffEnds, Completes
    <2>3. WorkerTypeOK'
      BY <2>1, <2>2 DEF Moves, WorkerTypeOK, InHandler, Finished
    <2>4. OutcomeInv' /\ AttemptInv'
      BY <2>1, <2>2 DEF Moves, WorkerTypeOK, OutcomeInv, Outcomes, Answered, AttemptInv, Finished
    <2>5. MarksInv' /\ MetricsInv'
      <3>1. /\ Counts(attemptsMade, attemptsMade', j, 0) /\ Counts(deadLetters, deadLetters', j, 0)
            /\ Counts(succeeded, succeeded', j, 0)
        BY <2>2 DEF Counts
      <3>2. metrics' \in [Counters -> Nat] /\ \A c \in Counters : metrics[c] \in Nat
        BY <2>2 DEF WorkerTypeOK
      <3>3. MetricsFollow(j, s, 0, 0, 0)
        BY <2>1, <2>2, <3>1, <3>2 DEF MetricsFollow, Counters
      <3> QED
        BY <2>1, <2>2, <3>3, MetricsMove
    <2> QED
      BY <2>3, <2>4, <2>5
  <1>3. ASSUME NEW j \in Jobs, Processed(j) PROVE WorkerInv'
    <2>1. WorkerTypeOK'
      BY <1>3 DEF Processed, Moves, Count, WorkerTypeOK, Counters, InHandler
    <2>2. OutcomeInv' /\ AttemptInv'
      BY <1>3 DEF Processed, Moves, WorkerTypeOK, OutcomeInv, Outcomes, Answered, AttemptInv, Finished
    <2>3. /\ Counts(attemptsMade, attemptsMade', j, 0) /\ Counts(deadLetters, deadLetters', j, 0)
          /\ Counts(succeeded, succeeded', j, 1)
      BY <1>3 DEF Processed, Counts
    <2>4. /\ metrics' \in [Counters -> Nat] /\ metrics'["processed"] = metrics["processed"] + 1
          /\ \A c \in Counters \ {"processed"} : metrics'[c] = metrics[c]
          /\ \A c \in Counters : metrics[c] \in Nat
      BY <1>3, <2>1 DEF Processed, Count, WorkerTypeOK
    <2>5. Moves(j, "returning") /\ state[j] = "processing" /\ UNCHANGED crashes
      BY <1>3 DEF Processed
    <2>6. MetricsFollow(j, "returning", 0, 0, 1)
      BY <2>3, <2>4, <2>5 DEF MetricsFollow, Counters
    <2>7. MarksInv' /\ MetricsInv'
      BY <2>5, <2>6, MetricsMove
    <2> QED
      BY <2>1, <2>2, <2>7
  <1>4. ASSUME NEW j \in Jobs, NEW transient \in BOOLEAN, ProcessorFails(j, transient)
        PROVE  WorkerInv'
    <2>1. state[j] = "processing" /\ UNCHANGED <<deadLetters, succeeded, stalled, crashes>>
      BY <1>4 DEF ProcessorFails
    <2>2. CASE Rejects(j) /\ Count("failed")
      <3>1. attemptsMade[j] < Attempts[j]
        BY <2>1 DEF AttemptInv, Finished
      <3>2. PICK s \in {"delayed", "failed"} :
                /\ Moves(j, s)
                /\ s = "delayed" => attemptsMade[j] + 1 < Attempts[j]
                /\ s = "failed" => attemptsMade[j] + 1 = Attempts[j]
        BY <2>2, <3>1 DEF Rejects, WorkerTypeOK
      <3>3. attemptsMade' = [attemptsMade EXCEPT ![j] = @ + 1]
        BY <2>2 DEF Rejects
      <3>4. WorkerTypeOK'
        BY <2>1, <2>2, <3>1, <3>2, <3>3 DEF Moves, Count, WorkerTypeOK, Counters, Finished
      <3>5. OutcomeInv' /\ AttemptInv'
        BY <2>1, <3>2, <3>3 DEF Moves, WorkerTypeOK, OutcomeInv, Outcomes, Answered, AttemptInv, Finished
      <3>6. /\ Counts(attemptsMade, attemptsMade', j, 1) /\ Counts(deadLetters, deadLetters', j, 0)
            /\ Counts(succeeded, succeeded', j, 0)
        BY <2>1, <3>3 DEF Counts
      <3>7. /\ metrics' \in [Counters -> Nat] /\ metrics'["failed"] = metrics["failed"] + 1
            /\ \A c \in Counters \ {"failed"} : metrics'[c] = metrics[c]
            /\ \A c \in Counters : metrics[c] \in Nat
        BY <2>2, <3>4 DEF Count, WorkerTypeOK
      <3>8. MetricsFollow(j, s, 1, 0, 0)
        BY <2>1, <3>2, <3>6, <3>7 DEF MetricsFollow, Counters
      <3>9. MarksInv' /\ MetricsInv'
        BY <2>1, <3>2, <3>8, MetricsMove
      <3> QED
        BY <3>4, <3>5, <3>9
    <2>3. CASE /\ Moves(j, "deadLettering") /\ UNCHANGED attemptsMade
               /\ metrics' = [metrics EXCEPT !["failed"] = @ + 1, !["deadLettered"] = @ + 1]
      <3>1. /\ metrics'["failed"] = metrics["failed"] + 1
            /\ metrics'["deadLettered"] = metrics["deadLettered"] + 1
            /\ metrics'["processed"] = metrics["processed"]
            /\ metrics'["queued"] = metrics["queued"]
            /\ metrics' \in [Counters -> Nat]
        BY <2>3 DEF WorkerTypeOK, Counters
      <3>2. WorkerTypeOK'
        BY <2>1, <2>3, <3>1 DEF Moves, WorkerTypeOK, InHandler
      <3>3. OutcomeInv' /\ AttemptInv'
        BY <2>1, <2>3 DEF Moves, WorkerTypeOK, OutcomeInv, Outcomes, Answered, AttemptInv, Finished
      <3>4. MarksInv' /\ MetricsInv'
        <4>1. /\ Counts(attemptsMade, attemptsMade', j, 0) /\ Counts(deadLetters, deadLetters', j, 0)
              /\ Counts(succeeded, succeeded', j, 0)
          BY <2>1, <2>3 DEF Counts
        <4>2. \A c \in Counters : metrics[c] \in Nat
          BY DEF WorkerTypeOK
        <4>3. MetricsFollow(j, "deadLettering", 0, 0, 0)
          BY <2>1, <3>1, <4>1, <4>2 DEF MetricsFollow, Counters
        <4> QED
          BY <2>1, <2>3, <4>3, MetricsMove
      <3> QED
        BY <3>2, <3>3, <3>4
    <2> QED
      BY <1>4, <2>2, <2>3 DEF ProcessorFails
  <1>5. ASSUME NEW j \in Jobs, DeadLettered(j) PROVE WorkerInv'
    <2>1. WorkerTypeOK'
      BY <1>5 DEF DeadLettered, Moves, WorkerTypeOK, InHandler
    <2>2. OutcomeInv' /\ AttemptInv'
      BY <1>5 DEF DeadLettered, Moves, WorkerTypeOK, OutcomeInv, Outcomes, Answered, AttemptInv, Finished
    <2>3. /\ Counts(attemptsMade, attemptsMade', j, 0) /\ Counts(deadLetters, deadLetters', j, 1)
          /\ Counts(succeeded, succeeded', j, 0)
      BY <1>5 DEF DeadLettered, Counts
    <2>4. metrics' \in [Counters -> Nat] /\ \A c \in Counters : metrics[c] \in Nat
      BY <1>5 DEF DeadLettered, WorkerTypeOK
    <2>5. /\ Moves(j, "returning") /\ state[j] = "deadLettering" /\ UNCHANGED <<metrics, crashes>>
      BY <1>5 DEF DeadLettered
    <2>6. MetricsFollow(j, "returning", 0, 1, 0)
      BY <2>3, <2>4, <2>5 DEF MetricsFollow, Counters
    <2>7. MarksInv' /\ MetricsInv'
      BY <2>5, <2>6, MetricsMove
    <2> QED
      BY <2>1, <2>2, <2>7
  <1>6. ASSUME NEW j \in Jobs, DeadLetterRefused(j) PROVE WorkerInv'
    <2>1. /\ state[j] = "deadLettering" /\ attemptsMade[j] < Attempts[j]
          /\ UNCHANGED <<deadLetters, succeeded, stalled, metrics, crashes>>
      BY <1>6 DEF DeadLetterRefused, AttemptInv, Finished
    <2>2. PICK s \in {"delayed", "failed"} :
              /\ Moves(j, s)
              /\ s = "delayed" => attemptsMade[j] + 1 < Attempts[j]
              /\ s = "failed" => attemptsMade[j] + 1 = Attempts[j]
      BY <1>6, <2>1 DEF DeadLetterRefused, Rejects, WorkerTypeOK
    <2>3. attemptsMade' = [attemptsMade EXCEPT ![j] = @ + 1]
      BY <1>6 DEF DeadLetterRefused, Rejects
    <2>4. WorkerTypeOK'
      BY <2>1, <2>2, <2>3 DEF Moves, WorkerTypeOK, Finished
    <2>5. OutcomeInv' /\ AttemptInv'
      BY <2>1, <2>2, <2>3 DEF Moves, WorkerTypeOK, OutcomeInv, Outcomes, Answered, AttemptInv, Finished
    <2>6. /\ Counts(attemptsMade, attemptsMade', j, 1) /\ Counts(deadLetters, deadLetters', j, 0)
          /\ Counts(succeeded, succeeded', j, 0)
      BY <2>1, <2>3 DEF Counts
    <2>7. metrics' \in [Counters -> Nat] /\ \A c \in Counters : metrics[c] \in Nat
      BY <2>1 DEF WorkerTypeOK
    <2>8. MetricsFollow(j, s, 1, 0, 0)
      BY <2>1, <2>2, <2>6, <2>7 DEF MetricsFollow, Counters
    <2>9. MarksInv' /\ MetricsInv'
      BY <2>1, <2>2, <2>8, MetricsMove
    <2> QED
      BY <2>4, <2>5, <2>9
  <1>7. ASSUME Crash PROVE WorkerInv'
    <2>1. PICK added \in SUBSET In("adding") :
              state' = [j \in Jobs |->
                  CASE state[j] \in InHandler -> IF j \in stalled THEN "failed" ELSE "waiting"
                    [] state[j] = "adding" -> IF j \in added THEN "waiting" ELSE "refused"
                    [] OTHER -> state[j]]
      BY <1>7 DEF Crash, In
    <2>2. /\ crashes' = crashes + 1 /\ crashes < MaxCrashes
          /\ metrics' = [c \in Counters |-> 0]
          /\ stalled' = stalled \cup {j \in Jobs : state[j] \in InHandler}
          /\ UNCHANGED <<attemptsMade, deadLetters, succeeded>>
      BY <1>7 DEF Crash
    <2>3. \A j \in Jobs :
              /\ state[j] \in InHandler => state'[j] = IF j \in stalled THEN "failed" ELSE "waiting"
              /\ state[j] = "adding" => state'[j] \in {"waiting", "refused"}
              /\ state[j] \notin InHandler /\ state[j] # "adding" => state'[j] = state[j]
      BY <2>1 DEF InHandler
    <2>4. state' \in [Jobs -> {"new", "adding", "waiting", "delayed"} \cup InHandler \cup Finished]
      <3>1. ASSUME NEW j \in Jobs
            PROVE  state'[j] \in {"new", "adding", "waiting", "delayed"} \cup InHandler \cup Finished
        BY <2>3 DEF WorkerTypeOK, Finished
      <3> QED
        BY <2>1, <3>1
    <2>5. WorkerTypeOK'
      BY <2>2, <2>4 DEF WorkerTypeOK
    <2>6. OutcomeInv'
      <3>1. ASSUME NEW j \in Jobs PROVE Outcomes(j)' = Outcomes(j) /\ Outcomes(j) \in Nat
        BY <2>2 DEF Outcomes, WorkerTypeOK
      <3>2. ASSUME NEW j \in Jobs, state[j] \in InHandler
            PROVE  /\ j \in stalled' /\ state'[j] \notin Answered
                   /\ Outcomes(j)' <= (IF state'[j] = "failed" THEN 2 ELSE 1)
        <4>1. j \notin stalled => Outcomes(j) <= 1 /\ state'[j] = "waiting"
          BY <2>3, <3>1, <3>2 DEF OutcomeInv
        <4>2. j \in stalled => Outcomes(j) <= 2 /\ state'[j] = "failed"
          BY <2>3, <3>1, <3>2 DEF OutcomeInv
        <4> QED
          BY <2>2, <3>1, <3>2, <4>1, <4>2 DEF Answered
      <3>3. ASSUME NEW j \in Jobs, state[j] \notin InHandler
            PROVE  /\ j \in stalled' <=> j \in stalled
                   /\ \/ state'[j] = state[j]
                      \/ state[j] = "adding" /\ state'[j] \in {"waiting", "refused"}
        <4>1. j \in stalled' <=> j \in stalled
          BY <2>2, <3>3
        <4>2. state'[j] = state[j] \/ (state[j] = "adding" /\ state'[j] \in {"waiting", "refused"})
          BY <2>3, <3>3
        <4> QED
          BY <4>1, <4>2
      <3>4. ASSUME NEW j \in Jobs, state[j] \notin InHandler
            PROVE  /\ j \notin stalled' =>
                          /\ Outcomes(j)' = (IF state'[j] \in Answered THEN 1 ELSE 0)
                          /\ state'[j] = "failed" => attemptsMade'[j] = Attempts[j]
                   /\ j \in stalled' =>
                          /\ Outcomes(j)' <= (IF state'[j] \in Answered \cup {"failed"} THEN 2 ELSE 1)
                          /\ state'[j] \in Answered => Outcomes(j)' >= 1
        <4> HIDE DEF Outcomes
        <4> QED
          BY <2>2, <3>1, <3>3, <3>4 DEF OutcomeInv, Answered
      <3> QED
        BY <3>1, <3>2, <3>4 DEF OutcomeInv, Answered
    <2>7. AttemptInv'
      BY <2>2, <2>3 DEF WorkerTypeOK, AttemptInv, InHandler, Finished
    <2>8. MarksInv' /\ MetricsInv'
      BY <2>2 DEF WorkerTypeOK, MarksInv, MetricsInv
    <2> QED
      BY <2>5, <2>6, <2>7, <2>8
  <1>8. CASE UNCHANGED workerVars
    BY <1>8 DEF workerVars, WorkerTypeOK, MarksInv, MetricsInv, OutcomeInv, Outcomes, AttemptInv, Attempted,
        Lettered, Resolved, Lettering, Used, In
  <1> QED
    BY <1>1, <1>2, <1>3, <1>4, <1>5, <1>6, <1>7, <1>8 DEF WorkerNext, JobStep, WorkerAtRest

\* A completed job has succeeded or was dead-lettered, exactly once unless a worker died
\* with it and twice at the most, and a job BullMQ counts as failed has used up its
\* attempts unless a worker died with it, however often workers die, attempts fail and the
\* queue refuses; while one process lives its metrics are what became of the jobs
\* (WorkerService.handleJob).
THEOREM JobsAreAccounted == WorkerSpec => []JobsAccounted
  <1>1. WorkerInv => JobsAccounted
    <2> SUFFICES ASSUME WorkerInv PROVE JobsAccounted
      OBVIOUS
    <2>1. WorkerTypeOK /\ MarksInv /\ MetricsInv /\ OutcomeInv
      BY DEF WorkerInv
    <2>2. MetricsAgree
      <3> SUFFICES ASSUME crashes = 0 PROVE MetricsAgree
        BY DEF MetricsAgree
      <3>1. metrics["deadLettered"] \in Nat
        BY <2>1 DEF WorkerTypeOK, Counters
      <3>2. metrics["deadLettered"] >= Lettered
        BY <2>1, <3>1, CountsAreNumbers DEF MetricsInv
      <3> QED
        BY <2>1, <3>2
        DEF MetricsInv, MetricsAgree, Attempted, Lettered, Resolved, Lettering, Used
    <2>3. OneOutcome
      <3>1. \A j \in Jobs : Outcomes(j) \in Nat
        BY <2>1 DEF Outcomes, WorkerTypeOK
      <3> QED
        BY <2>1, <3>1 DEF OutcomeInv, OneOutcome, Answered
    <2> QED
      BY <2>1, <2>2, <2>3 DEF JobsAccounted
  <1> QED
    BY <1>1, WorkerInitially, WorkerStep, PTL DEF WorkerSpec

------------------------------------------------------------------------------
(* The notification queue *)

\* The types of these items, passes and histories
QueueTyped(items, at, todo, found, heard, over) ==
    /\ items \in Seq(Item) /\ Len(items) <= MaxItems
    /\ at \in [Passes -> {"new", "running", "done", "rejected"}]
    /\ todo \in [Passes -> SUBSET (1..Len(items))]
    /\ found \in [1..Len(items) -> SUBSET Passes]
    /\ heard \in [1..Len(items) -> Nat]
    /\ over \in BOOLEAN

\* An item's attempts tell how often it was delivered.
Tells(items, heard) ==
    \A i \in 1..Len(items) :
        /\ heard[i] = IF items[i].attempts > MaxAttempts THEN MaxAttempts ELSE items[i].attempts
        /\ items[i].status = "queued" <=> heard[i] = 0

\* A pass delivers what it found, and has something to deliver only while it runs.
Founded(items, at, todo, found) ==
    /\ \A p \in Passes : at[p] # "running" => todo[p] = {}
    /\ \A p \in Passes : \A i \in todo[p] : p \in found[i]
    /\ \A i \in 1..Len(items) : \A p \in found[i] : at[p] # "new"

\* The passes that found an item and are done with it
Through(i, todo, found) == found[i] \ {p \in Passes : i \in todo[p]}

\* No pass delivers an item twice: an attempt is of a pass that is through with it.
AttemptsArePasses(items, todo, found) ==
    \A i \in 1..Len(items) : items[i].attempts <= Cardinality(Through(i, todo, found))

\* As long as passes do not overlap, one runs at a time, and what it has still to deliver
\* was not delivered.
Alone(items, at, todo, heard, over) ==
    ~over => /\ \A p, q \in Passes : at[p] = "running" /\ at[q] = "running" => p = q
             /\ \A p \in Passes : \A i \in todo[p] : heard[i] = 0
             /\ \A i \in 1..Len(items) : heard[i] <= 1

QueueGood(items, at, todo, found, heard, over) ==
    /\ QueueTyped(items, at, todo, found, heard, over)
    /\ Tells(items, heard)
    /\ Founded(items, at, todo, found)
    /\ AttemptsArePasses(items, todo, found)
    /\ Alone(items, at, todo, heard, over)

QueueInv == QueueGood(queueItems, pass, pending, taken, told, overlapped)

\* t is s, of the length len, followed by x n times.
Follows(t, S, s, len, n, x) ==
    /\ t \in Seq(S) /\ Len(t) = len + n /\ t \in [1..(len + n) -> S]
    /\ \A i \in 1..len : t[i] = s[i]
    /\ \A i \in (len + 1)..(len + n) : t[i] = x

\* What becomes of a history when items are appended
LEMMA TimesAppended ==
    ASSUME NEW S, NEW len \in Nat, NEW s \in [1..len -> S], NEW n \in Nat, NEW x \in S
    PROVE  Follows(s \o Times(n, x), S, s, len, n, x)
  <1>1. s \in Seq(S) /\ Len(s) = len
    OBVIOUS
  <1>2. Times(n, x) \in Seq(S) /\ Len(Times(n, x)) = n /\ \A i \in 1..n : Times(n, x)[i] = x
    BY DEF Times
  <1>3. /\ s \o Times(n, x) \in Seq(S) /\ Len(s \o Times(n, x)) = len + n
        /\ \A i \in 1..(len + n) :
               (s \o Times(n, x))[i] = IF i <= len THEN s[i] ELSE Times(n, x)[i - len]
    BY <1>1, <1>2, ConcatProperties
  <1> HIDE DEF Times
  <1>4. s \o Times(n, x) \in [1..(len + n) -> S]
    BY <1>3, LenProperties
  <1>5. ASSUME NEW i \in (len + 1)..(len + n) PROVE (s \o Times(n, x))[i] = x
    <2>1. i \in 1..(len + n) /\ ~(i <= len) /\ i - len \in 1..n
      OBVIOUS
    <2> QED
      BY <1>2, <1>3, <2>1
  <1>6. ASSUME NEW i \in 1..len PROVE (s \o Times(n, x))[i] = s[i]
    <2>1. i \in 1..(len + n) /\ i <= len
      OBVIOUS
    <2> QED
      BY <1>3, <2>1
  <1> QED
    BY <1>3, <1>4, <1>5, <1>6 DEF Follows

\* Items that are appended wait for a pass to find them.
LEMMA AppendedGood ==
    ASSUME NEW at, NEW todo, NEW items, NEW found, NEW heard, NEW over,
           QueueGood(items, at, todo, found, heard, over),
           NEW n \in 1..MaxItems, Len(items) + n <= MaxItems, NEW more,
           more = items \o [i \in 1..n |-> [status |-> "queued", attempts |-> 0]]
    PROVE  QueueGood(more, at, todo, found \o Times(n, {}), heard \o Times(n, 0), over)
  <1> DEFINE wait == [status |-> "queued", attempts |-> 0]
             old == 1..Len(items)
             new == (Len(items) + 1)..(Len(items) + n)
             found2 == found \o Times(n, {})
             heard2 == heard \o Times(n, 0)
  <1>1. QueueTyped(items, at, todo, found, heard, over) /\ Len(items) \in Nat /\ n \in Nat
    BY QueueAssumption DEF QueueGood, QueueTyped
  <1>2. /\ more \in Seq(Item) /\ Len(more) = Len(items) + n
        /\ \A i \in old : more[i] = items[i]
        /\ \A i \in new : more[i] = wait
    <2>1. items \in [1..Len(items) -> Item] /\ wait \in Item
      BY <1>1, LenProperties DEF QueueTyped, Item
    <2>2. more = items \o Times(n, wait)
      BY DEF Times
    <2> HIDE DEF wait
    <2>3. Follows(more, Item, items, Len(items), n, wait)
      BY <1>1, <2>1, <2>2, TimesAppended
    <2> QED
      BY <2>3 DEF Follows
  <1>3. /\ found2 \in [1..Len(more) -> SUBSET Passes]
        /\ \A i \in old : found2[i] = found[i]
        /\ \A i \in new : found2[i] = {}
    <2>1. found \in [1..Len(items) -> SUBSET Passes] /\ {} \in SUBSET Passes
      BY <1>1 DEF QueueTyped
    <2>2. Follows(found2, SUBSET Passes, found, Len(items), n, {})
      BY <1>1, <2>1, TimesAppended
    <2> QED
      BY <1>2, <2>2 DEF Follows
  <1>4. /\ heard2 \in [1..Len(more) -> Nat]
        /\ \A i \in old : heard2[i] = heard[i]
        /\ \A i \in new : heard2[i] = 0
    <2>1. heard \in [1..Len(items) -> Nat] /\ 0 \in Nat
      BY <1>1 DEF QueueTyped
    <2>2. Follows(heard2, Nat, heard, Len(items), n, 0)
      BY <1>1, <2>1, TimesAppended
    <2> QED
      BY <1>2, <2>2 DEF Follows
  <1>5. 1..Len(more) = old \cup new /\ \A p \in Passes : todo[p] \subseteq old
    BY <1>1, <1>2 DEF QueueTyped
  <1> HIDE DEF found2, heard2, old, new
  <1>6. QueueTyped(more, at, todo, found2, heard2, over)
    BY <1>1, <1>2, <1>3, <1>4, <1>5 DEF QueueTyped
  <1>7. Tells(more, heard2)
    <2> SUFFICES ASSUME NEW i \in 1..Len(more)
                 PROVE  /\ heard2[i] = IF more[i].attempts > MaxAttempts THEN MaxAttempts
                                       ELSE more[i].attempts
                        /\ more[i].status = "queued" <=> heard2[i] = 0
      BY DEF Tells
    <2>1. CASE i \in old
      BY <1>2, <1>4, <2>1 DEF QueueGood, Tells, old
    <2>2. CASE i \in new
      BY <1>2, <1>4, <2>2, QueueAssumption
    <2> QED
      BY <1>5, <2>1, <2>2
  <1>8. Founded(more, at, todo, found2)
    BY <1>1, <1>3, <1>5 DEF QueueGood, Founded, QueueTyped, old
  <1>9. AttemptsArePasses(more, todo, found2)
    <2> SUFFICES ASSUME NEW i \in 1..Len(more)
                 PROVE  more[i].attempts <= Cardinality(Through(i, todo, found2))
      BY DEF AttemptsArePasses
    <2>1. CASE i \in old
      BY <1>2, <1>3, <2>1 DEF QueueGood, AttemptsArePasses, Through, old
    <2>2. CASE i \in new
      <3>1. Through(i, todo, found2) = {} /\ more[i].attempts = 0
        BY <1>2, <1>3, <2>2 DEF Through
      <3> QED
        BY <3>1, FS_EmptySet
    <2> QED
      BY <1>5, <2>1, <2>2
  <1>10. Alone(more, at, todo, heard2, over)
    <2> SUFFICES ASSUME ~over
                 PROVE  /\ \A p, q \in Passes : at[p] = "running" /\ at[q] = "running" => p = q
                        /\ \A p \in Passes : \A i \in todo[p] : heard2[i] = 0
                        /\ \A i \in 1..Len(more) : heard2[i] <= 1
      BY DEF Alone
    <2>1. /\ \A p, q \in Passes : at[p] = "running" /\ at[q] = "running" => p = q
          /\ \A p \in Passes : \A i \in todo[p] : heard[i] = 0
          /\ \A i \in old : heard[i] <= 1
      BY DEF QueueGood, Alone, old
    <2>2. \A p \in Passes : \A i \in todo[p] : heard2[i] = 0
      BY <1>4, <1>5, <2>1
    <2>3. \A i \in old : heard2[i] <= 1
      BY <1>4, <2>1
    <2>4. \A i \in new : heard2[i] <= 1
      BY <1>4
    <2> QED
      BY <1>5, <2>1, <2>2, <2>3, <2>4
  <1> QED
    BY <1>6, <1>7, <1>8, <1>9, <1>10 DEF QueueGood, found2, heard2

\* The pass p begins and finds what is queued of these items.
Finds(p, items, at, todo, found, over, at2, todo2, found2, over2) ==
    /\ at[p] = "new"
    /\ found2 = [i \in DOMAIN items |->
                    IF items[i].status = "queued" THEN found[i] \cup {p} ELSE found[i]]
    /\ at2 = [at EXCEPT ![p] = "running"]
    /\ todo2 = [todo EXCEPT ![p] = Queued(items)]
    /\ over2 = (over \/ \E q \in Passes : at[q] = "running")

\* A pass that begins finds what is queued, and is to deliver it.
LEMMA FoundGood ==
    ASSUME NEW at, NEW todo, NEW items, NEW found, NEW heard, NEW over,
           QueueGood(items, at, todo, found, heard, over), NEW p \in Passes,
           NEW at2, NEW todo2, NEW found2, NEW over2,
           Finds(p, items, at, todo, found, over, at2, todo2, found2, over2)
    PROVE  QueueGood(items, at2, todo2, found2, heard, over2)
  <1> USE DEF Finds
  <1>1. /\ QueueTyped(items, at, todo, found, heard, over) /\ Len(items) \in Nat
        /\ DOMAIN items = 1..Len(items) /\ Queued(items) \subseteq 1..Len(items)
    BY LenProperties DEF QueueGood, QueueTyped, Queued
  <1>2. /\ \A i \in 1..Len(items) :
               found2[i] = IF i \in Queued(items) THEN found[i] \cup {p} ELSE found[i]
        /\ found2 \in [1..Len(items) -> SUBSET Passes]
    BY <1>1 DEF Queued, QueueTyped
  <1>3. /\ at2 \in [Passes -> {"new", "running", "done", "rejected"}] /\ at2[p] = "running"
        /\ \A q \in Passes \ {p} : at2[q] = at[q]
    BY <1>1 DEF QueueTyped
  <1>4. /\ todo2 \in [Passes -> SUBSET (1..Len(items))] /\ todo2[p] = Queued(items)
        /\ \A q \in Passes \ {p} : todo2[q] = todo[q]
    BY <1>1 DEF QueueTyped
  <1>5. todo[p] = {} /\ \A i \in 1..Len(items) : p \notin found[i]
    BY DEF QueueGood, Founded
  <1>6. QueueTyped(items, at2, todo2, found2, heard, over2)
    BY <1>1, <1>2, <1>3, <1>4 DEF QueueTyped
  <1>7. Founded(items, at2, todo2, found2)
    <2>1. Founded(items, at, todo, found)
      BY DEF QueueGood
    <2>2. \A q \in Passes : at2[q] # "running" => todo2[q] = {}
      BY <1>3, <1>4, <2>1 DEF Founded
    <2>3. \A q \in Passes : \A i \in todo2[q] : q \in found2[i]
      <3> SUFFICES ASSUME NEW q \in Passes, NEW i \in todo2[q] PROVE q \in found2[i]
        OBVIOUS
      <3>1. i \in 1..Len(items)
        BY <1>4
      <3>2. CASE q = p
        BY <1>2, <1>4, <3>1, <3>2
      <3>3. CASE q # p
        BY <1>2, <1>4, <2>1, <3>1, <3>3 DEF Founded
      <3> QED
        BY <3>2, <3>3
    <2>4. \A i \in 1..Len(items) : \A q \in found2[i] : at2[q] # "new"
      <3> SUFFICES ASSUME NEW i \in 1..Len(items), NEW q \in found2[i] PROVE at2[q] # "new"
        OBVIOUS
      <3>1. q = p \/ q \in found[i]
        BY <1>2
      <3> QED
        BY <1>2, <1>3, <2>1, <3>1 DEF Founded
    <2> QED
      BY <2>2, <2>3, <2>4 DEF Founded
  <1>8. AttemptsArePasses(items, todo2, found2)
    <2> SUFFICES ASSUME NEW i \in 1..Len(items)
                 PROVE  items[i].attempts <= Cardinality(Through(i, todo2, found2))
      BY DEF AttemptsArePasses
    <2>1. Through(i, todo2, found2) = Through(i, todo, found)
      <3>1. p \notin Through(i, todo2, found2) /\ p \notin Through(i, todo, found)
        BY <1>2, <1>4, <1>5 DEF Through
      <3>2. ASSUME NEW q, q # p
            PROVE  q \in Through(i, todo2, found2) <=> q \in Through(i, todo, found)
        <4>1. q \in found2[i] <=> q \in found[i]
          BY <1>2, <3>2
        <4>2. q \in Passes /\ i \in todo2[q] <=> q \in Passes /\ i \in todo[q]
          BY <1>4, <3>2
        <4> QED
          BY <4>1, <4>2 DEF Through
      <3>3. \A q : q \in Through(i, todo2, found2) <=> q \in Through(i, todo, found)
        BY <3>1, <3>2
      <3> QED
        BY <3>3, Zenon DEF Through
    <2> QED
      BY <2>1 DEF QueueGood, AttemptsArePasses
  <1>9. Alone(items, at2, todo2, heard, over2)
    <2> SUFFICES ASSUME ~over2
                 PROVE  /\ \A q, r \in Passes : at2[q] = "running" /\ at2[r] = "running" => q = r
                        /\ \A q \in Passes : \A i \in todo2[q] : heard[i] = 0
                        /\ \A i \in 1..Len(items) : heard[i] <= 1
      BY DEF Alone
    <2>1. \A i \in Queued(items) : heard[i] = 0
      BY <1>1 DEF QueueGood, Tells, Queued
    <2> QED
      BY <1>3, <1>4, <2>1 DEF QueueGood, Alone
  <1> QED
    BY <1>6, <1>7, <1>8, <1>9 DEF QueueGood

\* The first of some places is one of them: less than is well founded.
LEMMA FirstIsOne ==
    ASSUME NEW n \in Nat, NEW todo \in SUBSET (1..n), todo # {}
    PROVE  First(todo) \in todo
  <1> DEFINE less == {pair \in Nat \X Nat : pair[1] < pair[2]}
  <1>1. IsWellFoundedOn(less, Nat)
    BY NatLessThanWellFounded DEF OpToRel
  <1>2. todo \subseteq Nat
    OBVIOUS
  <1>3. PICK i \in todo : \A j \in todo : <<j, i>> \notin less
    <2> HIDE DEF less
    <2> QED
      BY <1>1, <1>2, WFMin
  <1>4. ASSUME NEW j \in todo PROVE i <= j
    <2>1. i \in Nat /\ j \in Nat /\ <<j, i>> \in Nat \X Nat
      BY <1>2
    <2>2. ~(<<j, i>>[1] < <<j, i>>[2])
      BY <1>3, <2>1
    <2> QED
      BY <2>1, <2>2
  <1> QED
    BY <1>4 DEF First

\* The running pass p delivers the item i of those it has left, and goes on or is rejected.
Delivers(p, i, items, act, todo, heard, items2, act2, todo2, heard2) ==
    /\ act[p] = "running" /\ i \in todo[p]
    /\ \E s \in {"running", "rejected"} :
           /\ act2 = [act EXCEPT ![p] = s]
           /\ todo2 = [todo EXCEPT ![p] = IF s = "running" THEN todo[p] \ {i} ELSE {}]
    /\ items2 = [items EXCEPT ![i] = AfterDelivery(items[i])]
    /\ heard2 = IF AfterDelivery(items[i]).status = "completed"
                THEN [heard EXCEPT ![i] = heard[i] + 1] ELSE heard

\* A delivery keeps the invariant.
LEMMA DeliverGood ==
    ASSUME NEW items, NEW act, NEW todo, NEW found, NEW heard, NEW over,
           QueueGood(items, act, todo, found, heard, over),
           NEW p \in Passes, NEW i, NEW items2, NEW act2, NEW todo2, NEW heard2,
           Delivers(p, i, items, act, todo, heard, items2, act2, todo2, heard2)
    PROVE  QueueGood(items2, act2, todo2, found, heard2, over)
  <1>a. PICK state2 \in {"running", "rejected"} :
            /\ act2 = [act EXCEPT ![p] = state2]
            /\ todo2 = [todo EXCEPT ![p] = IF state2 = "running" THEN todo[p] \ {i} ELSE {}]
    BY DEF Delivers
  <1>b. /\ act[p] = "running" /\ i \in todo[p]
        /\ items2 = [items EXCEPT ![i] = AfterDelivery(items[i])]
        /\ heard2 = IF AfterDelivery(items[i]).status = "completed"
                    THEN [heard EXCEPT ![i] = heard[i] + 1] ELSE heard
    BY DEF Delivers
  <1> USE <1>a, <1>b
  <1>1. /\ QueueTyped(items, act, todo, found, heard, over) /\ Len(items) \in Nat
        /\ i \in 1..Len(items) /\ items \in [1..Len(items) -> Item]
    BY LenProperties DEF QueueGood, QueueTyped
  <1>2. /\ items[i].attempts \in Nat /\ MaxAttempts \in Nat \ {0} /\ MaxItems \in Nat
        /\ items[i] \in Item
    BY <1>1, QueueAssumption DEF Item
  <1>3. /\ AfterDelivery(items[i]) \in Item
        /\ AfterDelivery(items[i]).attempts = items[i].attempts + 1
        /\ AfterDelivery(items[i]).status
               = IF items[i].attempts < MaxAttempts THEN "completed" ELSE "failed"
    BY <1>2 DEF AfterDelivery, Item
  <1>4. /\ items2 \in Seq(Item) /\ Len(items2) = Len(items)
        /\ items2[i] = AfterDelivery(items[i])
        /\ \A j \in 1..Len(items) \ {i} : items2[j] = items[j]
    BY <1>1, <1>3, ExceptSeq
  <1>5. /\ heard2 \in [1..Len(items) -> Nat]
        /\ heard2[i] = IF items[i].attempts < MaxAttempts THEN heard[i] + 1 ELSE heard[i]
        /\ \A j \in 1..Len(items) \ {i} : heard2[j] = heard[j]
    BY <1>1, <1>3 DEF QueueTyped
  <1>6. /\ act2 \in [Passes -> {"new", "running", "done", "rejected"}] /\ act2[p] = state2
        /\ \A q \in Passes \ {p} : act2[q] = act[q]
    BY <1>1 DEF QueueTyped
  <1>7. /\ todo2 \in [Passes -> SUBSET (1..Len(items))]
        /\ todo2[p] = (IF state2 = "running" THEN todo[p] \ {i} ELSE {})
        /\ \A q \in Passes \ {p} : todo2[q] = todo[q]
    BY <1>1 DEF QueueTyped
  <1>8. QueueTyped(items2, act2, todo2, found, heard2, over)
    BY <1>1, <1>4, <1>5, <1>6, <1>7 DEF QueueTyped
  <1>9. Tells(items2, heard2)
    <2> SUFFICES ASSUME NEW j \in 1..Len(items)
                 PROVE  /\ heard2[j] = IF items2[j].attempts > MaxAttempts THEN MaxAttempts
                                       ELSE items2[j].attempts
                        /\ items2[j].status = "queued" <=> heard2[j] = 0
      BY <1>4 DEF Tells
    <2>1. /\ heard[j] = IF items[j].attempts > MaxAttempts THEN MaxAttempts
                        ELSE items[j].attempts
          /\ items[j].status = "queued" <=> heard[j] = 0
      BY DEF QueueGood, Tells
    <2>2. CASE j = i
      BY <1>2, <1>3, <1>4, <1>5, <2>1, <2>2
    <2>3. CASE j # i
      BY <1>4, <1>5, <2>1, <2>3
    <2> QED
      BY <2>2, <2>3
  <1>10. Founded(items2, act2, todo2, found)
    <2>1. Founded(items, act, todo, found)
      BY DEF QueueGood
    <2>2. \A q \in Passes : todo2[q] \subseteq todo[q]
      BY <1>7
    <2>3. \A q \in Passes : act2[q] # "running" => todo2[q] = {}
      BY <1>6, <1>7, <2>1 DEF Founded
    <2>4. \A q \in Passes : \A j \in todo2[q] : q \in found[j]
      BY <2>1, <2>2 DEF Founded
    <2>5. \A j \in 1..Len(items) : \A q \in found[j] : q \in Passes /\ act2[q] # "new"
      BY <1>1, <1>6, <2>1 DEF Founded, QueueTyped
    <2> QED
      BY <1>4, <2>3, <2>4, <2>5 DEF Founded
  <1>11. AttemptsArePasses(items2, todo2, found)
    <2> SUFFICES ASSUME NEW j \in 1..Len(items)
                 PROVE  items2[j].attempts <= Cardinality(Through(j, todo2, found))
      BY <1>4 DEF AttemptsArePasses
    <2>1. items[j].attempts <= Cardinality(Through(j, todo, found)) /\ items[j].attempts \in Nat
      BY <1>1 DEF QueueGood, AttemptsArePasses, Item
    <2>2. IsFiniteSet(Through(j, todo2, found)) /\ IsFiniteSet(Through(j, todo, found))
      <3>1. found[j] \in SUBSET Passes
        BY <1>1 DEF QueueTyped
      <3>2. Through(j, todo2, found) \subseteq Passes /\ Through(j, todo, found) \subseteq Passes
        BY <3>1 DEF Through
      <3> QED
        BY <3>2, QueueAssumption, FS_Subset
    <2>3. CASE j = i
      <3>1. p \in found[i]
        BY DEF QueueGood, Founded
      <3>2. p \notin Through(i, todo, found) /\ p \in Through(i, todo2, found)
        BY <1>7, <3>1 DEF Through
      <3>3. Through(i, todo, found) \cup {p} \subseteq Through(i, todo2, found)
        BY <1>7, <3>2 DEF Through
      <3>4. /\ IsFiniteSet(Through(i, todo, found) \cup {p})
            /\ Cardinality(Through(i, todo, found) \cup {p}) = Cardinality(Through(i, todo, found)) + 1
        BY <2>2, <2>3, <3>2, FS_AddElement
      <3>5. Cardinality(Through(i, todo, found) \cup {p}) <= Cardinality(Through(i, todo2, found))
        BY <2>2, <2>3, <3>3, FS_Subset
      <3>6. Cardinality(Through(i, todo, found)) \in Nat /\ Cardinality(Through(i, todo2, found)) \in Nat
        BY <2>2, <2>3, FS_CardinalityType
      <3> QED
        BY <1>3, <1>4, <2>1, <2>3, <3>4, <3>5, <3>6
    <2>4. CASE j # i
      <3>1. Through(j, todo, found) \subseteq Through(j, todo2, found)
        BY <1>7, <2>4 DEF Through
      <3>2. Cardinality(Through(j, todo, found)) <= Cardinality(Through(j, todo2, found))
        BY <2>2, <3>1, FS_Subset
      <3>3. Cardinality(Through(j, todo, found)) \in Nat /\ Cardinality(Through(j, todo2, found)) \in Nat
        BY <2>2, FS_CardinalityType
      <3> QED
        BY <1>4, <2>1, <2>4, <3>2, <3>3
    <2> QED
      BY <2>3, <2>4
  <1>12. Alone(items2, act2, todo2, heard2, over)
    <2> SUFFICES ASSUME ~over
                 PROVE  /\ \A q, r \in Passes : act2[q] = "running" /\ act2[r] = "running" => q = r
                        /\ \A q \in Passes : \A j \in todo2[q] : heard2[j] = 0
                        /\ \A j \in 1..Len(items) : heard2[j] <= 1
      BY <1>4 DEF Alone
    <2>1. /\ \A q, r \in Passes : act[q] = "running" /\ act[r] = "running" => q = r
          /\ \A q \in Passes : \A j \in todo[q] : heard[j] = 0
          /\ \A j \in 1..Len(items) : heard[j] <= 1
      BY DEF QueueGood, Alone
    <2>2. \A q \in Passes \ {p} : todo2[q] = {}
      BY <1>7, <2>1 DEF QueueGood, Founded
    <2>3. \A q \in Passes : \A j \in todo2[q] : heard2[j] = 0
      <3> SUFFICES ASSUME NEW j \in todo2[p] PROVE heard2[j] = 0
        BY <2>2
      <3>1. j \in todo[p] /\ j # i /\ j \in 1..Len(items)
        BY <1>7
      <3> QED
        BY <1>5, <2>1, <3>1
    <2>4. heard2[i] <= 1
      BY <1>5, <2>1
    <2>5. \A j \in 1..Len(items) : heard2[j] <= 1
      BY <1>5, <2>1, <2>4
    <2> QED
      BY <1>6, <2>1, <2>3, <2>5
  <1> QED
    BY <1>8, <1>9, <1>10, <1>11, <1>12 DEF QueueGood

\* A running pass has ended.
LEMMA EndGood ==
    ASSUME NEW items, NEW act, NEW todo, NEW found, NEW heard, NEW over,
           QueueGood(items, act, todo, found, heard, over),
           NEW p \in Passes, act[p] = "running"
    PROVE  QueueGood(items, [act EXCEPT ![p] = "done"], [todo EXCEPT ![p] = {}], found, heard, over)
  <1> DEFINE act2 == [act EXCEPT ![p] = "done"]
             todo2 == [todo EXCEPT ![p] = {}]
  <1>1. QueueTyped(items, act, todo, found, heard, over) /\ Len(items) \in Nat
    BY LenProperties DEF QueueGood, QueueTyped
  <1>2. /\ act2 \in [Passes -> {"new", "running", "done", "rejected"}] /\ act2[p] = "done"
        /\ \A q \in Passes \ {p} : act2[q] = act[q]
    BY <1>1 DEF QueueTyped
  <1>3. /\ todo2 \in [Passes -> SUBSET (1..Len(items))] /\ todo2[p] = {}
        /\ \A q \in Passes \ {p} : todo2[q] = todo[q]
    BY <1>1 DEF QueueTyped
  <1> HIDE DEF act2, todo2
  <1>4. QueueTyped(items, act2, todo2, found, heard, over)
    BY <1>1, <1>2, <1>3 DEF QueueTyped
  <1>5. Founded(items, act2, todo2, found)
    <2>1. Founded(items, act, todo, found)
      BY DEF QueueGood
    <2>2. \A q \in Passes : act2[q] # "running" => todo2[q] = {}
      BY <1>2, <1>3, <2>1 DEF Founded
    <2>3. \A q \in Passes : \A i \in todo2[q] : q \in found[i]
      BY <1>3, <2>1 DEF Founded
    <2>4. \A i \in 1..Len(items) : \A q \in found[i] : act2[q] # "new"
      BY <1>1, <1>2, <2>1 DEF Founded, QueueTyped
    <2> QED
      BY <2>2, <2>3, <2>4 DEF Founded
  <1>6. AttemptsArePasses(items, todo2, found)
    <2> SUFFICES ASSUME NEW j \in 1..Len(items)
                 PROVE  items[j].attempts <= Cardinality(Through(j, todo2, found))
      BY DEF AttemptsArePasses
    <2>1. items[j].attempts <= Cardinality(Through(j, todo, found)) /\ items[j].attempts \in Nat
      <3>1. items[j] \in Item
        BY <1>1, LenProperties DEF QueueTyped
      <3> QED
        BY <3>1 DEF QueueGood, AttemptsArePasses, Item
    <2>2. Through(j, todo2, found) \subseteq Passes
      BY <1>1 DEF Through, QueueTyped
    <2>3. Through(j, todo, found) \subseteq Through(j, todo2, found)
      BY <1>3 DEF Through
    <2>4. /\ IsFiniteSet(Through(j, todo2, found)) /\ IsFiniteSet(Through(j, todo, found))
          /\ Cardinality(Through(j, todo, found)) <= Cardinality(Through(j, todo2, found))
      BY <2>2, <2>3, QueueAssumption, FS_Subset
    <2>5. Cardinality(Through(j, todo, found)) \in Nat /\ Cardinality(Through(j, todo2, found)) \in Nat
      BY <2>4, FS_CardinalityType
    <2> QED
      BY <2>1, <2>4, <2>5
  <1>7. Alone(items, act2, todo2, heard, over)
    BY <1>2, <1>3 DEF QueueGood, Alone
  <1> QED
    BY <1>4, <1>5, <1>6, <1>7 DEF QueueGood, act2, todo2

\* A pass goes on with what it has left, from these items and histories.
LEMMA DeliverFirstGood ==
    ASSUME NEW p \in Passes, NEW act, NEW todo, NEW items, NEW found, NEW heard, NEW over,
           QueueGood(items, act, todo, found, heard, over), act[p] = "running",
           QueueTypeOK, [pass EXCEPT ![p] = "running"] = act,
           [pending EXCEPT ![p] = todo[p]] = todo,
           DeliverFirst(p, items, todo[p], heard), taken' = found, overlapped' = over
    PROVE  QueueInv'
  <1>1. \A x : [pass EXCEPT ![p] = x] = [act EXCEPT ![p] = x]
    BY DEF QueueTypeOK
  <1>2. \A x : [pending EXCEPT ![p] = x] = [todo EXCEPT ![p] = x]
    BY DEF QueueTypeOK
  <1>3. CASE todo[p] = {}
    <2>1. /\ pass' = [act EXCEPT ![p] = "done"] /\ pending' = [todo EXCEPT ![p] = {}]
          /\ queueItems' = items /\ told' = heard
      BY <1>1, <1>2, <1>3 DEF DeliverFirst
    <2>2. QueueGood(items, [act EXCEPT ![p] = "done"], [todo EXCEPT ![p] = {}], found, heard, over)
      BY EndGood
    <2> QED
      BY <2>1, <2>2 DEF QueueInv
  <1>4. CASE todo[p] # {}
    <2> DEFINE i == First(todo[p])
    <2>1. i \in todo[p]
      <3>1. Len(items) \in Nat /\ todo[p] \in SUBSET (1..Len(items))
        BY LenProperties DEF QueueGood, QueueTyped
      <3> QED
        BY <1>4, <3>1, FirstIsOne
    <2>2. PICK s \in {"running", "rejected"} :
              /\ pass' = [pass EXCEPT ![p] = s]
              /\ pending' = [pending EXCEPT ![p] = IF s = "running" THEN todo[p] \ {i} ELSE {}]
      BY <1>4 DEF DeliverFirst
    <2>3. /\ queueItems' = [items EXCEPT ![i] = AfterDelivery(items[i])]
          /\ told' = IF AfterDelivery(items[i]).status = "completed"
                     THEN [heard EXCEPT ![i] = heard[i] + 1] ELSE heard
      BY <1>4 DEF DeliverFirst
    <2> HIDE DEF i
    <2>4. pass' = [act EXCEPT ![p] = s]
      BY <1>1, <2>2
    <2>5. pending' = [todo EXCEPT ![p] = IF s = "running" THEN todo[p] \ {i} ELSE {}]
      BY <1>2, <2>2
    <2>6. QueueGood(queueItems', pass', pending', found, told', over)
      <3>1. Delivers(p, i, items, act, todo, heard, queueItems', pass', pending', told')
        BY <2>1, <2>3, <2>4, <2>5 DEF Delivers
      <3> QED
        BY <3>1, DeliverGood
    <2> QED
      BY <2>6 DEF QueueInv
  <1> QED
    BY <1>3, <1>4

\* A pass starts over these items, whose histories are found and heard.
LEMMA StartGood ==
    ASSUME NEW p \in Passes, NEW items, NEW found, NEW heard, QueueTypeOK,
           QueueGood(items, pass, pending, found, heard, overlapped),
           StartPass(p, items, found, heard)
    PROVE  QueueInv'
  <1> DEFINE act == [pass EXCEPT ![p] = "running"]
             todo == [pending EXCEPT ![p] = Queued(items)]
             over == overlapped \/ \E q \in Passes : pass[q] = "running"
  <1>1. /\ pass[p] = "new" /\ overlapped' = over
        /\ taken' = [i \in DOMAIN items |->
                        IF items[i].status = "queued" THEN found[i] \cup {p} ELSE found[i]]
        /\ DeliverFirst(p, items, Queued(items), heard)
    BY DEF StartPass
  <1>2. QueueGood(items, act, todo, taken', heard, over)
    <2>1. Finds(p, items, pass, pending, found, overlapped, act, todo, taken', over)
      BY <1>1 DEF Finds
    <2> HIDE DEF act, todo, over
    <2> QED
      BY <2>1, FoundGood
  <1>3. act[p] = "running" /\ todo[p] = Queued(items)
    BY DEF QueueTypeOK
  <1>4. [pending EXCEPT ![p] = todo[p]] = todo
    BY <1>3
  <1> HIDE DEF todo, over
  <1> QED
    BY <1>1, <1>2, <1>3, <1>4, DeliverFirstGood

LEMMA QueueTyping == QueueInv => QueueTypeOK
  BY DEF QueueInv, QueueGood, QueueTyped, QueueTypeOK

LEMMA QueueInitially == QueueInit => QueueInv
  <1> SUFFICES ASSUME QueueInit PROVE QueueInv
    OBVIOUS
  <1>1. queueItems = <<>> /\ Len(queueItems) = 0 /\ 1..Len(queueItems) = {}
    BY DEF QueueInit
  <1>2. queueItems \in Seq(Item) /\ taken \in [{} -> SUBSET Passes] /\ told \in [{} -> Nat]
    BY DEF QueueInit
  <1>3. QueueTyped(queueItems, pass, pending, taken, told, overlapped)
    <2>1. pass \in [Passes -> {"new", "running", "done", "rejected"}]
      BY DEF QueueInit
    <2>2. pending \in [Passes -> SUBSET (1..Len(queueItems))]
      BY <1>1 DEF QueueInit
    <2>3. taken \in [1..Len(queueItems) -> SUBSET Passes] /\ told \in [1..Len(queueItems) -> Nat]
      BY <1>1, <1>2
    <2>4. Len(queueItems) <= MaxItems
      BY <1>1, QueueAssumption
    <2>5. overlapped \in BOOLEAN
      BY DEF QueueInit
    <2> QED
      BY <1>2, <2>1, <2>2, <2>3, <2>4, <2>5, Zenon DEF QueueTyped
  <1>4. Tells(queueItems, told) /\ AttemptsArePasses(queueItems, pending, taken)
    BY <1>1 DEF Tells, AttemptsArePasses
  <1>5. Founded(queueItems, pass, pending, taken)
    BY <1>1 DEF QueueInit, Founded
  <1>6. Alone(queueItems, pass, pending, told, overlapped)
    BY <1>1 DEF QueueInit, Alone
  <1> QED
    BY <1>3, <1>4, <1>5, <1>6 DEF QueueInv, QueueGood

LEMMA QueueStep == QueueInv /\ [QueueNext]_queueVars => QueueInv'
  <1> SUFFICES ASSUME QueueInv, [QueueNext]_queueVars PROVE QueueInv'
    OBVIOUS
  <1>1. QueueTypeOK
    BY QueueTyping
  <1>2. QueueGood(queueItems, pass, pending, taken, told, overlapped)
    BY DEF QueueInv
  <1>3. ASSUME NEW n \in 1..MaxItems, Len(queueItems) + n <= MaxItems
        PROVE  QueueGood(WithItems(n), pass, pending, taken \o Times(n, {}), told \o Times(n, 0),
                         overlapped)
    BY <1>2, <1>3, AppendedGood DEF WithItems
  <1>4. ASSUME NEW n \in 1..MaxItems, Schedule(n) PROVE QueueInv'
    BY <1>3, <1>4 DEF Schedule, QueueInv
  <1>5. ASSUME NEW n \in 1..MaxItems, NEW p \in Passes, Dispatch(p, n) PROVE QueueInv'
    <2>1. StartPass(p, WithItems(n), taken \o Times(n, {}), told \o Times(n, 0))
      BY <1>5 DEF Dispatch
    <2>2. QueueGood(WithItems(n), pass, pending, taken \o Times(n, {}), told \o Times(n, 0),
                    overlapped)
      BY <1>3, <1>5 DEF Dispatch
    <2> QED
      BY <1>1, <2>1, <2>2, StartGood
  <1>6. ASSUME NEW p \in Passes, ProcessQueue(p) PROVE QueueInv'
    BY <1>1, <1>2, <1>6, StartGood DEF ProcessQueue
  <1>7. ASSUME NEW p \in Passes, Continue(p) PROVE QueueInv'
    <2>1. /\ pass[p] = "running" /\ taken' = taken /\ overlapped' = overlapped
          /\ DeliverFirst(p, queueItems, pending[p], told)
      BY <1>7 DEF Continue
    <2>2. [pass EXCEPT ![p] = "running"] = pass /\ [pending EXCEPT ![p] = pending[p]] = pending
      BY <1>1, <2>1 DEF QueueTypeOK
    <2> QED
      BY <1>1, <1>2, <2>1, <2>2, DeliverFirstGood
  <1>8. CASE UNCHANGED queueVars
    BY <1>2, <1>8 DEF queueVars, QueueInv
  <1>9. CASE QueueAtRest
    BY <1>8, <1>9 DEF QueueAtRest
  <1> QED
    BY <1>4, <1>5, <1>6, <1>7, <1>8, <1>9 DEF QueueNext

\* An item's attempts and status tell how often the listeners heard of its delivery; it is
\* delivered at most once by each pass that found it, however passes overlap, and once
\* where they do not (NotificationsService, processQueue and deliverQueueItem).
THEOREM DeliveriesAreCounted == QueueSpec => []DeliveriesCounted
  <1>1. QueueInv => DeliveriesCounted
    <2> SUFFICES ASSUME QueueInv PROVE DeliveriesCounted
      OBVIOUS
    <2>1. QueueTypeOK /\ QueueTyped(queueItems, pass, pending, taken, told, overlapped)
      BY QueueTyping DEF QueueInv, QueueGood
    <2>2. /\ DOMAIN queueItems = 1..Len(queueItems) /\ DOMAIN told = 1..Len(queueItems)
          /\ queueItems \in [1..Len(queueItems) -> Item]
      BY <2>1, LenProperties DEF QueueTyped
    <2>3. AttemptsTell
      BY <2>2 DEF QueueInv, QueueGood, Tells, AttemptsTell
    <2>4. OncePerPass
      <3> SUFFICES ASSUME NEW i \in 1..Len(queueItems)
                   PROVE  queueItems[i].attempts <= Cardinality(taken[i])
        BY <2>2 DEF OncePerPass
      <3>1. queueItems[i].attempts <= Cardinality(Through(i, pending, taken))
        BY DEF QueueInv, QueueGood, AttemptsArePasses
      <3>2. taken[i] \subseteq Passes /\ Through(i, pending, taken) \subseteq taken[i]
        BY <2>1 DEF QueueTyped, Through
      <3>3. /\ IsFiniteSet(taken[i]) /\ IsFiniteSet(Through(i, pending, taken))
            /\ Cardinality(Through(i, pending, taken)) <= Cardinality(taken[i])
        BY <3>2, QueueAssumption, FS_Subset
      <3>4. /\ Cardinality(Through(i, pending, taken)) \in Nat /\ Cardinality(taken[i]) \in Nat
            /\ queueItems[i].attempts \in Nat
        BY <2>2, <3>3, FS_CardinalityType DEF Item
      <3> QED
        BY <3>1, <3>3, <3>4
    <2>5. DeliveredOnce
      BY <2>2 DEF QueueInv, QueueGood, Alone, DeliveredOnce
    <2> QED
      BY <2>1, <2>3, <2>4, <2>5 DEF DeliveriesCounted
  <1> QED
    BY <1>1, QueueInitially, QueueStep, PTL DEF QueueSpec

------------------------------------------------------------------------------
(* The persistence coordinator *)

\* The transactions have ids of their own: randomUUID, if the caller gives none.
OwnIdsHold == \A c, d \in Calls : IdOf[c] = IdOf[d] => c = d

\* The entry k of the log l
Logged(l, k, kind, c) == k \in 1..Len(l) /\ l[k] = <<kind, c>>

\* A call begins once.
BeginsOnce(l) ==
    \A c \in Calls : \A i, j \in Nat : Logged(l, i, "begin", c) /\ Logged(l, j, "begin", c) => i = j

\* What is on the stack s has begun, in its order.
StackBegun(l, s) == \A m \in 1..Len(s) : \E i \in Nat : Logged(l, i, "begin", s[m])

StackInOrder(l, s) ==
    \A m, n \in 1..Len(s) : m < n =>
        \A i, j \in Nat : Logged(l, i, "begin", s[m]) /\ Logged(l, j, "begin", s[n]) => i < j

\* What began before a call commits after it has left the stack.
Shielded(l, s) ==
    \A m \in 1..Len(s) : \A c \in Calls : \A i, j, k \in Nat :
        ~ /\ i < j /\ j < k
          /\ Logged(l, i, "begin", c) /\ Logged(l, j, "begin", s[m]) /\ Logged(l, k, "commit", c)

\* SuccessesNest of the log l
NestsIn(l) ==
    \A c, d \in Calls : \A i, j, k, n \in Nat :
        ~ /\ i < j /\ j < k /\ k < n
          /\ Logged(l, i, "begin", c) /\ Logged(l, j, "begin", d)
          /\ Logged(l, k, "commit", c) /\ Logged(l, n, "commit", d)

Nested(l, s) ==
    /\ BeginsOnce(l) /\ StackBegun(l, s) /\ StackInOrder(l, s) /\ Shielded(l, s) /\ NestsIn(l)

\* The log l grows by an entry; the stack s loses its top.
LogGrows(l2, l, kind, c) ==
    /\ Len(l) \in Nat
    /\ \A k, x, y : Logged(l2, k, x, y)
                        <=> Logged(l, k, x, y) \/ (k = Len(l) + 1 /\ x = kind /\ y = c)
    /\ \A k, x, y : Logged(l, k, x, y) => k \in Nat /\ k <= Len(l)

StackPopped(s2, s) ==
    /\ Len(s) \in Nat /\ Len(s2) = Len(s) - 1
    /\ \A m \in 1..Len(s2) : m \in 1..Len(s) /\ m < Len(s) /\ s2[m] = s[m]

StackPushed(s2, s, c) ==
    /\ Len(s) \in Nat /\ Len(s2) = Len(s) + 1 /\ s2[Len(s) + 1] = c
    /\ \A m \in 1..Len(s) : s2[m] = s[m]

LEMMA LogAppended ==
    ASSUME NEW l \in Seq({"begin", "commit"} \X Calls), NEW kind \in {"begin", "commit"},
           NEW c \in Calls
    PROVE  LogGrows(Append(l, <<kind, c>>), l, kind, c)
  <1> DEFINE l2 == Append(l, <<kind, c>>)
  <1>1. /\ Len(l) \in Nat /\ Len(l2) = Len(l) + 1 /\ l2[Len(l) + 1] = <<kind, c>>
        /\ \A k \in 1..Len(l) : l2[k] = l[k]
    BY AppendProperties, LenProperties
  <1> HIDE DEF l2
  <1>2. ASSUME NEW k, NEW x, NEW y
        PROVE  Logged(l2, k, x, y) <=> Logged(l, k, x, y) \/ (k = Len(l) + 1 /\ x = kind /\ y = c)
    <2>1. k \in 1..Len(l2) <=> k \in 1..Len(l) \/ k = Len(l) + 1
      BY <1>1
    <2>2. Len(l) + 1 \notin 1..Len(l)
      BY <1>1
    <2>3. <<kind, c>> = <<x, y>> <=> x = kind /\ y = c
      OBVIOUS
    <2> QED
      BY <1>1, <2>1, <2>2, <2>3 DEF Logged
  <1> QED
    BY <1>1, <1>2 DEF LogGrows, Logged, l2

LEMMA FrontPopped ==
    ASSUME NEW s \in Seq(Calls), s # <<>>
    PROVE  /\ SubSeq(s, 1, Len(s) - 1) \in Seq(Calls)
           /\ StackPopped(SubSeq(s, 1, Len(s) - 1), s) /\ Len(s) >= 1
  <1>1. Len(s) \in Nat /\ Len(s) # 0
    BY LenProperties, EmptySeq
  <1> DEFINE n == Len(s) - 1
  <1>2. n \in Nat /\ n + 1 = Len(s) /\ \A i \in 1..n : s[i] \in Calls
    BY <1>1, LenProperties
  <1> HIDE DEF n
  <1>3. /\ SubSeq(s, 1, n) \in Seq(Calls)
        /\ Len(SubSeq(s, 1, n)) = IF 1 <= n THEN n - 1 + 1 ELSE 0
        /\ \A i \in 1..(n - 1 + 1) : SubSeq(s, 1, n)[i] = s[1 + i - 1]
    BY <1>2, SubSeqProperties
  <1>4. Len(SubSeq(s, 1, n)) = n /\ \A i \in 1..n : SubSeq(s, 1, n)[i] = s[i]
    BY <1>2, <1>3
  <1> QED
    BY <1>1, <1>2, <1>3, <1>4 DEF StackPopped, n

\* A call that has not begun begins.
LEMMA PushNested ==
    ASSUME NEW l, NEW s, Nested(l, s), NEW c \in Calls, NEW l2, NEW s2,
           LogGrows(l2, l, "begin", c), StackPushed(s2, s, c),
           \A k : ~Logged(l, k, "begin", c)
    PROVE  Nested(l2, s2)
  <1> USE DEF LogGrows
  <1>1. \A m \in 1..Len(s2) : m \in 1..Len(s) \/ m = Len(s) + 1
    BY DEF StackPushed
  <1>2. BeginsOnce(l2)
    BY DEF Nested, BeginsOnce
  <1>3. StackBegun(l2, s2)
    <2> SUFFICES ASSUME NEW m \in 1..Len(s2) PROVE \E i \in Nat : Logged(l2, i, "begin", s2[m])
      BY DEF StackBegun
    <2>1. CASE m \in 1..Len(s)
      BY <2>1 DEF Nested, StackBegun, StackPushed
    <2>2. CASE m = Len(s) + 1
      <3>1. s2[m] = c /\ Len(l) + 1 \in Nat
        BY <2>2 DEF StackPushed
      <3>2. Logged(l2, Len(l) + 1, "begin", c)
        OBVIOUS
      <3> QED
        BY <3>1, <3>2
    <2> QED
      BY <1>1, <2>1, <2>2
  <1>4. StackInOrder(l2, s2)
    <2> SUFFICES ASSUME NEW m \in 1..Len(s2), NEW n \in 1..Len(s2), m < n,
                        NEW i \in Nat, NEW j \in Nat,
                        Logged(l2, i, "begin", s2[m]), Logged(l2, j, "begin", s2[n])
                 PROVE  i < j
      BY DEF StackInOrder
    <2>1. m \in 1..Len(s) /\ s2[m] = s[m]
      BY <1>1 DEF StackPushed
    <2>2. s[m] # c
      BY <2>1 DEF Nested, StackBegun
    <2>3. Logged(l, i, "begin", s[m]) /\ i <= Len(l)
      BY <2>1, <2>2
    <2>4. CASE n \in 1..Len(s)
      <3>1. s2[n] = s[n] /\ s[n] # c
        BY <2>4 DEF Nested, StackBegun, StackPushed
      <3>2. Logged(l, j, "begin", s[n])
        BY <3>1
      <3> QED
        BY <2>1, <2>3, <2>4, <3>2 DEF Nested, StackInOrder
    <2>5. CASE n = Len(s) + 1
      <3>1. s2[n] = c
        BY <2>5 DEF StackPushed
      <3>2. j = Len(l) + 1
        BY <3>1
      <3> QED
        BY <2>3, <3>2
    <2> QED
      BY <1>1, <2>4, <2>5
  <1>5. Shielded(l2, s2)
    <2> SUFFICES ASSUME NEW m \in 1..Len(s2), NEW d \in Calls,
                        NEW i \in Nat, NEW j \in Nat, NEW k \in Nat, i < j, j < k,
                        Logged(l2, i, "begin", d), Logged(l2, j, "begin", s2[m]),
                        Logged(l2, k, "commit", d)
                 PROVE  FALSE
      BY DEF Shielded
    <2>1. Logged(l, k, "commit", d) /\ k <= Len(l)
      OBVIOUS
    <2>2. Logged(l, i, "begin", d) /\ Logged(l, j, "begin", s2[m])
      BY <2>1
    <2>3. m \in 1..Len(s) /\ s2[m] = s[m]
      BY <1>1, <2>2 DEF StackPushed
    <2> QED
      BY <2>1, <2>2, <2>3 DEF Nested, Shielded
  <1>6. NestsIn(l2)
    <2> SUFFICES ASSUME NEW d \in Calls, NEW e \in Calls,
                        NEW i \in Nat, NEW j \in Nat, NEW k \in Nat, NEW n \in Nat, i < j, j < k, k < n,
                        Logged(l2, i, "begin", d), Logged(l2, j, "begin", e),
                        Logged(l2, k, "commit", d), Logged(l2, n, "commit", e)
                 PROVE  FALSE
      BY DEF NestsIn
    <2>1. Logged(l, k, "commit", d) /\ Logged(l, n, "commit", e) /\ k <= Len(l)
      OBVIOUS
    <2>2. Logged(l, i, "begin", d) /\ Logged(l, j, "begin", e)
      BY <2>1
    <2> QED
      BY <2>1, <2>2 DEF Nested, NestsIn
  <1> QED
    BY <1>2, <1>3, <1>4, <1>5, <1>6 DEF Nested

\* The innermost context leaves the stack.
LEMMA PopNested ==
    ASSUME NEW l, NEW s, Nested(l, s), NEW s2, StackPopped(s2, s)
    PROVE  Nested(l, s2)
  <1> USE DEF StackPopped
  <1>1. StackBegun(l, s2)
    BY DEF Nested, StackBegun
  <1>2. StackInOrder(l, s2)
    BY DEF Nested, StackInOrder
  <1>3. Shielded(l, s2)
    BY DEF Nested, Shielded
  <1> QED
    BY <1>1, <1>2, <1>3 DEF Nested

\* It commits, and is the call's own.
LEMMA CommitNested ==
    ASSUME NEW l, NEW s, Nested(l, s), Len(s) >= 1, NEW c \in Calls, s[Len(s)] = c,
           NEW l2, NEW s2, LogGrows(l2, l, "commit", c), StackPopped(s2, s)
    PROVE  Nested(l2, s2)
  <1> USE DEF LogGrows
  <1>1. Nested(l, s2)
    BY PopNested
  <1>2. \A k, x : Logged(l2, k, "begin", x) <=> Logged(l, k, "begin", x)
    OBVIOUS
  <1>3. BeginsOnce(l2) /\ StackBegun(l2, s2) /\ StackInOrder(l2, s2)
    BY <1>1, <1>2 DEF Nested, BeginsOnce, StackBegun, StackInOrder
  <1>4. Len(s) \in 1..Len(s)
    BY DEF StackPopped
  <1>5. Shielded(l2, s2)
    <2> SUFFICES ASSUME NEW m \in 1..Len(s2), NEW d \in Calls,
                        NEW i \in Nat, NEW j \in Nat, NEW k \in Nat, i < j, j < k,
                        Logged(l2, i, "begin", d), Logged(l2, j, "begin", s2[m]),
                        Logged(l2, k, "commit", d)
                 PROVE  FALSE
      BY DEF Shielded
    <2>1. Logged(l, i, "begin", d) /\ Logged(l, j, "begin", s2[m])
      BY <1>2
    <2>2. CASE Logged(l, k, "commit", d)
      BY <1>1, <2>1, <2>2 DEF Nested, Shielded
    <2>3. CASE d = c
      <3>1. m \in 1..Len(s) /\ m < Len(s) /\ s2[m] = s[m]
        BY DEF StackPopped
      <3>2. j < i
        BY <1>4, <2>1, <2>3, <3>1 DEF Nested, StackInOrder
      <3> QED
        BY <3>2
    <2> QED
      BY <2>2, <2>3
  <1>6. NestsIn(l2)
    <2> SUFFICES ASSUME NEW d \in Calls, NEW e \in Calls,
                        NEW i \in Nat, NEW j \in Nat, NEW k \in Nat, NEW n \in Nat, i < j, j < k, k < n,
                        Logged(l2, i, "begin", d), Logged(l2, j, "begin", e),
                        Logged(l2, k, "commit", d), Logged(l2, n, "commit", e)
                 PROVE  FALSE
      BY DEF NestsIn
    <2>1. Logged(l, i, "begin", d) /\ Logged(l, j, "begin", e)
      BY <1>2
    <2>2. n <= Len(l) + 1
      OBVIOUS
    <2>3. Logged(l, k, "commit", d)
      BY <2>2
    <2>4. CASE Logged(l, n, "commit", e)
      BY <2>1, <2>3, <2>4 DEF Nested, NestsIn
    <2>5. CASE e = c
      BY <1>4, <2>1, <2>3, <2>5 DEF Nested, Shielded
    <2> QED
      BY <2>4, <2>5
  <1> QED
    BY <1>3, <1>5, <1>6 DEF Nested

------------------------------------------------------------------------------

HasContext == {"opened", "started", "event", "repository", "commit", "rollback"}

Labels == HasContext \cup {"new", "committed", "rolledback"} \cup Ended

\* A call has executed all its repositories when it comes to its commit, and not before;
\* what it rolls back was not whole, unless a listener rejected it.
WroteInv ==
    \A c \in Calls :
        /\ pc[c] \in {"new", "invalid", "opened", "started", "event", "repository"}
               => wrote[c] < Targets
        /\ pc[c] \in {"commit", "committed", "success"} => wrote[c] = Targets
        /\ serene => /\ pc[c] \in {"rollback", "rolledback", "failure"} => wrote[c] < Targets
                     /\ pc[c] # "thrown"

\* Where calls do not overlap, the stack holds the contexts of the calls that have one:
\* none, one, or one and that of a call made in its repository.
Orderly(s, at) ==
    /\ Len(s) <= 2
    /\ \A m \in 1..Len(s) : at[s[m]] \in HasContext
    /\ \A c \in Calls : at[c] \in HasContext => \E m \in 1..Len(s) : s[m] = c
    /\ Len(s) = 2 => Within[s[2]] = s[1] /\ at[s[1]] = "repository"

\* What is on the log has begun.
BegunInv == \A c \in Calls : \A i \in Nat : Logged(log, i, "begin", c) => pc[c] # "new"

CallInv ==
    /\ OwnIdsHold
    /\ CallTypeOK
    /\ WroteInv
    /\ ParentEncloses
    /\ serene => Orderly(stack, pc)
    /\ BegunInv
    /\ Nested(log, stack)

LEMMA UpToTwo ==
    /\ \A n \in Nat : n <= 2 => n <= 1 \/ n = 2
    /\ \A n \in Nat : n + 1 = 2 => n = 1
    /\ \A n \in Nat \ {0} : n <= 1 => n = 1
    /\ 1 \in 1..1
  OBVIOUS

\* A call is not made in a repository of its own.
LEMMA NotWithinItself == \A c \in Calls : Within[c] # c
  BY WithinAssumption, DepthAssumption

\* The call c moves to a label that does not touch the stack.
LEMMA OrderlyMoves ==
    ASSUME NEW s \in Seq(Calls), NEW at, NEW c \in Calls, NEW label, NEW at2,
           Orderly(s, at), at \in [Calls -> Labels], at2 = [at EXCEPT ![c] = label],
           at[c] \in HasContext <=> label \in HasContext,
           at[c] = "repository" => \A d \in Calls : Within[d] = c => at[d] \notin HasContext
    PROVE  Orderly(s, at2)
  <1>1. Len(s) \in Nat /\ \A m \in 1..Len(s) : s[m] \in Calls
    BY LenProperties
  <1>2. at2[c] = label /\ \A d \in Calls \ {c} : at2[d] = at[d]
    OBVIOUS
  <1>3. \A d \in Calls : at2[d] \in HasContext <=> at[d] \in HasContext
    BY <1>2
  <1>4. ASSUME Len(s) = 2 PROVE Within[s[2]] = s[1] /\ at2[s[1]] = "repository"
    <2>1. 1 \in 1..Len(s) /\ 2 \in 1..Len(s)
      BY <1>4
    <2>2. Within[s[2]] = s[1] /\ at[s[1]] = "repository" /\ at[s[2]] \in HasContext
      BY <1>4, <2>1 DEF Orderly
    <2>3. s[1] # c
      BY <1>1, <2>1, <2>2
    <2> QED
      BY <1>1, <1>2, <2>1, <2>2, <2>3
  <1> QED
    BY <1>1, <1>3, <1>4 DEF Orderly

\* A call with a context that waits for no other's has the innermost.
LEMMA OrderlyTop ==
    ASSUME NEW s \in Seq(Calls), NEW at, NEW c \in Calls, Orderly(s, at),
           at[c] \in HasContext, at[c] # "repository"
    PROVE  s # <<>> /\ Len(s) >= 1 /\ s[Len(s)] = c
  <1>1. Len(s) \in Nat
    BY LenProperties
  <1>2. PICK m \in 1..Len(s) : s[m] = c
    BY DEF Orderly
  <1>3. m = Len(s)
    BY <1>1, <1>2 DEF Orderly
  <1>4. s # <<>>
    BY <1>1, <1>2, EmptySeq
  <1> QED
    BY <1>1, <1>2, <1>3, <1>4

\* It leaves the stack with it.
LEMMA OrderlyPops ==
    ASSUME NEW s \in Seq(Calls), NEW at, NEW c \in Calls, NEW label, NEW at2, NEW s2,
           Orderly(s, at), at \in [Calls -> Labels], at2 = [at EXCEPT ![c] = label],
           label \notin HasContext, s[Len(s)] = c, Len(s) >= 1, StackPopped(s2, s)
    PROVE  Orderly(s2, at2)
  <1>1. /\ Len(s) \in {1, 2} /\ Len(s2) = Len(s) - 1
        /\ \A m \in 1..Len(s) : s[m] \in Calls
        /\ \A m \in 1..Len(s2) : m \in 1..Len(s) /\ m < Len(s) /\ s2[m] = s[m]
    BY LenProperties DEF Orderly, StackPopped
  <1>2. at2[c] = label /\ \A d \in Calls \ {c} : at2[d] = at[d]
    OBVIOUS
  <1>3. ASSUME NEW m \in 1..Len(s2) PROVE s[m] # c
    <2>1. Len(s) = 2 /\ m = 1
      <3>1. Len(s) \in {1, 2} /\ Len(s2) = Len(s) - 1
        BY <1>1
      <3> QED
        BY <3>1
    <2>2. Within[c] = s[1] /\ s[1] \in Calls
      BY <1>1, <2>1 DEF Orderly
    <2> QED
      BY <2>1, <2>2, NotWithinItself
  <1>4. \A m \in 1..Len(s2) : at2[s2[m]] \in HasContext
    BY <1>1, <1>2, <1>3 DEF Orderly
  <1>5. ASSUME NEW d \in Calls, at2[d] \in HasContext PROVE \E m \in 1..Len(s2) : s2[m] = d
    <2>1. d # c /\ at[d] \in HasContext
      BY <1>2, <1>5
    <2>2. PICK m \in 1..Len(s) : s[m] = d
      BY <2>1 DEF Orderly
    <2>3. m \in 1..Len(s2)
      BY <1>1, <2>1, <2>2
    <2> QED
      BY <1>1, <2>2, <2>3
  <1> QED
    BY <1>1, <1>4, <1>5 DEF Orderly

\* A call begins where no other is under way but the one in whose repository it is made.
LEMMA OrderlyPushes ==
    ASSUME NEW s \in Seq(Calls), NEW at, NEW c \in Calls, NEW at2, NEW s2,
           Orderly(s, at), at \in [Calls -> Labels], at2 = [at EXCEPT ![c] = "opened"],
           at[c] = "new", StackPushed(s2, s, c),
           \A d \in Calls : at[d] \in HasContext => d = Within[c],
           Within[c] # NoCall => at[Within[c]] = "repository"
    PROVE  Orderly(s2, at2) /\ (Within[c] = NoCall => s = <<>>)
  <1>1. /\ Len(s) \in Nat /\ Len(s2) = Len(s) + 1 /\ s2[Len(s) + 1] = c
        /\ \A m \in 1..Len(s) : s[m] \in Calls /\ s2[m] = s[m]
    BY LenProperties DEF StackPushed
  <1>2. at2[c] = "opened" /\ \A d \in Calls \ {c} : at2[d] = at[d]
    OBVIOUS
  <1>3. \A m \in 1..Len(s) : s[m] = Within[c] /\ s[m] # c
    BY <1>1 DEF Orderly, HasContext
  <1>4. Len(s) <= 1
    <2>a. Len(s) \in Nat /\ Len(s) <= 2
      BY <1>1 DEF Orderly
    <2> SUFFICES ASSUME Len(s) = 2 PROVE FALSE
      BY <2>a, UpToTwo
    <2>1. 1 \in 1..Len(s) /\ 2 \in 1..Len(s)
      OBVIOUS
    <2>2. s[1] = s[2] /\ Within[s[2]] = s[1] /\ s[2] \in Calls
      BY <1>1, <1>3, <2>1 DEF Orderly
    <2> QED
      BY <2>2, NotWithinItself
  <1>5. \A m \in 1..Len(s2) : m \in 1..Len(s) \/ m = Len(s) + 1
    BY <1>1
  <1>6. \A m \in 1..Len(s2) : at2[s2[m]] \in HasContext
    BY <1>1, <1>2, <1>3, <1>5 DEF Orderly, HasContext
  <1>7. ASSUME NEW d \in Calls, at2[d] \in HasContext PROVE \E m \in 1..Len(s2) : s2[m] = d
    <2>1. CASE d = c
      BY <1>1, <2>1
    <2>2. CASE d # c
      <3>1. PICK m \in 1..Len(s) : s[m] = d
        BY <1>2, <1>7, <2>2 DEF Orderly
      <3> QED
        BY <1>1, <3>1
    <2> QED
      BY <2>1, <2>2
  <1>8. ASSUME Len(s2) = 2 PROVE Within[s2[2]] = s2[1] /\ at2[s2[1]] = "repository"
    <2>1. Len(s) = 1 /\ 1 \in 1..Len(s) /\ s2[2] = c
      <3>1. Len(s) \in Nat /\ Len(s) + 1 = 2
        BY <1>1, <1>8
      <3>2. Len(s) = 1
        BY <3>1, UpToTwo
      <3>3. s2[1 + 1] = c
        BY <1>1, <3>2
      <3> QED
        BY <3>2, <3>3, UpToTwo
    <2>2. s2[1] = Within[c] /\ Within[c] \in Calls /\ Within[c] # c
      BY <1>1, <1>3, <2>1
    <2> QED
      BY <1>2, <2>1, <2>2, WithinAssumption
  <1>9. Within[c] = NoCall => s = <<>>
    <2> SUFFICES ASSUME Within[c] = NoCall, s # <<>> PROVE FALSE
      OBVIOUS
    <2>1. Len(s) = 1 /\ 1 \in 1..Len(s)
      <3>1. Len(s) \in Nat \ {0} /\ Len(s) <= 1
        BY <1>4, EmptySeq
      <3> QED
        BY <3>1, UpToTwo
    <2> QED
      BY <1>1, <1>3, <2>1, WithinAssumption
  <1> QED
    BY <1>1, <1>4, <1>6, <1>7, <1>8, <1>9 DEF Orderly

LEMMA CallsInitially == OwnIdsHold /\ CallInit => CallInv
  <1> SUFFICES ASSUME OwnIdsHold, CallInit PROVE CallInv
    OBVIOUS
  <1>1. Len(stack) = 0 /\ Len(log) = 0 /\ 1..Len(stack) = {} /\ 1..Len(log) = {}
    BY DEF CallInit
  <1>2. CallTypeOK
    BY TargetAssumption DEF CallInit, CallTypeOK
  <1>3. WroteInv /\ ParentEncloses
    BY TargetAssumption DEF CallInit, WroteInv, ParentEncloses
  <1>4. Orderly(stack, pc)
    BY <1>1 DEF CallInit, Orderly, HasContext
  <1>5. \A k, x, y : ~Logged(log, k, x, y)
    BY <1>1 DEF Logged
  <1>6. BegunInv /\ Nested(log, stack)
    BY <1>1, <1>5 DEF BegunInv, Nested, BeginsOnce, StackBegun, StackInOrder, Shielded, NestsIn
  <1> QED
    BY <1>2, <1>3, <1>4, <1>6 DEF CallInv

\* A step of the call c that leaves the stack and the log alone keeps what they say.
LEMMA CallMoves ==
    ASSUME CallInv, NEW c \in Calls, NEW label, Goto(c, label), CallTypeOK',
           UNCHANGED <<stack, log>>, serene' => serene, label # "new",
           pc[c] \in HasContext <=> label \in HasContext,
           serene' /\ pc[c] = "repository" => \A d \in Calls : Within[d] = c => ~Running(d)
    PROVE  OwnIdsHold /\ (serene' => Orderly(stack', pc')) /\ BegunInv' /\ Nested(log', stack')
  <1>1. pc' = [pc EXCEPT ![c] = label] /\ pc \in [Calls -> Labels] /\ stack \in Seq(Calls)
    BY DEF Goto, CallInv, CallTypeOK, Ended, Labels, HasContext
  <1>2. serene' => Orderly(stack', pc')
    <2> SUFFICES ASSUME serene' PROVE Orderly(stack, pc')
      OBVIOUS
    <2>1. Orderly(stack, pc)
      BY DEF CallInv
    <2>2. pc[c] = "repository" => \A d \in Calls : Within[d] = c => pc[d] \notin HasContext
      BY DEF Running, HasContext, Ended
    <2> QED
      BY <1>1, <2>1, <2>2, OrderlyMoves
  <1>3. BegunInv'
    <2>1. \A d \in Calls : pc'[d] = "new" => pc[d] = "new"
      BY <1>1
    <2> QED
      BY <2>1 DEF CallInv, BegunInv
  <1> QED
    BY <1>2, <1>3 DEF CallInv

LEMMA CallStep == CallInv /\ [CallNext]_callVars => CallInv'
  <1> SUFFICES ASSUME CallInv, [CallNext]_callVars PROVE CallInv'
    OBVIOUS
  <1> USE TargetAssumption
  <1>a. /\ OwnIdsHold /\ CallTypeOK /\ WroteInv /\ ParentEncloses /\ BegunInv
        /\ (serene => Orderly(stack, pc)) /\ Nested(log, stack)
    BY DEF CallInv
  <1>b. /\ pc \in [Calls -> Labels] /\ stack \in Seq(Calls) /\ serene \in BOOLEAN
        /\ log \in Seq({"begin", "commit"} \X Calls)
        /\ \A c \in Calls : wrote[c] \in Nat
    BY <1>a DEF CallTypeOK, Ended, Labels, HasContext
  <1>1. ASSUME NEW c \in Calls, Invalid(c) PROVE CallInv'
    <2>1. CallTypeOK'
      BY <1>1, <1>a DEF Invalid, Goto, CallTypeOK, Ended
    <2>2. WroteInv' /\ ParentEncloses'
      BY <1>1, <1>a DEF Invalid, Goto, CallTypeOK, WroteInv, ParentEncloses
    <2>3. /\ Goto(c, "invalid") /\ pc[c] = "new" /\ UNCHANGED <<stack, log>> /\ serene' = serene
      BY <1>1 DEF Invalid
    <2>4. pc[c] \notin HasContext /\ "invalid" \notin HasContext
      BY <2>3 DEF HasContext
    <2> QED
      BY <2>1, <2>2, <2>3, <2>4, CallMoves DEF CallInv
  <1>2. ASSUME NEW c \in Calls, Begin(c) PROVE CallInv'
    <2>1. /\ stack' = Append(stack, c) /\ log' = Append(log, <<"begin", c>>)
          /\ pc[c] = "new" /\ pc' = [pc EXCEPT ![c] = "opened"] /\ MayCall(c)
          /\ parent' = [parent EXCEPT ![c] = IF Within[c] # NoCall THEN Within[c] ELSE Top]
          /\ serene' = (serene /\ \A d \in Calls : Running(d) => d = Within[c])
          /\ wrote' = wrote
      BY <1>2 DEF Begin, Goto
    <2>2. /\ stack' \in Seq(Calls) /\ log' \in Seq({"begin", "commit"} \X Calls)
          /\ StackPushed(stack', stack, c)
      BY <1>b, <2>1, AppendProperties, LenProperties DEF StackPushed
    <2>3. stack # <<>> => stack[Len(stack)] \in Calls
      <3>1. stack # <<>> => Len(stack) \in 1..Len(stack)
        BY <1>b, EmptySeq
      <3> QED
        BY <1>b, <3>1, LenProperties
    <2>4. CallTypeOK'
      BY <1>a, <2>1, <2>2, <2>3, WithinAssumption DEF CallTypeOK, Top
    <2>5. WroteInv'
      BY <1>a, <2>1 DEF CallTypeOK, WroteInv
    <2>6. serene' => Orderly(stack', pc') /\ (Within[c] = NoCall => stack = <<>>)
      <3> SUFFICES ASSUME serene'
                   PROVE  Orderly(stack', pc') /\ (Within[c] = NoCall => stack = <<>>)
        OBVIOUS
      <3>1. \A d \in Calls : pc[d] \in HasContext => d = Within[c]
        BY <2>1 DEF Running, HasContext, Ended
      <3>2. Within[c] # NoCall => pc[Within[c]] = "repository"
        BY <2>1 DEF MayCall
      <3> QED
        BY <1>a, <1>b, <2>1, <2>2, <3>1, <3>2, OrderlyPushes
    <2>7. ParentEncloses'
      BY <1>a, <2>1, <2>6 DEF CallTypeOK, ParentEncloses, Top
    <2>8. LogGrows(log', log, "begin", c)
      BY <1>b, <2>1, LogAppended
    <2>9. \A k : ~Logged(log, k, "begin", c)
      BY <1>a, <2>1, <2>8 DEF BegunInv, LogGrows
    <2>10. Nested(log', stack')
      BY <1>a, <2>2, <2>8, <2>9, PushNested
    <2>11. BegunInv'
      <3> SUFFICES ASSUME NEW d \in Calls, NEW i \in Nat, Logged(log', i, "begin", d)
                   PROVE  pc'[d] # "new"
        BY DEF BegunInv
      <3>1. Logged(log, i, "begin", d) \/ d = c
        BY <2>8 DEF LogGrows
      <3> QED
        BY <1>a, <1>b, <2>1, <3>1 DEF BegunInv
    <2> QED
      BY <1>a, <2>4, <2>5, <2>6, <2>7, <2>10, <2>11 DEF CallInv
  <1>3. ASSUME NEW c \in Calls, OpenedThrows(c) \/ ListenerThrows(c) PROVE CallInv'
    <2>1. /\ serene' = FALSE /\ UNCHANGED <<stack, parent, wrote, log>>
          /\ pc[c] \in {"opened", "started", "event", "committed"}
      BY <1>3 DEF OpenedThrows, ListenerThrows
    <2>2. PICK label \in {"thrown", "rollback"} : pc' = [pc EXCEPT ![c] = label]
      BY <1>3 DEF OpenedThrows, ListenerThrows, Goto
    <2>3. CallTypeOK'
      BY <1>a, <2>1, <2>2 DEF CallTypeOK, Ended
    <2>4. WroteInv' /\ ParentEncloses'
      BY <1>a, <2>1, <2>2 DEF CallTypeOK, WroteInv, ParentEncloses
    <2>5. BegunInv'
      BY <1>a, <1>b, <2>1, <2>2 DEF BegunInv
    <2> QED
      BY <1>a, <2>1, <2>3, <2>4, <2>5 DEF CallInv
  <1>4. ASSUME NEW c \in Calls, Delivered(c) PROVE CallInv'
    <2>1. UNCHANGED <<stack, parent, wrote, log, serene>>
      BY <1>4 DEF Delivered
    <2>2. PICK label \in {"started", "event", "repository"} :
              Goto(c, label) /\ pc[c] \in {"opened", "started", "event"}
      BY <1>4 DEF Delivered
    <2>3. CallTypeOK'
      BY <1>a, <2>1, <2>2 DEF Goto, CallTypeOK, Ended
    <2>4. WroteInv' /\ ParentEncloses'
      BY <1>a, <2>1, <2>2 DEF Goto, CallTypeOK, WroteInv, ParentEncloses
    <2>5. pc[c] \in HasContext /\ label \in HasContext /\ label # "new" /\ pc[c] # "repository"
      BY <2>2 DEF HasContext
    <2> QED
      BY <2>1, <2>2, <2>3, <2>4, <2>5, CallMoves DEF CallInv
  <1>5. ASSUME NEW c \in Calls, Execute(c) \/ ExecuteFails(c) PROVE CallInv'
    <2>1. /\ UNCHANGED <<stack, parent, log, serene>> /\ pc[c] = "repository"
          /\ \A d \in Calls : Within[d] = c => ~Running(d)
      BY <1>5 DEF Execute, ExecuteFails, Answers
    <2>2. wrote[c] < Targets
      BY <1>a, <2>1 DEF WroteInv
    <2>3. PICK label \in {"commit", "event", "rollback"} :
              /\ Goto(c, label)
              /\ label = "rollback" => wrote' = wrote
              /\ label # "rollback" => /\ wrote' = [wrote EXCEPT ![c] = wrote[c] + 1]
                                       /\ label = "commit" <=> wrote[c] + 1 = Targets
      BY <1>5 DEF Execute, ExecuteFails
    <2>4. CallTypeOK'
      <3>1. wrote' \in [Calls -> 0..Targets]
        BY <1>a, <1>b, <2>2, <2>3 DEF CallTypeOK
      <3> QED
        BY <1>a, <2>1, <2>3, <3>1 DEF Goto, CallTypeOK
    <2>5. WroteInv' /\ ParentEncloses'
      BY <1>a, <1>b, <2>1, <2>2, <2>3 DEF Goto, CallTypeOK, WroteInv, ParentEncloses
    <2>6. pc[c] \in HasContext /\ label \in HasContext /\ label # "new"
      BY <2>1, <2>3 DEF HasContext
    <2> QED
      BY <2>1, <2>3, <2>4, <2>5, <2>6, CallMoves DEF CallInv
  <1>6. ASSUME NEW c \in Calls, Commit(c) \/ Rollback(c), IsTop(c) PROVE CallInv'
    <2>1. /\ UNCHANGED <<parent, wrote, serene>> /\ Pop /\ stack # <<>>
          /\ pc[c] \in {"commit", "rollback"}
      BY <1>6 DEF Commit, Rollback, IsTop
    <2>2. /\ stack' \in Seq(Calls) /\ StackPopped(stack', stack) /\ Len(stack) >= 1
      BY <1>b, <2>1, FrontPopped DEF Pop
    <2>3. stack[Len(stack)] = c
      <3>1. stack[Len(stack)] \in Calls
        BY <1>b, <2>2, LenProperties
      <3> QED
        BY <1>6, <1>a, <3>1 DEF IsTop, OwnIdsHold
    <2>4. PICK label \in {"committed", "rolledback"} :
              /\ pc' = [pc EXCEPT ![c] = label]
              /\ label = "committed" => pc[c] = "commit" /\ log' = Append(log, <<"commit", c>>)
              /\ label = "rolledback" => pc[c] = "rollback" /\ log' = log
      BY <1>6 DEF Commit, Rollback, Goto
    <2>5. /\ label = "committed" => LogGrows(log', log, "commit", c)
          /\ log' \in Seq({"begin", "commit"} \X Calls)
      <3>1. CASE label = "committed"
        <4>1. <<"commit", c>> \in {"begin", "commit"} \X Calls
          OBVIOUS
        <4>2. log' = Append(log, <<"commit", c>>)
          BY <2>4, <3>1
        <4>3. log' \in Seq({"begin", "commit"} \X Calls)
          BY <1>b, <4>1, <4>2, AppendProperties
        <4>4. LogGrows(log', log, "commit", c)
          BY <1>b, <4>2, LogAppended
        <4> QED
          BY <4>3, <4>4
      <3>2. CASE label = "rolledback"
        BY <1>b, <2>4, <3>2
      <3> QED
        BY <3>1, <3>2
    <2>6. CallTypeOK'
      BY <1>a, <2>1, <2>2, <2>4, <2>5 DEF CallTypeOK, Ended
    <2>7. WroteInv' /\ ParentEncloses'
      BY <1>a, <2>1, <2>4 DEF CallTypeOK, WroteInv, ParentEncloses
    <2>8. serene' => Orderly(stack', pc')
      <3>1. label \notin HasContext
        BY DEF HasContext
      <3> QED
        BY <1>a, <1>b, <2>1, <2>2, <2>3, <2>4, <3>1, OrderlyPops
    <2>9. Nested(log', stack')
      <3>1. CASE label = "committed"
        BY <1>a, <2>2, <2>3, <2>5, <3>1, CommitNested
      <3>2. CASE label = "rolledback"
        BY <1>a, <2>2, <2>4, <3>2, PopNested
      <3> QED
        BY <3>1, <3>2
    <2>10. BegunInv'
      <3> SUFFICES ASSUME NEW d \in Calls, NEW i \in Nat, Logged(log', i, "begin", d)
                   PROVE  pc'[d] # "new"
        BY DEF BegunInv
      <3>1. Logged(log, i, "begin", d)
        BY <2>4, <2>5 DEF LogGrows
      <3> QED
        BY <1>a, <1>b, <2>4, <3>1 DEF BegunInv
    <2> QED
      BY <1>a, <2>6, <2>7, <2>8, <2>9, <2>10 DEF CallInv
  <1>7. ASSUME NEW c \in Calls, Commit(c) \/ Rollback(c), ~IsTop(c) PROVE CallInv'
    <2>1. /\ UNCHANGED <<stack, log, parent, wrote, serene>> /\ pc[c] \in {"commit", "rollback"}
      BY <1>7 DEF Commit, Rollback
    <2>2. PICK label \in {"rollback", "thrown"} : pc' = [pc EXCEPT ![c] = label]
      BY <1>7 DEF Commit, Rollback, Goto
    <2>3. serene = FALSE
      <3> SUFFICES ASSUME serene PROVE FALSE
        BY <1>b
      <3>1. pc[c] \in HasContext /\ pc[c] # "repository"
        BY <2>1 DEF HasContext
      <3>2. stack # <<>> /\ stack[Len(stack)] = c
        BY <1>a, <1>b, <3>1, OrderlyTop
      <3> QED
        BY <1>7, <3>2 DEF IsTop
    <2>4. CallTypeOK'
      BY <1>a, <2>1, <2>2 DEF CallTypeOK, Ended
    <2>5. WroteInv' /\ ParentEncloses' /\ BegunInv'
      BY <1>a, <1>b, <2>1, <2>2, <2>3 DEF WroteInv, ParentEncloses, BegunInv
    <2> QED
      BY <1>a, <2>1, <2>3, <2>4, <2>5 DEF CallInv
  <1>8. ASSUME NEW c \in Calls, Answer(c) PROVE CallInv'
    <2>1. /\ UNCHANGED <<stack, parent, wrote, log>> /\ pc[c] \in {"committed", "rolledback"}
      BY <1>8 DEF Answer
    <2>2. PICK label \in {"success", "failure", "thrown"} :
              /\ Goto(c, label)
              /\ label = "success" => pc[c] = "committed" /\ serene' = serene
              /\ label = "failure" => pc[c] = "rolledback" /\ serene' = serene
              /\ label = "thrown" => serene' = FALSE
      BY <1>8 DEF Answer
    <2>3. CallTypeOK'
      BY <1>a, <2>1, <2>2 DEF Goto, CallTypeOK, Ended
    <2>4. WroteInv' /\ ParentEncloses'
      BY <1>a, <1>b, <2>1, <2>2 DEF Goto, WroteInv, ParentEncloses
    <2>5. /\ pc[c] \notin HasContext /\ label \notin HasContext /\ label # "new"
          /\ pc[c] # "repository" /\ (serene' => serene)
      BY <2>1, <2>2 DEF HasContext
    <2> QED
      BY <2>1, <2>2, <2>3, <2>4, <2>5, CallMoves DEF CallInv
  <1>9. CASE UNCHANGED callVars
    BY <1>9 DEF callVars, CallInv, CallTypeOK, WroteInv, ParentEncloses, BegunInv
  <1>10. CASE CallsAtRest
    BY <1>9, <1>10 DEF CallsAtRest
  <1> QED
    BY <1>1, <1>2, <1>3, <1>4, <1>5, <1>6, <1>7, <1>8, <1>9, <1>10 DEF CallNext, Proceed

\* With transaction ids of their own, calls that overlap on the coordinator's one stack commit
\* nested or one after the other and answer success only when all is written; where they
\* do not overlap, answers are exact and contexts nest as the calls do
\* (PersistenceCoordinator.execute, TransactionManager).
THEOREM CallsStayWhole == OwnIdsHold /\ CallSpec => []CallsAreWhole
  <1>1. CallInv => CallsAreWhole
    <2> SUFFICES ASSUME CallInv PROVE CallsAreWhole
      OBVIOUS
    <2>1. CallTypeOK /\ WroteInv /\ ParentEncloses /\ Nested(log, stack)
      BY DEF CallInv
    <2>2. ExactAnswers
      BY <2>1, TargetAssumption DEF CallTypeOK, WroteInv, ExactAnswers, Ended
    <2>3. SuccessIsWhole
      BY <2>1 DEF WroteInv, SuccessIsWhole
    <2>4. SuccessesNest
      <3>1. DOMAIN log = 1..Len(log) /\ Len(log) \in Nat
        BY <2>1, LenProperties DEF CallTypeOK
      <3>2. \A k \in DOMAIN log : \A x, y : k \in Nat /\ (log[k] = <<x, y>> => Logged(log, k, x, y))
        BY <3>1 DEF Logged
      <3> QED
        BY <2>1, <3>2 DEF Nested, NestsIn, SuccessesNest
    <2> QED
      BY <2>1, <2>2, <2>3, <2>4 DEF CallsAreWhole
  <1> QED
    BY <1>1, CallsInitially, CallStep, PTL DEF CallSpec
=============================================================================
