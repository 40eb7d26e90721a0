----------------------------- MODULE SyncRecovery -----------------------------
(***************************************************************************)
(* SynchronizationRecoveryEngine over the checkpoints: a worker whose      *)
(* synchronization failed asks what to do about it, and asks again, with a *)
(* higher attempt, when the retry it was allowed fails too.                *)
(*                                                                         *)
(* What is decided about a failure (synchronization/classification and     *)
(* policies) comes first.  Of a message, only the kinds of words in it are *)
(* kept.  The patterns are tried in an order, and match inside of words.   *)
(***************************************************************************)
EXTENDS SyncState, Naturals, Sequences

CONSTANTS
    MaxRetries,   \* maxRetries of the requests
    Messages,     \* the failures, each as the kinds of words in its message
    NamedKinds,   \* the kinds that requests name themselves: metadata.kind
    NoKind,
    RetryIds,     \* the retry policies that requests name
    CustomDelays, \* delayMs of the requests, which is 100 if it is not set
    RecoveryIds,  \* the recovery policies that requests name
    NoPlan

\* detectKind
Order == <<"timeout", "validation", "provider", "repository", "infrastructure",
           "synchronization", "permanent", "unexpected">>

ErrorKinds == {Order[i] : i \in DOMAIN Order} \cup {"unknown"} \cup NamedKinds

\* A kind that the request names comes before all words.
KindOf(words, named) ==
    IF named # NoKind THEN named
    ELSE IF words = {} THEN "unknown"
    ELSE Order[CHOOSE i \in DOMAIN Order :
                   Order[i] \in words /\ \A j \in DOMAIN Order : Order[j] \in words => i <= j]

\* isRetryable
Retryable(kind) ==
    kind \in {"infrastructure", "provider", "repository", "synchronization", "timeout",
              "transient"}

RetryPolicies == {"none", "immediate", "fixed-delay", "linear-backoff", "exponential-backoff",
                  "exponential-backoff-with-jitter", "adaptive", "custom"}

\* The delayMs of a retry
RetryDelay(policy, kind, attempt, delay) ==
    CASE policy \in {"none", "immediate"} -> 0
      [] policy = "fixed-delay" -> 100
      [] policy = "linear-backoff" -> 100 * attempt
      [] policy = "exponential-backoff" -> 100 * 2 ^ (attempt - 1)
      [] policy = "exponential-backoff-with-jitter" ->
             100 * 2 ^ (attempt - 1) + (IF attempt % 2 = 0 THEN 25 ELSE 0)
      [] policy = "custom" -> delay
      [] policy = "adaptive" ->
             CASE kind = "timeout" -> 100
               [] kind = "infrastructure" -> 250
               [] OTHER -> 500

\* createRetryDecision
RetryAllowed(policy, kind, attempt, max) ==
    policy # "none" /\ attempt <= max /\ Retryable(kind)

RecoveryPolicies == {"resume-from-checkpoint", "restart-synchronization", "restart-download",
                     "restart-import", "rollback-state", "pause-synchronization",
                     "permanent-failure", "manual-intervention"}

\* resolveRecoveryAction: a policy's action is its own name.
ActionOf(policy, allowed, kind) ==
    IF allowed /\ Retryable(kind) THEN policy ELSE "permanent-failure"

-------------------------------------------------------------------------------
ASSUME RequestAssumption ==
    /\ MaxRetries \in Nat
    /\ Messages \subseteq SUBSET {Order[i] : i \in DOMAIN Order}
    /\ NoKind \notin NamedKinds \cup {"permanent", "validation"}
    /\ RetryIds \subseteq RetryPolicies
    /\ CustomDelays \subseteq Nat
    /\ RecoveryIds \subseteq RecoveryPolicies

VARIABLES
    attempt, \* the attempt each worker is at
    plan,    \* the last plan each worker got
    retries  \* history: the retries that each worker's failure was allowed

recoveryVars == <<stateVars, attempt, plan, retries>>

\* The delays that plans name
Delays == {RetryDelay(policy, kind, n, delay) :
               policy \in RetryPolicies, kind \in ErrorKinds, n \in 1..MaxRetries + 1,
               delay \in CustomDelays \cup {100}}

\* seen is the checkpoint as the plan was made of it, brought tells that the request
\* came with it, and discarded that the reason is 'discard-invalid-checkpoint'.
Plan == [action : RecoveryPolicies, kind : ErrorKinds, named : NamedKinds \cup {NoKind},
         policy : RetryPolicies, delay : Delays, feed : Feeds, ref : Ids \cup {NoId},
         seen : Checkpoint \cup {NoCheckpoint}, brought : BOOLEAN, discarded : BOOLEAN]

ASSUME NoPlanAssumption == NoPlan \notin Plan

RecoveryTypeOK ==
    /\ StateTypeOK
    /\ attempt \in [Workers -> 1..MaxRetries + 1]
    /\ plan \in [Workers -> Plan \cup {NoPlan}]
    /\ retries \in [Workers -> Nat]

RecoveryInit ==
    /\ StateInit
    /\ attempt = [w \in Workers |-> 1]
    /\ plan = [w \in Workers |-> NoPlan]
    /\ retries = [w \in Workers |-> 0]

\* Mutant: the feed is not compared.
RestorableByAny(f, id) == table[id] # NoCheckpoint

\* restoreCheckpoint does not throw.
Restorable(f, id) == table[id] # NoCheckpoint /\ FeedOf(id) = f

\* What DefaultCheckpointRecoveryStrategy selects from: the checkpoint that was handed
\* in, or the one of the state's reference
Selected(state, handed) ==
    IF handed # NoCheckpoint \/ state.ref = NoId THEN handed ELSE table[state.ref]

Discarded(c) == c # NoCheckpoint /\ ~c.valid

\* The checkpointReference of a plan: what is discarded has no reference of the
\* strategy's, and gets the one that the recovery policy made.
Reference(state, handed) == IF handed = NoCheckpoint THEN state.ref ELSE handed.id

\* evaluateFailure.  What precedes its first await is all that reads the table.
EvaluateFailure(w, words, named, policy, delay, recovery, handed) ==
    LET state == held[w]
        kind == KindOf(words, named)
        ref == Reference(state, handed)
        allowed == RetryAllowed(policy, kind, attempt[w], MaxRetries)
    IN  /\ state # NoState
        /\ handed = NoCheckpoint /\ ref # NoId => Restorable(state.feed, ref)
        \* otherwise RetryLimitExceededError
        /\ ~allowed => attempt[w] < MaxRetries
        /\ plan' = [plan EXCEPT ![w] =
               [action |-> ActionOf(recovery, allowed, kind), kind |-> kind, named |-> named,
                policy |-> policy, delay |-> RetryDelay(policy, kind, attempt[w], delay),
                feed |-> state.feed, ref |-> ref, seen |-> Selected(state, handed),
                brought |-> handed # NoCheckpoint,
                discarded |-> Discarded(Selected(state, handed))]]
        /\ attempt' = [attempt EXCEPT ![w] = IF allowed THEN @ + 1 ELSE @]
        /\ retries' = [retries EXCEPT ![w] = IF allowed THEN @ + 1 ELSE @]
        /\ UNCHANGED stateVars

\* The retry worked: the next failure is another one.
Recovered(w) ==
    /\ plan[w] # NoPlan
    /\ attempt' = [attempt EXCEPT ![w] = 1]
    /\ plan' = [plan EXCEPT ![w] = NoPlan]
    /\ retries' = [retries EXCEPT ![w] = 0]
    /\ UNCHANGED stateVars

\* A request may name a checkpoint by its id, which is restored, or hand in a copy.
Evaluate(w) ==
    \E words \in Messages, named \in NamedKinds \cup {NoKind}, policy \in RetryIds,
       delay \in CustomDelays \cup {100}, recovery \in RecoveryIds,
       handed \in Copies \cup {NoCheckpoint} :
           EvaluateFailure(w, words, named, policy, delay, recovery, handed)

RecoveryNext ==
    \/ StateNext /\ UNCHANGED <<attempt, plan, retries>>
    \/ \E w \in Workers : Evaluate(w) \/ Recovered(w)

RecoverySpec == RecoveryInit /\ [][RecoveryNext]_recoveryVars

------------------------------------------------------------------------------
(* Properties *)

\* A failure is retried at most maxRetries times, whatever it says from one attempt
\* to the next and whichever policies the requests name.
RetriesBounded == \A w \in Workers : retries[w] <= MaxRetries

\* A failure that its caller calls permanent or invalid is not retried, whatever words
\* its message has.
NamedIsObeyed ==
    \A w \in Workers :
        plan[w] # NoPlan /\ plan[w].named \in {"permanent", "validation"} =>
            plan[w].action = "permanent-failure"

\* The checkpoint a plan refers to can be restored as long as the process runs, is the
\* feed's own unless the request itself brought another feed's, and as long as nobody
\* changes it is valid, or the plan says that it was discarded.
PlansResolve ==
    \A w \in Workers :
        plan[w] # NoPlan /\ plan[w].ref # NoId =>
            LET c == table[plan[w].ref]
            IN  /\ c # NoCheckpoint
                /\ plan[w].brought \/ FeedOf(plan[w].ref) = plan[w].feed
                /\ c = plan[w].seen => c.valid \/ plan[w].discarded
                /\ plan[w].seen # NoCheckpoint /\ plan[w].seen.id = plan[w].ref

\* A checkpoint that was discarded is not what the plan goes back to: the policy is to
\* 'resume from the most recent valid checkpoint' (recovery-policies.ts).
DiscardedIsNotNamed ==
    \A w \in Workers : plan[w] # NoPlan /\ plan[w].discarded => plan[w].ref = NoId

\* What a failed synchronization is told to do can be done: the retries end, and the
\* checkpoint to go back to is there and has not been invalidated unnoticed.
PlansHold == RecoveryTypeOK /\ RetriesBounded /\ NamedIsObeyed /\ PlansResolve
==============================================================================
