--------------------------- MODULE LifecycleRules ----------------------------
(***************************************************************************)
(* The feed lifecycle of @castaminofen/rss (packages/rss/src/lifecycle):   *)
(* the registered transitions and the two ways of asking whether one may   *)
(* be made.  The state machine asks the registry by its two states.  The   *)
(* pipeline, which FeedLifecycleService.transition runs first, asks it by  *)
(* an identifier made from the state names, and consults guards and        *)
(* policies.                                                               *)
(***************************************************************************)
EXTENDS Integers

Failures == {"VALIDATION_FAILED", "IMPORT_FAILED", "SYNC_FAILED"}

Terminals == {"ARCHIVED", "DELETED"}

States == {"NEW", "REGISTERED", "VALIDATING", "READY", "IMPORTING", "ACTIVE",
           "SYNCING", "PAUSED", "DISABLED"} \cup Failures \cup Terminals

------------------------------------------------------------------------------
(* The registry, in its order *)

OnboardingTransitions ==
    ({"NEW"} \X {"REGISTERED", "DELETED"})
    \cup ({"REGISTERED"} \X {"VALIDATING", "READY", "DISABLED"})
    \cup ({"VALIDATING"} \X {"READY", "VALIDATION_FAILED"})
    \cup ({"VALIDATION_FAILED"} \X {"VALIDATING", "READY"})

OperatingTransitions ==
    ({"READY"} \X {"IMPORTING", "ACTIVE", "DISABLED"})
    \cup ({"IMPORTING"} \X {"ACTIVE", "IMPORT_FAILED"})
    \cup ({"ACTIVE"} \X {"SYNCING", "PAUSED", "DISABLED"})

SyncingTransitions ==
    ({"SYNCING"} \X {"ACTIVE", "SYNC_FAILED"})
    \cup ({"SYNC_FAILED"} \X {"ACTIVE", "READY"})
    \cup ({"PAUSED", "DISABLED"} \X {"ACTIVE"})

ArchivingTransitions ==
    ({"ARCHIVED"} \X {"ACTIVE", "DELETED", "READY"})
    \cup ({"ACTIVE"} \X {"ARCHIVED", "READY", "DELETED"})
    \cup ({"READY"} \X {"ARCHIVED", "DELETED"})
    \cup ({"PAUSED", "DISABLED"} \X {"DELETED"})

Transitions ==
    OnboardingTransitions \cup OperatingTransitions
        \cup SyncingTransitions \cup ArchivingTransitions

\* getFeedLifecycleStateMachine().canTransition
CanTransition(from, to) == <<from, to>> \in Transitions

------------------------------------------------------------------------------
(* The pipeline *)

\* getFeedLifecycleTransitionById(from.toLowerCase() + '.' + to.toLowerCase()):
\* the registry writes its identifiers with hyphens, 'sync-failed.ready', so a
\* name with an underscore finds nothing.
FoundById(from, to) ==
    CanTransition(from, to) /\ {from, to} \cap Failures = {}

\* validateTransitionRequest.  Every state has metadata and no transition
\* leads back to its state, so the other checks never decide.
Validated(from, to) == from # to /\ FoundById(from, to)

\* Mutants: the terminal-state guard is gone, or looks at one side only.
TerminalAllowed(from, to) == TRUE

TerminalTargetAllowed(from, to) == from \notin Terminals

\* The guard 'lifecycle.terminal-state'
TerminalGuard(from, to) == {from, to} \cap Terminals = {}

\* evaluateTransitionGuards
Guarded(from, to) == TerminalGuard(from, to) /\ FoundById(from, to)

RecoveryGating(from, to) == ~(to = "ACTIVE" /\ from \in Failures)

SynchronizationEligibility(from, to) ==
    to = "SYNCING" => from \in {"ACTIVE", "READY"}

StateRestrictions(from, to) ==
    /\ from = "DELETED" => to = "DELETED"
    /\ from = "ARCHIVED" => to \in {"ACTIVE", "DELETED"}

\* The policy engine rejects at the first policy that does.  The fourth one,
\* operational readiness, asks for metadata, which every state has.
PoliciesAllow(from, to) ==
    /\ RecoveryGating(from, to)
    /\ SynchronizationEligibility(from, to)
    /\ StateRestrictions(from, to)

\* TransitionProcessingPipeline.execute stops at the first stage that refuses;
\* the stages after the decision only record what they would do.
PipelineSucceeds(from, to) ==
    Validated(from, to) /\ Guarded(from, to) /\ PoliciesAllow(from, to)

\* The decision engine, given the results of the three stages; no policy defers.
Decision(from, to) == IF PipelineSucceeds(from, to) THEN "ALLOW" ELSE "REJECT"

\* The status of the plan made for a decision
Planned(decision) ==
    CASE decision = "ALLOW" -> "created"
      [] decision = "DEFER" -> "deferred"
      [] OTHER              -> "rejected"

\* FeedLifecycleService.executeTransition asks the state machine and stores
\* nothing.
Executed(from, to) == CanTransition(from, to)

\* FeedLifecycleService.transition, by way of the execution coordinator: TRUE if
\* it returns, FALSE if it throws InvalidStateTransitionError.
Gate(from, to) ==
    /\ PipelineSucceeds(from, to)
    /\ Planned(Decision(from, to)) = "created"
    /\ Executed(from, to)
=============================================================================
