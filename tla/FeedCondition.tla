---------------------------- MODULE FeedCondition ----------------------------
(***************************************************************************)
(* What a feed's condition is: its health, evaluated from metrics          *)
(* (packages/rss/src/health) for a job or for the API's monitoring, and    *)
(* its status, with what the status allows (packages/rss/src/status and    *)
(* FeedLifecycleService), while the registered transitions change it.      *)
(*                                                                         *)
(* An evaluation awaits a hook after each of its stages, and every hook    *)
(* may reject.  Rates are in thousandths, ages in minutes, durations in    *)
(* milliseconds, penalties in thousandths of a point.                      *)
(***************************************************************************)
EXTENDS LifecycleRules, Absent, FiniteSets, SequencesExt, FiniteSetsExt

CONSTANTS
    Evaluations,  \* calls of FeedHealthEvaluator.evaluate
    Assessed,     \* what they may be asked
    Spellings     \* of a status, in upper case

ASSUME SpellingAssumption == States \subseteq Spellings

VARIABLES
    evaluations,  \* each call: its request, the hooks told, and where it is
    stored        \* the status of a feed, as it is spelled in its row

conditionVars == <<evaluations, stored>>

Between(low, x, high) == Max({low, Min({high, x})})

------------------------------------------------------------------------------
(* Health *)

Rates == {"successRate", "failureRate", "providerAvailability"}

Metrics == Rates \cup {"syncDuration", "downloadTime", "importTime", "checkpointAge",
                       "freshness", "metadataChanges"}

\* What is measured is a number.
ASSUME AssessedAssumption ==
    \A request \in Assessed :
        request.metrics # None =>
            \A name \in Metrics \cap DOMAIN request.metrics : request.metrics[name] \in Int

\* normalizeMetrics: what is missing is zero.
NormalizedMetrics(metrics) ==
    [name \in Metrics |->
        LET given == IF name \in DOMAIN metrics THEN metrics[name] ELSE 0
        IN  IF name \in Rates THEN Between(0, given, 1000) ELSE Max({0, given})]

\* Mutant: availability is taken for its lack.
PenaltyForAvailability(m) ==
    60 * m.failureRate + Min({20000, m.downloadTime}) + Min({10000, 10 * m.importTime})
        + Min({20000, 100 * m.freshness}) + Min({10000, 100 * m.checkpointAge})
        + Min({15000, 100 * m.providerAvailability})

\* What DefaultFeedHealthScoringEngine takes off the success rate
Penalty(m) ==
    60 * m.failureRate + Min({20000, m.downloadTime}) + Min({10000, 10 * m.importTime})
        + Min({20000, 100 * m.freshness}) + Min({10000, 100 * m.checkpointAge})
        + Min({15000, 100 * (1000 - m.providerAvailability)})

\* Without an engine of its own an evaluator scores 100 whatever the metrics.
HealthScore(m, engines) ==
    IF engines THEN Between(0, (100 * m.successRate - Penalty(m) + 500) \div 1000, 100) ELSE 100

\* resolveStatus; 'Offline' is never given.
HealthStatus(score, m) ==
    CASE score >= 95 /\ m.providerAvailability >= 950 /\ m.failureRate <= 10 -> "Excellent"
      [] /\ ~(score >= 95 /\ m.providerAvailability >= 950 /\ m.failureRate <= 10)
         /\ score >= 85 /\ m.providerAvailability >= 900 /\ m.failureRate <= 50 -> "Healthy"
      [] OTHER ->
            IF score >= 70 /\ m.providerAvailability >= 750 THEN "Good"
            ELSE IF score >= 55 THEN "Warning"
            ELSE IF score >= 35 THEN "Degraded"
            ELSE IF m.providerAvailability < 500 \/ m.failureRate > 250 THEN "Critical"
            ELSE "Unknown"

\* DefaultFeedHealthClassificationEngine: 'Excellent' is not healthy to it.
HealthClass(score, status, m, engines) ==
    IF ~engines THEN "unknown-feed"
    ELSE IF score >= 90 /\ status = "Healthy" THEN "healthy-feed"
    ELSE IF score >= 70 THEN "warning-feed"
    ELSE IF m.failureRate > 200 \/ m.providerAvailability < 600 THEN "provider-issue"
    ELSE IF m.checkpointAge > 10 \/ m.freshness > 15 THEN "outdated-feed"
    ELSE "unknown-feed"

\* createWarnings
HealthWarnings(score, m) ==
    {w \in {"high-failure-rate", "slow-synchronization", "outdated-checkpoint", "inactive-feed",
            "rapid-metadata-changes", "provider-instability", "large-sync-gap"} :
        CASE w = "high-failure-rate"      -> m.failureRate > 200
          [] w = "slow-synchronization"   -> m.syncDuration > 5000
          [] w = "outdated-checkpoint"    -> m.checkpointAge > 10
          [] w = "inactive-feed"          -> m.freshness > 15
          [] w = "rapid-metadata-changes" -> m.metadataChanges > 10
          [] w = "provider-instability"   -> m.providerAvailability < 800
          [] OTHER                        -> score < 50}

\* The health a whole evaluation makes of a request; its trend never improves.
HealthOf(request) ==
    LET m == NormalizedMetrics(request.metrics)
        score == HealthScore(m, request.engines)
        status == HealthStatus(score, m)
    IN  [metrics |-> m, score |-> score, status |-> status,
         class |-> HealthClass(score, status, m, request.engines),
         warnings |-> HealthWarnings(score, m),
         trend |-> IF request.previous # None /\ request.previous > score
                   THEN "Declining" ELSE "Stable"]

\* createFeedHealthReport: the class is the same for every health.
Report(health) ==
    [class |-> "healthy-feed", warnings |-> health.warnings,
     issues |-> (IF health.score < 60 THEN {"low-score"} ELSE {})
                \cup (health.warnings \cap {"provider-instability"})]

\* FeedMonitoringService.buildHealthMetrics: a feed that was never synchronized is fresh.
MonitoredMetrics(record) ==
    LET age == IF record.synced = None THEN 0 ELSE record.synced
    IN  [successRate |-> 950,
         failureRate |-> IF record.status \in Failures \cup {"FAILED"} THEN 250 ELSE 10,
         syncDuration |-> 2400, downloadTime |-> 900, importTime |-> 600,
         checkpointAge |-> age, freshness |-> age,
         metadataChanges |-> IF record.active THEN 1 ELSE 3,
         providerAvailability |-> IF record.active THEN 950 ELSE 200]

\* getFeedHealth, getFeedMetrics and getFeedStatistics evaluate with a plain evaluator.
Monitoring(record) ==
    [feed |-> TRUE, metrics |-> MonitoredMetrics(record), engines |-> FALSE, previous |-> None]

\* HealthEvaluationJobHandler: what the payload leaves out is zero.
HealthJob(metrics) == [feed |-> TRUE, metrics |-> metrics, engines |-> TRUE, previous |-> None]

Hooks == <<"evaluation-started", "metrics-collected", "score-calculated",
           "classification-completed", "report-generated">>

NotAsked == [pc |-> "idle", request |-> None, told |-> <<>>]

Tell(call, hook) == [call EXCEPT !.told = Append(@, hook)]

ConditionInit ==
    /\ evaluations = [e \in Evaluations |-> NotAsked]
    /\ stored \in Spellings

\* evaluate: the first hook is told before the request is looked at.
Ask(e, request) ==
    /\ evaluations[e].pc = "idle"
    /\ evaluations' = [evaluations EXCEPT
            ![e] = Tell([@ EXCEPT !.pc = "telling", !.request = request], Hooks[1])]
    /\ UNCHANGED stored

\* The catch clause
Failing(call) == Tell([call EXCEPT !.pc = "failing"], "evaluation-failed")

\* A hook has answered: the next stage, up to the next hook
HookAnswers(e) ==
    LET call == evaluations[e]
        stage == Len(call.told)
    IN  /\ call.pc = "telling"
        /\ evaluations' = [evaluations EXCEPT ![e] =
                IF stage = 1 /\ (~call.request.feed \/ call.request.metrics = None)
                THEN Failing(call)
                ELSE IF stage = Len(Hooks) THEN [call EXCEPT !.pc = "done"]
                ELSE Tell(call, Hooks[stage + 1])]
        /\ UNCHANGED stored

\* A hook rejects: the catch clause covers all but the first.
HookRejects(e) ==
    LET call == evaluations[e]
    IN  /\ call.pc = "telling"
        /\ evaluations' = [evaluations EXCEPT ![e] =
                IF Len(call.told) = 1 THEN [call EXCEPT !.pc = "failed"] ELSE Failing(call)]
        /\ UNCHANGED stored

\* onEvaluationFailed has answered, or rejects: the caller gets one error or the other.
FailureTold(e) ==
    /\ evaluations[e].pc = "failing"
    /\ evaluations' = [evaluations EXCEPT ![e].pc = "failed"]
    /\ UNCHANGED stored

------------------------------------------------------------------------------
(* Status *)

\* FEED_STATUS_METADATA: what each status allows, and where it belongs
OnboardingMetadata ==
    [NEW |-> {"edit", "delete"}, REGISTERED |-> {"edit", "delete"}, VALIDATING |-> {"delete"},
     VALIDATION_FAILED |-> {"edit", "delete", "retry", "recover"}]

\* Mutant: what is under way cannot be recovered, nor what it failed in.
OperatingUnrecoverable ==
    [READY |-> {"synchronize", "import", "edit", "delete", "schedule"},
     IMPORTING |-> {"import", "delete"}, IMPORT_FAILED |-> {"import", "edit", "delete", "retry"},
     ACTIVE |-> {"synchronize", "import", "edit", "delete", "schedule", "retry"},
     SYNCING |-> {"synchronize", "delete"}, SYNC_FAILED |-> {"synchronize", "edit", "delete", "retry"}]

OperatingMetadata ==
    [READY |-> {"synchronize", "import", "edit", "delete", "schedule"},
     IMPORTING |-> {"import", "delete"},
     IMPORT_FAILED |-> {"import", "edit", "delete", "retry", "recover"},
     ACTIVE |-> {"synchronize", "import", "edit", "delete", "schedule", "retry", "recover"},
     SYNCING |-> {"synchronize", "delete"},
     SYNC_FAILED |-> {"synchronize", "edit", "delete", "retry", "recover"}]

RestingMetadata ==
    [PAUSED |-> {"edit", "delete", "schedule", "retry", "recover"},
     DISABLED |-> {"edit", "delete", "recover"}, ARCHIVED |-> {"delete"}, DELETED |-> {}]

Allowed ==
    [s \in States |->
        IF s \in DOMAIN OnboardingMetadata THEN OnboardingMetadata[s]
        ELSE IF s \in DOMAIN OperatingMetadata THEN OperatingMetadata[s] ELSE RestingMetadata[s]]

\* normalizeFeedStatus, of a spelling in upper case: the rest stays as it is.
NormalStatus(spelling) ==
    CASE spelling = "DRAFT"                -> "NEW"
      [] spelling = "PENDING"              -> "REGISTERED"
      [] spelling = "SUCCESS"              -> "READY"
      [] spelling \in {"FAILED", "FAILURE"} -> "SYNC_FAILED"
      [] OTHER                             -> spelling

\* isValidFeedStatus
ValidStatus(spelling) == NormalStatus(spelling) \in States

\* canReceiveImports, canSynchronize, canRetry, canRecover, canBeDeleted
MetadataAllows(spelling, what) ==
    ValidStatus(spelling) /\ what \in Allowed[NormalStatus(spelling)]

\* canBeArchived
Archivable(spelling) == NormalStatus(spelling) \in {"ACTIVE", "READY"}

\* FeedLifecycleService.canImport and the questions after it, which have lists of their own
ServiceAllows(status, what) ==
    CASE what = "import"      -> status \in {"READY", "ACTIVE", "REGISTERED"}
      [] what = "synchronize" -> status \in {"READY", "ACTIVE"}
      [] what = "archive"     -> status \notin Terminals
      [] what = "delete"      -> status # "DELETED"
      [] what = "activate"    -> status \in {"READY", "DISABLED", "PAUSED"}
      [] what = "pause"       -> status \in {"ACTIVE", "SYNCING"}
      [] what = "disable"     -> status \notin Terminals \cup {"DISABLED"}
      [] OTHER                -> status \in Failures \cup {"DISABLED"}

\* A registered transition is made, and stored as the registry spells it.
Move(next) ==
    /\ ValidStatus(stored) /\ CanTransition(NormalStatus(stored), next)
    /\ stored' = next
    /\ UNCHANGED evaluations

HealthNext ==
    \E e \in Evaluations :
        \/ \E request \in Assessed : Ask(e, request)
        \/ HookAnswers(e) \/ HookRejects(e) \/ FailureTold(e)

StatusNext == \E next \in States : Move(next)

ConditionSpec == ConditionInit /\ [][HealthNext \/ StatusNext]_conditionVars

------------------------------------------------------------------------------
(* Properties *)

ConditionTypeOK ==
    /\ \A e \in Evaluations :
        evaluations[e].pc \in {"idle", "telling", "failing", "failed", "done"}
    /\ stored \in Spellings

Done == {e \in Evaluations : evaluations[e].pc = "done"}

HealthAt(e) == HealthOf(evaluations[e].request)

NoBetter(worse, better) ==
    /\ worse.successRate <= better.successRate
    /\ worse.providerAvailability <= better.providerAvailability
    /\ \A name \in Metrics \ {"successRate", "providerAvailability"} : worse[name] >= better[name]

Rank == [Excellent |-> 1, Healthy |-> 2, Good |-> 3, Warning |-> 4, Degraded |-> 5,
         Unknown |-> 6, Critical |-> 7]

\* Of two feeds evaluated alike, one that is no better in any metric has neither the higher
\* score nor the better status nor fewer warnings, whatever is clamped, capped or rounded on
\* the way.
WorseIsNotBetter ==
    \A e, f \in Done :
        /\ evaluations[e].request.engines = evaluations[f].request.engines
        /\ NoBetter(HealthAt(e).metrics, HealthAt(f).metrics)
        => /\ HealthAt(e).score <= HealthAt(f).score
           /\ Rank[HealthAt(e).status] >= Rank[HealthAt(f).status]
           /\ HealthAt(f).warnings \subseteq HealthAt(e).warnings

\* An evaluation whose caller gets an error has told its hooks so, unless it was the very
\* first hook that failed; one that succeeds has told every stage, and nothing of a failure.
FailureIsTold ==
    \A e \in Evaluations :
        LET told == evaluations[e].told
        IN  /\ evaluations[e].pc = "failed" /\ Len(told) > 1 => Last(told) = "evaluation-failed"
            /\ evaluations[e].pc = "done" => told = Hooks

\* A health that is critical says why, whatever engine scored it, and so does its report:
\* the class of the report never does.
CriticalIsExplained ==
    \A e \in Done :
        LET health == HealthAt(e)
        IN  /\ health.status = "Critical" =>
                    {"high-failure-rate", "provider-instability"} \cap health.warnings # {}
            /\ health.status \in {"Critical", "Unknown", "Degraded"} =>
                    "low-score" \in Report(health).issues
            /\ health.class = "healthy-feed" => Report(health).issues = {}

\* The health of a feed follows its metrics, and whoever listens hears how its evaluation
\* ended (FeedHealthEvaluator.evaluate).
HealthFollowsMetrics == ConditionTypeOK /\ WorseIsNotBetter /\ FailureIsTold /\ CriticalIsExplained

\* Wherever a feed has come to: what the registry lets it do next is denied neither by the
\* metadata of its status nor by the lifecycle service's own lists, but for one thing.
\* canActivate denies a feed what the registry permits while it is imported or synchronized,
\* after a synchronization that failed, and in the archive, and in these only.  Every status
\* has a way on, but for that of a deleted feed and that of a failed import, which the
\* metadata and the service call recoverable nevertheless.
OnlyActivationIsDenied ==
    ValidStatus(stored) =>
        LET status == NormalStatus(stored)
            both(what) == MetadataAllows(stored, what) /\ ServiceAllows(status, what)
        IN  /\ CanTransition(status, "IMPORTING") => both("import")
            /\ CanTransition(status, "SYNCING") => both("synchronize")
            /\ CanTransition(status, "DELETED") => both("delete")
            /\ CanTransition(status, "ARCHIVED") => Archivable(stored) /\ ServiceAllows(status, "archive")
            /\ CanTransition(status, "PAUSED") => ServiceAllows(status, "pause")
            /\ CanTransition(status, "DISABLED") => ServiceAllows(status, "disable")
            /\ CanTransition(status, "ACTIVE") /\ ~ServiceAllows(status, "activate") <=>
                    status \in {"IMPORTING", "SYNCING", "SYNC_FAILED", "ARCHIVED"}
            /\ status \in Failures => both("recover")
            /\ (\E next \in States : CanTransition(status, next)) <=>
                    status \notin {"IMPORT_FAILED", "DELETED"}
==============================================================================
