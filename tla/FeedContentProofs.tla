------------------------- MODULE FeedContentProofs --------------------------
(***************************************************************************)
(* Proofs about what is known of feeds: their condition, their identity,   *)
(* and what observers see of their processing.                             *)
(***************************************************************************)
EXTENDS FeedIdentity, FeedCondition, Observation, FiniteSetTheorems, SequenceTheorems, TLAPS

------------------------------------------------------------------------------
(* Status *)

\* What the metadata allow, status by status
LEMMA AllowedActions ==
    /\ \A s \in {"READY", "IMPORTING", "IMPORT_FAILED", "ACTIVE"} : "import" \in Allowed[s]
    /\ \A s \in {"READY", "ACTIVE", "SYNCING", "SYNC_FAILED"} : "synchronize" \in Allowed[s]
    /\ \A s \in States \ {"DELETED"} : "delete" \in Allowed[s]
    /\ \A s \in Failures : "recover" \in Allowed[s]
  <1> USE DEF Allowed, OnboardingMetadata, OperatingMetadata, RestingMetadata, States, Failures,
              Terminals
  <1>1. \A s \in {"READY", "IMPORTING", "IMPORT_FAILED", "ACTIVE"} : "import" \in Allowed[s]
    OBVIOUS
  <1>2. \A s \in {"READY", "ACTIVE", "SYNCING", "SYNC_FAILED"} : "synchronize" \in Allowed[s]
    OBVIOUS
  <1>3. \A s \in States \ {"DELETED"} : "delete" \in Allowed[s]
    OBVIOUS
  <1>4. \A s \in Failures : "recover" \in Allowed[s]
    OBVIOUS
  <1> QED
    BY <1>1, <1>2, <1>3, <1>4

\* Which statuses a registered transition to these leads out of
LEMMA LeadsOut ==
    ASSUME NEW s
    PROVE  /\ CanTransition(s, "IMPORTING") => s = "READY"
           /\ CanTransition(s, "SYNCING") => s = "ACTIVE"
           /\ CanTransition(s, "DELETED") =>
                  s \in {"NEW", "ARCHIVED", "ACTIVE", "READY", "PAUSED", "DISABLED"}
           /\ CanTransition(s, "ARCHIVED") => s \in {"ACTIVE", "READY"}
           /\ CanTransition(s, "PAUSED") => s = "ACTIVE"
           /\ CanTransition(s, "DISABLED") => s \in {"REGISTERED", "READY", "ACTIVE"}
           /\ CanTransition(s, "ACTIVE") <=>
                  s \in {"READY", "IMPORTING", "SYNCING", "SYNC_FAILED", "PAUSED", "DISABLED",
                         "ARCHIVED"}
           /\ \A next : CanTransition(s, next) => s \notin {"IMPORT_FAILED", "DELETED"}
  BY DEF CanTransition, Transitions, OnboardingTransitions, OperatingTransitions,
         SyncingTransitions, ArchivingTransitions

\* What leads on from each status
LEMMA LeadsOn ==
    ASSUME NEW s \in States \ {"IMPORT_FAILED", "DELETED"}
    PROVE  \E next \in States : CanTransition(s, next)
  <1> DEFINE on == IF s \in {"NEW"} THEN "REGISTERED"
                   ELSE IF s \in {"REGISTERED", "VALIDATING", "VALIDATION_FAILED"} THEN "READY"
                   ELSE "ACTIVE"
  <1>1. CASE s = "ACTIVE"
    <2>1. CanTransition("ACTIVE", "READY") /\ "READY" \in States
      BY DEF CanTransition, Transitions, ArchivingTransitions, States
    <2> QED
      BY <1>1, <2>1
  <1>2. CASE s # "ACTIVE"
    <2>1. CanTransition(s, on) /\ on \in States
      BY <1>2 DEF CanTransition, Transitions, OnboardingTransitions, OperatingTransitions,
                  SyncingTransitions, ArchivingTransitions, States, Failures, Terminals
    <2> QED
      BY <2>1
  <1> QED
    BY <1>1, <1>2

\* What the registry permits, the metadata and the service's lists do not deny, but for the
\* activation of feeds in four statuses: this holds of every status, so of the one a feed has
\* come to (FEED_STATUS_METADATA, FeedLifecycleService).
THEOREM PermittedIsAllowed == ConditionSpec => []OnlyActivationIsDenied
  <1>1. OnlyActivationIsDenied
    <2> SUFFICES ASSUME ValidStatus(stored) PROVE OnlyActivationIsDenied
      BY DEF OnlyActivationIsDenied
    <2> DEFINE status == NormalStatus(stored)
    <2>1. status \in States /\ \A what : MetadataAllows(stored, what) <=> what \in Allowed[status]
      BY DEF ValidStatus, MetadataAllows
    <2>2. CanTransition(status, "IMPORTING") =>
              MetadataAllows(stored, "import") /\ ServiceAllows(status, "import")
      BY <2>1, AllowedActions, LeadsOut DEF ServiceAllows
    <2>3. CanTransition(status, "SYNCING") =>
              MetadataAllows(stored, "synchronize") /\ ServiceAllows(status, "synchronize")
      BY <2>1, AllowedActions, LeadsOut DEF ServiceAllows
    <2>4. CanTransition(status, "DELETED") =>
              MetadataAllows(stored, "delete") /\ ServiceAllows(status, "delete")
      BY <2>1, AllowedActions, LeadsOut DEF ServiceAllows
    <2>5. CanTransition(status, "ARCHIVED") =>
              Archivable(stored) /\ ServiceAllows(status, "archive")
      BY LeadsOut DEF ServiceAllows, Archivable, Terminals
    <2>6. /\ CanTransition(status, "PAUSED") => ServiceAllows(status, "pause")
          /\ CanTransition(status, "DISABLED") => ServiceAllows(status, "disable")
      BY LeadsOut DEF ServiceAllows, Terminals
    <2>7. status \in Failures =>
              MetadataAllows(stored, "recover") /\ ServiceAllows(status, "recover")
      BY <2>1, AllowedActions DEF ServiceAllows
    <2>8. CanTransition(status, "ACTIVE") /\ ~ServiceAllows(status, "activate") <=>
              status \in {"IMPORTING", "SYNCING", "SYNC_FAILED", "ARCHIVED"}
      BY LeadsOut DEF ServiceAllows
    <2>9. (\E next \in States : CanTransition(status, next)) <=>
              status \notin {"IMPORT_FAILED", "DELETED"}
      BY <2>1, LeadsOut, LeadsOn
    <2> HIDE DEF status
    <2> QED
      BY <2>1, <2>2, <2>3, <2>4, <2>5, <2>6, <2>7, <2>8, <2>9 DEF status, OnlyActivationIsDenied
  <1> QED
    BY <1>1, PTL

------------------------------------------------------------------------------
(* Health *)

LEMMA MaxOfTwo ==
    ASSUME NEW a \in Int, NEW b \in Int
    PROVE  Max({a, b}) = IF a >= b THEN a ELSE b
  <1> DEFINE m == IF a >= b THEN a ELSE b
  <1>1. m \in {a, b} /\ \A y \in {a, b} : m >= y
    OBVIOUS
  <1>2. \A x \in {a, b} : (\A y \in {a, b} : x >= y) => x = m
    OBVIOUS
  <1> HIDE DEF m
  <1>3. Max({a, b}) = m
    BY <1>1, <1>2 DEF Max
  <1> QED
    BY <1>3 DEF m

LEMMA MinOfTwo ==
    ASSUME NEW a \in Int, NEW b \in Int
    PROVE  Min({a, b}) = IF a <= b THEN a ELSE b
  <1> DEFINE m == IF a <= b THEN a ELSE b
  <1>1. m \in {a, b} /\ \A y \in {a, b} : m <= y
    OBVIOUS
  <1>2. \A x \in {a, b} : (\A y \in {a, b} : x <= y) => x = m
    OBVIOUS
  <1> HIDE DEF m
  <1>3. Min({a, b}) = m
    BY <1>1, <1>2 DEF Min
  <1> QED
    BY <1>3 DEF m

LEMMA BetweenIs ==
    ASSUME NEW x \in Int, NEW low \in Int, NEW high \in Int, low <= high
    PROVE  Between(low, x, high) = IF x < low THEN low ELSE IF x > high THEN high ELSE x
  <1>1. Min({x, high}) = IF x <= high THEN x ELSE high
    BY MinOfTwo
  <1>2. Min({x, high}) \in Int
    BY <1>1
  <1>3. Max({low, Min({x, high})}) = IF low >= Min({x, high}) THEN low ELSE Min({x, high})
    BY <1>2, MaxOfTwo
  <1> QED
    BY <1>1, <1>3 DEF Between

LEMMA RoundingKeepsOrder ==
    ASSUME NEW a \in Int, NEW b \in Int, a <= b
    PROVE  a \div 1000 \in Int /\ b \div 1000 \in Int /\ a \div 1000 <= b \div 1000
  OBVIOUS

\* Metrics as they are normalized
Measured == {m \in [Metrics -> Nat] : \A name \in Rates : m[name] <= 1000}

LEMMA NormalizedAreMeasured ==
    ASSUME NEW metrics, \A name \in Metrics \cap DOMAIN metrics : metrics[name] \in Int
    PROVE  NormalizedMetrics(metrics) \in Measured
  <1> DEFINE given(name) == IF name \in DOMAIN metrics THEN metrics[name] ELSE 0
             normal(name) == IF name \in Rates THEN Between(0, given(name), 1000)
                             ELSE Max({0, given(name)})
  <1>1. ASSUME NEW name \in Metrics PROVE given(name) \in Int
    OBVIOUS
  <1>2. ASSUME NEW name \in Metrics
        PROVE  normal(name) \in Nat /\ (name \in Rates => normal(name) <= 1000)
    <2> HIDE DEF given
    <2>1. given(name) \in Int
      BY <1>1
    <2>2. Between(0, given(name), 1000) \in 0..1000
      <3>1. Between(0, given(name), 1000)
                = IF given(name) < 0 THEN 0 ELSE IF given(name) > 1000 THEN 1000 ELSE given(name)
        BY <2>1, BetweenIs
      <3> QED
        BY <2>1, <3>1
    <2>3. Max({0, given(name)}) \in Nat
      BY <2>1, MaxOfTwo
    <2> QED
      BY <2>2, <2>3
  <1>3. NormalizedMetrics(metrics) = [name \in Metrics |-> normal(name)]
    BY DEF NormalizedMetrics
  <1> HIDE DEF normal
  <1> QED
    BY <1>2, <1>3 DEF Measured, Metrics

LEMMA CapKeepsOrder ==
    ASSUME NEW cap \in Int, NEW a \in Int, NEW b \in Int, a <= b
    PROVE  Min({cap, a}) \in Int /\ Min({cap, b}) \in Int /\ Min({cap, a}) <= Min({cap, b})
  <1>1. Min({cap, a}) = IF cap <= a THEN cap ELSE a
    BY MinOfTwo
  <1>2. Min({cap, b}) = IF cap <= b THEN cap ELSE b
    BY MinOfTwo
  <1> QED
    BY <1>1, <1>2

\* All that is known of the metrics of two evaluations, one no better than the other
LEMMA MetricByMetric ==
    ASSUME NEW m \in Measured, NEW n \in Measured, NoBetter(m, n)
    PROVE  /\ m.successRate \in Nat /\ n.successRate \in Nat /\ m.successRate <= n.successRate
           /\ m.providerAvailability \in Nat /\ n.providerAvailability \in Nat
           /\ m.providerAvailability <= n.providerAvailability
           /\ m.failureRate \in Nat /\ n.failureRate \in Nat /\ m.failureRate >= n.failureRate
           /\ m.downloadTime \in Nat /\ n.downloadTime \in Nat /\ m.downloadTime >= n.downloadTime
           /\ m.importTime \in Nat /\ n.importTime \in Nat /\ m.importTime >= n.importTime
           /\ m.syncDuration \in Nat /\ n.syncDuration \in Nat /\ m.syncDuration >= n.syncDuration
           /\ m.freshness \in Nat /\ n.freshness \in Nat /\ m.freshness >= n.freshness
           /\ m.checkpointAge \in Nat /\ n.checkpointAge \in Nat
           /\ m.checkpointAge >= n.checkpointAge
           /\ m.metadataChanges \in Nat /\ n.metadataChanges \in Nat
           /\ m.metadataChanges >= n.metadataChanges
  <1>1. \A name \in Metrics : m[name] \in Nat /\ n[name] \in Nat
    BY DEF Measured
  <1>3. \A name \in Metrics \ {"successRate", "providerAvailability"} : m[name] >= n[name]
    BY DEF NoBetter
  <1>4. /\ {"successRate", "providerAvailability"} \subseteq Metrics
        /\ {"failureRate", "downloadTime", "importTime", "syncDuration", "freshness",
            "checkpointAge", "metadataChanges"}
               \subseteq Metrics \ {"successRate", "providerAvailability"}
    BY DEF Metrics, Rates
  <1>5. m.successRate <= n.successRate /\ m.providerAvailability <= n.providerAvailability
    BY DEF NoBetter
  <1> QED
    BY <1>1, <1>3, <1>4, <1>5

LEMMA PenaltyGrows ==
    ASSUME NEW m \in Measured, NEW n \in Measured, NoBetter(m, n)
    PROVE  Penalty(m) \in Int /\ Penalty(n) \in Int /\ Penalty(n) <= Penalty(m)
  <1> DEFINE capped(cap, x) == Min({cap, x})
  <1>1. /\ m.failureRate \in Nat /\ n.failureRate \in Nat /\ n.failureRate <= m.failureRate
        /\ capped(20000, m.downloadTime) \in Int /\ capped(20000, n.downloadTime) \in Int
        /\ capped(20000, n.downloadTime) <= capped(20000, m.downloadTime)
    BY MetricByMetric, CapKeepsOrder
  <1>2. /\ capped(10000, 10 * m.importTime) \in Int /\ capped(10000, 10 * n.importTime) \in Int
        /\ capped(10000, 10 * n.importTime) <= capped(10000, 10 * m.importTime)
    <2>1. 10 * n.importTime \in Int /\ 10 * m.importTime \in Int /\ 10 * n.importTime <= 10 * m.importTime
      BY MetricByMetric
    <2> QED
      BY <2>1, CapKeepsOrder
  <1>3. /\ capped(20000, 100 * m.freshness) \in Int /\ capped(20000, 100 * n.freshness) \in Int
        /\ capped(20000, 100 * n.freshness) <= capped(20000, 100 * m.freshness)
    <2>1. 100 * n.freshness \in Int /\ 100 * m.freshness \in Int /\ 100 * n.freshness <= 100 * m.freshness
      BY MetricByMetric
    <2> QED
      BY <2>1, CapKeepsOrder
  <1>4. /\ capped(10000, 100 * m.checkpointAge) \in Int
        /\ capped(10000, 100 * n.checkpointAge) \in Int
        /\ capped(10000, 100 * n.checkpointAge) <= capped(10000, 100 * m.checkpointAge)
    <2>1. /\ 100 * n.checkpointAge \in Int /\ 100 * m.checkpointAge \in Int
          /\ 100 * n.checkpointAge <= 100 * m.checkpointAge
      BY MetricByMetric
    <2> QED
      BY <2>1, CapKeepsOrder
  <1>5. /\ capped(15000, 100 * (1000 - m.providerAvailability)) \in Int
        /\ capped(15000, 100 * (1000 - n.providerAvailability)) \in Int
        /\ capped(15000, 100 * (1000 - n.providerAvailability))
               <= capped(15000, 100 * (1000 - m.providerAvailability))
    <2>1. /\ 100 * (1000 - n.providerAvailability) \in Int
          /\ 100 * (1000 - m.providerAvailability) \in Int
          /\ 100 * (1000 - n.providerAvailability) <= 100 * (1000 - m.providerAvailability)
      <3>1. \A a, b \in Nat : a <= b =>
                /\ 100 * (1000 - b) \in Int /\ 100 * (1000 - a) \in Int
                /\ 100 * (1000 - b) <= 100 * (1000 - a)
        OBVIOUS
      <3>2. /\ m.providerAvailability \in Nat /\ n.providerAvailability \in Nat
            /\ m.providerAvailability <= n.providerAvailability
        BY MetricByMetric
      <3> QED
        BY ONLY <3>1, <3>2
    <2> QED
      BY <2>1, CapKeepsOrder
  <1>6. ASSUME NEW x
        PROVE  Penalty(x) = 60 * x.failureRate + capped(20000, x.downloadTime)
                            + capped(10000, 10 * x.importTime) + capped(20000, 100 * x.freshness)
                            + capped(10000, 100 * x.checkpointAge)
                            + capped(15000, 100 * (1000 - x.providerAvailability))
    BY DEF Penalty
  <1> HIDE DEF capped
  <1> QED
    BY <1>1, <1>2, <1>3, <1>4, <1>5, <1>6

LEMMA ScoreFalls ==
    ASSUME NEW m \in Measured, NEW n \in Measured, NoBetter(m, n), NEW engines
    PROVE  /\ HealthScore(m, engines) \in 0..100 /\ HealthScore(n, engines) \in 0..100
           /\ HealthScore(m, engines) <= HealthScore(n, engines)
  <1> DEFINE points(x) == 100 * x.successRate - Penalty(x) + 500
  <1>1. points(m) \in Int /\ points(n) \in Int /\ points(m) <= points(n)
    <2>1. Penalty(m) \in Int /\ Penalty(n) \in Int /\ Penalty(n) <= Penalty(m)
      BY PenaltyGrows
    <2>2. m.successRate \in Nat /\ n.successRate \in Nat /\ m.successRate <= n.successRate
      BY MetricByMetric
    <2>3. \A s, t, p, q \in Int : s <= t /\ q <= p =>
              /\ 100 * s - p + 500 \in Int /\ 100 * t - q + 500 \in Int
              /\ 100 * s - p + 500 <= 100 * t - q + 500
      OBVIOUS
    <2> QED
      BY ONLY <2>1, <2>2, <2>3
  <1>2. ASSUME NEW x PROVE HealthScore(x, engines)
                                = IF engines THEN Between(0, points(x) \div 1000, 100) ELSE 100
    BY DEF HealthScore
  <1> HIDE DEF points
  <1>3. /\ points(m) \div 1000 \in Int /\ points(n) \div 1000 \in Int
        /\ points(m) \div 1000 <= points(n) \div 1000
    BY <1>1, RoundingKeepsOrder
  <1>4. ASSUME NEW a \in Int, NEW b \in Int, a <= b
        PROVE  /\ Between(0, a, 100) \in 0..100 /\ Between(0, b, 100) \in 0..100
               /\ Between(0, a, 100) <= Between(0, b, 100)
    <2>1. Between(0, a, 100) = IF a < 0 THEN 0 ELSE IF a > 100 THEN 100 ELSE a
      BY BetweenIs
    <2>2. Between(0, b, 100) = IF b < 0 THEN 0 ELSE IF b > 100 THEN 100 ELSE b
      BY BetweenIs
    <2>3. Between(0, a, 100) \in 0..100
      BY <2>1
    <2>4. Between(0, b, 100) \in 0..100
      BY <2>2
    <2>5. Between(0, a, 100) <= Between(0, b, 100)
      BY <1>4, <2>1, <2>2
    <2> QED
      BY <2>3, <2>4, <2>5
  <1> QED
    BY <1>2, <1>3, <1>4

\* What resolveStatus says, without its order
LEMMA StatusIs ==
    ASSUME NEW score \in Int, NEW m \in Measured
    PROVE  LET excellent == score >= 95 /\ m.providerAvailability >= 950 /\ m.failureRate <= 10
               healthy == score >= 85 /\ m.providerAvailability >= 900 /\ m.failureRate <= 50
           IN  HealthStatus(score, m) =
                   IF excellent THEN "Excellent" ELSE IF healthy THEN "Healthy"
                   ELSE IF score >= 70 /\ m.providerAvailability >= 750 THEN "Good"
                   ELSE IF score >= 55 THEN "Warning" ELSE IF score >= 35 THEN "Degraded"
                   ELSE IF m.providerAvailability < 500 \/ m.failureRate > 250 THEN "Critical"
                   ELSE "Unknown"
  BY DEF HealthStatus

\* The status does not improve while the score falls and the metrics get worse.
LEMMA StatusFalls ==
    ASSUME NEW m \in Measured, NEW n \in Measured, NoBetter(m, n),
           NEW s \in Int, NEW t \in Int, s <= t
    PROVE  Rank[HealthStatus(s, m)] >= Rank[HealthStatus(t, n)]
  <1>1. /\ m.providerAvailability \in Int /\ n.providerAvailability \in Int
        /\ m.providerAvailability <= n.providerAvailability
        /\ m.failureRate \in Int /\ n.failureRate \in Int /\ m.failureRate >= n.failureRate
    BY MetricByMetric
  <1>2. \A k \in 1..7 : \A l \in 1..7 : k >= l \/ k < l
    OBVIOUS
  <1>3. /\ Rank["Excellent"] = 1 /\ Rank["Healthy"] = 2 /\ Rank["Good"] = 3
        /\ Rank["Warning"] = 4 /\ Rank["Degraded"] = 5 /\ Rank["Unknown"] = 6
        /\ Rank["Critical"] = 7
    BY DEF Rank
  <1>4. CASE s < 35 /\ (m.providerAvailability < 500 \/ m.failureRate > 250)
    BY <1>1, <1>3, <1>4, StatusIs
  <1> QED
    BY <1>1, <1>3, StatusIs

LEMMA WarningsStay ==
    ASSUME NEW m \in Measured, NEW n \in Measured, NoBetter(m, n),
           NEW s \in Int, NEW t \in Int, s <= t
    PROVE  HealthWarnings(t, n) \subseteq HealthWarnings(s, m)
  BY MetricByMetric DEF HealthWarnings

\* What an evaluation computes, once it may
LEMMA HealthParts ==
    ASSUME NEW request \in Assessed, request.metrics # None
    PROVE  LET m == NormalizedMetrics(request.metrics)
               score == HealthScore(m, request.engines)
               health == HealthOf(request)
           IN  /\ m \in Measured /\ score \in 0..100
               /\ health.metrics = m /\ health.score = score
               /\ health.status = HealthStatus(score, m)
               /\ health.class = HealthClass(score, health.status, m, request.engines)
               /\ health.warnings = HealthWarnings(score, m)
  <1> DEFINE m == NormalizedMetrics(request.metrics)
             score == HealthScore(m, request.engines)
  <1>1. m \in Measured
    BY AssessedAssumption, NormalizedAreMeasured
  <1>2. score \in 0..100
    <2>1. NoBetter(m, m)
      BY <1>1 DEF NoBetter, Measured, Metrics, Rates
    <2> HIDE DEF m
    <2> QED
      BY <1>1, <2>1, ScoreFalls
  <1>3. HealthOf(request) =
            [metrics |-> m, score |-> score, status |-> HealthStatus(score, m),
             class |-> HealthClass(score, HealthStatus(score, m), m, request.engines),
             warnings |-> HealthWarnings(score, m),
             trend |-> IF request.previous # None /\ request.previous > score
                       THEN "Declining" ELSE "Stable"]
    BY DEF HealthOf
  <1> HIDE DEF m, score
  <1> QED
    BY <1>1, <1>2, <1>3 DEF m, score

\* A critical status has one of two causes, each of which has its warning.
LEMMA CriticalHasItsWarning ==
    ASSUME NEW m \in Measured, NEW score \in 0..100
    PROVE  /\ HealthStatus(score, m) = "Critical" =>
                  {"high-failure-rate", "provider-instability"} \cap HealthWarnings(score, m) # {}
           /\ HealthStatus(score, m) \in {"Critical", "Unknown", "Degraded"} => score < 55
           /\ HealthStatus(score, m) = "Healthy" =>
                  score >= 85 /\ "provider-instability" \notin HealthWarnings(score, m)
  <1>1. m.providerAvailability \in Nat /\ m.failureRate \in Nat
    BY DEF Measured, Metrics, Rates
  <1>2. /\ "high-failure-rate" \in HealthWarnings(score, m) <=> m.failureRate > 200
        /\ "provider-instability" \in HealthWarnings(score, m) <=> m.providerAvailability < 800
    BY DEF HealthWarnings
  <1>3. HealthStatus(score, m) = "Critical" => m.providerAvailability < 500 \/ m.failureRate > 250
    BY <1>1, StatusIs
  <1>4. HealthStatus(score, m) \in {"Critical", "Unknown", "Degraded"} => score < 55
    BY <1>1, StatusIs
  <1>5. HealthStatus(score, m) = "Healthy" => score >= 85 /\ m.providerAvailability >= 900
    BY <1>1, StatusIs
  <1> QED
    BY <1>1, <1>2, <1>3, <1>4, <1>5

------------------------------------------------------------------------------
(* Evaluations *)

HookNames == {"evaluation-started", "metrics-collected", "score-calculated",
              "classification-completed", "report-generated", "evaluation-failed"}

EvaluationCall == [pc : {"idle", "telling", "failing", "failed", "done"},
                   request : Assessed \cup {None}, told : Seq(HookNames)]

\* The stages were told in their order, and none is passed without metrics.
InOrder(call) ==
    /\ call.request \in Assessed
    /\ Len(call.told) \in 1..5
    /\ \A i \in 1..Len(call.told) : call.told[i] = Hooks[i]
    /\ Len(call.told) > 1 => call.request.metrics # None

FailureHeard(call) == call.told[Len(call.told)] = "evaluation-failed"

CallFine(call) ==
    /\ call.pc = "idle" => call.told = <<>>
    /\ call.pc = "telling" => InOrder(call)
    /\ call.pc = "failing" => FailureHeard(call)
    /\ call.pc = "failed" /\ Len(call.told) > 1 => FailureHeard(call)
    /\ call.pc = "done" =>
           call.told = Hooks /\ call.request \in Assessed /\ call.request.metrics # None

ConditionInv ==
    /\ evaluations \in [Evaluations -> EvaluationCall]
    /\ stored \in Spellings
    /\ \A e \in Evaluations : CallFine(evaluations[e])

\* One call moves on, and is fine.
LEMMA OneMoves ==
    ASSUME ConditionInv, NEW e \in Evaluations, NEW call \in EvaluationCall, CallFine(call),
           evaluations' = [evaluations EXCEPT ![e] = call], UNCHANGED stored
    PROVE  ConditionInv'
  <1>1. evaluations' \in [Evaluations -> EvaluationCall] /\ stored' \in Spellings
    BY DEF ConditionInv
  <1>2. ASSUME NEW d \in Evaluations PROVE CallFine(evaluations'[d])
    <2>1. evaluations'[d] = IF d = e THEN call ELSE evaluations[d]
      BY DEF ConditionInv
    <2> QED
      BY <2>1 DEF ConditionInv
  <1>3. \A d \in Evaluations : CallFine(evaluations[d])'
    BY <1>2 DEF CallFine, InOrder, FailureHeard
  <1> QED
    BY <1>1, <1>3 DEF ConditionInv

\* A hook is told last.
LEMMA TellLast ==
    ASSUME NEW call \in EvaluationCall, NEW hook \in HookNames
    PROVE  LET told == Tell(call, hook)
           IN  /\ told \in EvaluationCall /\ told.pc = call.pc /\ told.request = call.request
               /\ Len(told.told) = Len(call.told) + 1
               /\ \A i \in 1..Len(call.told) : told.told[i] = call.told[i]
               /\ told.told[Len(call.told) + 1] = hook
  <1>1. Tell(call, hook) = [call EXCEPT !.told = Append(call.told, hook)]
    BY DEF Tell
  <1>2. /\ Append(call.told, hook) \in Seq(HookNames)
        /\ Len(Append(call.told, hook)) = Len(call.told) + 1
        /\ \A i \in 1..Len(call.told) : Append(call.told, hook)[i] = call.told[i]
        /\ Append(call.told, hook)[Len(call.told) + 1] = hook
    BY DEF EvaluationCall
  <1> QED
    BY <1>1, <1>2 DEF EvaluationCall

LEMMA HooksAre ==
    /\ Len(Hooks) = 5
    /\ \A i \in 1..5 : Hooks[i] \in HookNames
    /\ \A told \in Seq(HookNames) :
           Len(told) = 5 /\ (\A i \in 1..5 : told[i] = Hooks[i]) => told = Hooks
  BY DEF Hooks, HookNames

\* What has failed says so.
LEMMA FailingHeard ==
    ASSUME NEW call \in EvaluationCall
    PROVE  Failing(call) \in EvaluationCall /\ CallFine(Failing(call))
  <1> DEFINE failing == [call EXCEPT !.pc = "failing"]
  <1>1. failing \in EvaluationCall /\ failing.pc = "failing"
    BY DEF EvaluationCall
  <1>2. Failing(call) = Tell(failing, "evaluation-failed") /\ "evaluation-failed" \in HookNames
    BY DEF Failing, HookNames
  <1> HIDE DEF failing
  <1>3. /\ Failing(call) \in EvaluationCall /\ Failing(call).pc = "failing"
        /\ Failing(call).told[Len(Failing(call).told)] = "evaluation-failed"
    BY <1>1, <1>2, TellLast
  <1> QED
    BY <1>3 DEF CallFine, FailureHeard

LEMMA ConditionStarts == ConditionInit => ConditionInv
  <1> SUFFICES ASSUME ConditionInit PROVE ConditionInv
    OBVIOUS
  <1>1. NotAsked \in EvaluationCall /\ NotAsked.pc = "idle" /\ NotAsked.told = <<>>
    BY DEF NotAsked, EvaluationCall
  <1> QED
    BY <1>1 DEF ConditionInit, ConditionInv, CallFine

LEMMA ConditionStep ==
    ConditionInv /\ [HealthNext \/ StatusNext]_conditionVars => ConditionInv'
  <1> SUFFICES ASSUME ConditionInv, [HealthNext \/ StatusNext]_conditionVars PROVE ConditionInv'
    OBVIOUS
  <1>0. \A e \in Evaluations : evaluations[e] \in EvaluationCall /\ CallFine(evaluations[e])
    BY DEF ConditionInv
  <1>1. ASSUME NEW e \in Evaluations, NEW request \in Assessed, Ask(e, request)
        PROVE  ConditionInv'
    <2> DEFINE asked == [evaluations[e] EXCEPT !.pc = "telling", !.request = request]
    <2>1. asked \in EvaluationCall /\ asked.pc = "telling" /\ asked.request = request
          /\ asked.told = <<>>
      BY <1>0, <1>1 DEF Ask, EvaluationCall, CallFine
    <2>2. evaluations' = [evaluations EXCEPT ![e] = Tell(asked, Hooks[1])] /\ UNCHANGED stored
      BY <1>1 DEF Ask
    <2> HIDE DEF asked
    <2> DEFINE call == Tell(asked, Hooks[1])
    <2>3. /\ call \in EvaluationCall /\ call.pc = "telling" /\ call.request = request
          /\ Len(call.told) = 1 /\ call.told[1] = Hooks[1]
      <3>1. Hooks[1] \in HookNames /\ Len(asked.told) = 0
        BY <2>1, HooksAre
      <3>2. /\ call \in EvaluationCall /\ call.pc = asked.pc /\ call.request = asked.request
            /\ Len(call.told) = Len(asked.told) + 1 /\ call.told[Len(asked.told) + 1] = Hooks[1]
        BY <2>1, <3>1, TellLast
      <3>3. Len(asked.told) + 1 = 1
        BY <3>1
      <3> HIDE DEF call
      <3> QED
        BY <2>1, <3>2, <3>3
    <2> HIDE DEF call
    <2>4. CallFine(call)
      BY <2>3 DEF CallFine, InOrder
    <2> QED
      BY <2>2, <2>3, <2>4, OneMoves DEF call
  <1>2. ASSUME NEW e \in Evaluations, HookAnswers(e) PROVE ConditionInv'
    <2> DEFINE call == evaluations[e]
               stage == Len(call.told)
               refuses == stage = 1 /\ (~call.request.feed \/ call.request.metrics = None)
               next == IF refuses THEN Failing(call)
                       ELSE IF stage = Len(Hooks) THEN [call EXCEPT !.pc = "done"]
                       ELSE Tell(call, Hooks[stage + 1])
    <2>1. call \in EvaluationCall /\ CallFine(call) /\ call.pc = "telling" /\ InOrder(call)
          /\ stage \in 1..5
      BY <1>0, <1>2 DEF HookAnswers, CallFine, InOrder
    <2>2. evaluations' = [evaluations EXCEPT ![e] = next] /\ UNCHANGED stored
      BY <1>2 DEF HookAnswers
    <2> HIDE DEF call, refuses
    <2>3. next \in EvaluationCall /\ CallFine(next)
      <3>1. CASE refuses
        BY <2>1, <3>1, FailingHeard
      <3>2. CASE ~refuses /\ stage = 5
        <4>1. next = [call EXCEPT !.pc = "done"]
          BY <3>2, HooksAre
        <4>2. call.told = Hooks /\ call.request \in Assessed /\ call.request.metrics # None
          BY <2>1, <3>2, HooksAre DEF InOrder, EvaluationCall
        <4>3. /\ next \in EvaluationCall /\ next.pc = "done" /\ next.told = call.told
              /\ next.request = call.request
          BY <2>1, <4>1 DEF EvaluationCall
        <4> QED
          BY <4>2, <4>3 DEF CallFine
      <3>3. CASE ~refuses /\ stage # 5
        <4>1. /\ next = Tell(call, Hooks[stage + 1])
              /\ stage + 1 \in 2..5 /\ Hooks[stage + 1] \in HookNames
          <5>1. stage \in 1..4 /\ stage # Len(Hooks)
            BY <2>1, <3>3, HooksAre
          <5> HIDE DEF stage, next
          <5>2. stage + 1 \in 1..5 /\ stage + 1 \in 2..5
            BY <5>1
          <5>3. Hooks[stage + 1] \in HookNames
            BY <5>2, HooksAre
          <5> QED
            BY <3>3, <5>1, <5>2, <5>3 DEF next
        <4>2. /\ next \in EvaluationCall /\ next.pc = "telling" /\ next.request = call.request
              /\ Len(next.told) = stage + 1
              /\ \A i \in 1..stage : next.told[i] = call.told[i]
              /\ next.told[stage + 1] = Hooks[stage + 1]
          <5> HIDE DEF next
          <5> QED
            BY <2>1, <4>1, TellLast
        <4>3. call.request.metrics # None
          <5>1. CASE stage = 1
            BY <3>3, <5>1 DEF refuses
          <5>2. CASE stage # 1
            <6> HIDE DEF stage
            <6>1. stage > 1
              BY <2>1, <5>2
            <6> QED
              BY <2>1, <6>1 DEF InOrder, stage
          <5> QED
            BY <5>1, <5>2
        <4>4. InOrder(next)
          <5> HIDE DEF next
          <5> QED
            BY <2>1, <4>1, <4>2, <4>3 DEF InOrder
        <4> QED
          BY <4>2, <4>4 DEF CallFine
      <3> QED
        BY <3>1, <3>2, <3>3
    <2> HIDE DEF next
    <2> QED
      BY <2>2, <2>3, OneMoves
  <1>3. ASSUME NEW e \in Evaluations, HookRejects(e) PROVE ConditionInv'
    <2> DEFINE call == evaluations[e]
               next == IF Len(call.told) = 1 THEN [call EXCEPT !.pc = "failed"] ELSE Failing(call)
    <2>1. evaluations' = [evaluations EXCEPT ![e] = next] /\ UNCHANGED stored
      BY <1>3 DEF HookRejects
    <2>2. CASE Len(call.told) = 1
      <3>1. next \in EvaluationCall /\ next.pc = "failed" /\ Len(next.told) = 1
        BY <1>0, <2>2 DEF EvaluationCall
      <3> HIDE DEF next
      <3>2. CallFine(next)
        BY <3>1 DEF CallFine
      <3> QED
        BY <2>1, <3>1, <3>2, OneMoves
    <2>3. CASE Len(call.told) # 1
      <3>1. next \in EvaluationCall /\ CallFine(next)
        BY <1>0, <2>3, FailingHeard
      <3> HIDE DEF next
      <3> QED
        BY <2>1, <3>1, OneMoves
    <2> QED
      BY <2>2, <2>3
  <1>4. ASSUME NEW e \in Evaluations, FailureTold(e) PROVE ConditionInv'
    <2> DEFINE next == [evaluations[e] EXCEPT !.pc = "failed"]
    <2>1. /\ next \in EvaluationCall /\ next.pc = "failed" /\ next.told = evaluations[e].told
          /\ FailureHeard(evaluations[e])
      BY <1>0, <1>4 DEF FailureTold, EvaluationCall, CallFine
    <2>2. evaluations' = [evaluations EXCEPT ![e] = next] /\ UNCHANGED stored
      BY <1>4 DEF FailureTold
    <2> HIDE DEF next
    <2>3. CallFine(next)
      BY <2>1 DEF CallFine, FailureHeard
    <2> QED
      BY <2>1, <2>2, <2>3, OneMoves
  <1>5. ASSUME NEW next \in States, Move(next) PROVE ConditionInv'
    BY <1>5, SpellingAssumption DEF Move, ConditionInv, CallFine, InOrder, FailureHeard
  <1>6. CASE UNCHANGED conditionVars
    BY <1>6 DEF conditionVars, ConditionInv, CallFine, InOrder, FailureHeard
  <1> QED
    BY <1>1, <1>2, <1>3, <1>4, <1>5, <1>6 DEF HealthNext, StatusNext

\* What a feed's health is follows from its metrics, in order, whatever they are; and what
\* the hooks of an evaluation heard is what became of it (FeedHealthEvaluator.evaluate).
THEOREM HealthIsSound == ConditionSpec => []HealthFollowsMetrics
  <1>1. ConditionInv => HealthFollowsMetrics
    <2> SUFFICES ASSUME ConditionInv PROVE HealthFollowsMetrics
      OBVIOUS
    <2>1. ConditionTypeOK
      BY DEF ConditionInv, ConditionTypeOK, EvaluationCall
    <2>2. FailureIsTold
      BY DEF ConditionInv, CallFine, FailureHeard, FailureIsTold, Last
    <2>3. ASSUME NEW e \in Done
          PROVE  evaluations[e].request \in Assessed /\ evaluations[e].request.metrics # None
      BY <2>3 DEF Done, ConditionInv, CallFine
    <2>4. WorseIsNotBetter
      <3> SUFFICES ASSUME NEW e \in Done, NEW f \in Done,
                          evaluations[e].request.engines = evaluations[f].request.engines,
                          NoBetter(HealthAt(e).metrics, HealthAt(f).metrics)
                   PROVE  /\ HealthAt(e).score <= HealthAt(f).score
                          /\ Rank[HealthAt(e).status] >= Rank[HealthAt(f).status]
                          /\ HealthAt(f).warnings \subseteq HealthAt(e).warnings
        BY DEF WorseIsNotBetter
      <3> DEFINE m == NormalizedMetrics(evaluations[e].request.metrics)
                 n == NormalizedMetrics(evaluations[f].request.metrics)
                 s == HealthScore(m, evaluations[e].request.engines)
                 t == HealthScore(n, evaluations[e].request.engines)
      <3>1. /\ m \in Measured /\ HealthAt(e).metrics = m /\ HealthAt(e).score = s
            /\ HealthAt(e).status = HealthStatus(s, m) /\ HealthAt(e).warnings = HealthWarnings(s, m)
        BY <2>3, HealthParts DEF HealthAt
      <3>2. /\ n \in Measured /\ HealthAt(f).metrics = n /\ HealthAt(f).score = t
            /\ HealthAt(f).status = HealthStatus(t, n) /\ HealthAt(f).warnings = HealthWarnings(t, n)
        BY <2>3, HealthParts DEF HealthAt
      <3> HIDE DEF m, n
      <3>3. NoBetter(m, n) /\ s \in 0..100 /\ t \in 0..100 /\ s <= t
        BY <3>1, <3>2, ScoreFalls
      <3> HIDE DEF s, t
      <3>4. s \in Int /\ t \in Int
        BY <3>3
      <3> QED
        BY <3>1, <3>2, <3>3, <3>4, StatusFalls, WarningsStay
    <2>5. CriticalIsExplained
      <3> SUFFICES ASSUME NEW e \in Done
                   PROVE  LET health == HealthAt(e)
                          IN  /\ health.status = "Critical" =>
                                    {"high-failure-rate", "provider-instability"}
                                        \cap health.warnings # {}
                              /\ health.status \in {"Critical", "Unknown", "Degraded"} =>
                                    "low-score" \in Report(health).issues
                              /\ health.class = "healthy-feed" => Report(health).issues = {}
        BY DEF CriticalIsExplained
      <3> DEFINE health == HealthAt(e)
                 m == NormalizedMetrics(evaluations[e].request.metrics)
                 engines == evaluations[e].request.engines
                 score == HealthScore(m, engines)
      <3>1. /\ m \in Measured /\ score \in 0..100 /\ health.score = score
            /\ health.status = HealthStatus(score, m)
            /\ health.class = HealthClass(score, health.status, m, engines)
            /\ health.warnings = HealthWarnings(score, m)
        BY <2>3, HealthParts DEF HealthAt
      <3> HIDE DEF health, m, engines, score
      <3>2. Report(health).issues = (IF score < 60 THEN {"low-score"} ELSE {})
                                    \cup (HealthWarnings(score, m) \cap {"provider-instability"})
        BY <3>1 DEF Report
      <3>3. health.class = "healthy-feed" => HealthStatus(score, m) = "Healthy"
        BY <3>1 DEF HealthClass
      <3>4. score < 55 => score < 60
        BY <3>1
      <3>5. score >= 85 => ~(score < 60)
        BY <3>1
      <3> QED
        BY <3>1, <3>2, <3>3, <3>4, <3>5, CriticalHasItsWarning DEF health
    <2> QED
      BY <2>1, <2>2, <2>4, <2>5 DEF HealthFollowsMetrics
  <1> QED
    BY <1>1, ConditionStarts, ConditionStep, PTL DEF ConditionSpec

------------------------------------------------------------------------------
(* Observations *)

Events == {"ObservationStarted", "CollectorStarted", "CollectorCompleted",
           "ObservationCompleted", "SnapshotCreated"} \X (Kinds \cup {None})

Ended == {Event("ObservationCompleted", None), Event("SnapshotCreated", None)}

IsCall(call) ==
    call \in [pc : {call.pc}, list : {call.list}, results : {call.results}, heard : {call.heard},
              since : {call.since}, snapshot : {call.snapshot}]

\* A registry: each kind once, the default ones among them if it keeps any
Registry(list) ==
    /\ list \in Seq(Kinds)
    /\ \A i, j \in 1..Len(list) : list[i] = list[j] => i = j
    /\ list # <<>> => \A k \in ToSet(Standard) : \E i \in 1..Len(list) : list[i] = k

\* What a collector answered is of the time between the beginning and now.
Timely(call, now) ==
    \A i \in 1..Len(call.results) : call.list[i] \in Observed =>
        /\ call.results[i] \in Nat
        /\ call.since.readings[call.list[i]] <= call.results[i]
        /\ call.results[i] <= now[call.list[i]]

Typed(call, now) ==
    /\ IsCall(call) /\ call.pc = "collecting" /\ call.snapshot = None
    /\ Registry(call.list) /\ call.since.list = call.list
    /\ call.since.readings \in [Kinds -> Nat]
    /\ \A k \in Kinds : call.since.readings[k] <= now[k]
    /\ call.results \in Seq(0..MaxReadings \cup {None})
    /\ call.heard \in Seq(Events \ Ended)
    /\ call.heard[1] = Event("ObservationStarted", None)
    /\ Timely(call, now)

\* n collectors have answered, and the next one was not asked.
Answered(call, now, n) ==
    /\ Typed(call, now) /\ Len(call.results) = n /\ n \in 0..Len(call.list)
    /\ Len(call.heard) = 2 * n + 1
    /\ \A i \in 1..n : /\ call.heard[2 * i] = Event("CollectorStarted", call.list[i])
                       /\ call.heard[2 * i + 1] = Event("CollectorCompleted", call.list[i])

\* The n-th collector was asked.
Awaiting(call, now, n) ==
    /\ Typed(call, now) /\ Len(call.results) = n /\ n \in 1..Len(call.list)
    /\ Len(call.heard) = 2 * n
    /\ \A i \in 1..n : call.heard[2 * i] = Event("CollectorStarted", call.list[i])
    /\ \A i \in 1..(n - 1) : call.heard[2 * i + 1] = Event("CollectorCompleted", call.list[i])

\* What the two properties say of a call that is done
Pictured(call, now) ==
    /\ Len(call.results) <= Len(call.list)
    /\ HeardInTurn(call.heard, call.since.list)
    /\ Len(call.heard) = 2 * Len(call.since.list) + 3
    /\ call.heard[Len(call.heard) - 1] = Event("ObservationCompleted", None)
    /\ call.heard[Len(call.heard)] = Event("SnapshotCreated", None)
    /\ call.heard \in Seq(Events)
    /\ \A i \in 1..(2 * Len(call.since.list) + 1) : call.heard[i] \in Events \ Ended
    /\ call.since.list \in Seq(Kinds)
    /\ DOMAIN call.snapshot.answers = IF call.since.list = <<>> THEN {} ELSE ToSet(Standard)
    /\ \A k \in Observed \cap DOMAIN call.snapshot.answers :
           /\ call.snapshot.answers[k] \in Nat
           /\ call.since.readings[k] <= call.snapshot.answers[k]
           /\ call.snapshot.answers[k] <= now[k]
    /\ call.since.readings \in [Kinds -> Nat]
    /\ call.since.list # <<>> => \A k \in {"queue", "job"} \cap Observed :
           call.since.readings[k] > 0 => call.snapshot.diagnostics.failures > 0

\* An observation between two awaits, or at its end
Going(call, now) ==
    \/ call.pc = "collecting" /\ Awaiting(call, now, Len(call.results))
    \/ call.pc = "done" /\ Pictured(call, now)

\* What telemetry may have heard of a failed one: all but its snapshot, at most
Broken(call) ==
    \/ call.heard \in Seq(Events \ Ended)
    \/ /\ call.heard \in Seq(Events \ {Event("SnapshotCreated", None)})
       /\ HeardInTurn(call.heard, call.since.list)
       /\ Len(call.heard) = 2 * Len(call.since.list) + 2

CallWell(call, now) ==
    \/ call = Unasked
    \/ Going(call, now)
    \/ /\ call.pc = "failed" /\ call.snapshot = None /\ Len(call.results) <= Len(call.list)
       /\ Broken(call)

ObservationInv ==
    /\ Registry(collectors)
    /\ readings \in [Kinds -> 0..MaxReadings]
    /\ observations = [o \in Observers |-> observations[o]]
    /\ \A o \in Observers : CallWell(observations[o], readings)

\* A call that is given other values keeps the rest.
Same(call, was, fields) ==
    /\ IsCall(call)
    /\ \A field \in {"pc", "list", "results", "heard", "since", "snapshot"} \ fields :
           call[field] = was[field]

LEMMA OtherHeard ==
    ASSUME NEW call, IsCall(call), NEW x
    PROVE  LET c == [call EXCEPT !.heard = x] IN Same(c, call, {"heard"}) /\ c.heard = x
  BY DEF IsCall, Same

LEMMA OtherResults ==
    ASSUME NEW call, IsCall(call), NEW x
    PROVE  LET c == [call EXCEPT !.results = x] IN Same(c, call, {"results"}) /\ c.results = x
  BY DEF IsCall, Same

\* Readings only grow.
LEMMA LaterIsWell ==
    ASSUME NEW now \in [Kinds -> 0..MaxReadings], NEW later \in [Kinds -> 0..MaxReadings],
           \A k \in Kinds : now[k] <= later[k], NEW call, CallWell(call, now)
    PROVE  CallWell(call, later)
  <1>0. MaxReadings \in Nat /\ ToSet(Standard) \subseteq Kinds
    BY CollectorAssumption DEF Kinds
  <1>1. CASE call.pc = "collecting" /\ Awaiting(call, now, Len(call.results))
    <2>1. \A k \in Kinds : call.since.readings[k] <= later[k]
      BY <1>0, <1>1 DEF Awaiting, Typed
    <2>2. Timely(call, later)
      <3>1. \A i \in 1..Len(call.results) : call.list[i] \in Kinds
        <4>1. call.list \in Seq(Kinds) /\ Len(call.results) \in 1..Len(call.list)
          BY <1>1 DEF Awaiting, Typed, Registry
        <4> QED
          BY <4>1
      <3> QED
        BY <1>0, <1>1, <3>1 DEF Awaiting, Typed, Timely
    <2>3. Awaiting(call, later, Len(call.results))
      BY <1>1, <2>1, <2>2 DEF Awaiting, Typed
    <2> QED
      BY <1>1, <2>3 DEF CallWell, Going
  <1>2. CASE call.pc = "done" /\ Pictured(call, now)
    <2>1. ASSUME NEW k \in Observed \cap DOMAIN call.snapshot.answers
          PROVE  call.snapshot.answers[k] \in Nat /\ call.snapshot.answers[k] <= later[k]
      <3>1. k \in Kinds
        BY <1>0, <1>2, <2>1 DEF Pictured
      <3>2. call.snapshot.answers[k] \in Nat /\ call.snapshot.answers[k] <= now[k]
        BY <1>2, <2>1 DEF Pictured
      <3>3. now[k] <= later[k] /\ now[k] \in Nat /\ later[k] \in Nat
        BY <1>0, <3>1
      <3> QED
        BY <3>2, <3>3
    <2>2. Pictured(call, later)
      BY <1>2, <2>1 DEF Pictured
    <2> QED
      BY <1>2, <2>2 DEF CallWell, Going
  <1> QED
    BY <1>1, <1>2 DEF CallWell, Going

\* What telemetry hears next comes last.
LEMMA HeardLast ==
    ASSUME NEW call, IsCall(call), NEW S, call.heard \in Seq(S), NEW event \in S
    PROVE  LET c == Heard(call, <<event>>)
           IN  /\ Same(c, call, {"heard"}) /\ c.heard \in Seq(S)
               /\ Len(c.heard) = Len(call.heard) + 1
               /\ \A i \in 1..Len(call.heard) : c.heard[i] = call.heard[i]
               /\ c.heard[Len(call.heard) + 1] = event
  <1>1. Heard(call, <<event>>) = [call EXCEPT !.heard = call.heard \o <<event>>]
    BY DEF Heard
  <1>2. /\ call.heard \o <<event>> \in Seq(S)
        /\ Len(call.heard \o <<event>>) = Len(call.heard) + 1
        /\ \A i \in 1..Len(call.heard) : (call.heard \o <<event>>)[i] = call.heard[i]
        /\ (call.heard \o <<event>>)[Len(call.heard) + 1] = event
    OBVIOUS
  <1>3. LET c == [call EXCEPT !.heard = call.heard \o <<event>>]
        IN  Same(c, call, {"heard"}) /\ c.heard = call.heard \o <<event>>
    BY OtherHeard
  <1> QED
    BY <1>1, <1>2, <1>3

LEMMA EventsAre ==
    /\ \A k \in Kinds : /\ Event("CollectorStarted", k) \in Events \ Ended
                        /\ Event("CollectorCompleted", k) \in Events \ Ended
    /\ Event("ObservationStarted", None) \in Events \ Ended
    /\ Ended \subseteq Events
  BY DEF Event, Events, Ended

\* The facts about a call that do not depend on what it heard or was answered
LEMMA TypedAgain ==
    ASSUME NEW call, NEW now, Typed(call, now), NEW c, IsCall(c),
           c.pc = "collecting", c.snapshot = call.snapshot, c.list = call.list, c.since = call.since,
           c.results \in Seq(0..MaxReadings \cup {None}), c.heard \in Seq(Events \ Ended),
           c.heard[1] = Event("ObservationStarted", None), Timely(c, now)
    PROVE  Typed(c, now)
  BY DEF Typed

LEMMA AsksNext ==
    ASSUME readings \in [Kinds -> 0..MaxReadings], NEW call, NEW n,
           Answered(call, readings, n), n # Len(call.list)
    PROVE  Going(AskNext(call), readings) /\ AskNext(call).since = call.since
  <1> DEFINE k == call.list[n + 1]
             results == Append(call.results, Collected(k))
             asked == [call EXCEPT !.results = results]
             next == Heard(asked, <<Event("CollectorStarted", k)>>)
  <1>0. MaxReadings \in Nat
    BY CollectorAssumption
  <1>1. /\ Typed(call, readings) /\ Len(call.results) = n /\ n \in Nat /\ n + 1 \in 1..Len(call.list)
        /\ Len(call.heard) = 2 * n + 1 /\ call.list \in Seq(Kinds)
        /\ call.results \in Seq(0..MaxReadings \cup {None})
    <2>1. /\ Typed(call, readings) /\ Len(call.results) = n /\ n \in 0..Len(call.list)
          /\ Len(call.heard) = 2 * n + 1
      BY DEF Answered
    <2>2. call.list \in Seq(Kinds) /\ call.results \in Seq(0..MaxReadings \cup {None})
      BY <2>1 DEF Typed, Registry
    <2>3. n \in Nat /\ n + 1 \in 1..Len(call.list)
      BY <2>1, <2>2
    <2> QED
      BY <2>1, <2>2, <2>3
  <1>2. k \in Kinds
    BY <1>1
  <1>3. /\ Collected(k) \in 0..MaxReadings \cup {None}
        /\ k \in Observed => Collected(k) = readings[k] /\ readings[k] \in Nat
    <2>1. readings[k] \in 0..MaxReadings
      BY <1>2
    <2> QED
      BY <1>0, <2>1 DEF Collected
  <1>4. AskNext(call) = next
    BY <1>1 DEF AskNext
  <1>5. /\ results \in Seq(0..MaxReadings \cup {None}) /\ Len(results) = n + 1
        /\ \A i \in 1..n : results[i] = call.results[i]
        /\ results[n + 1] = Collected(k)
    <2> DEFINE S == 0..MaxReadings \cup {None}
    <2>1. call.results \in Seq(S) /\ Collected(k) \in S /\ Len(call.results) = n
      BY <1>1, <1>3
    <2> HIDE DEF S, k
    <2>2. /\ results \in Seq(S) /\ Len(results) = n + 1
          /\ \A i \in 1..n : results[i] = call.results[i]
          /\ results[n + 1] = Collected(k)
      BY <2>1
    <2> QED
      BY <2>2 DEF S
  <1> HIDE DEF results
  <1>6. IsCall(call)
    BY <1>1 DEF Typed
  <1>7. Same(asked, call, {"results"}) /\ asked.results = results
    BY <1>6, OtherResults
  <1> HIDE DEF asked
  <1>8. IsCall(asked) /\ asked.heard = call.heard /\ asked.heard \in Seq(Events \ Ended)
    BY <1>1, <1>7 DEF Same, Typed
  <1>9. /\ Same(next, asked, {"heard"}) /\ next.heard \in Seq(Events \ Ended)
        /\ Len(next.heard) = Len(call.heard) + 1
        /\ \A i \in 1..Len(call.heard) : next.heard[i] = call.heard[i]
        /\ next.heard[Len(call.heard) + 1] = Event("CollectorStarted", k)
    BY <1>2, <1>8, EventsAre, HeardLast
  <1> HIDE DEF next
  <1>10. /\ IsCall(next) /\ next.pc = "collecting" /\ next.snapshot = call.snapshot
         /\ next.list = call.list /\ next.since = call.since /\ next.results = results
    BY <1>1, <1>7, <1>9 DEF Same, Typed
  <1>11. Timely(next, readings)
    <2> SUFFICES ASSUME NEW i \in 1..(n + 1), call.list[i] \in Observed
                 PROVE  /\ results[i] \in Nat /\ call.since.readings[call.list[i]] <= results[i]
                        /\ results[i] <= readings[call.list[i]]
      BY <1>5, <1>10 DEF Timely
    <2>1. CASE i \in 1..n
      BY <1>1, <1>5, <2>1 DEF Typed, Timely
    <2>2. CASE i = n + 1
      <3>1. call.since.readings[k] <= readings[k]
        BY <1>1, <1>2 DEF Typed
      <3> QED
        BY <1>3, <1>5, <2>2, <3>1
    <2> QED
      BY <1>1, <2>1, <2>2
  <1>12. next.heard[1] = Event("ObservationStarted", None)
    <2>1. 1 \in 1..Len(call.heard)
      BY <1>1
    <2> QED
      BY <1>1, <1>9, <2>1 DEF Typed
  <1>13. Typed(next, readings)
    BY <1>1, <1>5, <1>9, <1>10, <1>11, <1>12, TypedAgain
  <1>14. /\ \A i \in 1..(n + 1) : next.heard[2 * i] = Event("CollectorStarted", call.list[i])
         /\ \A i \in 1..n : next.heard[2 * i + 1] = Event("CollectorCompleted", call.list[i])
    <2>1. ASSUME NEW i \in 1..n
          PROVE  /\ next.heard[2 * i] = Event("CollectorStarted", call.list[i])
                 /\ next.heard[2 * i + 1] = Event("CollectorCompleted", call.list[i])
      <3>1. 2 * i \in 1..Len(call.heard) /\ 2 * i + 1 \in 1..Len(call.heard)
        BY <1>1
      <3> QED
        BY <1>9, <3>1 DEF Answered
    <2>2. next.heard[2 * (n + 1)] = Event("CollectorStarted", call.list[n + 1])
      <3>1. 2 * (n + 1) = Len(call.heard) + 1
        BY <1>1
      <3> QED
        BY <1>9, <3>1
    <2>3. \A i \in 1..(n + 1) : i \in 1..n \/ i = n + 1
      BY <1>1
    <2> QED
      BY <2>1, <2>2, <2>3
  <1>15. Awaiting(next, readings, n + 1)
    <2>1. Len(next.heard) = 2 * (n + 1) /\ (n + 1) - 1 = n
      BY <1>1, <1>9
    <2> QED
      BY <1>1, <1>5, <1>10, <1>13, <1>14, <2>1 DEF Awaiting
  <1> QED
    BY <1>4, <1>5, <1>10, <1>15 DEF Going

\* The snapshot has one answer of each default collector, of the time of the call.
LEMMA AnswersOfTheTime ==
    ASSUME NEW call, NEW now, Typed(call, now), Len(call.results) = Len(call.list)
    PROVE  /\ DOMAIN Answers(call) = IF call.list = <<>> THEN {} ELSE ToSet(Standard)
           /\ \A k \in Observed \cap DOMAIN Answers(call) :
                  /\ Answers(call)[k] \in Nat
                  /\ call.since.readings[k] <= Answers(call)[k]
                  /\ Answers(call)[k] <= now[k]
  <1>1. call.list \in Seq(Kinds) /\ DOMAIN call.list = 1..Len(call.list)
    BY DEF Typed, Registry
  <1>2. ASSUME call.list # <<>> PROVE ToSet(Standard) \subseteq ToSet(call.list)
    <2> SUFFICES ASSUME NEW k \in ToSet(Standard) PROVE k \in ToSet(call.list)
      OBVIOUS
    <2>1. PICK i \in 1..Len(call.list) : call.list[i] = k
      BY <1>2 DEF Typed, Registry
    <2> QED
      BY <1>1, <2>1 DEF ToSet
  <1>3. DOMAIN Answers(call) = ToSet(call.list) \cap ToSet(Standard)
    BY DEF Answers
  <1>4. DOMAIN Answers(call) = IF call.list = <<>> THEN {} ELSE ToSet(Standard)
    <2>1. ASSUME call.list = <<>> PROVE ToSet(call.list) = {}
      BY <2>1 DEF ToSet
    <2> QED
      BY <1>2, <1>3, <2>1
  <1>5. ASSUME NEW k \in Observed \cap DOMAIN Answers(call)
        PROVE  /\ Answers(call)[k] \in Nat
               /\ call.since.readings[k] <= Answers(call)[k]
               /\ Answers(call)[k] <= now[k]
    <2>1. \E i \in 1..Len(call.list) : call.list[i] = k
      BY <1>1, <1>3, <1>5 DEF ToSet
    <2> DEFINE j == CHOOSE i \in DOMAIN call.list : call.list[i] = k
    <2>2. j \in 1..Len(call.list) /\ call.list[j] = k
      BY <1>1, <2>1
    <2>3. Answers(call)[k] = call.results[j]
      BY <1>3, <1>5 DEF Answers
    <2> HIDE DEF j
    <2> QED
      BY <1>5, <2>2, <2>3 DEF Typed, Timely
  <1> QED
    BY <1>4, <1>5

\* A failure that the answers tell of is in the diagnostics.
LEMMA FailuresAreSeen ==
    ASSUME NEW answers, NEW k \in {"queue", "job"}, k \in DOMAIN answers,
           answers[k] \in Nat, answers[k] > 0
    PROVE  Diagnostics(answers).failures > 0
  BY DEF Diagnostics

LEMMA TwoMore ==
    ASSUME NEW S, NEW s \in Seq(S), NEW t \in Seq(S), Len(t) = 2
    PROVE  /\ Len(s \o t) = Len(s) + 2
           /\ \A i \in 1..Len(s) : (s \o t)[i] = s[i]
           /\ (s \o t)[Len(s) + 1] = t[1]
           /\ (s \o t)[Len(s) + 2] = t[2]
  <1>1. Len(s) \in Nat /\ (Len(s) + 1) - Len(s) = 1 /\ (Len(s) + 2) - Len(s) = 2
    OBVIOUS
  <1> QED
    BY <1>1, ConcatProperties

LEMMA MakesSnapshot ==
    ASSUME NEW call, NEW now, Answered(call, now, Len(call.list))
    PROVE  Going(Whole(call), now) /\ Whole(call).since = call.since
  <1> DEFINE n == Len(call.list)
             answers == Answers(call)
             snapshot == [answers |-> answers, diagnostics |-> Diagnostics(answers)]
             made == [call EXCEPT !.pc = "done", !.snapshot = snapshot]
             last == <<Event("ObservationCompleted", None), Event("SnapshotCreated", None)>>
             whole == Heard(made, last)
  <1>1. /\ Typed(call, now) /\ Len(call.results) = n /\ Len(call.heard) = 2 * n + 1
        /\ \A i \in 1..n : /\ call.heard[2 * i] = Event("CollectorStarted", call.list[i])
                           /\ call.heard[2 * i + 1] = Event("CollectorCompleted", call.list[i])
    BY DEF Answered
  <1>2. /\ IsCall(call) /\ n \in Nat /\ call.heard \in Seq(Events \ Ended)
        /\ call.since.list = call.list /\ call.since.readings \in [Kinds -> Nat]
        /\ call.heard[1] = Event("ObservationStarted", None)
    BY <1>1 DEF Typed, Registry
  <1>3. /\ DOMAIN answers = IF call.list = <<>> THEN {} ELSE ToSet(Standard)
        /\ \A k \in Observed \cap DOMAIN answers :
               /\ answers[k] \in Nat
               /\ call.since.readings[k] <= answers[k]
               /\ answers[k] <= now[k]
    BY <1>1, AnswersOfTheTime
  <1> HIDE DEF answers
  <1>4. call.list # <<>> => \A k \in {"queue", "job"} \cap Observed :
            call.since.readings[k] > 0 => snapshot.diagnostics.failures > 0
    <2> SUFFICES ASSUME call.list # <<>>,
                        NEW k \in {"queue", "job"} \cap Observed, call.since.readings[k] > 0
                 PROVE  Diagnostics(answers).failures > 0
      OBVIOUS
    <2>1. k \in ToSet(Standard) /\ k \in Kinds
      BY CollectorAssumption DEF Kinds
    <2>2. answers[k] \in Nat /\ answers[k] > 0 /\ k \in DOMAIN answers
      BY <1>2, <1>3, <2>1
    <2> QED
      BY <2>2, FailuresAreSeen
  <1>5. snapshot.answers = answers
    OBVIOUS
  <1>6. Whole(call) = whole
    BY DEF Whole, answers
  <1> HIDE DEF snapshot
  <1>7. Same(made, call, {"pc", "snapshot"}) /\ made.pc = "done" /\ made.snapshot = snapshot
    BY <1>2 DEF IsCall, Same
  <1> HIDE DEF made
  <1>8. IsCall(made) /\ made.heard = call.heard
    BY <1>7 DEF Same
  <1>9. whole = [made EXCEPT !.heard = call.heard \o last]
    BY <1>8 DEF Heard
  <1>10. Same(whole, made, {"heard"}) /\ whole.heard = call.heard \o last
    BY <1>8, <1>9, OtherHeard
  <1>11. /\ Len(whole.heard) = 2 * n + 3
         /\ \A i \in 1..(2 * n + 1) : whole.heard[i] = call.heard[i]
         /\ whole.heard[2 * n + 2] = Event("ObservationCompleted", None)
         /\ whole.heard[2 * n + 3] = Event("SnapshotCreated", None)
         /\ whole.heard \in Seq(Events)
    <2>1. call.heard \in Seq(Events) /\ last \in Seq(Events) /\ Len(last) = 2
      BY <1>2, EventsAre DEF Ended
    <2>2. last[1] = Event("ObservationCompleted", None) /\ last[2] = Event("SnapshotCreated", None)
      OBVIOUS
    <2> HIDE DEF last, n
    <2>3. /\ Len(call.heard \o last) = Len(call.heard) + 2
          /\ \A i \in 1..Len(call.heard) : (call.heard \o last)[i] = call.heard[i]
          /\ (call.heard \o last)[Len(call.heard) + 1] = last[1]
          /\ (call.heard \o last)[Len(call.heard) + 2] = last[2]
      BY <2>1, TwoMore
    <2>4. Len(call.heard) = 2 * n + 1 /\ (2 * n + 1) + 1 = 2 * n + 2 /\ (2 * n + 1) + 2 = 2 * n + 3
      BY <1>1, <1>2
    <2>5. call.heard \o last \in Seq(Events)
      BY <2>1
    <2> QED
      BY <1>10, <2>2, <2>3, <2>4, <2>5
  <1>16. \A i \in 1..(2 * n + 1) : whole.heard[i] \in Events \ Ended
    <2>1. \A i \in 1..Len(call.heard) : call.heard[i] \in Events \ Ended
      BY <1>2
    <2> QED
      BY <1>1, <1>11, <2>1
  <1>17. call.list \in Seq(Kinds)
    BY <1>1 DEF Typed, Registry
  <1> HIDE DEF whole, n
  <1>12. /\ whole.pc = "done" /\ whole.list = call.list /\ whole.results = call.results
         /\ whole.since = call.since /\ whole.snapshot = snapshot
    BY <1>7, <1>10 DEF Same
  <1>13. HeardInTurn(whole.heard, call.list)
    <2>1. ASSUME NEW i \in 1..n
          PROVE  /\ whole.heard[2 * i] = Event("CollectorStarted", call.list[i])
                 /\ whole.heard[2 * i + 1] = Event("CollectorCompleted", call.list[i])
      <3>1. 2 * i \in 1..(2 * n + 1) /\ 2 * i + 1 \in 1..(2 * n + 1)
        BY <1>2
      <3> QED
        BY <1>1, <1>11, <3>1
    <2>2. 1 \in 1..(2 * n + 1)
      BY <1>2
    <2>3. whole.heard[1] = Event("ObservationStarted", None) /\ Len(whole.heard) >= 2 * n + 1
      BY <1>2, <1>11, <2>2
    <2> QED
      BY <2>1, <2>3 DEF HeardInTurn, n
  <1>14. /\ Len(whole.heard) - 1 = 2 * n + 2 /\ Len(whole.heard) = 2 * n + 3
         /\ Len(whole.results) <= Len(whole.list)
    BY <1>1, <1>2, <1>11, <1>12 DEF n
  <1>15. Pictured(whole, now)
    BY <1>2, <1>3, <1>4, <1>5, <1>11, <1>12, <1>13, <1>14, <1>16, <1>17 DEF Pictured, n
  <1> QED
    BY <1>6, <1>12, <1>15 DEF Going

\* When a collector has answered, or there is none, the observation goes on or ends.
LEMMA GoesOn ==
    ASSUME readings \in [Kinds -> 0..MaxReadings], NEW told, NEW n, Answered(told, readings, n)
    PROVE  Going(Continues(told), readings) /\ Continues(told).since = told.since
  <1>1. Len(told.results) = n
    BY DEF Answered
  <1>2. CASE n = Len(told.list)
    <2>1. Answered(told, readings, Len(told.list)) /\ Continues(told) = Whole(told)
      BY <1>1, <1>2 DEF Continues
    <2> QED
      BY <2>1, MakesSnapshot
  <1>3. CASE n # Len(told.list)
    <2>1. Continues(told) = AskNext(told)
      BY <1>1, <1>3 DEF Continues
    <2> QED
      BY <1>3, <2>1, AsksNext
  <1> QED
    BY <1>2, <1>3

\* A collector has answered: telemetry hears of it, and the observation goes on or ends.
LEMMA CollectorAnswers ==
    ASSUME readings \in [Kinds -> 0..MaxReadings], NEW call,
           Awaiting(call, readings, Len(call.results))
    PROVE  LET after == Continues(Heard(call, <<Event("CollectorCompleted",
                                                     call.list[Len(call.results)])>>))
           IN  Going(after, readings) /\ after.since = call.since
  <1> DEFINE n == Len(call.results)
             k == call.list[n]
             event == Event("CollectorCompleted", k)
             told == Heard(call, <<event>>)
  <1>1. /\ Typed(call, readings) /\ n \in 1..Len(call.list) /\ Len(call.heard) = 2 * n
        /\ \A i \in 1..n : call.heard[2 * i] = Event("CollectorStarted", call.list[i])
        /\ \A i \in 1..(n - 1) : call.heard[2 * i + 1] = Event("CollectorCompleted", call.list[i])
    BY DEF Awaiting
  <1>2. /\ IsCall(call) /\ call.heard \in Seq(Events \ Ended) /\ call.list \in Seq(Kinds)
        /\ call.heard[1] = Event("ObservationStarted", None)
    BY <1>1 DEF Typed, Registry
  <1>3. k \in Kinds /\ n \in Nat /\ n \in 0..Len(call.list) /\ n >= 1
    BY <1>1, <1>2
  <1>4. event \in Events \ Ended
    BY <1>3, EventsAre
  <1> HIDE DEF event
  <1>5. /\ Same(told, call, {"heard"}) /\ told.heard \in Seq(Events \ Ended)
        /\ Len(told.heard) = Len(call.heard) + 1
        /\ \A i \in 1..Len(call.heard) : told.heard[i] = call.heard[i]
        /\ told.heard[Len(call.heard) + 1] = event
    BY <1>2, <1>4, HeardLast
  <1> HIDE DEF told
  <1>6. /\ IsCall(told) /\ told.pc = "collecting" /\ told.snapshot = call.snapshot
        /\ told.list = call.list /\ told.since = call.since /\ told.results = call.results
    BY <1>1, <1>5 DEF Same, Typed
  <1>7. told.heard[1] = Event("ObservationStarted", None)
    <2>1. 1 \in 1..Len(call.heard)
      BY <1>1, <1>3
    <2> QED
      BY <1>2, <1>5, <2>1
  <1>8. Timely(told, readings)
    BY <1>1, <1>6 DEF Typed, Timely
  <1>9. Typed(told, readings)
    <2>1. told.results \in Seq(0..MaxReadings \cup {None})
      BY <1>1, <1>6 DEF Typed
    <2> QED
      BY <1>1, <1>5, <1>6, <1>7, <1>8, <2>1, TypedAgain
  <1>10. ASSUME NEW i \in 1..n
         PROVE  /\ told.heard[2 * i] = Event("CollectorStarted", call.list[i])
                /\ told.heard[2 * i + 1] = Event("CollectorCompleted", call.list[i])
    <2>1. told.heard[2 * i] = Event("CollectorStarted", call.list[i])
      <3>1. 2 * i \in 1..Len(call.heard)
        BY <1>1, <1>3
      <3> QED
        BY <1>1, <1>5, <3>1
    <2>2. CASE i \in 1..(n - 1)
      <3>1. 2 * i + 1 \in 1..Len(call.heard)
        BY <1>1, <1>3, <2>2
      <3> QED
        BY <1>1, <1>5, <2>1, <2>2, <3>1
    <2>3. CASE i = n
      BY <1>1, <1>5, <2>1, <2>3 DEF event
    <2>4. i \in 1..(n - 1) \/ i = n
      BY <1>3
    <2> QED
      BY <2>2, <2>3, <2>4
  <1>11. Answered(told, readings, n)
    <2>1. Len(told.heard) = 2 * n + 1
      BY <1>1, <1>5
    <2> QED
      BY <1>3, <1>6, <1>9, <1>10, <2>1 DEF Answered
  <1>12. Going(Continues(told), readings) /\ Continues(told).since = call.since
    BY <1>6, <1>11, GoesOn
  <1> QED
    BY <1>12 DEF told, event

\* An observation begins with the collectors there are, and ends at once if there is none.
LEMMA Begins ==
    ASSUME readings \in [Kinds -> 0..MaxReadings], Registry(collectors)
    PROVE  LET begun == [Unasked EXCEPT !.pc = "collecting", !.list = collectors,
                                        !.since = [list |-> collectors, readings |-> readings]]
               after == Continues(Heard(begun, <<Event("ObservationStarted", None)>>))
           IN  Going(after, readings) /\ after.since = begun.since
  <1> DEFINE since == [list |-> collectors, readings |-> readings]
             begun == [Unasked EXCEPT !.pc = "collecting", !.list = collectors, !.since = since]
             event == Event("ObservationStarted", None)
             told == Heard(begun, <<event>>)
  <1>1. /\ IsCall(begun) /\ begun.pc = "collecting" /\ begun.list = collectors
        /\ begun.since = since /\ begun.results = <<>> /\ begun.heard = <<>>
        /\ begun.snapshot = None
    BY DEF IsCall, Unasked
  <1>2. event \in Events \ Ended
    BY EventsAre
  <1>3. begun.heard \in Seq(Events \ Ended) /\ Len(begun.heard) = 0
    BY <1>1, EmptySeq
  <1> HIDE DEF begun, event, told
  <1>4. /\ Same(told, begun, {"heard"}) /\ told.heard \in Seq(Events \ Ended)
        /\ Len(told.heard) = 1 /\ told.heard[1] = event
    <2>1. /\ Same(told, begun, {"heard"}) /\ told.heard \in Seq(Events \ Ended)
          /\ Len(told.heard) = Len(begun.heard) + 1
          /\ told.heard[Len(begun.heard) + 1] = event
      <3> DEFINE S == Events \ Ended
      <3>1. begun.heard \in Seq(S) /\ event \in S /\ IsCall(begun) /\ told = Heard(begun, <<event>>)
        BY <1>1, <1>2, <1>3 DEF told
      <3> HIDE DEF S, told
      <3> QED
        BY <3>1, HeardLast DEF S
    <2> QED
      BY <1>3, <2>1
  <1>5. /\ IsCall(told) /\ told.pc = "collecting" /\ told.list = collectors
        /\ told.since = since /\ told.results = <<>> /\ told.snapshot = None
    BY <1>1, <1>4 DEF Same
  <1>6. Typed(told, readings)
    <2>1. /\ since.list = collectors /\ since.readings = readings /\ MaxReadings \in Nat
      BY CollectorAssumption
    <2>2. since.readings \in [Kinds -> Nat] /\ \A k \in Kinds : since.readings[k] <= readings[k]
      BY <2>1
    <2>3. told.results \in Seq(0..MaxReadings \cup {None}) /\ Timely(told, readings)
      BY <1>5 DEF Timely
    <2>4. told.heard[1] = Event("ObservationStarted", None)
      BY <1>4 DEF event
    <2> QED
      BY <1>4, <1>5, <2>1, <2>2, <2>3, <2>4 DEF Typed
  <1>7. Len(collectors) \in Nat
    BY DEF Registry
  <1>8. Answered(told, readings, 0)
    BY <1>4, <1>5, <1>6, <1>7 DEF Answered
  <1>9. Going(Continues(told), readings) /\ Continues(told).since = since
    BY <1>5, <1>8, GoesOn
  <1>10. begun.since = since
    BY <1>1
  <1> QED
    BY <1>9, <1>10 DEF told, event, begun

\* What runs at once leaves an observation between two awaits, or at its end.
LEMMA RunsWell ==
    ASSUME readings \in [Kinds -> 0..MaxReadings], Registry(collectors), NEW call,
           CallWell(call, readings), call.pc \in {"idle", "collecting"}
    PROVE  /\ Going(Runs(call), readings) /\ Runs(call).since = Begun(call).since
           /\ IsCall(Begun(call)) /\ Begun(call).snapshot = None
           /\ Len(Begun(call).results) <= Len(Begun(call).list)
  <1>1. CASE call = Unasked
    <2> DEFINE begun == [Unasked EXCEPT !.pc = "collecting", !.list = collectors,
                                        !.since = [list |-> collectors, readings |-> readings]]
    <2>1. /\ Begun(call) = begun
          /\ Runs(call) = Continues(Heard(begun, <<Event("ObservationStarted", None)>>))
      BY <1>1 DEF Begun, Runs, Unasked
    <2>2. /\ IsCall(begun) /\ begun.snapshot = None
          /\ begun.results = <<>> /\ begun.list = collectors
      BY DEF IsCall, Unasked
    <2>3. Len(begun.results) <= Len(begun.list)
      BY <2>2 DEF Registry
    <2>4. LET after == Continues(Heard(begun, <<Event("ObservationStarted", None)>>))
          IN  Going(after, readings) /\ after.since = begun.since
      BY Begins
    <2> HIDE DEF begun
    <2> QED
      BY <2>1, <2>2, <2>3, <2>4
  <1>2. CASE call.pc = "collecting" /\ Awaiting(call, readings, Len(call.results))
    <2>1. /\ Begun(call) = call
          /\ Runs(call) = Continues(Heard(call, <<Event("CollectorCompleted",
                                                        call.list[Len(call.results)])>>))
      BY <1>2 DEF Begun, Runs
    <2>2. IsCall(call) /\ call.snapshot = None /\ Len(call.results) <= Len(call.list)
      BY <1>2 DEF Awaiting, Typed, Registry
    <2> QED
      BY <1>2, <2>1, <2>2, CollectorAnswers
  <1> QED
    BY <1>1, <1>2 DEF CallWell, Going

LEMMA FailedIsWell ==
    ASSUME NEW call, NEW now, CallWell(call, now), call.pc \in {"idle", "collecting"}
    PROVE  CallWell(Failed(call), now)
  <1>1. /\ IsCall(call) /\ call.snapshot = None /\ Len(call.results) <= Len(call.list)
        /\ call.heard \in Seq(Events \ Ended)
    <2>1. CASE call = Unasked
      BY <2>1 DEF Unasked, IsCall
    <2>2. CASE Awaiting(call, now, Len(call.results))
      <3>1. Typed(call, now) /\ Len(call.results) \in 1..Len(call.list)
        BY <2>2 DEF Awaiting
      <3> QED
        BY <3>1 DEF Typed, Registry
    <2> QED
      BY <2>1, <2>2 DEF CallWell, Going
  <1>2. LET c == Failed(call) IN Same(c, call, {"pc"}) /\ c.pc = "failed"
    BY <1>1 DEF Failed, IsCall, Same
  <1> QED
    BY <1>1, <1>2 DEF CallWell, Broken, Same

\* What was heard of an observation before its last event
LEMMA HeardBefore ==
    ASSUME NEW after, NEW now, Going(after, now), NEW n \in Nat, n < Len(after.heard), NEW call,
           call.heard = SubSeq(after.heard, 1, n), call.since = after.since
    PROVE  Broken(call)
  <1> DEFINE heard == SubSeq(after.heard, 1, n)
  <1>1. ASSUME NEW S, after.heard \in Seq(S), NEW R, \A i \in 1..n : after.heard[i] \in R
        PROVE  /\ heard \in Seq(R) /\ Len(heard) = n
               /\ \A i \in 1..n : heard[i] = after.heard[i]
    <2>1. Len(heard) = n /\ \A i \in 1..n : heard[i] = after.heard[i]
      BY <1>1
    <2>2. heard = [i \in 1..n |-> after.heard[i]]
      BY <1>1
    <2>3. heard \in [1..n -> R]
      BY <1>1, <2>2
    <2> HIDE DEF heard
    <2>4. heard \in Seq(R)
      BY <2>3, SeqDef
    <2> QED
      BY <2>1, <2>4
  <1>2. CASE after.pc = "collecting" /\ Awaiting(after, now, Len(after.results))
    <2>1. after.heard \in Seq(Events \ Ended)
      BY <1>2 DEF Awaiting, Typed
    <2>2. \A i \in 1..n : after.heard[i] \in Events \ Ended
      BY <2>1
    <2> HIDE DEF heard
    <2>3. heard \in Seq(Events \ Ended)
      BY <1>1, <2>1, <2>2
    <2> QED
      BY <2>3 DEF Broken, heard
  <1>3. CASE after.pc = "done" /\ Pictured(after, now)
    <2> DEFINE m == 2 * Len(after.since.list) + 1
    <2>1. /\ after.heard \in Seq(Events) /\ Len(after.heard) = m + 2 /\ m \in Nat
          /\ \A i \in 1..m : after.heard[i] \in Events \ Ended
          /\ after.heard[m + 1] = Event("ObservationCompleted", None)
          /\ HeardInTurn(after.heard, after.since.list) /\ Len(after.since.list) \in Nat
      <3>1. /\ after.heard \in Seq(Events) /\ Len(after.heard) = 2 * Len(after.since.list) + 3
            /\ Len(after.since.list) \in Nat
            /\ \A i \in 1..m : after.heard[i] \in Events \ Ended
            /\ after.heard[Len(after.heard) - 1] = Event("ObservationCompleted", None)
            /\ HeardInTurn(after.heard, after.since.list)
        BY <1>3 DEF Pictured
      <3>2. Len(after.heard) = m + 2 /\ m \in Nat /\ Len(after.heard) - 1 = m + 1
        BY <3>1
      <3> QED
        BY <3>1, <3>2
    <2>2. CASE n <= m
      <3>1. \A i \in 1..n : after.heard[i] \in Events \ Ended
        BY <2>1, <2>2
      <3> HIDE DEF heard, m
      <3>2. heard \in Seq(Events \ Ended)
        BY <1>1, <2>1, <3>1
      <3> QED
        BY <3>2 DEF Broken, heard
    <2>3. CASE n = m + 1
      <3>1. Event("ObservationCompleted", None) \in Events \ {Event("SnapshotCreated", None)}
        BY DEF Event, Events
      <3>2. \A i \in 1..n : after.heard[i] \in Events \ {Event("SnapshotCreated", None)}
        <4> SUFFICES ASSUME NEW i \in 1..n
                     PROVE  after.heard[i] \in Events \ {Event("SnapshotCreated", None)}
          OBVIOUS
        <4>1. i \in 1..m \/ i = m + 1
          BY <2>1, <2>3
        <4> QED
          BY <2>1, <3>1, <4>1 DEF Ended
      <3>3. n = 2 * Len(after.since.list) + 2
        BY <2>1, <2>3
      <3> HIDE DEF heard
      <3>4. /\ heard \in Seq(Events \ {Event("SnapshotCreated", None)}) /\ Len(heard) = n
            /\ \A i \in 1..n : heard[i] = after.heard[i]
        BY <1>1, <2>1, <3>2
      <3>5. HeardInTurn(heard, after.since.list)
        <4>1. /\ after.heard[1] = Event("ObservationStarted", None)
              /\ \A i \in 1..Len(after.since.list) :
                    /\ after.heard[2 * i] = Event("CollectorStarted", after.since.list[i])
                    /\ after.heard[2 * i + 1] = Event("CollectorCompleted", after.since.list[i])
          BY <2>1 DEF HeardInTurn
        <4>2. /\ 1 \in 1..n /\ n >= 2 * Len(after.since.list) + 1
              /\ \A i \in 1..Len(after.since.list) : 2 * i \in 1..n /\ 2 * i + 1 \in 1..n
          BY <2>1, <3>3
        <4> QED
          BY <3>4, <4>1, <4>2 DEF HeardInTurn
      <3> QED
        BY <3>3, <3>4, <3>5 DEF Broken, heard
    <2>4. n <= m \/ n = m + 1
      BY <2>1
    <2> QED
      BY <2>2, <2>3, <2>4
  <1> QED
    BY <1>2, <1>3 DEF Going

LEMMA ThrownIsWell ==
    ASSUME readings \in [Kinds -> 0..MaxReadings], Registry(collectors), NEW call,
           CallWell(call, readings), call.pc \in {"idle", "collecting"},
           NEW n \in Nat, n < Len(Runs(call).heard)
    PROVE  CallWell([Failed(Begun(call)) EXCEPT !.heard = SubSeq(Runs(call).heard, 1, n)], readings)
  <1> DEFINE begun == Begun(call)
             after == Runs(call)
             part == SubSeq(after.heard, 1, n)
             failed == Failed(begun)
             thrown == [failed EXCEPT !.heard = part]
  <1>1. /\ Going(after, readings) /\ after.since = begun.since
        /\ IsCall(begun) /\ begun.snapshot = None /\ Len(begun.results) <= Len(begun.list)
    BY RunsWell
  <1> HIDE DEF begun, after, part
  <1>2. Same(failed, begun, {"pc"}) /\ failed.pc = "failed"
    BY <1>1 DEF Failed, IsCall, Same
  <1> HIDE DEF failed
  <1>3. IsCall(failed)
    BY <1>2 DEF Same
  <1>4. Same(thrown, failed, {"heard"}) /\ thrown.heard = part
    BY <1>3, OtherHeard
  <1> HIDE DEF thrown
  <1>5. /\ thrown.pc = "failed" /\ thrown.snapshot = None /\ thrown.since = after.since
        /\ Len(thrown.results) <= Len(thrown.list)
    BY <1>1, <1>2, <1>4 DEF Same
  <1>6. Broken(thrown)
    BY <1>1, <1>4, <1>5, HeardBefore DEF part, after
  <1>7. CallWell(thrown, readings)
    BY <1>5, <1>6 DEF CallWell
  <1> QED
    BY <1>7 DEF thrown, failed, begun, after, part

LEMMA ObservationStarts == ObservationInit => ObservationInv
  <1> SUFFICES ASSUME ObservationInit PROVE ObservationInv
    OBVIOUS
  <1>1. Registry(Standard)
    <2>1. Standard \in Seq(Kinds)
      BY CollectorAssumption DEF Kinds
    <2>2. DOMAIN Standard = 1..Len(Standard)
      BY <2>1
    <2>3. \A k \in ToSet(Standard) : \E i \in 1..Len(Standard) : Standard[i] = k
      BY <2>2 DEF ToSet
    <2> QED
      BY <2>1, <2>2, <2>3, CollectorAssumption DEF Registry
  <1>2. readings \in [Kinds -> 0..MaxReadings]
    BY CollectorAssumption DEF ObservationInit
  <1>3. \A o \in Observers : CallWell(observations[o], readings)
    BY DEF ObservationInit, CallWell
  <1>4. Registry(<<>>)
    BY EmptySeq DEF Registry
  <1> QED
    BY <1>1, <1>2, <1>3, <1>4 DEF ObservationInit, ObservationInv

\* A step of one observation leaves the others as they are.
LEMMA OneObservation ==
    ASSUME ObservationInv, NEW o \in Observers, NEW call, CallWell(call, readings),
           observations' = [observations EXCEPT ![o] = call], UNCHANGED <<collectors, readings>>
    PROVE  ObservationInv'
  <1>1. \A p \in Observers : observations'[p] = IF p = o THEN call ELSE observations[p]
    BY DEF ObservationInv
  <1>2. observations' = [p \in Observers |-> observations'[p]]
    BY DEF ObservationInv
  <1>3. \A p \in Observers : CallWell(observations'[p], readings)
    BY <1>1 DEF ObservationInv
  <1> QED
    BY <1>2, <1>3 DEF ObservationInv

LEMMA ObservationStep == ObservationInv /\ [ObservationNext]_observationVars => ObservationInv'
  <1> SUFFICES ASSUME ObservationInv, [ObservationNext]_observationVars PROVE ObservationInv'
    OBVIOUS
  <1>0. /\ Registry(collectors) /\ readings \in [Kinds -> 0..MaxReadings]
        /\ \A o \in Observers : CallWell(observations[o], readings)
    BY DEF ObservationInv
  <1>1. ASSUME NEW k \in Custom, Register(k) PROVE ObservationInv'
    <2>1. k \in Kinds /\ collectors \in Seq(Kinds) /\ k \notin ToSet(collectors)
      BY <1>0, <1>1 DEF Registry, Register, Kinds
    <2>2. \A i \in 1..Len(collectors) : collectors[i] # k
      BY <2>1 DEF ToSet
    <2>3. /\ collectors' \in Seq(Kinds) /\ Len(collectors') = Len(collectors) + 1
          /\ \A i \in 1..Len(collectors) : collectors'[i] = collectors[i]
          /\ collectors'[Len(collectors) + 1] = k
      BY <1>1, <2>1 DEF Register
    <2>4. \A i \in 1..Len(collectors') : i \in 1..Len(collectors) \/ i = Len(collectors) + 1
      BY <2>1, <2>3
    <2>5. \A i, j \in 1..Len(collectors') : collectors'[i] = collectors'[j] => i = j
      <3> SUFFICES ASSUME NEW i \in 1..Len(collectors'), NEW j \in 1..Len(collectors'),
                          collectors'[i] = collectors'[j]
                   PROVE  i = j
        OBVIOUS
      <3>1. CASE i \in 1..Len(collectors) /\ j \in 1..Len(collectors)
        BY <1>0, <2>3, <3>1 DEF Registry
      <3>2. CASE i = Len(collectors) + 1 /\ j \in 1..Len(collectors)
        BY <2>2, <2>3, <3>2
      <3>3. CASE i \in 1..Len(collectors) /\ j = Len(collectors) + 1
        BY <2>2, <2>3, <3>3
      <3> QED
        BY <2>4, <3>1, <3>2, <3>3
    <2>6. \A i \in 1..Len(collectors) : i \in 1..Len(collectors')
      BY <2>1, <2>3
    <2>7. \A x \in ToSet(Standard) : \E i \in 1..Len(collectors') : collectors'[i] = x
      BY <1>0, <1>1, <2>3, <2>6 DEF Registry, Register
    <2>8. Registry(collectors')
      BY <2>3, <2>5, <2>7 DEF Registry
    <2> QED
      BY <1>1, <2>8 DEF ObservationInv, Register
  <1>2. ASSUME NEW k \in Observed, Change(k) PROVE ObservationInv'
    <2>0. MaxReadings \in Nat
      BY CollectorAssumption
    <2>1. readings' = [readings EXCEPT ![k] = readings[k] + 1] /\ readings[k] < MaxReadings
      BY <1>2 DEF Change
    <2>2. /\ readings' \in [Kinds -> 0..MaxReadings]
          /\ \A l \in Kinds : readings[l] <= readings'[l]
      <3>1. ASSUME NEW l \in Kinds
            PROVE  readings'[l] \in 0..MaxReadings /\ readings[l] <= readings'[l]
        <4>1. readings'[l] = IF l = k THEN readings[k] + 1 ELSE readings[l]
          BY <1>0, <2>1
        <4>2. readings[l] \in 0..MaxReadings
          BY <1>0
        <4> QED
          BY <2>0, <2>1, <4>1, <4>2
      <3>2. readings' = [l \in Kinds |-> readings'[l]]
        BY <1>0, <2>1
      <3> QED
        BY <3>1, <3>2
    <2>3. \A o \in Observers : CallWell(observations[o], readings')
      BY <1>0, <2>2, LaterIsWell
    <2> QED
      BY <1>2, <2>2, <2>3 DEF ObservationInv, Change
  <1>3. ASSUME NEW o \in Observers, Observe(o) \/ Continue(o) PROVE ObservationInv'
    <2>1. CallWell(observations[o], readings) /\ observations[o].pc \in {"idle", "collecting"}
      BY <1>0, <1>3 DEF Observe, Continue
    <2>2. CallWell(Runs(observations[o]), readings)
      BY <1>0, <2>1, RunsWell DEF CallWell
    <2> QED
      BY <1>3, <2>2, OneObservation DEF Observe, Continue
  <1>4. ASSUME NEW o \in Observers, TelemetryThrows(o) PROVE ObservationInv'
    <2> DEFINE call == observations[o]
               told == Runs(call).heard
               thrown(n) == [Failed(Begun(call)) EXCEPT !.heard = SubSeq(told, 1, n)]
    <2>1. CallWell(call, readings) /\ call.pc \in {"idle", "collecting"}
      BY <1>0, <1>4 DEF TelemetryThrows
    <2>2. PICK n \in Len(call.heard)..(Len(told) - 1) :
              /\ observations' = [observations EXCEPT ![o] = thrown(n)]
              /\ UNCHANGED <<collectors, readings>>
      BY <1>4 DEF TelemetryThrows
    <2>3. n \in Nat /\ n < Len(told)
      <3>1. Going(Runs(call), readings)
        BY <1>0, <2>1, RunsWell
      <3>2. Len(told) \in Nat
        BY <3>1 DEF Going, Awaiting, Typed, Pictured
      <3>3. Len(call.heard) \in Nat
        BY <2>1 DEF CallWell, Going, Awaiting, Typed, Unasked
      <3> QED
        BY <3>2, <3>3
    <2>4. CallWell(thrown(n), readings)
      BY <1>0, <2>1, <2>3, ThrownIsWell
    <2> HIDE DEF thrown
    <2> QED
      BY <2>2, <2>4, OneObservation
  <1>5. ASSUME NEW o \in Observers, CollectorFails(o) PROVE ObservationInv'
    <2>1. /\ observations' = [observations EXCEPT ![o] = Failed(observations[o])]
          /\ observations[o].pc \in {"idle", "collecting"} /\ UNCHANGED <<collectors, readings>>
      BY <1>5 DEF CollectorFails
    <2> QED
      BY <1>0, <2>1, FailedIsWell, OneObservation
  <1>6. CASE UNCHANGED observationVars
    BY <1>6 DEF ObservationInv, observationVars
  <1> QED
    BY <1>1, <1>2, <1>3, <1>4, <1>5, <1>6 DEF ObservationNext

\* What observers are handed is a whole picture of the time it was taken in
\* (ObservabilityRuntime.observe).
THEOREM ObservationsAreWhole == ObservationSpec => []ObservationsHold
  <1>1. ObservationInv => ObservationsHold
    <2> SUFFICES ASSUME ObservationInv PROVE ObservationsHold
      OBVIOUS
    <2>0. /\ readings \in [Kinds -> 0..MaxReadings] /\ MaxReadings \in Nat
          /\ ToSet(Standard) \subseteq Kinds
      BY CollectorAssumption DEF ObservationInv, Kinds
    <2>1. ASSUME NEW o \in Observers, observations[o].pc # "done"
          PROVE  /\ observations[o].pc \in {"idle", "collecting", "failed"}
                 /\ Len(observations[o].results) <= Len(observations[o].list)
                 /\ observations[o].snapshot = None
                 /\ \/ observations[o].heard \in Seq(Events \ Ended)
                    \/ observations[o].pc = "failed" /\ Broken(observations[o])
      <3> DEFINE call == observations[o]
      <3>1. CASE call = Unasked
        BY <3>1 DEF Unasked
      <3>2. CASE call.pc = "collecting" /\ Awaiting(call, readings, Len(call.results))
        <4>1. Typed(call, readings) /\ Len(call.results) \in 1..Len(call.list)
          BY <3>2 DEF Awaiting
        <4> QED
          BY <3>2, <4>1 DEF Typed, Registry
      <3> QED
        BY <2>1, <3>1, <3>2 DEF ObservationInv, CallWell, Going
    <2>2. ASSUME NEW o \in Observers, observations[o].pc = "done"
          PROVE  Pictured(observations[o], readings)
      BY <2>2 DEF ObservationInv, CallWell, Going, Unasked
    <2>3. ObservationTypeOK
      BY <2>0, <2>1, <2>2 DEF ObservationTypeOK, Pictured
    <2>4. ASSUME NEW o \in Observers, observations[o].pc # "done"
          PROVE  LET call == observations[o]
                     list == call.since.list
                 IN  /\ Event("SnapshotCreated", None) \notin ToSet(call.heard)
                     /\ Event("ObservationCompleted", None) \in ToSet(call.heard) =>
                            /\ call.pc = "failed" /\ HeardInTurn(call.heard, list)
                            /\ Len(call.heard) = 2 * Len(list) + 2
      <3> DEFINE call == observations[o]
      <3>1. CASE call.heard \in Seq(Events \ Ended)
        <4>1. \A x \in ToSet(call.heard) : x \in Events \ Ended
          BY <3>1 DEF ToSet
        <4> QED
          BY <4>1 DEF Ended
      <3>2. CASE /\ call.pc = "failed"
                 /\ call.heard \in Seq(Events \ {Event("SnapshotCreated", None)})
                 /\ HeardInTurn(call.heard, call.since.list)
                 /\ Len(call.heard) = 2 * Len(call.since.list) + 2
        <4>1. \A x \in ToSet(call.heard) : x # Event("SnapshotCreated", None)
          BY <3>2 DEF ToSet
        <4> QED
          BY <3>2, <4>1
      <3> QED
        BY <2>1, <2>4, <3>1, <3>2 DEF Broken
    <2>5. ASSUME NEW o \in Observers, observations[o].pc = "done",
                 NEW k \in Observed \cap DOMAIN observations[o].snapshot.answers
          PROVE  observations[o].snapshot.answers[k]
                    \in observations[o].since.readings[k]..readings[k]
      <3>1. k \in Kinds
        BY <2>0, <2>2, <2>5 DEF Pictured
      <3> QED
        BY <2>0, <2>2, <2>5, <3>1 DEF Pictured
    <2>6. SnapshotIsWhole
      BY <2>1, <2>2, <2>4, <2>5 DEF SnapshotIsWhole, Pictured
    <2>7. DiagnosticsMissNothing
      BY <2>2 DEF DiagnosticsMissNothing, Pictured
    <2> QED
      BY <2>3, <2>6, <2>7 DEF ObservationsHold
  <1> QED
    BY <1>1, ObservationStarts, ObservationStep, PTL DEF ObservationSpec

------------------------------------------------------------------------------
(* Identity *)

\* Spelled as an address is brought to its form, and as a text is, if at all
Bare(x) == x \in Spelled /\ x.form = "plain"

Tidy(x) == x \in Spelled /\ x.form # "spaced"

LEMMA PlainIsBare ==
    ASSUME NEW x \in Spelled
    PROVE  Bare(Plain(x)) /\ (Bare(x) => Plain(x) = x)
  <1>1. Plain(x) = [word |-> x.word, form |-> "plain"]
    BY DEF Plain, Spelled
  <1>2. x = [word |-> x.word, form |-> x.form] /\ x.word \in Words
    BY DEF Spelled
  <1> QED
    BY <1>1, <1>2 DEF Bare, Spelled

LEMMA NormalIsBare ==
    ASSUME NEW x \in Spelled \cup {None}
    PROVE  /\ x # None => Bare(NormalUrl(x)) /\ NormalUrl(NormalUrl(x)) = NormalUrl(x)
           /\ x = None => NormalUrl(x) = None
  BY PlainIsBare, FeedAssumption DEF NormalUrl, Bare

LEMMA TextsAreTidy ==
    ASSUME NEW x \in Spelled \cup {None}
    PROVE  /\ NormalText(x) = None \/ Tidy(NormalText(x))
           /\ NormalLanguage(x) = None \/ Bare(NormalLanguage(x))
  <1>1. CASE x = None
    BY <1>1 DEF NormalText, NormalLanguage
  <1>2. CASE x # None
    BY <1>2, PlainIsBare DEF NormalText, NormalLanguage, Tidy, Bare
  <1> QED
    BY <1>1, <1>2

\* The one comparison lowers what the other one does, and there is nothing else to do.
LEMMA LoweredAsWritten ==
    ASSUME NEW x, Tidy(x)
    PROVE  Lowered(x) = Written(x)
  BY FeedAssumption DEF Tidy, Lowered, Written

LEMMA BareAsWritten ==
    ASSUME NEW x, Bare(x)
    PROVE  x # None /\ Written(x) = x /\ NormalUrl(x) = x
  BY PlainIsBare, FeedAssumption DEF Bare, Written, NormalUrl

\* What discovery makes of a feed
LEMMA DiscoveredFeed ==
    ASSUME NEW request \in DiscoveryRequests, NEW feed, feed = Discovered(request)
    PROVE  /\ feed.discovered /\ Bare(feed.canonicalUrl) /\ IsFiniteSet(feed.categories)
           /\ feed.websiteUrl = None \/ Bare(feed.websiteUrl)
           /\ feed.title = None \/ Tidy(feed.title)
           /\ feed.language = None \/ Tidy(feed.language)
           /\ feed.publisher = None \/ Tidy(feed.publisher)
           /\ feed.description = None \/ Tidy(feed.description)
           /\ IdentityOf(feed, "feedGuid") \in {None, feed.canonicalUrl}
           /\ feed.fingerprint.canonical = feed.canonicalUrl
           /\ feed.fingerprint.website = feed.websiteUrl
           /\ feed.fingerprint.title = feed.title
           /\ feed.fingerprint.language = feed.language
           /\ feed.fingerprint.publisher = feed.publisher
  <1> DEFINE parsed == request.parsed
             given == request.metadata
             known == Normalized(request)
             S == Spelled \cup {None}
             resolved == NormalUrl(First(request.resolved, request.original))
             homepage == NormalUrl(First(given.website, First(given.canonical, resolved)))
  <1>1. /\ request.original \in Spelled /\ request.resolved \in S
        /\ parsed \in Told /\ given \in Told
        /\ IsFiniteSet(parsed.categories \cup given.categories)
    BY FeedAssumption
  <1>2. /\ parsed.title \in S /\ parsed.publisher \in S /\ parsed.description \in S
        /\ parsed.language \in S
        /\ given.title \in S /\ given.publisher \in S /\ given.description \in S
        /\ given.language \in S /\ given.canonical \in S /\ given.website \in S
    BY <1>1 DEF Told
  <1>3. Bare(resolved)
    <2>1. First(request.resolved, request.original) \in Spelled
      BY <1>1 DEF First
    <2> QED
      BY <2>1, NormalIsBare, FeedAssumption
  <1>4. Bare(NormalUrl(First(given.canonical, resolved))) /\ Bare(homepage)
    <2> HIDE DEF resolved
    <2>1. /\ First(given.canonical, resolved) \in Spelled
          /\ First(given.website, First(given.canonical, resolved)) \in Spelled
      BY <1>2, <1>3 DEF First, Bare
    <2> QED
      BY <2>1, NormalIsBare, FeedAssumption
  <1>5. Bare(NormalUrl(First(given.website, homepage)))
    <2> HIDE DEF homepage
    <2>1. First(given.website, homepage) \in Spelled
      BY <1>2, <1>4 DEF First, Bare
    <2> QED
      BY <2>1, NormalIsBare, FeedAssumption
  <1>6. \A x \in S, y \in S : First(x, y) \in S
    BY DEF First
  <1>7. /\ known.canonicalUrl = NormalUrl(First(given.canonical, resolved))
        /\ known.websiteUrl = NormalUrl(First(given.website, homepage))
        /\ known.title = NormalText(First(parsed.title, given.title))
        /\ known.publisher = NormalText(First(parsed.publisher, given.publisher))
        /\ known.description = NormalText(First(parsed.description, given.description))
        /\ known.language = NormalLanguage(NormalText(First(parsed.language, given.language)))
        /\ known.categories = parsed.categories \cup given.categories
    BY DEF Normalized
  <1>8. /\ known.title = None \/ Tidy(known.title)
        /\ known.publisher = None \/ Tidy(known.publisher)
        /\ known.description = None \/ Tidy(known.description)
    BY <1>2, <1>6, <1>7, TextsAreTidy
  <1>9. known.language = None \/ Tidy(known.language)
    <2> DEFINE x == NormalText(First(parsed.language, given.language))
    <2>1. x = None \/ Tidy(x)
      BY <1>2, <1>6, TextsAreTidy
    <2>2. x \in S
      BY <2>1 DEF Tidy
    <2> HIDE DEF x
    <2>3. NormalLanguage(x) = None \/ Bare(NormalLanguage(x))
      BY <2>2, TextsAreTidy
    <2> QED
      BY <1>7, <2>3 DEF x, Bare, Tidy
  <1>10. /\ feed.canonicalUrl = known.canonicalUrl /\ feed.websiteUrl = known.websiteUrl
         /\ feed.title = known.title /\ feed.language = known.language
         /\ feed.publisher = known.publisher /\ feed.description = known.description
         /\ feed.categories = known.categories /\ feed.discovered = TRUE
         /\ feed.fingerprint = Fingerprint(request, known, Identity(request, known))
         /\ feed.identity = Identity(request, known)
    BY DEF Discovered
  <1> HIDE DEF known, resolved, homepage
  <1>11. IdentityOf(feed, "feedGuid") \in {None, feed.canonicalUrl}
    <2>1. Identity(request, known).feedGuid = known.canonicalUrl
      BY DEF Identity
    <2>2. IdentityOf(feed, "feedGuid") \in {None, feed.identity.feedGuid}
      BY DEF IdentityOf
    <2> QED
      BY <1>10, <2>1, <2>2
  <1>12. /\ feed.fingerprint.canonical = feed.canonicalUrl
         /\ feed.fingerprint.website = feed.websiteUrl
         /\ feed.fingerprint.title = feed.title
         /\ feed.fingerprint.language = feed.language
         /\ feed.fingerprint.publisher = feed.publisher
    BY <1>10 DEF Fingerprint
  <1>13. Bare(feed.canonicalUrl) /\ Bare(feed.websiteUrl)
    BY <1>4, <1>5, <1>7, <1>10
  <1>14. IsFiniteSet(feed.categories)
    BY <1>1, <1>7, <1>10
  <1> QED
    BY <1>8, <1>9, <1>10, <1>11, <1>12, <1>13, <1>14

\* The share of the categories is a number of hundredths, none at least.
LEMMA ShareIsNatural ==
    ASSUME NEW left, NEW right, IsFiniteSet(left.categories), IsFiniteSet(right.categories)
    PROVE  CategoryShare(left, right) \in Nat
  <1> DEFINE a == Cardinality(left.categories)
             b == Cardinality(right.categories)
             c == Cardinality(left.categories \cap right.categories)
  <1>1. CASE left.categories = {} \/ right.categories = {}
    BY <1>1 DEF CategoryShare
  <1>2. CASE left.categories # {} /\ right.categories # {}
    <2>1. a \in Nat \ {0} /\ b \in Nat \ {0}
      BY <1>2, FS_CardinalityType, FS_EmptySet
    <2>2. c \in Nat
      BY FS_Subset, FS_CardinalityType
    <2>3. CategoryShare(left, right) = (4 * c) \div Max({a, b})
      BY <1>2 DEF CategoryShare, CategoryWeight
    <2> HIDE DEF a, b, c
    <2>4. Max({a, b}) \in Nat \ {0}
      <3>1. \E x \in {a, b} : \A y \in {a, b} : x >= y
        BY <2>1
      <3>2. Max({a, b}) \in {a, b}
        BY <3>1 DEF Max
      <3> QED
        BY <2>1, <3>2
    <2>5. \A m \in Nat, n \in Nat \ {0} : m \div n \in Nat
      OBVIOUS
    <2>6. 4 * c \in Nat
      BY <2>2
    <2> QED
      BY <2>3, <2>4, <2>5, <2>6
  <1> QED
    BY <1>1, <1>2

\* What an address is worth: whatever else there is only adds to it.
LEMMA AddressesCount ==
    ASSUME NEW left, NEW right, IsFiniteSet(left.categories), IsFiniteSet(right.categories)
    PROVE  /\ Score(left, right) \in Nat
           /\ {"canonicalUrl", "normalizedUrl"} \subseteq Signals(left, right)
                    => Score(left, right) >= 42
  <1> DEFINE signals == Signals(left, right)
             share == CategoryShare(left, right)
             of(field) == IF field \in signals THEN Weight[field] ELSE 0
  <1>1. share \in Nat
    BY ShareIsNatural
  <1>2. Score(left, right) = of("canonicalUrl") + of("normalizedUrl") + of("websiteUrl")
                                + of("feedGuid") + of("title") + of("language")
                                + of("publisher") + of("fingerprint") + of("artworkUrl")
                                + of("description") + share
    BY DEF Score
  <1> HIDE DEF signals, share
  <1>3. /\ of("websiteUrl") \in Nat /\ of("feedGuid") \in Nat /\ of("title") \in Nat
        /\ of("language") \in Nat /\ of("publisher") \in Nat /\ of("fingerprint") \in Nat
        /\ of("artworkUrl") \in Nat /\ of("description") \in Nat
        /\ of("canonicalUrl") \in Nat /\ of("normalizedUrl") \in Nat
    BY DEF Weight
  <1>4. {"canonicalUrl", "normalizedUrl"} \subseteq signals
            => of("canonicalUrl") = 22 /\ of("normalizedUrl") = 20
    BY DEF Weight
  <1> HIDE DEF of
  <1>5. Score(left, right) \in Nat
    BY ONLY <1>1, <1>2, <1>3
  <1>6. of("canonicalUrl") = 22 /\ of("normalizedUrl") = 20 => Score(left, right) >= 42
    BY ONLY <1>1, <1>2, <1>3
  <1> QED
    BY <1>4, <1>5, <1>6 DEF signals

\* The classes, the levels and the warnings are drawn from one score.
LEMMA LevelFollowsClass ==
    ASSUME NEW left, NEW right, Score(left, right) \in Nat
    PROVE  LET said == Verdict(left, right)
           IN  /\ said.level \in {"high", "medium", "low"}
               /\ said.class = "exact-duplicate" => said.level = "high"
               /\ said.class = "different-feed" => ~Reaches(Score(left, right), 35)
               /\ "weak-confidence" \in said.warnings =>
                        said.class \in {"related-feed", "different-feed"}
               /\ said.class \in {"strong-duplicate", "possible-duplicate"} => said.level # "low"
               /\ said.conflicts # {} <=> "conflicting-metadata" \in said.warnings
               /\ said.conflicts = Conflicts(left, right) /\ said.edge = Relation(left, right)
  <1> DEFINE score == Score(left, right)
             same == left.fingerprint # None /\ left.fingerprint = right.fingerprint
             said == Verdict(left, right)
  <1>1. /\ said.class = Classification(left, right) /\ said.conflicts = Conflicts(left, right)
        /\ said.edge = Relation(left, right)
        /\ said.level = IF Confident(left, right, 85) THEN "high"
                        ELSE IF Confident(left, right, 60) THEN "medium" ELSE "low"
        /\ "weak-confidence" \in said.warnings <=> ~Confident(left, right, 60)
        /\ "conflicting-metadata" \in said.warnings <=> Conflicts(left, right) # {}
    BY DEF Verdict
  <1> HIDE DEF said
  <1>2. Classification(left, right) =
            CASE same \/ Reaches(score, 95) -> "exact-duplicate"
              [] ~same /\ Reaches(score, 82) /\ ~Reaches(score, 95) -> "strong-duplicate"
              [] ~same /\ Reaches(score, 62) /\ ~Reaches(score, 82) -> "possible-duplicate"
              [] ~same /\ Reaches(score, 35) /\ ~Reaches(score, 62) -> "related-feed"
              [] OTHER -> "different-feed"
    BY DEF Classification
  <1>3. /\ Confident(left, right, 85) <=> same \/ Reaches(score, 85)
        /\ Confident(left, right, 60) <=> same \/ (Reaches(score, 60) /\ score # 66)
    BY DEF Confident
  <1> HIDE DEF same, score
  <1>4. /\ Reaches(score, 95) => Reaches(score, 85) /\ Reaches(score, 82)
        /\ Reaches(score, 82) => Reaches(score, 62)
        /\ Reaches(score, 62) => Reaches(score, 60) /\ Reaches(score, 35) /\ score # 66
        /\ Reaches(score, 85) => Reaches(score, 62)
    BY DEF Reaches, TotalWeight, score
  <1>5. \/ same \/ Reaches(score, 95)
        \/ ~same /\ Reaches(score, 82) /\ ~Reaches(score, 95)
        \/ ~same /\ Reaches(score, 62) /\ ~Reaches(score, 82)
        \/ ~same /\ Reaches(score, 35) /\ ~Reaches(score, 62)
        \/ ~same /\ ~Reaches(score, 35)
    OBVIOUS
  <1>6. CASE same \/ Reaches(score, 95)
    BY <1>1, <1>2, <1>3, <1>4, <1>6 DEF said, score
  <1>7. CASE ~same /\ Reaches(score, 82) /\ ~Reaches(score, 95)
    BY <1>1, <1>2, <1>3, <1>4, <1>7 DEF said, score
  <1>8. CASE ~same /\ Reaches(score, 62) /\ ~Reaches(score, 82)
    BY <1>1, <1>2, <1>3, <1>4, <1>8 DEF said, score
  <1>9. CASE ~same /\ Reaches(score, 35) /\ ~Reaches(score, 62)
    BY <1>1, <1>2, <1>3, <1>4, <1>9 DEF said, score
  <1>10. CASE ~same /\ ~Reaches(score, 35)
    BY <1>1, <1>2, <1>3, <1>4, <1>10 DEF said, score
  <1> QED
    BY <1>5, <1>6, <1>7, <1>8, <1>9, <1>10

\* A candidate that discovery or someone else brought
Brought(feed) == feed \in Listed \/ \E request \in DiscoveryRequests : feed = Discovered(request)

LEMMA BroughtHasAddress ==
    ASSUME NEW feed, Brought(feed)
    PROVE  AddressOf(feed) \in Spelled /\ IsFiniteSet(feed.categories)
  <1>1. CASE feed \in Listed
    BY <1>1, FeedAssumption
  <1>2. ASSUME NEW request \in DiscoveryRequests, feed = Discovered(request)
        PROVE  AddressOf(feed) \in Spelled /\ IsFiniteSet(feed.categories)
    <2>1. Bare(feed.canonicalUrl) /\ IsFiniteSet(feed.categories)
      BY <1>2, DiscoveredFeed
    <2> QED
      BY <2>1, BareAsWritten DEF AddressOf, First, Bare
  <1> QED
    BY <1>1, <1>2 DEF Brought

\* Two at one address, recorded there if at all, have the signals of the address.
LEMMA AddressesAreSignals ==
    ASSUME NEW left, NEW right, Brought(left), Brought(right),
           NormalUrl(AddressOf(left)) = NormalUrl(AddressOf(right)),
           IsAtItsIdentity(left), IsAtItsIdentity(right)
    PROVE  {"canonicalUrl", "normalizedUrl"} \subseteq Signals(left, right)
  <1> DEFINE address == NormalUrl(AddressOf(left))
  <1>1. AddressOf(left) \in Spelled /\ AddressOf(left) # None
    BY BroughtHasAddress, FeedAssumption
  <1>2. address # None /\ NormalUrl(address) = address
    BY <1>1, NormalIsBare, BareAsWritten
  <1>3. Compared(left).canonicalUrl = address /\ Compared(right).canonicalUrl = address
    BY DEF Compared
  <1>4. ASSUME NEW feed, NormalUrl(AddressOf(feed)) = address, IsAtItsIdentity(feed)
        PROVE  Compared(feed).normalizedUrl = address
    <2>1. Compared(feed).normalizedUrl
            = NormalUrl(First(IdentityOf(feed, "normalizedUrl"), AddressOf(feed)))
      BY DEF Compared
    <2>2. IdentityOf(feed, "normalizedUrl") \in {None, address}
      BY <1>4 DEF IsAtItsIdentity
    <2> QED
      BY <1>2, <1>4, <2>1, <2>2 DEF First
  <1>5. Compared(left).normalizedUrl = address /\ Compared(right).normalizedUrl = address
    BY <1>4
  <1>6. "canonicalUrl" \in DOMAIN Weight /\ "normalizedUrl" \in DOMAIN Weight
    BY DEF Weight
  <1> HIDE DEF address
  <1> QED
    BY <1>2, <1>3, <1>5, <1>6 DEF Signals

\* Of two that were discovered, what conflicts does not speak for them being one.
LEMMA DiscoveredAreOneSided ==
    ASSUME NEW left, NEW right, Brought(left), Brought(right), left.discovered, right.discovered
    PROVE  LET against == Conflicts(left, right) \ {"artworkUrl"}
           IN  /\ against \cap Signals(left, right) = {}
               /\ left.fingerprint = right.fingerprint => against \subseteq {"description"}
  <1>1. PICK r1 \in DiscoveryRequests : left = Discovered(r1)
    BY FeedAssumption DEF Brought
  <1>2. PICK r2 \in DiscoveryRequests : right = Discovered(r2)
    BY FeedAssumption DEF Brought
  <1> DEFINE Fine(feed) ==
                 /\ Bare(feed.canonicalUrl)
                 /\ feed.websiteUrl = None \/ Bare(feed.websiteUrl)
                 /\ feed.title = None \/ Tidy(feed.title)
                 /\ feed.language = None \/ Tidy(feed.language)
                 /\ feed.publisher = None \/ Tidy(feed.publisher)
                 /\ feed.description = None \/ Tidy(feed.description)
                 /\ IdentityOf(feed, "feedGuid") \in {None, feed.canonicalUrl}
                 /\ feed.fingerprint.canonical = feed.canonicalUrl
                 /\ feed.fingerprint.website = feed.websiteUrl
                 /\ feed.fingerprint.title = feed.title
                 /\ feed.fingerprint.language = feed.language
                 /\ feed.fingerprint.publisher = feed.publisher
             l == Contents(left)
             r == Contents(right)
  <1>3. Fine(left) /\ Fine(right)
    BY <1>1, <1>2, DiscoveredFeed
  <1>4. DOMAIN l = {"title", "canonicalUrl", "websiteUrl", "language", "publisher",
                    "description", "feedGuid", "artworkUrl"}
    BY DEF Contents
  <1>5. ASSUME NEW field \in Conflicts(left, right)
        PROVE  /\ field \in DOMAIN l /\ l[field] # None /\ r[field] # None
               /\ Written(l[field]) # Written(r[field])
    BY DEF Conflicts
  <1>6. ASSUME NEW field \in Signals(left, right)
        PROVE  Compared(left)[field] # None /\ Compared(left)[field] = Compared(right)[field]
    BY DEF Signals
  <1>7. ASSUME NEW feed, Fine(feed)
        PROVE  LET c == Contents(feed)
                   d == Compared(feed)
               IN  /\ \A field \in {"canonicalUrl", "websiteUrl", "feedGuid"} :
                          c[field] # None => d[field] = Written(c[field])
                   /\ \A field \in {"title", "language", "publisher", "description"} :
                          c[field] # None => d[field] = Written(c[field])
    <2>1. AddressOf(feed) = feed.canonicalUrl
      BY <1>7, BareAsWritten DEF AddressOf, First
    <2>2. /\ Contents(feed).canonicalUrl = feed.canonicalUrl
          /\ Contents(feed).websiteUrl = feed.websiteUrl
          /\ Contents(feed).feedGuid = IdentityOf(feed, "feedGuid")
          /\ Contents(feed).title = feed.title /\ Contents(feed).language = feed.language
          /\ Contents(feed).publisher = feed.publisher
          /\ Contents(feed).description = feed.description
      BY DEF Contents
    <2>3. /\ Compared(feed).canonicalUrl = NormalUrl(feed.canonicalUrl)
          /\ Compared(feed).websiteUrl = NormalUrl(feed.websiteUrl)
          /\ Compared(feed).feedGuid = NormalUrl(IdentityOf(feed, "feedGuid"))
          /\ Compared(feed).title = Lowered(feed.title)
          /\ Compared(feed).language = Lowered(feed.language)
          /\ Compared(feed).publisher = Lowered(feed.publisher)
          /\ Compared(feed).description = Lowered(feed.description)
      BY <2>1 DEF Compared
    <2>4. \A field \in {"canonicalUrl", "websiteUrl", "feedGuid"} :
              Contents(feed)[field] # None
                => Compared(feed)[field] = Written(Contents(feed)[field])
      BY <1>7, <2>2, <2>3, BareAsWritten
    <2>5. \A field \in {"title", "language", "publisher", "description"} :
              Contents(feed)[field] # None
                => Compared(feed)[field] = Written(Contents(feed)[field])
      BY <1>7, <2>2, <2>3, LoweredAsWritten
    <2> QED
      BY <2>4, <2>5
  <1>8. (Conflicts(left, right) \ {"artworkUrl"}) \cap Signals(left, right) = {}
    <2> SUFFICES ASSUME NEW field \in Conflicts(left, right), field # "artworkUrl",
                        field \in Signals(left, right)
                 PROVE  FALSE
      OBVIOUS
    <2>1. /\ l[field] # None /\ r[field] # None /\ Written(l[field]) # Written(r[field])
          /\ field \in {"title", "canonicalUrl", "websiteUrl", "language", "publisher",
                        "description", "feedGuid"}
      BY <1>4, <1>5
    <2> HIDE DEF Fine
    <2>2. Compared(left)[field] = Written(l[field]) /\ Compared(right)[field] = Written(r[field])
      BY <1>3, <1>7, <2>1
    <2> QED
      BY <1>6, <2>1, <2>2
  <1>9. ASSUME left.fingerprint = right.fingerprint
        PROVE  Conflicts(left, right) \ {"artworkUrl"} \subseteq {"description"}
    <2> SUFFICES ASSUME NEW field \in Conflicts(left, right),
                        field \in {"title", "canonicalUrl", "websiteUrl", "language", "publisher",
                                  "feedGuid"}
                 PROVE  FALSE
      BY <1>4, <1>5
    <2>1. /\ l.canonicalUrl = left.canonicalUrl /\ r.canonicalUrl = right.canonicalUrl
          /\ l.websiteUrl = left.websiteUrl /\ r.websiteUrl = right.websiteUrl
          /\ l.feedGuid = IdentityOf(left, "feedGuid") /\ r.feedGuid = IdentityOf(right, "feedGuid")
          /\ l.title = left.title /\ r.title = right.title
          /\ l.language = left.language /\ r.language = right.language
          /\ l.publisher = left.publisher /\ r.publisher = right.publisher
      BY DEF Contents
    <2>2. /\ left.canonicalUrl = right.canonicalUrl /\ left.websiteUrl = right.websiteUrl
          /\ left.title = right.title /\ left.language = right.language
          /\ left.publisher = right.publisher
      BY <1>3, <1>9
    <2>3. l[field] # None /\ r[field] # None /\ l[field] # r[field]
      BY <1>5
    <2> HIDE DEF l, r
    <2> QED
      BY <1>3, <2>1, <2>2, <2>3
  <1> QED
    BY <1>8, <1>9

IdentityInv ==
    /\ Len(candidates) <= MaxFeeds /\ candidates \in Seq({candidates[i] : i \in DOMAIN candidates})
    /\ \A i \in DOMAIN candidates : Brought(candidates[i])
    /\ \/ verdicts = <<>>
       \/ verdicts = [p \in Pairs |-> Verdict(candidates[p[1]], candidates[p[2]])]

LEMMA IdentityStarts == IdentityInit => IdentityInv
  <1> SUFFICES ASSUME IdentityInit PROVE IdentityInv
    OBVIOUS
  <1>1. candidates = <<>> /\ Len(candidates) = 0 /\ DOMAIN candidates = {} /\ MaxFeeds \in Nat
    BY FeedAssumption DEF IdentityInit
  <1> QED
    BY <1>1, EmptySeq DEF IdentityInit, IdentityInv

\* One more candidate, before they are compared
LEMMA OneMoreCandidate ==
    ASSUME IdentityInv, NEW feed, Brought(feed), Len(candidates) < MaxFeeds, verdicts = <<>>,
           candidates' = Append(candidates, feed), verdicts' = verdicts
    PROVE  IdentityInv'
  <1> DEFINE S == {candidates[i] : i \in DOMAIN candidates} \cup {feed}
             n == Len(candidates)
  <1>1. candidates \in Seq(S) /\ feed \in S
    BY SeqMonotonic DEF IdentityInv
  <1> HIDE DEF S
  <1>2. /\ Len(candidates') = n + 1 /\ n \in Nat /\ candidates' \in Seq(S)
        /\ \A i \in 1..n : candidates'[i] = candidates[i]
        /\ candidates'[n + 1] = feed
    BY <1>1
  <1>3. DOMAIN candidates = 1..n /\ DOMAIN candidates' = 1..(n + 1)
    BY <1>1, <1>2
  <1>4. \A i \in DOMAIN candidates' : Brought(candidates'[i])
    <2> SUFFICES ASSUME NEW i \in 1..(n + 1) PROVE Brought(candidates'[i])
      BY <1>3
    <2>1. i \in 1..n \/ i = n + 1
      BY <1>2
    <2> QED
      BY <1>2, <1>3, <2>1 DEF IdentityInv
  <1>5. Len(candidates') <= MaxFeeds
    BY <1>2, FeedAssumption
  <1>6. candidates' \in Seq({candidates'[i] : i \in DOMAIN candidates'})
    BY <1>2
  <1> QED
    BY <1>4, <1>5, <1>6 DEF IdentityInv

LEMMA IdentityStep == IdentityInv /\ [IdentityNext]_identityVars => IdentityInv'
  <1> SUFFICES ASSUME IdentityInv, [IdentityNext]_identityVars PROVE IdentityInv'
    OBVIOUS
  <1>1. ASSUME NEW request \in DiscoveryRequests, Discover(request) PROVE IdentityInv'
    BY <1>1, OneMoreCandidate DEF Discover, Brought
  <1>2. ASSUME NEW feed \in Listed, List(feed) PROVE IdentityInv'
    BY <1>2, OneMoreCandidate DEF List, Brought
  <1>3. CASE Deduplicate
    BY <1>3 DEF Deduplicate, IdentityInv, Pairs
  <1>4. CASE UNCHANGED identityVars
    BY <1>4 DEF identityVars, IdentityInv, Pairs
  <1> QED
    BY <1>1, <1>2, <1>3, <1>4 DEF IdentityNext

\* Feeds at one address are related at least unless one was recorded elsewhere; of two that
\* were discovered, what conflicts is no evidence for them being one, their artwork aside
\* (discover, deduplicate, relate).
THEOREM IdentitiesAreSound == IdentitySpec => []IdentitiesHold
  <1>1. IdentityInv => IdentitiesHold
    <2> SUFFICES ASSUME IdentityInv PROVE IdentitiesHold
      OBVIOUS
    <2>1. ASSUME NEW p \in DOMAIN verdicts
          PROVE  /\ verdicts[p] = Verdict(candidates[p[1]], candidates[p[2]])
                 /\ Brought(candidates[p[1]]) /\ Brought(candidates[p[2]])
                 /\ Score(candidates[p[1]], candidates[p[2]]) \in Nat
      <3>1. verdicts # <<>>
        BY <2>1
      <3>2. p \in Pairs /\ verdicts[p] = Verdict(candidates[p[1]], candidates[p[2]])
        BY <2>1, <3>1 DEF IdentityInv
      <3>3. Brought(candidates[p[1]]) /\ Brought(candidates[p[2]])
        BY <3>2 DEF IdentityInv, Pairs
      <3> QED
        BY <3>2, <3>3, BroughtHasAddress, AddressesCount
    <2>2. IdentityTypeOK
      BY <2>1, LevelFollowsClass DEF IdentityInv, IdentityTypeOK
    <2>3. VerdictsAreExplained
      BY <2>1, LevelFollowsClass DEF VerdictsAreExplained
    <2>4. EvidenceIsOneSided
      <3> SUFFICES ASSUME NEW p \in DOMAIN verdicts,
                          candidates[p[1]].discovered, candidates[p[2]].discovered
                   PROVE  LET left == candidates[p[1]]
                              right == candidates[p[2]]
                              against == verdicts[p].conflicts \ {"artworkUrl"}
                          IN  /\ against \cap Signals(left, right) = {}
                              /\ left.fingerprint = right.fingerprint
                                    => against \subseteq {"description"}
        BY DEF EvidenceIsOneSided
      <3>1. verdicts[p].conflicts = Conflicts(candidates[p[1]], candidates[p[2]])
        BY <2>1, LevelFollowsClass
      <3> QED
        BY <2>1, <3>1, DiscoveredAreOneSided
    <2>5. SameAddressIsRelated
      <3> SUFFICES ASSUME NEW p \in DOMAIN verdicts
                   PROVE  /\ /\ NormalUrl(AddressOf(candidates[p[1]]))
                                = NormalUrl(AddressOf(candidates[p[2]]))
                             /\ \A feed \in Both(p) : IsAtItsIdentity(feed)
                             => verdicts[p].class # "different-feed"
                          /\ verdicts[p].class = "exact-duplicate" => verdicts[p].level = "high"
        BY DEF SameAddressIsRelated
      <3> DEFINE left == candidates[p[1]]
                 right == candidates[p[2]]
      <3>1. /\ Score(left, right) \in Nat
            /\ verdicts[p].class = "exact-duplicate" => verdicts[p].level = "high"
            /\ verdicts[p].class = "different-feed" => ~Reaches(Score(left, right), 35)
        BY <2>1, LevelFollowsClass
      <3>2. ASSUME NormalUrl(AddressOf(left)) = NormalUrl(AddressOf(right)),
                   \A feed \in Both(p) : IsAtItsIdentity(feed)
            PROVE  Reaches(Score(left, right), 35)
        <4>2. {"canonicalUrl", "normalizedUrl"} \subseteq Signals(left, right)
          BY <2>1, <3>2, AddressesAreSignals DEF Both
        <4>3. Score(left, right) >= 42
          BY <2>1, <4>2, AddressesCount, BroughtHasAddress
        <4> QED
          BY <3>1, <4>3 DEF Reaches, TotalWeight
      <3> QED
        BY <3>1, <3>2
    <2> QED
      BY <2>2, <2>3, <2>4, <2>5 DEF IdentitiesHold
  <1> QED
    BY <1>1, IdentityStarts, IdentityStep, PTL DEF IdentitySpec
==============================================================================
