----------------------------- MODULE Observation -----------------------------
(***************************************************************************)
(* ObservabilityRuntime.observe (packages/rss/src/observability): it asks  *)
(* the registered collectors one after the other, each for its part of     *)
(* what it was given, and makes a snapshot with diagnostics of the answers.*)
(* Telemetry hears of every step and may throw.                            *)
(*                                                                         *)
(* The input is copied one level deep: its parts are the caller's objects, *)
(* and a collector reads its part when its turn comes.                     *)
(***************************************************************************)
EXTENDS Absent, Naturals, FiniteSets, SequencesExt

CONSTANTS
    Observers,    \* calls of observe
    Standard,     \* the kinds of the collectors there are by default, in order
    Custom,       \* kinds of collectors that may be registered, which may fail
    Observed,     \* the kinds the caller gives a part for
    MaxReadings   \* bound of the changes of a part

\* There is one default collector of each kind, among them those the diagnostics look at.
ASSUME CollectorAssumption ==
    /\ Standard \in Seq(ToSet(Standard))
    /\ \A i, j \in DOMAIN Standard : Standard[i] = Standard[j] => i = j
    /\ {"queue", "worker", "job"} \subseteq ToSet(Standard)
    /\ MaxReadings \in Nat

VARIABLES
    collectors,    \* the registry: the kinds, in the order of registration
    readings,      \* how often each part has changed
    observations   \* each call: its collectors, their answers, what telemetry heard

observationVars == <<collectors, readings, observations>>

Kinds == ToSet(Standard) \cup Custom

Unasked == [pc |-> "idle", list |-> <<>>, results |-> <<>>, heard |-> <<>>, since |-> None,
            snapshot |-> None]

\* The constructor registers the default collectors.  The registry of a runtime that was
\* made without one keeps none of them.
ObservationInit ==
    /\ collectors \in {Standard, <<>>}
    /\ readings = [k \in Kinds |-> 0]
    /\ observations = [o \in Observers |-> Unasked]

\* DefaultCollectorRegistry.register: one of each kind, at the place of the first
Register(k) ==
    /\ collectors # <<>> /\ k \notin ToSet(collectors)
    /\ collectors' = Append(collectors, k)
    /\ UNCHANGED <<readings, observations>>

\* The caller's queue, worker or job goes on while it is observed.
Change(k) ==
    /\ readings[k] < MaxReadings
    /\ readings' = [readings EXCEPT ![k] = @ + 1]
    /\ UNCHANGED <<collectors, observations>>

\* What a collector answers: its part as it is now, or that it is unknown
Collected(k) == IF k \in Observed THEN readings[k] ELSE None

Heard(call, events) == [call EXCEPT !.heard = @ \o events]

Event(name, k) == <<name, k>>

\* The collector whose turn it is: telemetry is told, and it is asked and awaited.
AskNext(call) ==
    LET k == call.list[Len(call.results) + 1]
    IN  Heard([call EXCEPT !.results = Append(@, Collected(k))], <<Event("CollectorStarted", k)>>)

\* createObservabilitySnapshot keeps the answers of the kinds it knows.
Answers(call) ==
    [k \in ToSet(call.list) \cap ToSet(Standard) |->
        call.results[CHOOSE i \in DOMAIN call.list : call.list[i] = k]]

\* DefaultDiagnosticsEngine, of readings that are the failed jobs of a queue, whether a job
\* has failed, and how busy a worker is; what is unknown has not failed.
Diagnostics(answers) ==
    LET of(k) == IF k \in DOMAIN answers /\ answers[k] \in Nat THEN answers[k] ELSE 0
    IN  [failures |-> IF of("queue") > 0 THEN of("queue") ELSE IF of("job") > 0 THEN 1 ELSE 0,
         bottleneck |-> of("worker") = MaxReadings]

Whole(call) ==
    LET answers == Answers(call)
    IN  Heard([call EXCEPT !.pc = "done",
                           !.snapshot = [answers |-> answers, diagnostics |-> Diagnostics(answers)]],
              <<Event("ObservationCompleted", None), Event("SnapshotCreated", None)>>)

\* Mutant: the registry is asked again for who is next.
ContinuesAfresh(call) == IF Len(call.results) >= Len(collectors) THEN Whole(call)
                         ELSE AskNext([call EXCEPT !.list = collectors])

\* The collector has answered: the next one is asked, or the snapshot is made.
Continues(call) == IF Len(call.results) = Len(call.list) THEN Whole(call) ELSE AskNext(call)

\* A call that begins has the collectors of that moment.
Begun(call) ==
    IF call.pc = "idle"
    THEN [call EXCEPT !.pc = "collecting", !.list = collectors,
                      !.since = [list |-> collectors, readings |-> readings]]
    ELSE call

\* What observe does at once, up to its next await or its end
Runs(call) ==
    Continues(Heard(Begun(call),
                    <<IF call.pc = "idle" THEN Event("ObservationStarted", None)
                      ELSE Event("CollectorCompleted", call.list[Len(call.results)])>>))

Observe(o) ==
    /\ observations[o].pc = "idle"
    /\ observations' = [observations EXCEPT ![o] = Runs(@)]
    /\ UNCHANGED <<collectors, readings>>

\* The collector that was asked has answered.
Continue(o) ==
    /\ observations[o].pc = "collecting"
    /\ observations' = [observations EXCEPT ![o] = Runs(@)]
    /\ UNCHANGED <<collectors, readings>>

Failed(call) == [call EXCEPT !.pc = "failed"]

\* A collector of one's own rejects, and the observation with it.  There is an event for
\* it, which nothing makes.
CollectorFails(o) ==
    LET call == observations[o]
    IN  /\ call.pc = "collecting" /\ call.list[Len(call.results)] \in Custom
        /\ observations' = [observations EXCEPT ![o] = Failed(call)]
        /\ UNCHANGED <<collectors, readings>>

\* Telemetry throws at one of the next events, having heard those before it: this ends the
\* observation, too, be it the event after its completion.
TelemetryThrows(o) ==
    LET call == observations[o]
        told == Runs(call).heard
    IN  /\ call.pc \in {"idle", "collecting"}
        /\ \E n \in Len(call.heard)..(Len(told) - 1) :
            observations' = [observations EXCEPT
                    ![o] = [Failed(Begun(call)) EXCEPT !.heard = SubSeq(told, 1, n)]]
        /\ UNCHANGED <<collectors, readings>>

ObservationNext ==
    \/ \E k \in Custom : Register(k)
    \/ \E k \in Observed : Change(k)
    \/ \E o \in Observers : Observe(o) \/ Continue(o) \/ CollectorFails(o) \/ TelemetryThrows(o)

ObservationSpec == ObservationInit /\ [][ObservationNext]_observationVars

------------------------------------------------------------------------------
(* Properties *)

ObservationTypeOK ==
    /\ readings \in [Kinds -> 0..MaxReadings]
    /\ \A o \in Observers :
        /\ observations[o].pc \in {"idle", "collecting", "done", "failed"}
        /\ Len(observations[o].results) <= Len(observations[o].list)

\* Telemetry has heard of the observation, then of each collector in its turn.
HeardInTurn(heard, list) ==
    /\ Len(heard) >= 2 * Len(list) + 1
    /\ heard[1] = Event("ObservationStarted", None)
    /\ \A i \in 1..Len(list) : /\ heard[2 * i] = Event("CollectorStarted", list[i])
                               /\ heard[2 * i + 1] = Event("CollectorCompleted", list[i])

\* Whatever is registered, changes or fails while an observation is under way: a snapshot
\* has the answer of each collector that was registered when it began and of no other, each
\* taken between then and its end (it has none at all if the runtime was made without a
\* registry); telemetry has heard of each collector in its turn, of a snapshot only if the
\* caller has it, and of a completion without one only if it threw at the very next event.
SnapshotIsWhole ==
    \A o \in Observers :
        LET call == observations[o]
            list == call.since.list
            last == Len(call.heard)
        IN  /\ call.pc = "done" =>
                /\ HeardInTurn(call.heard, list) /\ last = 2 * Len(list) + 3
                /\ call.heard[last - 1] = Event("ObservationCompleted", None)
                /\ call.heard[last] = Event("SnapshotCreated", None)
                /\ DOMAIN call.snapshot.answers = IF list = <<>> THEN {} ELSE ToSet(Standard)
                /\ \A k \in Observed \cap DOMAIN call.snapshot.answers :
                    call.snapshot.answers[k] \in call.since.readings[k]..readings[k]
            /\ call.pc # "done" =>
                /\ call.snapshot = None /\ Event("SnapshotCreated", None) \notin ToSet(call.heard)
                /\ Event("ObservationCompleted", None) \in ToSet(call.heard) =>
                    call.pc = "failed" /\ HeardInTurn(call.heard, list) /\ last = 2 * Len(list) + 2

\* The diagnostics of a snapshot see a failure that was there when the observation began,
\* if it is one that its parts tell of and there was a collector to ask for them.
DiagnosticsMissNothing ==
    \A o \in Observers :
        observations[o].pc = "done" /\ observations[o].since.list # <<>> =>
            \A k \in {"queue", "job"} \cap Observed :
                observations[o].since.readings[k] > 0
                    => observations[o].snapshot.diagnostics.failures > 0

\* What observers are handed is a whole picture of the time it was taken in
\* (ObservabilityRuntime.observe).
ObservationsHold == ObservationTypeOK /\ SnapshotIsWhole /\ DiagnosticsMissNothing
=============================================================================
