---------------------------- MODULE WorkerRuntime ----------------------------
(***************************************************************************)
(* The runtime of the feed workers (packages/rss/src/workers): a registry  *)
(* that makes one runtime of a kind, runtimes that start, stop and         *)
(* dispatch jobs to handlers, and hooks that are told.                     *)
(*                                                                         *)
(* A consumer asks the registry for the runtime and dispatches one job to  *)
(* it; a stopper stops the runtime.  A label of pc is what a call awaits:  *)
(* an event ("emit...") that hooks are being told of, or the handler.      *)
(***************************************************************************)
EXTENDS FiniteSets, Naturals

CONSTANTS
    Consumers,
    Stoppers,
    Configured,      \* the configuration has a worker id and a queue name
    Fates,           \* a job may be cancelled early, have a handler, or be of an unknown type
    HooksMayThrow,
    HandlersMayThrow,
    NoRuntime

ASSUME SwitchesAssumption ==
    Configured \in BOOLEAN /\ HooksMayThrow \in BOOLEAN /\ HandlersMayThrow \in BOOLEAN
ASSUME CallsAssumption ==
    /\ NoRuntime \notin Consumers
    /\ Consumers \cap Stoppers = {}
    /\ Fates \subseteq {"handled", "cancelled", "unknown"}

VARIABLES
    pc,
    lifecycle,  \* the state of the runtime each consumer may have made
    registered, \* the consumer that made the registry's runtime
    using,      \* whose runtime a call works on
    resolved,   \* history: the consumers whose handler resolved
    disturbed,  \* history: a hook has thrown
    overlapped, \* history: two consumers were in the factory at a time
    interrupted \* history: the consumers whose dispatch overlapped with a stop

workerVars == <<pc, lifecycle, registered, using, resolved, disturbed, overlapped,
                interrupted>>

Calls == Consumers \cup Stoppers

LifecycleStates == {"none", "starting", "ready", "running", "stopping", "stopped"}

\* In start, called by the factory or by a dispatch
InFactory == {"emitStarted", "emitReady"}
InStart == {"emitStartedAgain", "emitReadyAgain"}
InDispatch ==
    InStart \cup {"emitAccepted", "emitJobStarted", "executing", "emitCompleted",
                  "emitCancelled", "emitFailed"}
Answered == {"refused", "completed", "cancelled", "failed", "stopped"}

WorkerTypeOK ==
    /\ pc \in [Calls -> {"new", "created", "emitStopped"} \cup InFactory \cup InDispatch \cup Answered]
    /\ lifecycle \in [Consumers -> LifecycleStates]
    /\ registered \in Consumers \cup {NoRuntime}
    /\ using \in [Calls -> Consumers \cup {NoRuntime}]
    /\ resolved \subseteq Consumers
    /\ disturbed \in BOOLEAN
    /\ overlapped \in BOOLEAN
    /\ interrupted \subseteq Consumers

WorkerInit ==
    /\ pc = [c \in Calls |-> "new"]
    /\ lifecycle = [c \in Consumers |-> "none"]
    /\ registered = NoRuntime
    /\ using = [c \in Calls |-> NoRuntime]
    /\ resolved = {}
    /\ disturbed = FALSE
    /\ overlapped = FALSE
    /\ interrupted = {}

GoesTo(c, label) == pc' = [pc EXCEPT ![c] = label]
Becomes(r, s) == lifecycle' = [lifecycle EXCEPT ![r] = s]

------------------------------------------------------------------------------
(* WorkerRegistry.create and DefaultWorkerFactory.create *)

\* The registry's runtime, or a new one that is started first.  An incomplete
\* configuration makes start throw, and the runtime is dropped.
Create(c) ==
    /\ pc[c] = "new"
    /\ IF registered # NoRuntime
       THEN /\ using' = [using EXCEPT ![c] = registered]
            /\ GoesTo(c, "created")
            /\ UNCHANGED <<lifecycle, overlapped>>
       ELSE /\ using' = [using EXCEPT ![c] = c]
            /\ Becomes(c, "starting")
            /\ GoesTo(c, IF Configured THEN "emitStarted" ELSE "refused")
            /\ overlapped' = (overlapped \/ \E d \in Consumers : pc[d] \in InFactory)
    /\ UNCHANGED <<registered, resolved, disturbed, interrupted>>

FactoryStarted(c) ==
    /\ pc[c] = "emitStarted"
    /\ Becomes(c, "ready")
    /\ GoesTo(c, "emitReady")
    /\ UNCHANGED <<registered, using, resolved, disturbed, overlapped, interrupted>>

\* The registry replaces what another create stored while this one awaited.
Register(c) ==
    /\ pc[c] = "emitReady"
    /\ registered' = c
    /\ using' = [using EXCEPT ![c] = c]
    /\ GoesTo(c, "created")
    /\ UNCHANGED <<lifecycle, resolved, disturbed, overlapped, interrupted>>

------------------------------------------------------------------------------
(* DefaultWorkerRuntime.dispatch, and the start it may call *)

\* Mutant: a dispatch waits for a start that is under way.
DispatchAwaiting(c) ==
    /\ pc[c] = "created"
    /\ lifecycle[using[c]] # "starting"
    /\ IF lifecycle[using[c]] \in {"ready", "running"}
       THEN GoesTo(c, "emitAccepted") /\ UNCHANGED lifecycle
       ELSE GoesTo(c, "emitStartedAgain") /\ Becomes(using[c], "starting")
    /\ UNCHANGED <<registered, using, resolved, disturbed, overlapped, interrupted>>

\* start returns at once if the runtime is starting, and starts it again if it
\* was stopped.
Dispatch(c) ==
    /\ pc[c] = "created"
    /\ IF lifecycle[using[c]] \in {"starting", "ready", "running"}
       THEN GoesTo(c, "emitAccepted") /\ UNCHANGED lifecycle
       ELSE GoesTo(c, "emitStartedAgain") /\ Becomes(using[c], "starting")
    /\ interrupted' =
           IF \E s \in Stoppers : pc[s] = "emitStopped" /\ using[s] = using[c]
           THEN interrupted \cup {c} ELSE interrupted
    /\ UNCHANGED <<registered, using, resolved, disturbed, overlapped>>

Restarted(c) ==
    /\ \/ /\ pc[c] = "emitStartedAgain"
          /\ Becomes(using[c], "ready")
          /\ GoesTo(c, "emitReadyAgain")
       \/ /\ pc[c] = "emitReadyAgain"
          /\ GoesTo(c, "emitAccepted")
          /\ UNCHANGED lifecycle
    /\ UNCHANGED <<registered, using, resolved, disturbed, overlapped, interrupted>>

\* Mutant: the state is left as it is.
AcceptedAsIs(c) ==
    /\ pc[c] = "emitAccepted"
    /\ GoesTo(c, "emitJobStarted")
    /\ UNCHANGED <<lifecycle, registered, using, resolved, disturbed, overlapped,
                   interrupted>>

Accepted(c) ==
    /\ pc[c] = "emitAccepted"
    /\ Becomes(using[c], "running")
    /\ GoesTo(c, "emitJobStarted")
    /\ UNCHANGED <<registered, using, resolved, disturbed, overlapped, interrupted>>

\* DefaultJobDispatcher.dispatch: the token of a context is frozen as it was when
\* the context was made, so a later cancel is not seen.
JobStarted(c) ==
    /\ pc[c] = "emitJobStarted"
    /\ \/ "cancelled" \in Fates /\ GoesTo(c, "emitCancelled")
       \/ "handled" \in Fates /\ GoesTo(c, "executing")
       \/ "unknown" \in Fates /\ GoesTo(c, "emitFailed")
    /\ UNCHANGED <<lifecycle, registered, using, resolved, disturbed, overlapped,
                   interrupted>>

\* Mutant: the outcome of the handler is told as a failure.
ExecutedUnheard(c) ==
    /\ pc[c] = "executing"
    /\ resolved' = resolved \cup {c}
    /\ GoesTo(c, "emitFailed")
    /\ UNCHANGED <<lifecycle, registered, using, disturbed, overlapped, interrupted>>

Executed(c) ==
    /\ pc[c] = "executing"
    /\ resolved' = resolved \cup {c}
    /\ GoesTo(c, "emitCompleted")
    /\ UNCHANGED <<lifecycle, registered, using, disturbed, overlapped, interrupted>>

ExecutionThrows(c) ==
    /\ HandlersMayThrow
    /\ pc[c] = "executing"
    /\ GoesTo(c, "emitFailed")
    /\ UNCHANGED <<lifecycle, registered, using, resolved, disturbed, overlapped,
                   interrupted>>

\* The last event, and the answer
Finished(c) ==
    /\ \/ pc[c] = "emitCompleted" /\ GoesTo(c, "completed")
       \/ pc[c] = "emitCancelled" /\ GoesTo(c, "cancelled")
       \/ pc[c] = "emitFailed" /\ GoesTo(c, "failed")
    /\ UNCHANGED <<lifecycle, registered, using, resolved, disturbed, overlapped,
                   interrupted>>

\* A hook rejects.  The events before the job's execution are outside of the try;
\* those of its outcome are inside, and lead to one more event.
HookThrows(c) ==
    /\ HooksMayThrow
    /\ \/ pc[c] \in InFactory \cup InStart \cup {"emitAccepted", "emitJobStarted"}
              /\ GoesTo(c, "refused")
       \/ pc[c] \in {"emitCompleted", "emitCancelled"} /\ GoesTo(c, "emitFailed")
       \/ pc[c] = "emitFailed" /\ GoesTo(c, "failed")
       \/ pc[c] = "emitStopped" /\ GoesTo(c, "refused")
    /\ disturbed' = TRUE
    /\ UNCHANGED <<lifecycle, registered, using, resolved, overlapped, interrupted>>

------------------------------------------------------------------------------
(* DefaultWorkerRuntime.stop *)

Stop(s) ==
    /\ pc[s] = "new"
    /\ registered # NoRuntime
    /\ using' = [using EXCEPT ![s] = registered]
    /\ IF lifecycle[registered] \in {"stopping", "stopped"}
       THEN GoesTo(s, "stopped") /\ UNCHANGED lifecycle
       ELSE GoesTo(s, "emitStopped") /\ Becomes(registered, "stopping")
    /\ interrupted' =
           interrupted \cup {c \in Consumers : pc[c] \in InDispatch /\ using[c] = registered}
    /\ UNCHANGED <<registered, resolved, disturbed, overlapped>>

Stopped(s) ==
    /\ pc[s] = "emitStopped"
    /\ Becomes(using[s], "stopped")
    /\ GoesTo(s, "stopped")
    /\ UNCHANGED <<registered, using, resolved, disturbed, overlapped, interrupted>>

ConsumerStep(c) ==
    \/ FactoryStarted(c) \/ Register(c) \/ Dispatch(c) \/ Restarted(c) \/ Accepted(c)
    \/ JobStarted(c) \/ Executed(c) \/ ExecutionThrows(c) \/ Finished(c) \/ HookThrows(c)

StopperStep(s) == Stopped(s) \/ HookThrows(s)

------------------------------------------------------------------------------
(* Properties *)

Working(c) == pc[c] \notin {"new"} \cup Answered

\* A dispatch answers "completed" only if its handler resolved, and fails after its
\* handler resolved only if a hook threw.
AnswersTell ==
    \A c \in Consumers :
        /\ pc[c] = "completed" => c \in resolved
        /\ pc[c] \in {"refused", "failed", "cancelled"} /\ c \in resolved => disturbed

\* When no call is under way and no hook has thrown, a runtime that is in the
\* registry is neither starting nor stopping.
Settled ==
    ~disturbed /\ (\A c \in Calls : ~Working(c)) /\ registered # NoRuntime =>
        lifecycle[registered] \in {"ready", "running", "stopped"}

\* Every runtime that was started can be reached through the registry, unless two
\* creations overlapped.
NoStrayRuntime ==
    ~overlapped =>
        \A r \in Consumers :
            lifecycle[r] \in {"ready", "running"} /\ pc[r] \notin InFactory \cup {"refused"}
                => registered = r

\* A job is executed on a runtime that is ready or running, unless a stop and the
\* job's dispatch overlapped.
RunsWhileExecuting ==
    \A c \in Consumers \ interrupted :
        pc[c] = "executing" => lifecycle[using[c]] \in {"ready", "running"}

\* Whoever creates, starts and stops runtimes side by side: one that was started can
\* be reached, comes to rest, and has jobs executed on it only while it is up.
RuntimesHold == Settled /\ NoStrayRuntime /\ RunsWhileExecuting
==============================================================================
