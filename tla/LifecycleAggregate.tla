------------------------- MODULE LifecycleAggregate --------------------------
(***************************************************************************)
(* FeedLifecycleService.applyTransition and FeedLifecycleAggregateRoot     *)
(* (packages/rss/src/lifecycle/{service,aggregate}.ts): requests that load *)
(* one feed's aggregate from a repository, mutate it and save it, with an  *)
(* await at the load and at the save.                                      *)
(*                                                                         *)
(* The repository is an interface the caller implements.  One that keeps   *)
(* the aggregate objects and hands them out, as the one in the package's   *)
(* tests does, shares them; one over a database makes a copy at each load. *)
(* Its save takes no version.                                              *)
(***************************************************************************)
EXTENDS LifecycleRules, FiniteSets

CONSTANTS
    Requests,     \* the calls of a run
    MayFail,      \* load and save may reject
    InitialStates,
    Commands,     \* the transitions that are asked for
    MaxVersion,   \* bound of the calls of convenience methods
    NoAggregate   \* load resolves to undefined

ASSUME SwitchAssumption == MayFail \in BOOLEAN
ASSUME InitialAssumption == InitialStates \subseteq States
ASSUME CommandAssumption == Commands \subseteq States \X States
ASSUME BoundAssumption == MaxVersion \in Nat

VARIABLES
    shares,     \* load hands out the repository's own object
    stored,     \* the aggregate of the feed, as the repository holds it
    pc,         \* where each request is
    command,    \* its currentState and targetState, as the caller believes
    loaded,     \* the object it loaded; the stored one if shared
    past,       \* history: what the aggregate has been
    overlapped  \* history: two requests had copies of one aggregate

vars == <<shares, stored, pc, command, loaded, past, overlapped>>

Aggregate == [state : States, version : Nat \ {0}]

ASSUME NoAggregateAssumption == NoAggregate \notin Aggregate

\* What is stored, seen from outside; a feed without an aggregate is new.
Current == IF stored = NoAggregate THEN [state |-> "NEW", version |-> 1] ELSE stored

TypeOK ==
    /\ shares \in BOOLEAN
    /\ stored \in Aggregate \cup {NoAggregate}
    /\ pc \in [Requests -> {"new", "loading", "loaded", "saving",
                            "thrown", "failed", "succeeded"}]
    /\ command \in [Requests -> Commands \cup {NoAggregate}]
    /\ loaded \in [Requests -> Aggregate \cup {NoAggregate}]
    /\ past \subseteq Aggregate
    /\ overlapped \in BOOLEAN

Init ==
    /\ shares \in BOOLEAN
    /\ stored \in [state : InitialStates, version : {1}] \cup {NoAggregate}
    /\ pc = [r \in Requests |-> "new"]
    /\ command = [r \in Requests |-> NoAggregate]
    /\ loaded = [r \in Requests |-> NoAggregate]
    /\ past = {Current}
    /\ overlapped = FALSE

Goto(r, label) == pc' = [pc EXCEPT ![r] = label]

\* r is between its load and the end of its save.
HasObject(r) == pc[r] \in {"loaded", "saving"}

\* The object r works on
Object(r) == IF shares /\ loaded[r] # NoAggregate THEN stored ELSE loaded[r]

------------------------------------------------------------------------------

\* The call, up to the load.  The states of the command are the caller's.
Begin(r, from, to) ==
    /\ pc[r] = "new"
    /\ command' = [command EXCEPT ![r] = <<from, to>>]
    /\ Goto(r, IF CanTransition(from, to) THEN "loading" ELSE "failed")
    /\ UNCHANGED <<shares, stored, loaded, past, overlapped>>

Load(r) ==
    /\ pc[r] = "loading"
    /\ loaded' = [loaded EXCEPT ![r] = stored]
    /\ Goto(r, IF stored = NoAggregate THEN "failed" ELSE "loaded")
    /\ overlapped' = (overlapped \/ (~shares /\ \E q \in Requests \ {r} : HasObject(q)))
    /\ UNCHANGED <<shares, stored, command, past>>

\* load is not in a try: its rejection is the caller's.
LoadThrows(r) ==
    /\ MayFail
    /\ pc[r] = "loading"
    /\ Goto(r, "thrown")
    /\ UNCHANGED <<shares, stored, command, loaded, past, overlapped>>

\* Mutant: the version is left alone.
Restated(a, to) == [a EXCEPT !.state = to]

\* FeedLifecycleAggregateRoot.applyLifecycleTransition on an object in the
\* expected state
Mutated(a, to) == [state |-> to, version |-> a.version + 1]

\* The repository's aggregate becomes a, by a mutation or by a save.
Becomes(a) == stored' = a /\ past' = past \cup {a}

\* Mutant: neither the service nor the aggregate compares states.
ApplyUnchecked(r) ==
    /\ pc[r] = "loaded"
    /\ LET next == Mutated(Object(r), command[r][2])
       IN  /\ IF shares THEN Becomes(next) ELSE UNCHANGED <<stored, past>>
           /\ loaded' = [loaded EXCEPT ![r] = next]
    /\ Goto(r, "saving")
    /\ UNCHANGED <<shares, command, overlapped>>

\* After the load: the service and then the aggregate compare the object's
\* state with the command's; the mutation and the call of save follow at once.
Apply(r) ==
    /\ pc[r] = "loaded"
    /\ LET from == command[r][1]
           to == command[r][2]
           next == Mutated(Object(r), to)
       IN  IF Object(r).state = from /\ CanTransition(from, to)
           THEN /\ IF shares THEN Becomes(next) ELSE UNCHANGED <<stored, past>>
                /\ loaded' = [loaded EXCEPT ![r] = next]
                /\ Goto(r, "saving")
           ELSE Goto(r, "failed") /\ UNCHANGED <<stored, past, loaded>>
    /\ UNCHANGED <<shares, command, overlapped>>

\* A copy is put back over whatever others have saved meanwhile.
Save(r) ==
    /\ pc[r] = "saving"
    /\ Becomes(Object(r))
    /\ Goto(r, "succeeded")
    /\ UNCHANGED <<shares, command, loaded, overlapped>>

\* 'persistence-preparation-failure': the object stays mutated.
SaveFails(r) ==
    /\ MayFail
    /\ pc[r] = "saving"
    /\ Goto(r, "failed")
    /\ UNCHANGED <<shares, stored, command, loaded, past, overlapped>>

\* activate, pause, archive, disable, enable, markFailed, scheduleSync,
\* recover and restore, called on the repository's object by its holder
ConvenienceTargets ==
    {"ACTIVE", "PAUSED", "ARCHIVED", "DISABLED", "SYNC_FAILED", "SYNCING"}

MutateDirectly(to) ==
    /\ shares
    /\ stored # NoAggregate
    /\ stored.version < MaxVersion
    /\ CanTransition(stored.state, to)
    /\ Becomes(Mutated(stored, to))
    /\ UNCHANGED <<shares, pc, command, loaded, overlapped>>

Step(r) == Load(r) \/ LoadThrows(r) \/ Apply(r) \/ Save(r) \/ SaveFails(r)

Terminated ==
    /\ \A r \in Requests : pc[r] \in {"thrown", "failed", "succeeded"}
    /\ UNCHANGED vars

Next ==
    \/ \E r \in Requests :
           \/ \E c \in Commands : Begin(r, c[1], c[2])
           \/ Step(r)
    \/ \E to \in ConvenienceTargets : MutateDirectly(to)
    \/ Terminated

Spec == Init /\ [][Next]_vars

------------------------------------------------------------------------------
(* Properties *)

\* The aggregate behind the repository is one lifecycle, whatever calls are
\* under way: it moves by registered transitions and by one version at a time.
\* A repository of copies keeps that until two calls have copies at a time;
\* from then on a save may undo what others saved, but what it stores is still
\* what a registered transition makes of something the feed has been.
Lifecycle == INSTANCE AtomicLifecycle WITH
    state <- Current.state, version <- Current.version, forks <- overlapped

ImplementsAtomic == Lifecycle!Spec

\* Every call that was answered with success left its mark: a transition is
\* overwritten by another one only over a repository of copies, after two
\* calls were between their load and their save at a time.
NoLostTransition ==
    overlapped \/ Current.version > Cardinality({r \in Requests : pc[r] = "succeeded"})
==============================================================================
