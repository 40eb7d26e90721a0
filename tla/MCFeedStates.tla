----------------------------- MODULE MCFeedStates -----------------------------
(* What is kept of a feed's state, for TLC: a behaviour is one of the lifecycle's  *)
(* aggregate, of the administrators' requests on the feed's row, or of the states  *)
(* and checkpoints of its synchronizations.  The three share nothing.              *)
EXTENDS LifecycleAggregate, FeedAdministration, SyncRecovery

CONSTANT Parts  \* those of the three that are looked at

VARIABLE part

mcVars == <<vars, adminVars, recoveryVars, part>>

\* Transitions that compete in a few states, and one that is not registered.
FewCommands ==
    {<<"READY", "ACTIVE">>, <<"READY", "IMPORTING">>, <<"READY", "ARCHIVED">>,
     <<"ACTIVE", "READY">>, <<"ACTIVE", "SYNCING">>,
     <<"SYNCING", "SYNC_FAILED">>, <<"SYNCING", "READY">>}

SomeRow == [status |-> "draft", syncStatus |-> "PENDING", isActive |-> TRUE]

\* A part that rests starts in one state only.
MCInit ==
    /\ part \in Parts
    /\ Init /\ AdminInit /\ RecoveryInit
    /\ part # "administration" => row = SomeRow
    /\ part # "aggregate" => stored = NoAggregate /\ shares

Command == part = "aggregate" /\ Next /\ UNCHANGED <<adminVars, recoveryVars, part>>
Administer == part = "administration" /\ AdminNext /\ UNCHANGED <<vars, recoveryVars, part>>
Recovering == part = "recovery" /\ RecoveryNext /\ UNCHANGED <<vars, adminVars, part>>

MCNext == Command \/ Administer \/ Recovering

MCSpec == MCInit /\ [][MCNext]_mcVars

\* Sound: nothing is promised to come about, only safety is checked.
Symmetry == Permutations(Requests)
=============================================================================
