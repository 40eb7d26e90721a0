-------------------------- MODULE AtomicLifecycle ----------------------------
(***************************************************************************)
(* What a feed lifecycle promises: the feed is in one state, it leaves it  *)
(* by a registered transition, and every transition counts as one version. *)
(* Once it may fork, a transition can start again from where the feed has  *)
(* been, which undoes what came after; it is a registered one all the same.*)
(***************************************************************************)
EXTENDS LifecycleRules

VARIABLES
    state,
    version,
    past,    \* what the feed has been, with versions
    forks    \* whether transitions may be undone

Present == [state |-> state, version |-> version]

Init ==
    /\ state \in States
    /\ version = 1
    /\ past = {Present}
    /\ forks = FALSE

Transition ==
    \E p \in (IF forks THEN past ELSE {Present}), to \in States :
        /\ CanTransition(p.state, to)
        /\ state' = to
        /\ version' = p.version + 1
        /\ past' = past \cup {Present'}
        /\ UNCHANGED forks

Loosen == forks' = TRUE /\ UNCHANGED <<state, version, past>>

Next == Transition \/ Loosen

Spec == Init /\ [][Next]_<<state, version, past, forks>>
==============================================================================
