--------------------------- MODULE LifecycleProofs ----------------------------
(***************************************************************************)
(* Proofs about LifecycleAggregate and FeedAdministration, the two places  *)
(* that ask the lifecycle's rules, for any number of requests.             *)
(*                                                                         *)
(* Working tells what a request under way has in hand.  It is what makes   *)
(* the steps after the awaits mean something: a request that applies or    *)
(* saves has an object, and its command is one it was allowed to give.     *)
(* Over a repository of copies, ParentInv tells where a copy comes from,   *)
(* and AloneInv that it is of what is stored as long as no two requests    *)
(* have one.  Counted relates the version to the requests that have left   *)
(* their mark: with shared objects by their mutation, with copies by their *)
(* save.                                                                   *)
(*                                                                         *)
(* The administrators' requests decide on rows that are old when they      *)
(* write: AdminIInv says what of an old row is still true of the row.      *)
(***************************************************************************)
EXTENDS LifecycleAggregate, FeedAdministration, FiniteSetTheorems, TLAPS

Busy == {"loading", "loaded", "saving"}

Working ==
    \A r \in Requests :
        /\ pc[r] \in Busy => command[r] \in Commands
        /\ pc[r] \in {"loaded", "saving"} => loaded[r] # NoAggregate
        /\ loaded[r] # NoAggregate => stored # NoAggregate

\* a is what a registered transition makes of p.
Follows(p, a) == CanTransition(p.state, a.state) /\ a.version = p.version + 1

ParentInv ==
    /\ Current \in past
    /\ ~shares =>
           \A r \in Requests :
               /\ pc[r] = "loaded" => loaded[r] \in past
               /\ pc[r] = "saving" => \E p \in past : Follows(p, loaded[r])

AloneInv ==
    ~shares /\ ~overlapped =>
        \A r \in Requests :
            /\ HasObject(r) => \A q \in Requests : HasObject(q) => q = r
            /\ pc[r] = "loaded" => loaded[r] = stored
            /\ pc[r] = "saving" => Follows(stored, loaded[r])

IInv == TypeOK /\ Working /\ ParentInv /\ AloneInv

\* A mutation makes an aggregate of an aggregate.
LEMMA MutatedIsAggregate ==
    ASSUME NEW a \in Aggregate, NEW to \in States
    PROVE  Mutated(a, to) \in Aggregate
  BY DEF Mutated, Aggregate

\* What a request works on is an aggregate, once it has loaded one.
LEMMA ObjectIsAggregate ==
    ASSUME TypeOK, Working, NEW r \in Requests, pc[r] \in {"loaded", "saving"}
    PROVE  Object(r) \in Aggregate
  BY DEF TypeOK, Working, Object

\* A command's states are states.
LEMMA CommandStates ==
    ASSUME Working, NEW r \in Requests, pc[r] \in Busy
    PROVE  command[r][1] \in States /\ command[r][2] \in States
  <1>1. command[r] \in States \X States
    BY CommandAssumption DEF Working
  <1> QED
    BY <1>1

\* What is stored is an aggregate, and is what is seen.
LEMMA StoredIsCurrent ==
    ASSUME TypeOK, stored # NoAggregate
    PROVE  Current = stored /\ stored \in Aggregate
  BY DEF TypeOK, Current

LEMMA CurrentIsAggregate == TypeOK => Current \in Aggregate
  BY DEF TypeOK, Current, Aggregate, States

\* What Apply does, in one case and in the other.
LEMMA ApplyCases ==
    ASSUME TypeOK, Working, NEW r \in Requests, Apply(r)
    PROVE  /\ pc[r] = "loaded" /\ stored # NoAggregate
           /\ UNCHANGED <<shares, command, overlapped>>
           /\ \/ /\ pc' = [pc EXCEPT ![r] = "failed"]
                 /\ UNCHANGED <<stored, past, loaded>>
              \/ \E next \in Aggregate :
                     /\ Follows(Object(r), next)
                     /\ pc' = [pc EXCEPT ![r] = "saving"]
                     /\ loaded' = [loaded EXCEPT ![r] = next]
                     /\ IF shares THEN Becomes(next) ELSE UNCHANGED <<stored, past>>
  <1> DEFINE to == command[r][2]
             next == Mutated(Object(r), to)
  <1>1. pc[r] = "loaded" /\ stored # NoAggregate
    BY DEF Apply, Working
  <1>2. to \in States /\ next \in Aggregate
    BY <1>1, CommandStates, ObjectIsAggregate, MutatedIsAggregate DEF Busy
  <1>3. next.state = to /\ next.version = Object(r).version + 1
    BY DEF Mutated
  <1>4. CASE Object(r).state = command[r][1] /\ CanTransition(command[r][1], to)
    <2>1. Follows(Object(r), next)
      BY <1>3, <1>4 DEF Follows
    <2>2. /\ pc' = [pc EXCEPT ![r] = "saving"]
          /\ loaded' = [loaded EXCEPT ![r] = next]
          /\ IF shares THEN Becomes(next) ELSE UNCHANGED <<stored, past>>
          /\ UNCHANGED <<shares, command, overlapped>>
      BY <1>4 DEF Apply, Goto
    <2> HIDE DEF next
    <2> QED
      BY <1>1, <1>2, <2>1, <2>2
  <1>5. CASE ~(Object(r).state = command[r][1] /\ CanTransition(command[r][1], to))
    BY <1>1, <1>5 DEF Apply, Goto
  <1> QED
    BY <1>4, <1>5

------------------------------------------------------------------------------
(* The invariant is inductive *)

LEMMA InitIInv == Init => IInv
  <1> SUFFICES ASSUME Init PROVE IInv
    OBVIOUS
  <1>1. stored \in Aggregate \cup {NoAggregate}
    BY InitialAssumption DEF Init, Aggregate
  <1>2. Current \in Aggregate
    BY <1>1 DEF Current, Aggregate, States
  <1>3. TypeOK
    BY <1>1, <1>2 DEF Init, TypeOK
  <1>4. Working /\ ParentInv /\ AloneInv
    BY DEF Init, Working, ParentInv, AloneInv, Busy, HasObject
  <1> QED
    BY <1>3, <1>4 DEF IInv

\* A step that leaves the objects and what is stored alone, and gives nobody an object.
LEMMA KeepIInv ==
    ASSUME IInv, TypeOK', UNCHANGED <<shares, stored, loaded, past, overlapped>>,
           \A r \in Requests : /\ pc'[r] = pc[r] \/ pc'[r] \notin {"loaded", "saving"}
                               /\ pc'[r] \in Busy => command'[r] \in Commands
    PROVE  IInv'
  BY DEF IInv, Working, ParentInv, AloneInv, Current, HasObject

\* The copies that are in hand descend from what has been, also when more has.
LEMMA BecomesParent ==
    ASSUME IInv, NEW a \in Aggregate, Becomes(a)
    PROVE  /\ stored' = a /\ stored' # NoAggregate /\ Current' = a /\ Current' \in past'
           /\ past' \subseteq Aggregate /\ past \subseteq past'
  BY NoAggregateAssumption DEF Becomes, Current, IInv, TypeOK

LEMMA NextIInv == IInv /\ [Next]_vars => IInv'
  <1> SUFFICES ASSUME IInv, [Next]_vars
               PROVE  IInv'
    OBVIOUS
  <1>0. TypeOK /\ Working /\ ParentInv /\ AloneInv
    BY DEF IInv
  <1>1. ASSUME NEW r \in Requests, NEW c \in Commands, Begin(r, c[1], c[2])
        PROVE  IInv'
    <2>1. <<c[1], c[2]>> \in Commands
      BY CommandAssumption
    <2>2. TypeOK'
      BY <1>0, <1>1, <2>1 DEF Begin, TypeOK, Goto
    <2> QED
      BY <1>0, <1>1, <2>1, <2>2, KeepIInv DEF Begin, TypeOK, Working, Goto
  <1>2. ASSUME NEW r \in Requests, Load(r)
        PROVE  IInv'
    <2>1. /\ pc[r] = "loading" /\ UNCHANGED <<shares, stored, command, past>>
          /\ loaded' = [loaded EXCEPT ![r] = stored]
          /\ pc' = [pc EXCEPT ![r] = IF stored = NoAggregate THEN "failed" ELSE "loaded"]
          /\ overlapped' = (overlapped \/ (~shares /\ \E q \in Requests \ {r} : HasObject(q)))
      BY <1>2 DEF Load, Goto
    <2>2. TypeOK'
      BY <1>0, <2>1 DEF TypeOK
    <2>3. Working'
      BY <1>0, <2>1 DEF TypeOK, Working, Busy
    <2>4. stored # NoAggregate => stored \in past
      BY <1>0, StoredIsCurrent DEF ParentInv
    <2>5. ParentInv'
      BY <1>0, <2>1, <2>4 DEF ParentInv, Current, TypeOK
    <2>6. AloneInv'
      BY <1>0, <2>1 DEF AloneInv, HasObject, TypeOK
    <2> QED
      BY <2>2, <2>3, <2>5, <2>6 DEF IInv
  <1>3. ASSUME NEW r \in Requests, LoadThrows(r) \/ SaveFails(r)
        PROVE  IInv'
    <2>1. TypeOK'
      BY <1>0, <1>3 DEF LoadThrows, SaveFails, TypeOK, Goto
    <2> QED
      BY <1>0, <1>3, <2>1, KeepIInv DEF LoadThrows, SaveFails, TypeOK, Working, Goto, Busy
  <1>4. ASSUME NEW r \in Requests, Apply(r)
        PROVE  IInv'
    <2>0. /\ pc[r] = "loaded" /\ stored # NoAggregate
          /\ UNCHANGED <<shares, command, overlapped>>
      BY <1>0, <1>4, ApplyCases
    <2>1. CASE /\ pc' = [pc EXCEPT ![r] = "failed"]
               /\ UNCHANGED <<stored, past, loaded>>
      <3>1. TypeOK'
        BY <1>0, <2>0, <2>1 DEF TypeOK
      <3> QED
        BY <1>0, <2>0, <2>1, <3>1, KeepIInv DEF TypeOK, Working, Busy
    <2>2. ASSUME NEW next \in Aggregate, Follows(Object(r), next),
                 pc' = [pc EXCEPT ![r] = "saving"],
                 loaded' = [loaded EXCEPT ![r] = next],
                 IF shares THEN Becomes(next) ELSE UNCHANGED <<stored, past>>
          PROVE  IInv'
      <3>1. /\ stored' \in Aggregate \cup {NoAggregate} /\ stored' # NoAggregate
            /\ past' \subseteq Aggregate /\ Current' \in past'
        <4>1. CASE shares
          BY <2>2, <4>1, BecomesParent
        <4>2. CASE ~shares
          BY <1>0, <2>0, <2>2, <4>2 DEF TypeOK, ParentInv, Current
        <4> QED
          BY <4>1, <4>2
      <3>2. TypeOK'
        BY <1>0, <2>0, <2>2, <3>1 DEF TypeOK
      <3>3. Working'
        BY <1>0, <2>0, <2>2, <3>1, NoAggregateAssumption DEF TypeOK, Working, Busy
      <3>4. ~shares => Object(r) = loaded[r] /\ loaded[r] \in past /\ stored' = stored /\ past' = past
        BY <1>0, <2>0, <2>2 DEF Object, ParentInv
      <3>5. ParentInv'
        BY <1>0, <2>0, <2>2, <3>1, <3>4 DEF ParentInv, TypeOK, Follows
      <3>6. AloneInv'
        BY <1>0, <2>0, <2>2, <3>4 DEF AloneInv, HasObject, TypeOK, Follows
      <3> QED
        BY <3>2, <3>3, <3>5, <3>6 DEF IInv
    <2> QED
      BY <1>0, <1>4, <2>1, <2>2, ApplyCases
  <1>5. ASSUME NEW r \in Requests, Save(r)
        PROVE  IInv'
    <2>1. /\ pc[r] = "saving" /\ Becomes(Object(r)) /\ pc' = [pc EXCEPT ![r] = "succeeded"]
          /\ UNCHANGED <<shares, command, loaded, overlapped>>
      BY <1>5 DEF Save, Goto
    <2>2. Object(r) \in Aggregate
      BY <1>0, <2>1, ObjectIsAggregate
    <2>3. /\ stored' \in Aggregate /\ stored' # NoAggregate /\ past' \subseteq Aggregate
          /\ Current' \in past' /\ past \subseteq past'
      BY <2>1, <2>2, BecomesParent
    <2>4. TypeOK'
      BY <1>0, <2>1, <2>3 DEF TypeOK
    <2>5. Working'
      BY <1>0, <2>1, <2>3 DEF Working, TypeOK, Busy
    <2>6. ParentInv'
      BY <1>0, <2>1, <2>3 DEF ParentInv, TypeOK
    <2>7. AloneInv'
      BY <1>0, <2>1 DEF AloneInv, HasObject, TypeOK
    <2> QED
      BY <2>4, <2>5, <2>6, <2>7 DEF IInv
  <1>6. ASSUME NEW to \in ConvenienceTargets, MutateDirectly(to)
        PROVE  IInv'
    <2>1. to \in States
      BY DEF ConvenienceTargets, States, Failures, Terminals
    <2>2. Mutated(stored, to) \in Aggregate
      BY <1>0, <1>6, <2>1, MutatedIsAggregate DEF MutateDirectly, TypeOK
    <2>3. /\ stored' \in Aggregate /\ stored' # NoAggregate /\ past' \subseteq Aggregate
          /\ Current' \in past' /\ past \subseteq past'
      BY <1>6, <2>2, BecomesParent DEF MutateDirectly
    <2>4. shares /\ UNCHANGED <<shares, pc, command, loaded, overlapped>>
      BY <1>6 DEF MutateDirectly
    <2>5. TypeOK' /\ Working'
      BY <1>0, <2>3, <2>4 DEF TypeOK, Working
    <2>6. ParentInv' /\ AloneInv'
      BY <2>3, <2>4 DEF ParentInv, AloneInv
    <2> QED
      BY <2>5, <2>6 DEF IInv
  <1>7. CASE UNCHANGED vars
    BY <1>0, <1>7 DEF vars, IInv, TypeOK, Working, ParentInv, AloneInv, Current, HasObject
  <1> QED
    BY <1>1, <1>2, <1>3, <1>4, <1>5, <1>6, <1>7 DEF Next, Step, Terminated

\* LifecycleAggregate keeps its variables in their types, whatever the caller
\* believes about the states and whatever the repository does: the version of
\* an aggregate stays a positive natural number.
THEOREM AggregateTypeCorrect == Spec => []TypeOK
  <1>1. IInv => TypeOK
    BY DEF IInv
  <1> QED
    BY <1>1, InitIInv, NextIInv, PTL DEF Spec

------------------------------------------------------------------------------
(* The aggregate behind the repository is one lifecycle *)

LEMMA SameRegistry ==
    /\ Lifecycle!States = States
    /\ \A from, to : Lifecycle!CanTransition(from, to) <=> CanTransition(from, to)
  BY DEF Lifecycle!States, States, Lifecycle!Failures, Failures, Lifecycle!Terminals,
         Terminals, Lifecycle!CanTransition, CanTransition, Lifecycle!Transitions,
         Transitions, Lifecycle!OnboardingTransitions, OnboardingTransitions,
         Lifecycle!OperatingTransitions, OperatingTransitions,
         Lifecycle!SyncingTransitions, SyncingTransitions,
         Lifecycle!ArchivingTransitions, ArchivingTransitions

\* An aggregate is the record of its state and version.
LEMMA Present ==
    ASSUME NEW a \in Aggregate
    PROVE  [state |-> a.state, version |-> a.version] = a
  BY DEF Aggregate

\* Storing what follows from an aggregate that may be followed is a transition.
LEMMA BecomesIsTransition ==
    ASSUME IInv, IInv', NEW p \in Aggregate, NEW a \in Aggregate, Follows(p, a), Becomes(a),
           p = Current \/ (overlapped /\ p \in past), overlapped' = overlapped
    PROVE  Lifecycle!Next
  <1>1. Current' = a /\ past' = past \cup {a}
    BY BecomesParent DEF Becomes
  <1>2. Lifecycle!Present = Current /\ Lifecycle!Present' = a
    BY <1>1, CurrentIsAggregate, Present DEF Lifecycle!Present, IInv
  <1>3. p \in IF overlapped THEN past ELSE {Lifecycle!Present}
    BY <1>2 DEF IInv, ParentInv
  <1>4. a.state \in Lifecycle!States /\ Lifecycle!CanTransition(p.state, a.state)
    BY SameRegistry DEF Aggregate, Follows
  <1>5. /\ Current'.state = a.state /\ Current'.version = p.version + 1
        /\ past' = past \cup {Lifecycle!Present'}
    BY <1>1, <1>2 DEF Follows
  <1>6. Lifecycle!Transition
    BY <1>3, <1>4, <1>5 DEF Lifecycle!Transition
  <1> QED
    BY <1>6 DEF Lifecycle!Next

LEMMA InitRefines == Init => Lifecycle!Init
  <1> SUFFICES ASSUME Init PROVE Lifecycle!Init
    OBVIOUS
  <1>1. IInv
    BY InitIInv
  <1>2. Current \in Aggregate
    BY <1>1, CurrentIsAggregate DEF IInv
  <1>3. Current.version = 1
    BY DEF Init, Current
  <1>4. Lifecycle!Present = Current
    BY <1>2, Present DEF Lifecycle!Present
  <1>5. Current.state \in States
    BY <1>2 DEF Aggregate
  <1> QED
    BY <1>3, <1>4, <1>5, SameRegistry DEF Lifecycle!Init, Init

LEMMA StepRefines ==
    ASSUME IInv, IInv', [Next]_vars
    PROVE  [Lifecycle!Next]_<<Current.state, Current.version, past, overlapped>>
  <1>0. TypeOK /\ Working /\ ParentInv /\ AloneInv
    BY DEF IInv
  <1>1. CASE UNCHANGED <<stored, past, overlapped>>
    BY <1>1 DEF Current
  <1>2. ASSUME NEW r \in Requests, Load(r)
        PROVE  \/ UNCHANGED <<stored, past, overlapped>>
               \/ Lifecycle!Next
    <2>1. UNCHANGED <<stored, past>> /\ overlapped' \in {overlapped, TRUE}
      BY <1>0, <1>2 DEF Load, TypeOK
    <2>2. Current' = Current
      BY <2>1 DEF Current
    <2> QED
      BY <2>1, <2>2 DEF Lifecycle!Next, Lifecycle!Loosen
  <1>3. ASSUME NEW r \in Requests, Apply(r)
        PROVE  \/ UNCHANGED <<stored, past, overlapped>>
               \/ Lifecycle!Next
    <2>0. pc[r] = "loaded" /\ stored # NoAggregate /\ overlapped' = overlapped
      BY <1>0, <1>3, ApplyCases
    <2>1. ASSUME NEW next \in Aggregate, Follows(Object(r), next), shares, Becomes(next)
          PROVE  Lifecycle!Next
      <3>1. Object(r) = stored /\ stored \in Aggregate /\ Current = stored
        BY <1>0, <2>0, <2>1, StoredIsCurrent DEF Object, Working
      <3> QED
        BY <2>0, <2>1, <3>1, BecomesIsTransition
    <2> QED
      BY <1>0, <1>3, <2>0, <2>1, ApplyCases
  <1>4. ASSUME NEW r \in Requests, Save(r)
        PROVE  \/ UNCHANGED <<stored, past, overlapped>>
               \/ Lifecycle!Next
    <2>1. /\ pc[r] = "saving" /\ Becomes(Object(r)) /\ overlapped' = overlapped
          /\ stored # NoAggregate
      BY <1>0, <1>4 DEF Save, Working
    <2>2. CASE shares
      <3>1. Object(r) = stored /\ stored \in past
        BY <1>0, <2>1, <2>2, StoredIsCurrent DEF Object, Working, ParentInv
      <3> QED
        BY <2>1, <3>1 DEF Becomes
    <2>3. CASE ~shares
      <3>1. Object(r) = loaded[r] /\ loaded[r] \in Aggregate
        BY <1>0, <2>1, <2>3, ObjectIsAggregate DEF Object
      <3>2. CASE overlapped
        <4>1. PICK p \in past : Follows(p, loaded[r])
          BY <1>0, <2>1, <2>3 DEF ParentInv
        <4>2. p \in Aggregate
          BY <1>0, <4>1 DEF TypeOK
        <4> QED
          BY <2>1, <3>1, <3>2, <4>1, <4>2, BecomesIsTransition
      <3>3. CASE ~overlapped
        <4>1. Follows(stored, loaded[r]) /\ Current = stored /\ stored \in Aggregate
          BY <1>0, <2>1, <2>3, <3>3, StoredIsCurrent DEF AloneInv
        <4> QED
          BY <2>1, <3>1, <4>1, BecomesIsTransition
      <3> QED
        BY <3>2, <3>3
    <2> QED
      BY <2>2, <2>3
  <1>5. ASSUME NEW to \in ConvenienceTargets, MutateDirectly(to)
        PROVE  Lifecycle!Next
    <2>1. to \in States
      BY DEF ConvenienceTargets, States, Failures, Terminals
    <2>2. stored \in Aggregate /\ Current = stored
      BY <1>0, <1>5, StoredIsCurrent DEF MutateDirectly
    <2> DEFINE next == Mutated(stored, to)
    <2>3. next \in Aggregate /\ Follows(stored, next)
      BY <1>5, <2>1, <2>2, MutatedIsAggregate DEF MutateDirectly, Follows, Mutated
    <2>4. Becomes(next) /\ overlapped' = overlapped
      BY <1>5 DEF MutateDirectly
    <2> HIDE DEF next
    <2> QED
      BY <2>2, <2>3, <2>4, BecomesIsTransition
  <1> QED
    BY <1>1, <1>2, <1>3, <1>4, <1>5
       DEF Next, Step, Begin, LoadThrows, SaveFails, Terminated, vars

\* LifecycleAggregate implements AtomicLifecycle over both kinds of
\* repository, whatever the number of requests, their interleaving, the saves
\* that fail, and the holder's own calls.
THEOREM AggregateImplementsAtomic == Spec => ImplementsAtomic
  <1>1. IInv /\ IInv' /\ [Next]_vars =>
            [Lifecycle!Next]_<<Current.state, Current.version, past, overlapped>>
    BY StepRefines
  <1> QED
    BY <1>1, InitRefines, InitIInv, NextIInv, PTL DEF Spec, ImplementsAtomic, Lifecycle!Spec

------------------------------------------------------------------------------
(* No transition is lost without an overlap of copies *)

\* The requests whose transition is in what is stored
Marked == {r \in Requests : pc[r] = "succeeded" \/ (shares /\ pc[r] = "saving")}

Counted == IsFiniteSet(Marked) /\ Current.version > Cardinality(Marked)

CountInv == overlapped \/ Counted

\* All that a step may do to the set and to the version together.
LEMMA CountKept ==
    ASSUME Counted, Current.version \in Nat, Current'.version \in Nat,
           \/ Current'.version >= Current.version /\ Marked' \subseteq Marked
           \/ /\ Current'.version = Current.version + 1
              /\ \E r \in Requests : Marked' \subseteq Marked \cup {r}
    PROVE  Counted'
  <1>1. CASE Current'.version >= Current.version /\ Marked' \subseteq Marked
    <2>1. IsFiniteSet(Marked') /\ Cardinality(Marked') <= Cardinality(Marked)
      BY <1>1, FS_Subset DEF Counted
    <2> QED
      BY <1>1, <2>1, FS_CardinalityType DEF Counted
  <1>2. ASSUME NEW r \in Requests, Current'.version = Current.version + 1,
               Marked' \subseteq Marked \cup {r}
        PROVE  Counted'
    <2> DEFINE more == Marked \cup {r}
    <2>1. IsFiniteSet(more) /\ Cardinality(more) <= Cardinality(Marked) + 1
      <3>1. IsFiniteSet(Marked) /\ Cardinality(Marked) \in Nat
        BY FS_CardinalityType DEF Counted
      <3>2. /\ IsFiniteSet(more)
            /\ \/ Cardinality(more) = Cardinality(Marked)
               \/ Cardinality(more) = Cardinality(Marked) + 1
        BY <3>1, FS_AddElement
      <3> QED
        BY <3>1, <3>2
    <2> HIDE DEF more
    <2>2. IsFiniteSet(Marked') /\ Cardinality(Marked') <= Cardinality(more)
      BY <1>2, <2>1, FS_Subset DEF more
    <2> QED
      BY <1>2, <2>1, <2>2, FS_CardinalityType DEF Counted
  <1> QED
    BY <1>1, <1>2

LEMMA NextCountInv ==
    ASSUME IInv, IInv', CountInv, [Next]_vars
    PROVE  CountInv'
  <1> SUFFICES ASSUME ~overlapped' PROVE Counted'
    BY DEF CountInv
  <1>0. TypeOK /\ Working /\ ParentInv /\ AloneInv /\ TypeOK'
    BY DEF IInv
  <1>1. Current.version \in Nat /\ Current'.version \in Nat
    <2>1. Current \in Aggregate /\ Current' \in Aggregate
      BY <1>0 DEF TypeOK, Current, Aggregate, States
    <2> QED
      BY <2>1 DEF Aggregate
  <1>2. Counted /\ ~overlapped
    <2>1. overlapped' = overlapped \/ \E r \in Requests : Load(r)
      BY DEF Next, Step, Begin, LoadThrows, Apply, Save, SaveFails, MutateDirectly,
             Terminated, vars
    <2>2. ~overlapped
      BY <1>0, <2>1 DEF Load, TypeOK
    <2> QED
      BY <2>2 DEF CountInv
  <1>3. CASE stored' = stored /\ Marked' \subseteq Marked
    BY <1>1, <1>2, <1>3, CountKept DEF Current
  <1>4. ASSUME NEW r \in Requests, NEW c \in Commands, Begin(r, c[1], c[2])
        PROVE  stored' = stored /\ Marked' \subseteq Marked
    BY <1>0, <1>4 DEF Begin, Marked, TypeOK, Goto
  <1>5. ASSUME NEW r \in Requests, Load(r) \/ LoadThrows(r) \/ SaveFails(r)
        PROVE  stored' = stored /\ Marked' \subseteq Marked
    BY <1>0, <1>5 DEF Load, LoadThrows, SaveFails, Marked, TypeOK, Goto
  <1>6. ASSUME NEW r \in Requests, Save(r)
        PROVE  Counted'
    <2>1. /\ pc[r] = "saving" /\ stored' = Object(r) /\ pc' = [pc EXCEPT ![r] = "succeeded"]
          /\ shares' = shares /\ stored # NoAggregate
      BY <1>0, <1>6 DEF Save, Becomes, Goto, Working
    <2>2. Marked' \subseteq Marked \cup {r} /\ (shares => Marked' \subseteq Marked)
      BY <1>0, <2>1 DEF Marked, TypeOK
    <2>3. CASE shares
      <3>1. stored' = stored
        BY <1>0, <2>1, <2>3 DEF Object, Working
      <3> QED
        BY <1>3, <2>2, <2>3, <3>1
    <2>4. CASE ~shares
      <3>1. stored' = loaded[r] /\ loaded[r].version = stored.version + 1
        BY <1>0, <1>2, <2>1, <2>4 DEF Object, AloneInv, Follows
      <3>2. Current = stored /\ loaded[r] \in Aggregate
        BY <1>0, <2>1, <2>4, StoredIsCurrent, ObjectIsAggregate DEF Object
      <3>3. Current' = loaded[r]
        BY <3>1, <3>2, NoAggregateAssumption DEF Current
      <3> QED
        BY <1>1, <1>2, <2>2, <3>1, <3>2, <3>3, CountKept
    <2> QED
      BY <2>3, <2>4
  <1>7. ASSUME NEW r \in Requests, Apply(r)
        PROVE  Counted'
    <2>0. pc[r] = "loaded" /\ stored # NoAggregate /\ shares' = shares
      BY <1>0, <1>7, ApplyCases
    <2>1. CASE pc' = [pc EXCEPT ![r] = "failed"] /\ stored' = stored
      <3>1. Marked' \subseteq Marked
        BY <1>0, <2>0, <2>1 DEF Marked, TypeOK
      <3> QED
        BY <1>3, <2>1, <3>1
    <2>2. ASSUME NEW next \in Aggregate, Follows(Object(r), next),
                 pc' = [pc EXCEPT ![r] = "saving"],
                 IF shares THEN Becomes(next) ELSE UNCHANGED <<stored, past>>
          PROVE  Counted'
      <3>1. Marked' \subseteq Marked \cup {r} /\ (~shares => Marked' \subseteq Marked)
        BY <1>0, <2>0, <2>2 DEF Marked, TypeOK
      <3>2. CASE ~shares
        BY <1>3, <2>2, <3>1, <3>2
      <3>3. CASE shares
        <4>1. Object(r) = stored /\ Current = stored
          BY <1>0, <2>0, <3>3, StoredIsCurrent DEF Object, Working
        <4>2. Current' = next
          BY <2>2, <3>3, NoAggregateAssumption DEF Becomes, Current
        <4> QED
          BY <1>1, <1>2, <2>2, <3>1, <4>1, <4>2, CountKept DEF Follows
      <3> QED
        BY <3>2, <3>3
    <2> QED
      BY <1>0, <1>7, <2>1, <2>2, ApplyCases
  <1>8. ASSUME NEW to \in ConvenienceTargets, MutateDirectly(to)
        PROVE  Counted'
    <2>1. /\ stored \in Aggregate /\ Current = stored /\ to \in States
          /\ pc' = pc /\ shares' = shares
      BY <1>0, <1>8, StoredIsCurrent
         DEF MutateDirectly, ConvenienceTargets, States, Failures, Terminals
    <2>2. stored' = Mutated(stored, to) /\ stored' \in Aggregate
      BY <1>8, <2>1, MutatedIsAggregate DEF MutateDirectly, Becomes
    <2>3. Current'.version = Current.version + 1
      BY <2>1, <2>2, NoAggregateAssumption DEF Current, Mutated
    <2>4. Marked' \subseteq Marked
      BY <2>1 DEF Marked
    <2> QED
      BY <1>1, <1>2, <2>3, <2>4, CountKept
  <1>9. CASE UNCHANGED vars
    BY <1>3, <1>9 DEF vars, Marked
  <1> QED
    BY <1>3, <1>4, <1>5, <1>6, <1>7, <1>8, <1>9 DEF Next, Step, Terminated

\* Every call that was answered with success is in the version, over both
\* kinds of repository, until two calls have copies of the aggregate at a time
\* (applyTransition, whose save puts back what it loaded).
THEOREM NothingIsLost == Spec => []NoLostTransition
  <1>1. Init => CountInv
    <2> SUFFICES ASSUME Init PROVE Counted
      BY DEF CountInv
    <2>1. Marked = {} /\ TypeOK
      BY InitIInv DEF Init, Marked, IInv
    <2> QED
      BY <2>1, CurrentIsAggregate, FS_EmptySet DEF Counted, Aggregate
  <1>2. IInv /\ IInv' /\ CountInv /\ [Next]_vars => CountInv'
    BY NextCountInv
  <1>3. IInv /\ CountInv => NoLostTransition
    <2> SUFFICES ASSUME IInv, Counted PROVE NoLostTransition
      BY DEF CountInv, NoLostTransition
    <2> DEFINE S == {r \in Requests : pc[r] = "succeeded"}
    <2>1. S \subseteq Marked
      BY DEF Marked
    <2>2. Cardinality(S) <= Cardinality(Marked) /\ Cardinality(S) \in Nat
          /\ Cardinality(Marked) \in Nat
      BY <2>1, FS_Subset, FS_CardinalityType DEF Counted
    <2>3. Current.version \in Nat
      BY CurrentIsAggregate DEF IInv, Aggregate
    <2> QED
      BY <2>2, <2>3 DEF Counted, NoLostTransition
  <1> QED
    BY <1>1, <1>2, <1>3, InitIInv, NextIInv, PTL DEF Spec

------------------------------------------------------------------------------
(* The administrators' requests about a feed *)

\* What a request under way has in hand: the row it read; the configuration it was asked
\* for; and, when it is about to update the row, the answer of the lifecycle on what it read.
AdminWorking ==
    \A r \in AdminRequests :
        /\ at[r] \in {"read", "sync", "import", "write"} => seen[r] # NoRow
        /\ at[r] \in {"sync", "import"} => change[r] \in Change /\ kind[r] = "configure"
        /\ at[r] = "write" /\ kind[r] \in DOMAIN Target =>
               ~Settled(kind[r], seen[r]) /\ Gate(FeedState(seen[r]), Target[kind[r]])

\* The row never differs from an old one but in isActive.
OldRowsTell ==
    \A r \in AdminRequests :
        row # NoRow /\ seen[r] # NoRow =>
            seen[r].status = row.status /\ seen[r].syncStatus = row.syncStatus

AdminIInv == AdminTypeOK /\ AdminWorking /\ OldRowsTell

\* What the gate says of the states a row can be in
LEMMA GateOfRows ==
    /\ Gate("IMPORTING", "ACTIVE") /\ Gate("DISABLED", "ACTIVE") /\ Gate("READY", "DISABLED")
    /\ \A s \in {"ARCHIVED", "SYNC_FAILED"}, t \in {"ACTIVE", "DISABLED", "READY", "ARCHIVED"} :
           ~Gate(s, t)
    /\ \A s \in {"READY", "DISABLED", "IMPORTING"} : ~Gate(s, "READY") /\ ~Gate(s, "ARCHIVED")
    /\ \A s \in {"DISABLED", "IMPORTING"} : ~Gate(s, "DISABLED")
  <1> USE DEF Failures, Terminals
  <1>1. ASSUME NEW s, NEW t, Gate(s, t)
        PROVE  <<s, t>> \in Transitions /\ s \notin Failures \cup Terminals
               /\ t \notin Failures \cup Terminals
    BY <1>1 DEF Gate, PipelineSucceeds, Validated, FoundById, CanTransition, Guarded, TerminalGuard
  <1>2. ASSUME NEW s, NEW t, <<s, t>> \in Transitions, s # t, s \in {"READY", "IMPORTING", "DISABLED"},
               t \in {"ACTIVE", "DISABLED"}
        PROVE  Gate(s, t)
    BY <1>2 DEF Gate, PipelineSucceeds, Validated, FoundById, CanTransition, Guarded, TerminalGuard,
                PoliciesAllow, RecoveryGating, SynchronizationEligibility, StateRestrictions,
                Planned, Decision, Executed
  <1>3. /\ <<"IMPORTING", "ACTIVE">> \in Transitions /\ <<"DISABLED", "ACTIVE">> \in Transitions
        /\ <<"READY", "DISABLED">> \in Transitions
    BY DEF Transitions, OperatingTransitions, SyncingTransitions
  <1>4. \A s \in {"READY", "DISABLED", "IMPORTING"} : <<s, "READY">> \notin Transitions
    BY DEF Transitions, OnboardingTransitions, OperatingTransitions, SyncingTransitions,
           ArchivingTransitions
  <1>5. \A s \in {"DISABLED", "IMPORTING"} : <<s, "DISABLED">> \notin Transitions
    BY DEF Transitions, OnboardingTransitions, OperatingTransitions, SyncingTransitions,
           ArchivingTransitions
  <1> QED
    BY <1>1, <1>2, <1>3, <1>4, <1>5

LEMMA FeedStates ==
    ASSUME NEW p \in Row
    PROVE  /\ FeedState(p) \in {"ARCHIVED", "IMPORTING", "SYNC_FAILED", "READY", "DISABLED"}
           /\ FeedState(p) = "ARCHIVED" <=> p.status = "archived"
           /\ FeedState(p) = "IMPORTING" <=> p.status # "archived" /\ p.syncStatus = "IMPORTING"
           /\ FeedState(p) = "SYNC_FAILED" <=> p.status # "archived" /\ p.syncStatus = "FAILED"
           /\ FeedState(p) = "READY" => p.isActive = TRUE
           /\ FeedState(p) = "DISABLED" => p.isActive = FALSE
  BY DEF FeedState, Row, SyncStatuses

\* What the lifecycle lets an administrator do: enable and disable, and nothing about an
\* archived feed.
LEMMA OnlySwitches ==
    ASSUME NEW p \in Row, NEW k \in DOMAIN Target, ~Settled(k, p),
           Gate(FeedState(p), Target[k])
    PROVE  /\ k \in {"enable", "disable"}
           /\ p.status # "archived"
           /\ k = "enable" => FeedState(p) \in {"IMPORTING", "DISABLED"}
           /\ k = "disable" => FeedState(p) = "READY"
  <1>1. k \in {"enable", "disable", "archive", "unarchive", "reset"}
    BY DEF Target
  <1>2. /\ k = "enable" \/ k = "unarchive" => Target[k] = "ACTIVE"
        /\ k = "disable" => Target[k] = "DISABLED"
        /\ k = "archive" => Target[k] = "ARCHIVED"
        /\ k = "reset" => Target[k] = "READY"
    BY DEF Target
  <1> QED
    BY <1>1, <1>2, GateOfRows, FeedStates DEF Settled

LEMMA ConfigurationType ==
    ASSUME AdminTypeOK, NEW p \in Row
    PROVE  Configuration(p) \in Config
  <1>1. p.isActive \in BOOLEAN
    BY DEF Row
  <1>2. [sync |-> p.isActive, import |-> p.isActive] \in Config
    BY <1>1 DEF Config
  <1> QED
    BY <1>2 DEF AdminTypeOK, Configuration

LEMMA MergeType ==
    ASSUME NEW c \in Config, NEW ch \in Change
    PROVE  Merge(c, ch) \in Config
  <1>1. c.sync \in BOOLEAN /\ c.import \in BOOLEAN
    BY DEF Config
  <1>2. ch.sync \in BOOLEAN \cup {Unset} /\ ch.import \in BOOLEAN \cup {Unset}
    BY DEF Change
  <1>3. Named(ch.sync, c.sync) \in BOOLEAN
    BY <1>1, <1>2, Zenon DEF Named
  <1>4. Named(ch.import, c.import) \in BOOLEAN
    BY <1>1, <1>2, Zenon DEF Named
  <1> QED
    BY <1>3, <1>4 DEF Merge, Config

\* What every step of a request does to the row: it makes it active or inactive, removes it,
\* or leaves it alone.
Switched ==
    \/ row' = row
    \/ row' = NoRow
    \/ row # NoRow /\ \E value \in BOOLEAN : row' = [row EXCEPT !.isActive = value]

LEMMA SwitchedRows ==
    ASSUME AdminIInv, Switched
    PROVE  /\ row' \in Row \cup {NoRow}
           /\ row' # NoRow => /\ row # NoRow
                              /\ row'.status = row.status /\ row'.syncStatus = row.syncStatus
  <1>1. CASE row # NoRow /\ \E value \in BOOLEAN : row' = [row EXCEPT !.isActive = value]
    BY <1>1, AbsenceAssumption DEF AdminIInv, AdminTypeOK, Row
  <1> QED
    BY <1>1 DEF Switched, AdminIInv, AdminTypeOK

\* A write by a request that the lifecycle answered changes isActive and nothing else.
LEMMA WriteSwitches ==
    ASSUME AdminIInv, NEW r \in AdminRequests, Write(r), row # NoRow
    PROVE  /\ kind[r] \in {"enable", "disable"}
           /\ row' = [row EXCEPT !.isActive = (kind[r] = "enable")]
           /\ config' = config
  <1> DEFINE k == kind[r]
             s == seen[r]
  <1>1. /\ k \in DOMAIN Target /\ s \in Row /\ row \in Row
        /\ ~Settled(k, s) /\ Gate(FeedState(s), Target[k])
        /\ s.status = row.status
    BY DEF Write, AdminIInv, AdminTypeOK, AdminWorking, OldRowsTell
  <1>2. k \in {"enable", "disable"} /\ s.status # "archived"
    BY <1>1, OnlySwitches
  <1>3. row' = Updated(k, row, s) /\ config' = IF k = "reset" THEN NoConfig ELSE config
    BY <1>1 DEF Write
  <1> HIDE DEF k, s
  <1>4. CASE k = "enable"
    <2>1. row' = [row EXCEPT !.isActive = TRUE, !.status = s.status]
      BY <1>2, <1>3, <1>4 DEF Updated, Enabled
    <2>2. row' = [row EXCEPT !.isActive = TRUE]
      BY <1>1, <2>1 DEF Row
    <2> QED
      BY <1>2, <1>3, <1>4, <2>2 DEF k
  <1>5. CASE k = "disable"
    <2>1. row' = [row EXCEPT !.isActive = FALSE, !.status = s.status]
      BY <1>2, <1>3, <1>5 DEF Updated, Disabled
    <2>2. row' = [row EXCEPT !.isActive = FALSE]
      BY <1>1, <2>1 DEF Row
    <2> QED
      BY <1>2, <1>3, <1>5, <2>2 DEF k
  <1> QED
    BY <1>2, <1>4, <1>5

LEMMA ActiveIsSet ==
    ASSUME AdminIInv, NEW r \in AdminRequests, at[r] \in {"sync", "import"},
           NEW value \in {change[r].sync, change[r].import}, NEW label, SetActive(r, value, label)
    PROVE  Switched /\ UNCHANGED <<config, kind, change, seen, merged>>
           /\ at' \in {[at EXCEPT ![r] = "failed"], [at EXCEPT ![r] = label]}
  <1>1. change[r] \in Change
    BY DEF AdminIInv, AdminWorking
  <1>2. value \in BOOLEAN \cup {Unset}
    BY <1>1 DEF Change
  <1> QED
    BY <1>2, Zenon DEF SetActive, Proceeds, Switched

LEMMA AdminSteps ==
    ASSUME AdminIInv, AdminNext
    PROVE  Switched
  <1>1. ASSUME NEW r \in AdminRequests, Write(r) PROVE Switched
    <2>1. CASE row = NoRow
      BY <1>1, <2>1 DEF Write, Switched
    <2>2. CASE row # NoRow
      BY <1>1, <2>2, WriteSwitches DEF Switched
    <2> QED
      BY <2>1, <2>2
  <1>2. ASSUME NEW r \in AdminRequests, ConfigureSync(r) \/ ConfigureImport(r) PROVE Switched
    BY <1>2, ActiveIsSet DEF ConfigureSync, ConfigureImport
  <1>3. ASSUME NEW r \in AdminRequests, Decide(r) \/ Remove(r) \/ Store(r) PROVE Switched
    BY <1>3 DEF Decide, Remove, Store, Switched
  <1>4. ASSUME NEW r \in AdminRequests, NEW ch \in Change, Configure(r, ch) PROVE Switched
    BY <1>4 DEF Configure, Switched
  <1>5. ASSUME NEW r \in AdminRequests, NEW k \in Kinds, Find(r, k) PROVE Switched
    BY <1>5 DEF Find, Switched
  <1>6. CASE AdminEnds
    BY <1>6 DEF AdminEnds, adminVars, Switched
  <1> QED
    BY <1>1, <1>2, <1>3, <1>4, <1>5, <1>6 DEF AdminNext, AdminStep

LEMMA InitAdminIInv == AdminInit => AdminIInv
  BY DEF AdminInit, AdminIInv, AdminTypeOK, AdminWorking, OldRowsTell

LEMMA NextAdminIInv == AdminIInv /\ [AdminNext]_adminVars => AdminIInv'
  <1> SUFFICES ASSUME AdminIInv, AdminNext PROVE AdminIInv'
    BY DEF adminVars, AdminIInv, AdminTypeOK, AdminWorking, OldRowsTell
  <1>0. /\ row' \in Row \cup {NoRow}
        /\ row' # NoRow => /\ row # NoRow
                           /\ row'.status = row.status /\ row'.syncStatus = row.syncStatus
    BY AdminSteps, SwitchedRows
  <1>1. seen' = seen => OldRowsTell'
    BY <1>0 DEF AdminIInv, OldRowsTell
  <1> USE DEF AdminIInv, AdminTypeOK, AdminWorking, Proceeds
  <1>2. ASSUME NEW r \in AdminRequests, NEW k \in Kinds, Find(r, k) PROVE AdminIInv'
    <2>1. AdminTypeOK' /\ AdminWorking'
      BY <1>2 DEF Find
    <2>2. OldRowsTell'
      BY <1>2, <1>0 DEF Find, OldRowsTell
    <2> QED
      BY <2>1, <2>2
  <1>3. ASSUME NEW r \in AdminRequests, Decide(r) PROVE AdminIInv'
    <2>1. OldRowsTell'
      BY <1>1, <1>3 DEF Decide
    <2>2. /\ at' \in {[at EXCEPT ![r] = "done"], [at EXCEPT ![r] = "failed"],
                      [at EXCEPT ![r] = "write"]}
          /\ at'[r] = "write" => ~Settled(kind[r], seen[r])
                                 /\ Gate(FeedState(seen[r]), Target[kind[r]])
          /\ UNCHANGED <<row, config, kind, change, seen, merged>> /\ at[r] = "read"
      BY <1>3 DEF Decide
    <2> QED
      BY <2>1, <2>2
  <1>4. ASSUME NEW r \in AdminRequests, Write(r) PROVE AdminIInv'
    <2>1. OldRowsTell'
      BY <1>1, <1>4 DEF Write
    <2>2. /\ at' \in {[at EXCEPT ![r] = "done"], [at EXCEPT ![r] = "failed"]}
          /\ config' = config /\ UNCHANGED <<kind, change, seen, merged>>
      BY <1>4, WriteSwitches DEF Write
    <2> QED
      BY <1>0, <2>1, <2>2
  <1>5. ASSUME NEW r \in AdminRequests, Remove(r) PROVE AdminIInv'
    <2>1. OldRowsTell'
      BY <1>1, <1>5 DEF Remove
    <2> QED
      BY <1>0, <1>5, <2>1 DEF Remove
  <1>6. ASSUME NEW r \in AdminRequests, NEW ch \in Change, Configure(r, ch) PROVE AdminIInv'
    <2>1. OldRowsTell'
      BY <1>1, <1>6 DEF Configure
    <2>2. seen[r] \in Row
      BY <1>6 DEF Configure
    <2>3. Merge(Configuration(seen[r]), ch) \in Config
      BY <2>2, ConfigurationType, MergeType
    <2> DEFINE new == Merge(Configuration(seen[r]), ch)
    <2>4. /\ at' = [at EXCEPT ![r] = "sync"] /\ change' = [change EXCEPT ![r] = ch]
          /\ merged' = [merged EXCEPT ![r] = new] /\ UNCHANGED <<row, config, kind, seen>>
          /\ at[r] = "read" /\ kind[r] = "configure"
      BY <1>6 DEF Configure
    <2> HIDE DEF new
    <2>5. new \in Config
      BY <2>3 DEF new
    <2> QED
      BY <2>1, <2>4, <2>5
  <1>7. ASSUME NEW r \in AdminRequests, ConfigureSync(r) \/ ConfigureImport(r) PROVE AdminIInv'
    <2>1. PICK label \in {"import", "write"} :
              /\ UNCHANGED <<config, kind, change, seen, merged>>
              /\ at' \in {[at EXCEPT ![r] = "failed"], [at EXCEPT ![r] = label]}
              /\ at[r] \in {"sync", "import"}
      BY <1>7, ActiveIsSet DEF ConfigureSync, ConfigureImport
    <2>2. OldRowsTell'
      BY <1>1, <2>1
    <2>3. AdminWorking'
      BY <2>1 DEF Target
    <2> QED
      BY <1>0, <2>1, <2>2, <2>3
  <1>8. ASSUME NEW r \in AdminRequests, Store(r) PROVE AdminIInv'
    <2>1. OldRowsTell'
      BY <1>1, <1>8 DEF Store
    <2> QED
      BY <1>8, <2>1 DEF Store
  <1>9. CASE AdminEnds
    BY <1>9 DEF AdminEnds, adminVars, OldRowsTell
  <1> QED
    BY <1>2, <1>3, <1>4, <1>5, <1>6, <1>7, <1>8, <1>9 DEF AdminNext, AdminStep

\* The row, the configuration and the requests keep their types (FeedsAdministrationService).
THEOREM AdminTypeCorrect == AdminSpec => []AdminTypeOK
  <1>1. AdminIInv => AdminTypeOK
    BY DEF AdminIInv
  <1> QED
    BY <1>1, InitAdminIInv, NextAdminIInv, PTL DEF AdminSpec

\* The lifecycle's answer about the row a request read is its answer about the row that the
\* request writes, whenever that activates or deactivates the feed.
THEOREM ActivationIsGated == AdminSpec => ActivationGated
  <1>1. ASSUME AdminIInv, NEW r \in AdminRequests, Write(r), row # NoRow,
               row'.isActive # row.isActive
        PROVE  Gate(FeedState(row), IF row'.isActive THEN "ACTIVE" ELSE "DISABLED")
    <2> DEFINE k == kind[r]
               s == seen[r]
    <2>1. /\ k \in DOMAIN Target /\ s \in Row /\ row \in Row
          /\ ~Settled(k, s) /\ Gate(FeedState(s), Target[k])
          /\ s.status = row.status /\ s.syncStatus = row.syncStatus
      BY <1>1 DEF Write, AdminIInv, AdminTypeOK, AdminWorking, OldRowsTell
    <2>2. /\ k \in {"enable", "disable"} /\ s.status # "archived"
          /\ k = "enable" => FeedState(s) \in {"IMPORTING", "DISABLED"}
          /\ k = "disable" => FeedState(s) = "READY"
      BY <2>1, OnlySwitches
    <2>3. row' = [row EXCEPT !.isActive = (k = "enable")]
      BY <1>1, WriteSwitches
    <2>4. row'.isActive = (k = "enable") /\ row.isActive \in BOOLEAN
      BY <2>1, <2>3 DEF Row
    <2> HIDE DEF k, s
    <2>5. CASE k = "enable"
      <3>1. row'.isActive = TRUE /\ row.isActive = FALSE
        BY <1>1, <2>4, <2>5
      <3>2. FeedState(row) \in {"IMPORTING", "DISABLED"}
        BY <2>1, <2>2, <2>5, <3>1, FeedStates
      <3> QED
        BY <3>1, <3>2, GateOfRows
    <2>6. CASE k = "disable"
      <3>1. row'.isActive = FALSE /\ row.isActive = TRUE
        BY <1>1, <2>4, <2>6
      <3>2. FeedState(row) = "READY"
        BY <2>1, <2>2, <2>6, <3>1, FeedStates
      <3> QED
        BY <3>1, <3>2, GateOfRows
    <2> QED
      BY <2>2, <2>5, <2>6
  <1>2. AdminIInv /\ [AdminNext]_adminVars =>
            [\A r \in AdminRequests :
                 Write(r) /\ row # NoRow /\ row'.isActive # row.isActive
                     => Gate(FeedState(row), IF row'.isActive THEN "ACTIVE" ELSE "DISABLED")]_adminVars
    BY <1>1
  <1> QED
    BY <1>2, InitAdminIInv, NextAdminIInv, PTL DEF AdminSpec, ActivationGated
==============================================================================
