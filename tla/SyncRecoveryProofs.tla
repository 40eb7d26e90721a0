-------------------------- MODULE SyncRecoveryProofs --------------------------
(***************************************************************************)
(* Proofs about SyncState and SyncRecovery, for any feeds, workers, ttl    *)
(* and bounds, whatever copies are handed in and however states are forked *)
(* and saved over each other.                                              *)
(*                                                                         *)
(* Lineage is inductive with the types.  TableFromHistory needs            *)
(*   ListedInv  what a history has has an entry in the table,              *)
(* which also resolves plans, with                                         *)
(*   SeenInv    what a plan was made of was valid, or was discarded;       *)
(* ExpiredIsOld follows from                                               *)
(*   AgeInv     no copy was made in the future, and none is to expire      *)
(*              before it is a ttl old;                                    *)
(* RetriesBounded from                                                     *)
(*   RetryInv   the retries are the attempts but the first.                *)
(***************************************************************************)
EXTENDS SyncRecovery, TLAPS

ListedInv == \A c \in history : table[c.id] # NoCheckpoint

AgeInv == \A c \in Copies : c.created <= now /\ c.created + Ttl <= c.expires

RetryInv == \A w \in Workers : attempt[w] = retries[w] + 1

SeenInv ==
    \A w \in Workers :
        plan[w] # NoPlan /\ plan[w].seen # NoCheckpoint =>
            plan[w].seen.valid \/ plan[w].discarded

StateInv == StateTypeOK /\ Lineage /\ TableFromHistory /\ ListedInv /\ AgeInv

PlanTypeOK ==
    /\ attempt \in [Workers -> 1..MaxRetries + 1]
    /\ plan \in [Workers -> Plan \cup {NoPlan}]
    /\ retries \in [Workers -> Nat]

IInv == StateInv /\ PlanTypeOK /\ RetryInv /\ NamedIsObeyed /\ SeenInv /\ PlansResolve

------------------------------------------------------------------------------
(* States *)

Stepwise(s) ==
    LET path == Append(s.past, s.current)
    IN  /\ path[1] = "NeverSynced"
        /\ \A i \in 1..Len(path) - 1 : path[i + 1] \in Allowed[path[i]]
        /\ s.version = Len(path)

\* A state that is made new, or restored with any reference, is stepwise.
LEMMA NewIsStepwise == \A f \in Feeds : NewState(f) \in State /\ Stepwise(NewState(f))
<1> SUFFICES ASSUME NEW f \in Feeds PROVE NewState(f) \in State /\ Stepwise(NewState(f))
  OBVIOUS
<1> DEFINE s == NewState(f)
<1>1. "NeverSynced" \in SyncStates
  BY DEF SyncStates, Allowed
<1>2. s \in State
  BY <1>1, StateBounds DEF NewState, State
<1>3. /\ s.past = <<>> /\ s.current = "NeverSynced" /\ s.version = 1
  BY DEF NewState
<1>4. Append(s.past, s.current) = <<"NeverSynced">> /\ Len(<<"NeverSynced">>) = 1
  BY <1>3
<1> HIDE DEF s
<1>5. Stepwise(s)
  BY <1>3, <1>4 DEF Stepwise
<1> USE DEF s
<1> QED BY <1>2, <1>5

LEMMA UpdateIsStepwise ==
    ASSUME NEW s \in State, Stepwise(s), NEW next \in Allowed[s.current],
           next \in SyncStates, s.version < MaxCurrent
    PROVE  Successor(s, next) \in State /\ Stepwise(Successor(s, next))
<1> DEFINE new == Successor(s, next)
<1> DEFINE path == Append(s.past, s.current)
<1>1. /\ s.past \in Seq(SyncStates) /\ s.current \in SyncStates /\ s.version \in 1..MaxCurrent
      /\ path \in Seq(SyncStates) /\ Len(path) = Len(s.past) + 1 /\ Len(s.past) \in Nat
  BY DEF State
<1>2. /\ new.past = path /\ new.current = next /\ new.version = s.version + 1
      /\ new.feed = s.feed /\ new.ref = s.ref
  BY DEF State, Successor
<1>3. new \in State
  <2>1. ASSUME NEW p \in Seq(SyncStates), NEW v \in 1..MaxCurrent
        PROVE  [s EXCEPT !.current = next, !.version = v, !.past = p] \in State
    BY DEF State
  <2>2. s.version + 1 \in 1..MaxCurrent
    BY <1>1, StateBounds
  <2> QED BY <2>1, <2>2, <1>1 DEF Successor
<1> HIDE DEF new
<1>4. path[Len(path)] = s.current
  BY <1>1
<1> HIDE DEF path
<1> DEFINE longer == Append(path, next)
<1>5. /\ Len(longer) = Len(path) + 1
      /\ longer[Len(path) + 1] = next
      /\ \A i \in 1..Len(path) : longer[i] = path[i]
  BY <1>1
<1>6. /\ path[1] = "NeverSynced"
      /\ \A i \in 1..Len(path) - 1 : path[i + 1] \in Allowed[path[i]]
      /\ s.version = Len(path)
  BY DEF Stepwise, path
<1> HIDE DEF longer
<1>7. longer[1] = "NeverSynced"
  BY <1>1, <1>5, <1>6
<1>8. ASSUME NEW i \in 1..Len(longer) - 1 PROVE longer[i + 1] \in Allowed[longer[i]]
  <2>1. CASE i = Len(path)
    BY <2>1, <1>1, <1>4, <1>5
  <2>2. CASE i # Len(path)
    <3>1. i \in 1..Len(path) - 1 /\ i + 1 \in 1..Len(path) /\ i \in 1..Len(path)
      BY <2>2, <1>1, <1>5
    <3> QED BY <3>1, <1>5, <1>6
  <2> QED BY <2>1, <2>2
<1>9. new.version = Len(longer)
  BY <1>1, <1>2, <1>5, <1>6
<1>10. Stepwise(new)
  BY <1>2, <1>7, <1>8, <1>9 DEF Stepwise, longer
<1> QED BY <1>3, <1>10 DEF new

\* What a copy is: it has the id of an entry of the table, or of the history.
LEMMA CopiesAreCheckpoints ==
    ASSUME StateTypeOK
    PROVE  \A c \in Copies : /\ c \in Checkpoint /\ c.id \in Ids
                             /\ c \in history \/ \E i \in Ids : table[i] = c
BY DEF StateTypeOK, Copies, Checkpoint

StateParts == StateTypeOK /\ \A s \in KnownStates : Stepwise(s)

LEMMA StatesKept == StateParts /\ StateNext => StateParts'
<1> SUFFICES ASSUME StateParts, StateNext PROVE StateParts'
  OBVIOUS
<1> USE DEF StateParts, StateTypeOK, KnownStates
<1>1. ASSUME NEW w \in Workers, NEW f \in Synced, RestoreState(w, f) PROVE StateParts'
  <2> DEFINE state == IF saved[f] = NoState THEN NewState(f) ELSE saved[f]
  <2>1. state \in State /\ Stepwise(state)
    <3>1. f \in Feeds
      BY SyncedAssumption
    <3>2. CASE saved[f] = NoState
      BY <3>1, <3>2, NewIsStepwise
    <3>3. CASE saved[f] # NoState
      <4>1. saved[f] \in KnownStates /\ saved[f] \in State
        BY <3>1, <3>3
      <4> QED BY <4>1, <3>3
    <3> QED BY <3>2, <3>3
  <2> HIDE DEF state
  <2>2. PICK s : held' = [held EXCEPT ![w] = s]
                 /\ (s = state \/ \E c \in Copies : s = [state EXCEPT !.ref = c.id])
    BY <1>1 DEF RestoreState, state
  <2>3. s \in State /\ Stepwise(s)
    BY <2>1, <2>2, CopiesAreCheckpoints DEF State, Stepwise
  <2>4. UNCHANGED <<saved, table, history, now>>
    BY <1>1 DEF RestoreState
  <2> QED BY <2>2, <2>3, <2>4
<1>2. ASSUME NEW w \in Workers, NEW next \in SyncStates, UpdateState(w, next) PROVE StateParts'
  <2> DEFINE new == Successor(held[w], next)
  <2>1. held[w] \in State /\ Stepwise(held[w]) /\ next \in Allowed[held[w].current]
        /\ held[w].version < MaxCurrent
    BY <1>2 DEF UpdateState
  <2>2. new \in State /\ Stepwise(new)
    BY <2>1, UpdateIsStepwise
  <2> HIDE DEF new
  <2>3. held' = [held EXCEPT ![w] = new] /\ UNCHANGED <<saved, table, history, now>>
    BY <1>2 DEF UpdateState, new
  <2> QED BY <2>2, <2>3
<1>3. ASSUME NEW w \in Workers, SaveState(w) PROVE StateParts'
  <2>1. held[w] \in State /\ Stepwise(held[w]) /\ held[w].feed \in Feeds
    BY <1>3 DEF SaveState, State
  <2>2. saved' = [saved EXCEPT ![held[w].feed] = held[w]] /\ UNCHANGED <<held, table, history, now>>
    BY <1>3 DEF SaveState
  <2> QED BY <2>1, <2>2
<1>4. ASSUME NEW c \in Checkpoint, NEW t,
             \/ Listed(c) /\ UNCHANGED now
             \/ t \in Checkpoint /\ table' = [table EXCEPT ![c.id] = t] /\ UNCHANGED <<history, now>>,
             UNCHANGED <<held, saved>>
      PROVE  StateParts'
  <2>1. c.id \in Ids
    BY DEF Checkpoint
  <2> QED BY <1>4, <2>1 DEF Listed
<1>5. ASSUME NEW w \in Workers, NEW hash \in Hashes, CreateCheckpoint(w, hash) PROVE StateParts'
  <2>1. held[w] \in State
    BY <1>5 DEF CreateCheckpoint
  <2>2. Fresh(held[w], hash) \in Checkpoint
    BY <2>1, TtlAssumption, StateBounds DEF Fresh, Checkpoint, State, Ids, Never
  <2> QED BY <2>2, <1>4, <1>5 DEF CreateCheckpoint
<1>6. ASSUME NEW w \in Workers, NEW c \in Copies, RollbackCheckpoint(w, c) PROVE StateParts'
  <2>1. /\ held[w] \in State /\ Stepwise(held[w]) /\ c.id \in Ids
        /\ held' = [held EXCEPT ![w] = [held[w] EXCEPT !.ref = c.id]]
        /\ UNCHANGED <<saved, table, history, now>>
    BY <1>6, CopiesAreCheckpoints DEF RollbackCheckpoint
  <2> DEFINE s == [held[w] EXCEPT !.ref = c.id]
  <2>2. s \in State /\ Stepwise(s)
    BY <2>1 DEF State, Stepwise
  <2> HIDE DEF s
  <2>3. held' = [held EXCEPT ![w] = s]
    BY <2>1 DEF s
  <2> QED BY <2>1, <2>2, <2>3
<1>7. ASSUME NEW f \in Feeds, NEW hash \in Hashes, ListCheckpoints(f, hash) PROVE StateParts'
  <2>1. NewState(f) \in State
    BY NewIsStepwise
  <2>2. Fresh(NewState(f), hash) \in Checkpoint
    BY <2>1, TtlAssumption, StateBounds DEF Fresh, Checkpoint, State, Ids, Never
  <2> QED BY <2>2, <1>4, <1>7 DEF ListCheckpoints
<1>8. ASSUME NEW f \in Feeds, NEW c \in Copies, ReplaceCheckpoint(f, c) PROVE StateParts'
  BY <1>4, <1>8, CopiesAreCheckpoints DEF ReplaceCheckpoint
<1>9. ASSUME NEW c \in Copies, InvalidateCheckpoint(c) \/ ExpireCheckpoint(c) PROVE StateParts'
  <2>1. c \in Checkpoint
    BY CopiesAreCheckpoints
  <2>2. [c EXCEPT !.valid = FALSE] \in Checkpoint
    BY <2>1 DEF Checkpoint
  <2>3. [c EXCEPT !.expires = now + Ttl] \in Checkpoint
    BY <2>1, TtlAssumption, StateBounds DEF Checkpoint, Never
  <2> QED BY <2>1, <2>2, <2>3, <1>4, <1>9 DEF InvalidateCheckpoint, ExpireCheckpoint
<1>10. ASSUME Tick PROVE StateParts'
  BY <1>10, StateBounds DEF Tick
<1> QED
  BY <1>1, <1>2, <1>3, <1>5, <1>6, <1>7, <1>8, <1>9, <1>10 DEF StateNext

------------------------------------------------------------------------------
(* Checkpoints *)

\* What a step makes of the checkpoints: nothing, or one is made, or put back, or
\* an entry is marked.
Marked(c, t) ==
    /\ t.id = c.id /\ t.hash = c.hash /\ t.created = c.created
    /\ t.expires \in {c.expires, now + Ttl}

Made(c) == c.created = now /\ c.expires = Never

CheckpointStep ==
    \/ UNCHANGED <<table, history>> /\ now' \in {now, now + 1}
    \/ \E c \in Checkpoint : (c \in Copies \/ Made(c)) /\ Listed(c) /\ now' = now
    \/ \E c \in Copies, t \in Checkpoint :
           /\ Marked(c, t)
           /\ table' = [table EXCEPT ![c.id] = t]
           /\ UNCHANGED <<history, now>>

LEMMA StepsOfCheckpoints == StateTypeOK /\ StateNext => CheckpointStep
<1> SUFFICES ASSUME StateTypeOK, StateNext PROVE CheckpointStep
  OBVIOUS
<1>1. ASSUME NEW w \in Workers, NEW f \in Synced, RestoreState(w, f) PROVE CheckpointStep
  BY <1>1 DEF RestoreState, CheckpointStep
<1>2. ASSUME NEW w \in Workers, NEW next \in SyncStates, UpdateState(w, next) PROVE CheckpointStep
  BY <1>2 DEF UpdateState, CheckpointStep
<1>3. ASSUME NEW w \in Workers, SaveState(w) PROVE CheckpointStep
  BY <1>3 DEF SaveState, CheckpointStep
<1>4. ASSUME NEW s \in State, NEW hash \in Hashes
      PROVE  Fresh(s, hash) \in Checkpoint /\ Made(Fresh(s, hash))
  BY TtlAssumption, StateBounds DEF StateTypeOK, Fresh, Checkpoint, State, Ids, Never, Made
<1>5. ASSUME NEW w \in Workers, NEW hash \in Hashes, CreateCheckpoint(w, hash)
      PROVE  CheckpointStep
  <2>1. held[w] \in State
    BY <1>5 DEF CreateCheckpoint, StateTypeOK
  <2> QED BY <2>1, <1>4, <1>5 DEF CreateCheckpoint, CheckpointStep
<1>6. ASSUME NEW w \in Workers, NEW c \in Copies, RollbackCheckpoint(w, c) PROVE CheckpointStep
  BY <1>6 DEF RollbackCheckpoint, CheckpointStep
<1>7. ASSUME NEW f \in Feeds, NEW hash \in Hashes, ListCheckpoints(f, hash) PROVE CheckpointStep
  BY <1>4, <1>7, NewIsStepwise DEF ListCheckpoints, CheckpointStep
<1>8. ASSUME NEW f \in Feeds, NEW c \in Copies, ReplaceCheckpoint(f, c) PROVE CheckpointStep
  BY <1>8, CopiesAreCheckpoints DEF ReplaceCheckpoint, CheckpointStep
<1>9. ASSUME NEW c \in Copies, InvalidateCheckpoint(c) PROVE CheckpointStep
  <2> DEFINE t == [c EXCEPT !.valid = FALSE]
  <2>1. t \in Checkpoint /\ Marked(c, t)
    BY CopiesAreCheckpoints DEF Checkpoint, Marked
  <2> QED BY <2>1, <1>9 DEF InvalidateCheckpoint, CheckpointStep
<1>10. ASSUME NEW c \in Copies, ExpireCheckpoint(c) PROVE CheckpointStep
  <2> DEFINE t == [c EXCEPT !.expires = now + Ttl]
  <2>1. t \in Checkpoint /\ Marked(c, t)
    BY CopiesAreCheckpoints, TtlAssumption, StateBounds DEF StateTypeOK, Checkpoint, Marked, Never
  <2> QED BY <2>1, <1>10 DEF ExpireCheckpoint, CheckpointStep
<1>11. ASSUME Tick PROVE CheckpointStep
  BY <1>11 DEF Tick, CheckpointStep
<1> QED
  BY <1>1, <1>2, <1>3, <1>5, <1>6, <1>7, <1>8, <1>9, <1>10, <1>11 DEF StateNext

\* The checkpoint that a copy is of, as it was made
LEMMA CopiesHaveHistory ==
    ASSUME StateTypeOK, TableFromHistory, NEW c \in Copies
    PROVE  \E h \in history : h.id = c.id /\ h.hash = c.hash /\ h.created = c.created
<1>1. CASE c \in history
  BY <1>1
<1>2. CASE c \notin history
  <2>1. PICK i \in Ids : table[i] = c /\ c # NoCheckpoint
    BY <1>2 DEF Copies
  <2> QED BY <2>1 DEF TableFromHistory
<1> QED BY <1>1, <1>2

TablesInv == TableFromHistory /\ ListedInv /\ AgeInv

LEMMA TablesKept == StateTypeOK /\ TablesInv /\ StateTypeOK' /\ StateNext => TablesInv'
<1> SUFFICES ASSUME StateTypeOK, TablesInv, StateTypeOK', CheckpointStep PROVE TablesInv'
  BY StepsOfCheckpoints
<1> USE DEF TablesInv
<1>1. now \in 0..MaxClock /\ now' \in 0..MaxClock /\ MaxClock \in Nat /\ Ttl \in Nat
  BY StateBounds, TtlAssumption DEF StateTypeOK
<1>2. CASE UNCHANGED <<table, history>> /\ now' \in {now, now + 1}
  <2>1. TableFromHistory' /\ ListedInv'
    BY <1>2 DEF TableFromHistory, ListedInv
  <2>2. Copies' = Copies
    BY <1>2 DEF Copies
  <2>3. AgeInv'
    BY <1>1, <1>2, <2>2, CopiesAreCheckpoints DEF AgeInv, Checkpoint
  <2> QED BY <2>1, <2>3
<1>3. ASSUME NEW c \in Checkpoint, c \in Copies \/ Made(c), Listed(c), now' = now PROVE TablesInv'
  <2>1. /\ c.id \in Ids /\ c # NoCheckpoint
        /\ table' = [table EXCEPT ![c.id] = c] /\ history' = history \cup {c}
        /\ table \in [Ids -> Checkpoint \cup {NoCheckpoint}] /\ history \subseteq Checkpoint
    BY <1>3, NoCheckpointAssumption DEF Listed, Checkpoint, StateTypeOK
  <2>2. TableFromHistory'
    BY <2>1 DEF TableFromHistory
  <2>3. ListedInv'
    BY <2>1 DEF ListedInv, Checkpoint
  <2>4. Copies' \subseteq Copies \cup {c}
    BY <2>1 DEF Copies
  <2>5. c.created <= now /\ c.created + Ttl <= c.expires
    BY <1>1, <1>3 DEF AgeInv, Made, Never
  <2>6. AgeInv'
    BY <1>3, <2>4, <2>5 DEF AgeInv
  <2> QED BY <2>2, <2>3, <2>6
<1>4. ASSUME NEW c \in Copies, NEW t \in Checkpoint, Marked(c, t),
             table' = [table EXCEPT ![c.id] = t], UNCHANGED <<history, now>>
      PROVE  TablesInv'
  <2>1. /\ c \in Checkpoint /\ c.id \in Ids /\ t # NoCheckpoint
        /\ table \in [Ids -> Checkpoint \cup {NoCheckpoint}] /\ history \subseteq Checkpoint
    BY NoCheckpointAssumption, CopiesAreCheckpoints DEF StateTypeOK
  <2>2. TableFromHistory'
    BY <1>4, <2>1, CopiesHaveHistory DEF TableFromHistory, Marked
  <2>3. ListedInv'
    BY <1>4, <2>1 DEF ListedInv, Checkpoint
  <2>4. Copies' \subseteq Copies \cup {t}
    BY <1>4, <2>1 DEF Copies
  <2>5. t.created <= now /\ t.created + Ttl <= t.expires
    BY <1>1, <1>4, <2>1 DEF AgeInv, Marked, Checkpoint
  <2>6. AgeInv'
    BY <1>4, <2>4, <2>5 DEF AgeInv
  <2> QED BY <2>2, <2>3, <2>6
<1> QED BY <1>2, <1>3, <1>4 DEF CheckpointStep

\* Entries stay, and every copy has one.
LEMMA EntriesStay ==
    ASSUME StateTypeOK, StateNext, NEW i \in Ids, table[i] # NoCheckpoint
    PROVE  table'[i] # NoCheckpoint
<1>1. table \in [Ids -> Checkpoint \cup {NoCheckpoint}]
  BY DEF StateTypeOK
<1> QED
  BY <1>1, StepsOfCheckpoints, NoCheckpointAssumption, CopiesAreCheckpoints
  DEF CheckpointStep, Listed, Checkpoint

LEMMA CopiesHaveEntries ==
    ASSUME StateTypeOK, TablesInv, NEW c \in Copies
    PROVE  c.id \in Ids /\ c # NoCheckpoint /\ table[c.id] # NoCheckpoint
<1>1. c.id \in Ids /\ c # NoCheckpoint
  BY CopiesAreCheckpoints, NoCheckpointAssumption
<1>2. PICK h \in history : h.id = c.id
  BY CopiesHaveHistory DEF TablesInv
<1> QED BY <1>1, <1>2 DEF TablesInv, ListedInv

StateIInv == StateParts /\ TablesInv

LEMMA PartsAreStateInv == (StateIInv <=> StateInv) /\ (StateIInv' <=> StateInv')
BY DEF StateIInv, StateParts, TablesInv, StateInv, Lineage, Stepwise

LEMMA StateInvHoldsFirst == StateInit => StateIInv
<1> SUFFICES ASSUME StateInit PROVE StateIInv
  OBVIOUS
<1>1. StateTypeOK
  BY StateBounds DEF StateInit, StateTypeOK
<1>2. KnownStates = {} /\ Copies = {} /\ history = {}
  BY DEF StateInit, KnownStates, Copies
<1>3. TableFromHistory
  BY DEF StateInit, TableFromHistory
<1> QED BY <1>1, <1>2, <1>3 DEF StateIInv, StateParts, TablesInv, ListedInv, AgeInv

LEMMA StateIInvKept == StateIInv /\ StateNext => StateIInv'
BY StatesKept, TablesKept DEF StateIInv, StateParts

------------------------------------------------------------------------------
(* Plans *)

LEMMA FirstOfOrder ==
    ASSUME NEW S \in SUBSET (1..8), S # {}
    PROVE  \E i \in S : \A j \in S : i <= j
<1> SUFFICES ASSUME \A i \in S : \E j \in S : j < i PROVE FALSE
  OBVIOUS
<1>1. 1 \notin S
  OBVIOUS
<1>2. 2 \notin S /\ 3 \notin S
  BY <1>1
<1>3. 4 \notin S /\ 5 \notin S
  BY <1>1, <1>2
<1>4. 6 \notin S /\ 7 \notin S
  BY <1>1, <1>2, <1>3
<1>5. 8 \notin S
  BY <1>1, <1>2, <1>3, <1>4
<1>6. PICK x \in S : x \in 1..8
  OBVIOUS
<1> QED BY <1>1, <1>2, <1>3, <1>4, <1>5, <1>6

\* Every failure is classified: by its request, or by its message.
LEMMA KindOfType ==
    ASSUME NEW words \in Messages, NEW named \in NamedKinds \cup {NoKind}
    PROVE  /\ KindOf(words, named) \in ErrorKinds
           /\ named # NoKind => KindOf(words, named) = named
<1> DEFINE S == {i \in DOMAIN Order : Order[i] \in words}
<1>1. DOMAIN Order = 1..8
  BY DEF Order
<1>2. CASE named # NoKind
  BY <1>2 DEF KindOf, ErrorKinds
<1>3. CASE named = NoKind /\ words = {}
  BY <1>3 DEF KindOf, ErrorKinds
<1>4. CASE named = NoKind /\ words # {}
  <2>1. S # {} /\ S \subseteq 1..8
    BY <1>1, <1>4, RequestAssumption
  <2>2. \E i \in S : \A j \in S : i <= j
    BY <2>1, FirstOfOrder
  <2>3. \E i \in DOMAIN Order :
            Order[i] \in words /\ \A j \in DOMAIN Order : Order[j] \in words => i <= j
    BY <2>2
  <2> QED BY <1>4, <2>3 DEF KindOf, ErrorKinds
<1> QED BY <1>2, <1>3, <1>4

PlanInv == PlanTypeOK /\ RetryInv /\ NamedIsObeyed /\ SeenInv /\ PlansResolve

\* The state that a plan is made for has the feed and the reference of a state.
LEMMA HeldIsState ==
    ASSUME StateIInv, NEW w \in Workers, held[w] # NoState
    PROVE  held[w] \in State /\ held[w].feed \in Feeds /\ held[w].ref \in Ids \cup {NoId}
BY DEF StateIInv, StateParts, StateTypeOK, State

\* The checkpoint a plan is made of is the one it refers to.
LEMMA SelectedIsReferred ==
    ASSUME StateIInv, NEW w \in Workers, held[w] # NoState, NEW handed \in Copies \cup {NoCheckpoint},
           handed = NoCheckpoint /\ held[w].ref # NoId => Restorable(held[w].feed, held[w].ref)
    PROVE  LET ref == Reference(held[w], handed)
               seen == Selected(held[w], handed)
           IN  /\ ref \in Ids \cup {NoId}
               /\ seen \in Checkpoint \cup {NoCheckpoint}
               /\ ref # NoId =>
                      /\ table[ref] # NoCheckpoint
                      /\ handed # NoCheckpoint \/ FeedOf(ref) = held[w].feed
                      /\ seen # NoCheckpoint /\ seen.id = ref
<1>1. held[w].ref \in Ids \cup {NoId}
  BY HeldIsState
<1>2. CASE handed # NoCheckpoint
  <2>1. handed \in Copies /\ handed \in Checkpoint
    BY <1>2, CopiesAreCheckpoints DEF StateIInv, StateParts
  <2>2. handed.id \in Ids /\ table[handed.id] # NoCheckpoint
    BY <2>1, CopiesHaveEntries DEF StateIInv, StateParts
  <2> QED BY <1>2, <2>1, <2>2 DEF Reference, Selected
<1>3. CASE handed = NoCheckpoint /\ held[w].ref = NoId
  BY <1>3 DEF Reference, Selected
<1>4. CASE handed = NoCheckpoint /\ held[w].ref # NoId
  <2>1. Reference(held[w], handed) = held[w].ref /\ Selected(held[w], handed) = table[held[w].ref]
    BY <1>4 DEF Reference, Selected
  <2>2. table[held[w].ref] # NoCheckpoint /\ FeedOf(held[w].ref) = held[w].feed
    BY <1>4 DEF Restorable
  <2>3. table[held[w].ref] \in Checkpoint /\ table[held[w].ref].id = held[w].ref
    BY <1>1, <1>4, <2>2 DEF StateIInv, StateParts, StateTypeOK, TablesInv, TableFromHistory
  <2> QED BY <1>1, <1>4, <2>1, <2>2, <2>3
<1> QED BY <1>2, <1>3, <1>4

LEMMA EvaluationsArePlans ==
    ASSUME StateIInv, PlanInv, NEW w \in Workers, Evaluate(w)
    PROVE  PlanInv'
<1>1. PICK words \in Messages, named \in NamedKinds \cup {NoKind}, policy \in RetryIds,
           delay \in CustomDelays \cup {100}, recovery \in RecoveryIds,
           handed \in Copies \cup {NoCheckpoint} :
           EvaluateFailure(w, words, named, policy, delay, recovery, handed)
  BY DEF Evaluate
<1> DEFINE state == held[w]
           kind == KindOf(words, named)
           ref == Reference(state, handed)
           seen == Selected(state, handed)
           allowed == RetryAllowed(policy, kind, attempt[w], MaxRetries)
           brought == handed # NoCheckpoint
           discarded == Discarded(seen)
           new == [action |-> ActionOf(recovery, allowed, kind), kind |-> kind, named |-> named,
                   policy |-> policy, delay |-> RetryDelay(policy, kind, attempt[w], delay),
                   feed |-> state.feed, ref |-> ref, seen |-> seen, brought |-> brought,
                   discarded |-> discarded]
<1>2. /\ state # NoState
      /\ handed = NoCheckpoint /\ ref # NoId => Restorable(state.feed, ref)
      /\ plan' = [plan EXCEPT ![w] = new]
      /\ attempt' = [attempt EXCEPT ![w] = IF allowed THEN attempt[w] + 1 ELSE attempt[w]]
      /\ retries' = [retries EXCEPT ![w] = IF allowed THEN retries[w] + 1 ELSE retries[w]]
      /\ UNCHANGED stateVars
  BY <1>1 DEF EvaluateFailure
<1>3. state.feed \in Feeds
  BY <1>2, HeldIsState
<1>4. /\ attempt \in [Workers -> 1..MaxRetries + 1] /\ retries \in [Workers -> Nat]
      /\ plan \in [Workers -> Plan \cup {NoPlan}]
      /\ MaxRetries \in Nat /\ policy \in RetryPolicies /\ recovery \in RecoveryPolicies
      /\ \A v \in Workers : attempt[v] = retries[v] + 1
  BY RequestAssumption DEF PlanInv, PlanTypeOK, RetryInv
<1>5. /\ ref \in Ids \cup {NoId} /\ seen \in Checkpoint \cup {NoCheckpoint}
      /\ ref # NoId => /\ table[ref] # NoCheckpoint /\ (brought \/ FeedOf(ref) = state.feed)
                       /\ seen # NoCheckpoint /\ seen.id = ref
  <2>1. handed = NoCheckpoint /\ state.ref # NoId => Restorable(state.feed, state.ref)
    BY <1>2 DEF Reference
  <2> QED BY <1>2, <2>1, SelectedIsReferred
<1>6. kind \in ErrorKinds /\ (named # NoKind => kind = named)
  BY KindOfType
<1>7. new \in Plan
  <2>1. ActionOf(recovery, allowed, kind) \in RecoveryPolicies
    BY <1>4 DEF ActionOf, RecoveryPolicies
  <2>2. RetryDelay(policy, kind, attempt[w], delay) \in Delays
    BY <1>4, <1>6 DEF Delays
  <2>3. brought \in BOOLEAN /\ discarded \in BOOLEAN
    BY DEF Discarded
  <2> HIDE DEF kind, ref, allowed, brought, discarded, seen, state
  <2> QED BY <2>1, <2>2, <2>3, <1>3, <1>4, <1>5, <1>6 DEF Plan
<1>8. named \in {"permanent", "validation"} => new.action = "permanent-failure"
  <2> SUFFICES ASSUME named \in {"permanent", "validation"}
               PROVE  ActionOf(recovery, allowed, kind) = "permanent-failure"
    BY DEF NamedIsObeyed
  <2>1. named # NoKind => ~Retryable(kind)
    BY <1>6 DEF Retryable
  <2>2. named # NoKind => ActionOf(recovery, allowed, kind) = "permanent-failure"
    BY <2>1 DEF ActionOf
  <2> QED BY <2>2, RequestAssumption
<1>9. /\ new.named = named /\ new.ref = ref /\ new.feed = state.feed /\ new.seen = seen
      /\ new.brought = brought /\ new.discarded = discarded
  BY Zenon
<1>10. seen # NoCheckpoint => seen.valid \/ discarded
  BY <1>5 DEF Discarded, Checkpoint
<1> HIDE DEF new, seen, ref, brought, discarded, kind
<1>11. NamedIsObeyed'
  BY <1>2, <1>4, <1>8, <1>9 DEF PlanInv, NamedIsObeyed
<1>12. PlansResolve' /\ SeenInv'
  <2>1. table' = table
    BY <1>2 DEF stateVars
  <2>2. SeenInv'
    BY <1>2, <1>4, <1>9, <1>10 DEF PlanInv, SeenInv
  <2> QED BY <2>1, <2>2, <1>2, <1>4, <1>5, <1>9, <1>10 DEF PlanInv, PlansResolve
<1>13. allowed => attempt[w] <= MaxRetries
  BY DEF RetryAllowed
<1> HIDE DEF allowed
<1>14. PlanTypeOK'
  BY <1>2, <1>4, <1>7, <1>13 DEF PlanTypeOK
<1>15. RetryInv'
  BY <1>2, <1>4 DEF RetryInv
<1> QED BY <1>11, <1>12, <1>14, <1>15 DEF PlanInv

LEMMA PlansKept == StateIInv /\ PlanInv /\ RecoveryNext => PlanInv'
<1> SUFFICES ASSUME StateIInv, PlanInv, RecoveryNext PROVE PlanInv'
  OBVIOUS
<1>1. CASE StateNext /\ UNCHANGED <<attempt, plan, retries>>
  <2>1. PlanTypeOK' /\ RetryInv' /\ NamedIsObeyed' /\ SeenInv'
    BY <1>1 DEF PlanInv, PlanTypeOK, RetryInv, NamedIsObeyed, SeenInv
  <2>2. ASSUME NEW w \in Workers, plan[w] # NoPlan, plan[w].ref # NoId
        PROVE  /\ table'[plan[w].ref] # NoCheckpoint
               /\ plan[w].brought \/ FeedOf(plan[w].ref) = plan[w].feed
               /\ plan[w].seen # NoCheckpoint /\ plan[w].seen.id = plan[w].ref
               /\ plan[w].seen.valid \/ plan[w].discarded
    <3>1. plan[w].ref \in Ids
      BY <2>2 DEF PlanInv, PlanTypeOK, Plan
    <3>2. /\ table[plan[w].ref] # NoCheckpoint
          /\ plan[w].brought \/ FeedOf(plan[w].ref) = plan[w].feed
          /\ plan[w].seen # NoCheckpoint /\ plan[w].seen.id = plan[w].ref
      BY <2>2 DEF PlanInv, PlansResolve
    <3>3. plan[w].seen.valid \/ plan[w].discarded
      BY <2>2, <3>2 DEF PlanInv, SeenInv
    <3>4. table'[plan[w].ref] # NoCheckpoint
      BY <1>1, <3>1, <3>2, EntriesStay DEF StateIInv, StateParts
    <3> QED BY <3>2, <3>3, <3>4
  <2>3. PlansResolve'
    BY <1>1, <2>2 DEF PlansResolve
  <2> QED BY <2>1, <2>3 DEF PlanInv
<1>2. ASSUME NEW w \in Workers, Recovered(w) PROVE PlanInv'
  <2>1. table' = table /\ plan' = [plan EXCEPT ![w] = NoPlan]
    BY <1>2 DEF Recovered, stateVars
  <2>2. plan \in [Workers -> Plan \cup {NoPlan}]
    BY DEF PlanInv, PlanTypeOK
  <2>3. \A v \in Workers : plan'[v] # NoPlan => plan'[v] = plan[v] /\ plan[v] # NoPlan
    BY <2>1, <2>2
  <2>4. PlanTypeOK' /\ RetryInv'
    BY <1>2, RequestAssumption DEF PlanInv, PlanTypeOK, RetryInv, Recovered
  <2>5. NamedIsObeyed' /\ SeenInv'
    BY <2>3 DEF PlanInv, NamedIsObeyed, SeenInv
  <2>6. PlansResolve'
    BY <2>1, <2>3 DEF PlanInv, PlansResolve
  <2> QED BY <2>4, <2>5, <2>6 DEF PlanInv
<1> QED BY <1>1, <1>2, EvaluationsArePlans DEF RecoveryNext

------------------------------------------------------------------------------

\* The inductive invariant
THEOREM SpecIInv == RecoverySpec => []IInv
<1>1. IInv <=> StateIInv /\ PlanInv
  BY PartsAreStateInv DEF IInv, PlanInv
<1>2. RecoveryInit => IInv
  <2>1. RecoveryInit => PlanInv
    BY RequestAssumption DEF RecoveryInit, PlanInv, PlanTypeOK, RetryInv, NamedIsObeyed, SeenInv, PlansResolve
  <2> QED BY <1>1, <2>1, StateInvHoldsFirst DEF RecoveryInit
<1>3. IInv /\ [RecoveryNext]_recoveryVars => IInv'
  <2> SUFFICES ASSUME StateIInv, PlanInv, [RecoveryNext]_recoveryVars PROVE StateIInv' /\ PlanInv'
    BY PartsAreStateInv DEF IInv, PlanInv
  <2>1. CASE RecoveryNext
    <3>1. StateNext \/ UNCHANGED stateVars
      BY <2>1 DEF RecoveryNext, Evaluate, EvaluateFailure, Recovered
    <3>2. UNCHANGED stateVars => StateIInv'
      BY DEF stateVars, StateIInv, StateParts, StateTypeOK, KnownStates, TablesInv,
             TableFromHistory, ListedInv, AgeInv, Copies
    <3> QED BY <2>1, <3>1, <3>2, StateIInvKept, PlansKept
  <2>2. CASE UNCHANGED recoveryVars
    BY <2>2 DEF recoveryVars, stateVars, StateIInv, StateParts, StateTypeOK, KnownStates, TablesInv,
                TableFromHistory, ListedInv, AgeInv, Copies, PlanInv, PlanTypeOK, RetryInv,
                NamedIsObeyed, SeenInv, PlansResolve
  <2> QED BY <2>1, <2>2
<1> QED BY <1>2, <1>3, PTL DEF RecoverySpec

\* Whatever copies of states and checkpoints the callers keep, fork, save over each other,
\* invalidate and put back, every state is the end of a chain of allowed transitions that
\* its version counts, and every entry is a checkpoint that was made (state manager and
\* checkpoint manager).
THEOREM HistoriesAreTrue == RecoverySpec => []HistoriesHold
<1>1. IInv => HistoriesHold
  BY DEF IInv, StateInv, HistoriesHold
<1> QED BY <1>1, SpecIInv, PTL

\* What is reported as expired is older than the ttl (collectWarnings over
\* expireCheckpoint).
THEOREM ExpiryIsSound == RecoverySpec => []ExpiredIsOld
<1>1. IInv => ExpiredIsOld
  <2> SUFFICES ASSUME IInv, NEW s \in KnownStates, NEW c \in Copies,
                      "expired" \in Warnings(s, c)
               PROVE  c.created + Ttl <= now
    BY DEF ExpiredIsOld
  <2>1. c.expires <= now
    BY DEF Warnings
  <2>2. c \in Checkpoint /\ now \in Nat
    BY CopiesAreCheckpoints, StateBounds DEF IInv, StateInv, StateTypeOK
  <2>3. c.created + Ttl <= c.expires
    BY DEF IInv, StateInv, AgeInv
  <2> QED BY <2>1, <2>2, <2>3, TtlAssumption, StateBounds DEF Checkpoint, Never
<1> QED BY <1>1, SpecIInv, PTL

\* A failure is retried at most maxRetries times, and not at all if its request calls it
\* permanent or invalid; the checkpoint that its plan names can be restored until the process
\* ends, and unless the plan says it was discarded it is valid until it is changed
\* (evaluateFailure).
THEOREM PlansCanBeFollowed == RecoverySpec => []PlansHold
<1>1. IInv => PlansHold
  <2> SUFFICES ASSUME IInv PROVE RetriesBounded
    BY DEF IInv, StateInv, PlanTypeOK, PlansHold, RecoveryTypeOK
  <2> QED BY RequestAssumption DEF IInv, PlanTypeOK, RetryInv, RetriesBounded
<1> QED BY <1>1, SpecIInv, PTL
==============================================================================
