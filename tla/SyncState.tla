------------------------------ MODULE SyncState ------------------------------
(***************************************************************************)
(* The synchronization state of feeds and its checkpoints (packages/rss/   *)
(* src/synchronization/state, state-machine, checkpoints).                 *)
(*                                                                         *)
(* A state is a frozen record.  Workers hold records, make new ones from   *)
(* them and save them to a store that is external; restoring a state that  *)
(* a store has takes what load answered, however old it is by then.  Only  *)
(* the checkpoints are a table in memory, which every worker shares.       *)
(***************************************************************************)
EXTENDS FiniteSets, Naturals, Sequences

CONSTANTS
    Feeds,
    Synced,     \* the feeds that workers work on; of the others, only checkpoints are made
    Workers,
    Hashes,     \* feedHash of a checkpoint's metadata
    Ttl,        \* ttlMs
    NoState,
    NoId,
    NoCheckpoint,
    MaxCurrent, \* bound of currentVersion
    MaxClock,   \* bound of the clock
    MaxCopies   \* bound of the different copies in the histories

ASSUME SyncedAssumption == Synced \subseteq Feeds
ASSUME TtlAssumption == Ttl \in Nat \ {0}
ASSUME StateBounds == MaxCurrent \in Nat \ {0} /\ MaxClock \in Nat /\ MaxCopies \in Nat
ASSUME NoIdAssumption == NoId \notin Feeds \X (1..MaxCurrent)

VARIABLES
    held,    \* the state each worker works on
    saved,   \* the state store's record of each feed
    table,   \* FeedCheckpointManager.checkpoints
    history, \* FeedCheckpointManager.history, as the set of its copies
    now

stateVars == <<held, saved, table, history, now>>

\* FeedStateMachine.allowedTransitions
Allowed == [
    NeverSynced |-> {"Pending", "Preparing"},
    Pending     |-> {"Preparing", "Cancelled", "Failed", "Outdated", "Unchanged"},
    Preparing   |-> {"Running", "Cancelled", "Failed"},
    Running     |-> {"Persisting", "Paused", "Failed", "Cancelled", "Outdated"},
    Persisting  |-> {"Completed", "Failed", "Cancelled", "Unchanged"},
    Completed   |-> {"Unchanged", "Outdated"},
    Failed      |-> {"Pending", "Preparing"},
    Cancelled   |-> {"Pending"},
    Paused      |-> {"Running", "Pending"},
    Outdated    |-> {"Pending", "Preparing"},
    Unchanged   |-> {"Pending", "Outdated"}]

SyncStates == DOMAIN Allowed

Ids == Feeds \X (1..MaxCurrent)

\* past is the history: the states before the current one.
State == [feed : Feeds, current : SyncStates, version : 1..MaxCurrent,
          past : Seq(SyncStates), ref : Ids \cup {NoId}]

ASSUME NoStateAssumption == NoState \notin State

\* Never is the expirationAt of a checkpoint that was not expired.
Never == MaxClock + Ttl + 1
Checkpoint == [id : Ids, hash : Hashes, created : 0..MaxClock, valid : BOOLEAN,
               expires : 0..Never]

ASSUME NoCheckpointAssumption == NoCheckpoint \notin Checkpoint

StateTypeOK ==
    /\ held \in [Workers -> State \cup {NoState}]
    /\ saved \in [Feeds -> State \cup {NoState}]
    /\ table \in [Ids -> Checkpoint \cup {NoCheckpoint}]
    /\ history \subseteq Checkpoint
    /\ now \in 0..MaxClock

StateInit ==
    /\ held = [w \in Workers |-> NoState]
    /\ saved = [f \in Feeds |-> NoState]
    /\ table = [i \in Ids |-> NoCheckpoint]
    /\ history = {}
    /\ now = 0

FeedOf(id) == id[1]
VersionOf(id) == id[2]

\* What callers can hand in: copies they got from the table or from a history.
Copies == ({table[i] : i \in Ids} \ {NoCheckpoint}) \cup history

------------------------------------------------------------------------------
(* FeedStateManager *)

NewState(f) ==
    [feed |-> f, current |-> "NeverSynced", version |-> 1, past |-> <<>>, ref |-> NoId]

\* attachCheckpoint and mergeState look at neither the feed nor the version.
RestoreState(w, f) ==
    LET state == IF saved[f] = NoState THEN NewState(f) ELSE saved[f]
    IN  /\ \/ held' = [held EXCEPT ![w] = state]
           \/ \E c \in Copies : held' = [held EXCEPT ![w] = [state EXCEPT !.ref = c.id]]
        /\ UNCHANGED <<saved, table, history, now>>

Successor(state, next) ==
    [state EXCEPT !.current = next, !.version = @ + 1, !.past = Append(@, state.current)]

\* Mutant: the state machine is not asked.
UpdateUnchecked(w, next) ==
    /\ held[w] # NoState
    /\ held[w].version < MaxCurrent
    /\ held' = [held EXCEPT ![w] = Successor(held[w], next)]
    /\ UNCHANGED <<saved, table, history, now>>

UpdateState(w, next) ==
    /\ held[w] # NoState
    /\ next \in Allowed[held[w].current]
    /\ held[w].version < MaxCurrent
    /\ held' = [held EXCEPT ![w] = Successor(held[w], next)]
    /\ UNCHANGED <<saved, table, history, now>>

\* FeedStateStore.save, with whatever version the worker has
SaveState(w) ==
    /\ held[w] # NoState
    /\ saved' = [saved EXCEPT ![held[w].feed] = held[w]]
    /\ UNCHANGED <<held, table, history, now>>

------------------------------------------------------------------------------
(* FeedCheckpointManager *)

Fresh(state, hash) ==
    [id |-> <<state.feed, state.version>>, hash |-> hash, created |-> now, valid |-> TRUE,
     expires |-> Never]

\* A checkpoint is put into the table, and at the end of its feed's history.
Listed(c) ==
    /\ Cardinality(history \cup {c}) <= MaxCopies
    /\ table' = [table EXCEPT ![c.id] = c]
    /\ history' = history \cup {c}

\* The id is the feed and the version: a checkpoint of another worker that is at
\* the same version is replaced.
CreateCheckpoint(w, hash) ==
    /\ held[w] # NoState
    /\ Listed(Fresh(held[w], hash))
    /\ UNCHANGED <<held, saved, now>>

\* getCheckpoints of the API makes a checkpoint of a new state to have one to list.
ListCheckpoints(f, hash) ==
    /\ Listed(Fresh(NewState(f), hash))
    /\ UNCHANGED <<held, saved, now>>

\* validateCheckpoint, and a table that takes any copy
ReplaceCheckpoint(f, c) ==
    /\ FeedOf(c.id) = f
    /\ Listed(c)
    /\ UNCHANGED <<held, saved, now>>

\* The history keeps its valid copy.
InvalidateCheckpoint(c) ==
    /\ table' = [table EXCEPT ![c.id] = [c EXCEPT !.valid = FALSE]]
    /\ UNCHANGED <<held, saved, history, now>>

\* Mutant: it expires when the call is made.
ExpireAtOnce(c) ==
    /\ table' = [table EXCEPT ![c.id] = [c EXCEPT !.expires = now]]
    /\ UNCHANGED <<held, saved, history, now>>

\* expirationAt counts from the call and not from the creation.
ExpireCheckpoint(c) ==
    /\ table' = [table EXCEPT ![c.id] = [c EXCEPT !.expires = now + Ttl]]
    /\ UNCHANGED <<held, saved, history, now>>

\* A version that is not the state's is an exception; validity is not looked at.
RollbackCheckpoint(w, c) ==
    /\ held[w] # NoState
    /\ c.id = <<held[w].feed, held[w].version>>
    /\ held' = [held EXCEPT ![w].ref = c.id]
    /\ UNCHANGED <<saved, table, history, now>>

\* collectWarnings
Warnings(state, c) ==
    {x \in {"invalidated", "outdated", "mismatch", "expired"} :
        \/ x = "invalidated" /\ ~c.valid
        \/ x = "outdated" /\ state.current = "Outdated"
        \/ x = "mismatch" /\ VersionOf(c.id) # state.version
        \/ x = "expired" /\ c.expires <= now}

Tick == now < MaxClock /\ now' = now + 1 /\ UNCHANGED <<held, saved, table, history>>

StateNext ==
    \/ \E w \in Workers :
           \/ \E f \in Synced : RestoreState(w, f)
           \/ \E next \in SyncStates : UpdateState(w, next)
           \/ SaveState(w)
           \/ \E hash \in Hashes : CreateCheckpoint(w, hash)
           \/ \E c \in Copies : RollbackCheckpoint(w, c)
    \/ \E f \in Feeds :
           \/ \E hash \in Hashes : ListCheckpoints(f, hash)
           \/ \E c \in Copies : ReplaceCheckpoint(f, c)
    \/ \E c \in Copies : InvalidateCheckpoint(c) \/ ExpireCheckpoint(c)
    \/ Tick

------------------------------------------------------------------------------
(* Properties *)

KnownStates == ({held[w] : w \in Workers} \cup {saved[f] : f \in Feeds}) \ {NoState}

\* However states are passed around, forked and saved over each other, each is the
\* end of a chain of allowed transitions from NeverSynced, and its version counts
\* them.
Lineage ==
    \A s \in KnownStates :
        LET path == Append(s.past, s.current)
        IN  /\ path[1] = "NeverSynced"
            /\ \A i \in 1..Len(path) - 1 : path[i + 1] \in Allowed[path[i]]
            /\ s.version = Len(path)

\* Whatever copies are invalidated, expired and put back, the table has under an id
\* a checkpoint that was made for that id, as its history has it but for validity
\* and expiry.
TableFromHistory ==
    \A i \in Ids :
        table[i] # NoCheckpoint =>
            \E c \in history :
                /\ table[i].id = i /\ c.id = i
                /\ c.hash = table[i].hash /\ c.created = table[i].created

\* What evaluateProgress reports as expired is older than the ttl, however often it
\* was expired and restored.
ExpiredIsOld ==
    \A s \in KnownStates, c \in Copies :
        "expired" \in Warnings(s, c) => c.created + Ttl <= now

\* What is known of a feed's synchronization has come about by allowed steps, and what
\* is kept of its checkpoints by the making of them.
HistoriesHold == StateTypeOK /\ Lineage /\ TableFromHistory
==============================================================================
