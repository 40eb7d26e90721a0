-------------------------- MODULE FeedSynchronizers --------------------------
(***************************************************************************)
(* The two engines that decide whether a feed is imported:                 *)
(* SynchronizationEngine (synchronization/core), by the request and a      *)
(* strategy, and IncrementalSynchronizationEngine                          *)
(* (synchronization/incremental), by a conditional download and a          *)
(* comparison.  They are composed with the import they call.  What they    *)
(* keep between two calls (state, checkpoints) is what a call gets.        *)
(***************************************************************************)
EXTENDS FeedImport

------------------------------------------------------------------------------
(* ComparisonEngine and DiffEngine (packages/rss/src/synchronization): what differs        *)
(* between two snapshots of a feed, and what an import is planned to do about it.  None is *)
(* a field that a snapshot does not have.                                                  *)

Difference(kind, entity, strategy) == [kind |-> kind, entity |-> entity, strategy |-> strategy]

If(condition, differences) == IF condition THEN differences ELSE {}

\* Both have the field, and it differs.
Changed(p, q) == p # None /\ q # None /\ p # q

HashDifferences(p, q) ==
    If(Changed(p.feedHash, q.feedHash), {Difference("FeedUpdated", "feed", "hash")})
    \cup If(Changed(p.snapshotHash, q.snapshotHash),
            {Difference("MetadataUpdated", "snapshot", "hash")})

GuidDifferences(p, q) ==
    If(Changed(p.guid, q.guid), {Difference("FeedUpdated", "feed", "guid")})

VersionDifferences(p, q) ==
    If(p.version # q.version, {Difference("FeedUpdated", "feed", "version")})

TimestampDifferences(p, q) ==
    If(p.timestamp # q.timestamp, {Difference("MetadataUpdated", "metadata", "timestamp")})

ContentDifferences(p, q) ==
    If(Changed(p.content, q.content), {Difference("UpdatedEpisode", "episode", "content")})

\* A key that one of the two does not have differs.
MetadataDifferences(p, q) ==
    If(p.metadata # q.metadata, {Difference("MetadataUpdated", "metadata", "metadata")})

\* The first of the three lists that differs
CompositeDifferences(p, q) ==
    CASE p.authors # q.authors -> {Difference("AuthorUpdated", "author", "composite")}
      [] p.categories # q.categories -> {Difference("CategoryUpdated", "category", "composite")}
      [] p.media # q.media -> {Difference("MediaUpdated", "media", "composite")}
      [] OTHER -> {}

\* collectDifferences, of the seven strategies there are by default
Differences(p, q) ==
    HashDifferences(p, q) \cup GuidDifferences(p, q) \cup VersionDifferences(p, q)
    \cup TimestampDifferences(p, q) \cup ContentDifferences(p, q)
    \cup MetadataDifferences(p, q) \cup CompositeDifferences(p, q)

\* DiffEngine.createImportPlan: one operation for each difference, and none is a create.
OperationOf(difference) ==
    CASE difference.kind \in {"AddedEpisode", "UpdatedEpisode"} -> <<"episode", "update">>
      [] difference.kind = "RemovedEpisode" -> <<"episode", "delete">>
      [] difference.kind = "MetadataUpdated" -> <<"metadata", "update">>
      [] difference.kind = "FeedUpdated" -> <<"feed", "update">>
      [] difference.kind = "AuthorUpdated" -> <<"author", "update">>
      [] difference.kind = "CategoryUpdated" -> <<"category", "update">>
      [] difference.kind = "MediaUpdated" -> <<"media", "update">>
      [] OTHER -> <<"snapshot", "skip">>

ImportPlan(differences) == {OperationOf(d) : d \in differences}

\* toSnapshot.  What the checkpoint says of the feed comes before what the state says.
ToSnapshot(state, checkpoint) ==
    [feedHash |-> IF checkpoint # None /\ checkpoint.feedHash # None
                  THEN checkpoint.feedHash ELSE state.feedHash,
     snapshotHash |-> None, guid |-> state.guid, version |-> state.version,
     timestamp |-> state.time, content |-> None, metadata |-> state.metadata,
     authors |-> {}, categories |-> {}, media |-> {}]

\* The snapshot of a response.  It has no hash and no guid, and its version is 1.
DownloadedSnapshot(body, now, metadata) ==
    [feedHash |-> None, snapshotHash |-> None, guid |-> None, version |-> 1,
     timestamp |-> now, content |-> body, metadata |-> metadata,
     authors |-> {}, categories |-> {}, media |-> {}]

------------------------------------------------------------------------------
(* The engines *)

CONSTANTS
    Calls,       \* the calls that each importer may be asked for
    HasDownloader

VARIABLES
    phase,       \* where each call is
    call,        \* what it was given
    answer,      \* the status and the success that it reports
    seen,        \* incremental: what the conditional download has brought
    executed     \* the calls whose plan the persistence coordinator has executed

engineVars == <<phase, call, answer, seen, executed>>
vars == <<importVars, engineVars>>

\* The strategies registered by default
Strategies == {"full", "incremental", "metadata", "episode", "preview", "validation"}

Call ==
    [engine : {"core", "incremental"}, feed : Feeds, mode : Modes, dryRun : BOOLEAN,
     validateOnly : BOOLEAN, preview : BOOLEAN, force : BOOLEAN,
     strategy : Strategies \cup {None},
     \* core: the stored state has a fingerprint
     fingerprint : BOOLEAN,
     \* incremental: the version of the state, and the checkpoint it refers to
     version : Nat, checkpoint : [version : Nat, etag : Nat \cup {None}] \cup {None}]

\* None is no answer and no snapshot.
ASSUME EngineAssumption ==
    /\ \A c \in Importers : Calls[c] \subseteq Call
    /\ None \notin {"unchanged", "completed", "failed", "thrown"}
    /\ \A f \in Feeds : \A body \in Documents[f] \cup {None}, now \in 0..1 :
           DownloadedSnapshot(body, now, body) # None

NoAnswer == [status |-> None, success |-> FALSE]
Answer(status, success) == [status |-> status, success |-> success]

Unseen == [notModified |-> FALSE, at |-> 0, snapshot |-> None]

TypeOK ==
    /\ ImportTypeOK
    /\ phase \in [Importers -> {"idle", "loading", "deciding", "restoring", "downloading",
                                "comparing", "importing", "executing", "ended"}]
    /\ \A c \in Importers :
           /\ call[c] \in Calls[c] \cup {None}
           /\ answer[c].status \in {None, "unchanged", "completed", "failed", "thrown"}
           /\ answer[c].success \in BOOLEAN
           /\ seen[c].notModified \in BOOLEAN /\ seen[c].at \in 0..MaxVersion
    /\ executed \subseteq Importers

Init ==
    /\ ImportInit
    /\ phase = [c \in Importers |-> "idle"]
    /\ call = [c \in Importers |-> None]
    /\ answer = [c \in Importers |-> NoAnswer]
    /\ seen = [c \in Importers |-> Unseen]
    /\ executed = {}

Enters(c, p) == phase' = [phase EXCEPT ![c] = p]
Answers(c, status, success) ==
    Enters(c, "ended") /\ answer' = [answer EXCEPT ![c] = Answer(status, success)]

\* synchronize is called
Synchronize(c, r) ==
    /\ phase[c] = "idle"
    /\ call' = [call EXCEPT ![c] = r]
    /\ Enters(c, IF r.engine = "core" THEN "loading" ELSE "restoring")
    /\ UNCHANGED <<importVars, answer, seen, executed>>

---------------------------------------------------------------------------
\* SynchronizationEngine

StateLoads(c) ==
    /\ phase[c] = "loading"
    /\ Enters(c, "deciding")
    /\ UNCHANGED <<importVars, call, answer, seen, executed>>

\* The store, the comparison or a hook of an event rejects, and so does synchronize: of the
\* last event, when the import has stored the feed.
EmitFails(c) ==
    /\ AwaitsMayFail
    /\ phase[c] \in {"loading", "deciding", "restoring", "comparing", "importing"}
    /\ phase[c] = "importing" => step[c] \in Ended
    /\ Answers(c, "thrown", FALSE)
    /\ UNCHANGED <<importVars, call, seen, executed>>

\* selectStrategy
Strategy(r) ==
    CASE r.mode \in {"full", "preview", "validation"} -> r.mode
      [] r.mode \notin {"full", "preview", "validation"} /\ r.dryRun -> "preview"
      [] OTHER -> IF r.strategy = None THEN "incremental" ELSE r.strategy

\* execute of the strategy
ShouldSync(r) ==
    CASE Strategy(r) = "incremental" -> ~r.fingerprint \/ r.force
      [] OTHER -> Strategy(r) # "validation"

ValidatesOnly(r) == r.validateOnly \/ r.mode = "validation"
OnlyPreviews(r) == r.preview \/ r.mode \in {"preview", "dry-run"}

\* The import that the engine asks for
Asked(r) == [feed |-> r.feed, mode |-> r.mode, dryRun |-> r.dryRun,
             validateOnly |-> r.validateOnly]

Decide(c) ==
    LET r == call[c]
    IN  /\ phase[c] = "deciding"
        /\ IF ValidatesOnly(r) \/ OnlyPreviews(r) \/ ~ShouldSync(r)
           THEN Answers(c, "unchanged", TRUE) /\ UNCHANGED importVars
           ELSE Enters(c, "importing") /\ ImportBegins(c, Asked(r)) /\ UNCHANGED answer
        /\ UNCHANGED <<call, seen, executed>>

\* Mutant: as the incremental engine does.
CoreCompletes(c) ==
    /\ phase[c] = "importing" /\ call[c].engine = "core" /\ step[c] \in Ended
    /\ IF step[c] = "rejected" THEN Answers(c, "thrown", FALSE)
       ELSE Answers(c, "completed", TRUE)
    /\ UNCHANGED <<importVars, call, seen, executed>>

CoreImported(c) ==
    /\ phase[c] = "importing" /\ call[c].engine = "core" /\ step[c] \in Ended
    /\ CASE step[c] = "rejected" -> Answers(c, "thrown", FALSE)
         [] step[c] = "refused" -> Answers(c, "failed", FALSE)
         [] step[c] = "imported" -> Answers(c, "completed", TRUE)
    /\ UNCHANGED <<importVars, call, seen, executed>>

---------------------------------------------------------------------------
\* IncrementalSynchronizationEngine

\* resolveCheckpoint and isCheckpointCompatible: restoreCheckpoint throws too, of a
\* checkpoint that is not there.
Restore(c) ==
    LET r == call[c]
    IN  /\ phase[c] = "restoring"
        /\ IF r.checkpoint # None /\ r.checkpoint.version # r.version
           THEN Answers(c, "thrown", FALSE)
           ELSE /\ Enters(c, IF HasDownloader THEN "downloading" ELSE "comparing")
                /\ UNCHANGED answer
        /\ UNCHANGED <<importVars, call, seen, executed>>

\* External: what the server answers, by the header If-None-Match
NotModified(c) ==
    call[c].checkpoint # None /\ call[c].checkpoint.etag = served[call[c].feed].version

\* tryConditionalDownload: sameTime, the response is there in the millisecond of the state.
\* A response without a body leaves the metadata as the state has them.
ConditionalDownload(c, sameTime, bodiless) ==
    LET current == served[call[c].feed]
        body == IF bodiless THEN None ELSE current.doc
    IN  /\ phase[c] = "downloading"
        /\ NotModified(c) => ~sameTime /\ ~bodiless
        /\ seen' = [seen EXCEPT ![c] =
                       [notModified |-> NotModified(c), at |-> current.version,
                        snapshot |-> IF NotModified(c) THEN None
                                     ELSE DownloadedSnapshot(body, IF sameTime THEN 0 ELSE 1,
                                                             body)]]
        /\ IF NotModified(c) THEN Answers(c, "unchanged", TRUE)
           ELSE Enters(c, "comparing") /\ UNCHANGED answer
        /\ UNCHANGED <<importVars, call, executed>>

DownloadFails(c) ==
    /\ phase[c] = "downloading" /\ AwaitsMayFail
    /\ Answers(c, "thrown", FALSE)
    /\ UNCHANGED <<importVars, call, seen, executed>>

StateSnapshot(r) ==
    ToSnapshot([feedHash |-> None, guid |-> None, version |-> r.version, time |-> 0,
                metadata |-> None], None)

\* Without a downloader the snapshot is compared with itself.
CurrentSnapshot(c) ==
    IF seen[c].snapshot = None THEN StateSnapshot(call[c]) ELSE seen[c].snapshot

\* The import gets an option skipPersistence, which it does not look at, in place of the
\* options of the request.
Compare(c) ==
    LET r == call[c]
        plan == ImportPlan(Differences(StateSnapshot(r), CurrentSnapshot(c)))
    IN  /\ phase[c] = "comparing"
        /\ IF plan = {}
           THEN Answers(c, "unchanged", TRUE) /\ UNCHANGED importVars
           ELSE /\ Enters(c, "importing") /\ UNCHANGED answer
                /\ ImportBegins(c, [feed |-> r.feed, mode |-> r.mode, dryRun |-> FALSE,
                                    validateOnly |-> FALSE])
        /\ UNCHANGED <<call, seen, executed>>

\* An import that was refused is reported as completed too.
IncrementalImported(c) ==
    /\ phase[c] = "importing" /\ call[c].engine = "incremental" /\ step[c] \in Ended
    /\ CASE step[c] = "rejected" -> Answers(c, "thrown", FALSE)
         [] step[c] = "refused" -> Answers(c, "completed", TRUE)
         [] step[c] = "imported" -> Enters(c, "executing") /\ UNCHANGED answer
    /\ UNCHANGED <<importVars, call, seen, executed>>

\* The persistence coordinator executes the plan, after the import has stored the feed.
ExecutePlan(c) ==
    /\ phase[c] = "executing"
    /\ executed' = executed \cup {c}
    /\ Answers(c, "completed", TRUE)
    /\ UNCHANGED <<importVars, call, seen>>

\* The coordinator rejects, or the hook of the last event does when it has executed the plan.
PlanFails(c) ==
    /\ phase[c] = "executing" /\ AwaitsMayFail
    /\ executed' \in {executed, executed \cup {c}}
    /\ Answers(c, "thrown", FALSE)
    /\ UNCHANGED <<importVars, call, seen>>

---------------------------------------------------------------------------
Import(c) == ImportSteps(c) /\ UNCHANGED engineVars

Publishes == \E f \in Feeds : \E d \in Documents[f] : FeedChanges(f, d) /\ UNCHANGED engineVars

CallSteps(c) ==
    \/ StateLoads(c) \/ Decide(c) \/ CoreImported(c)
    \/ Restore(c) \/ Compare(c) \/ IncrementalImported(c)
    \/ \E sameTime, bodiless \in BOOLEAN : ConditionalDownload(c, sameTime, bodiless)
    \/ ExecutePlan(c)
    \/ Import(c)

CallFails(c) ==
    \/ EmitFails(c) \/ DownloadFails(c) \/ PlanFails(c)
    \/ AwaitFails(c) /\ UNCHANGED engineVars

Next ==
    \/ \E c \in Importers :
           CallSteps(c) \/ CallFails(c) \/ \E r \in Calls[c] : Synchronize(c, r)
    \/ Publishes

Spec == Init /\ [][Next]_vars

\* Every await settles; that one fails is not assumed.
FairSpec == Spec /\ \A c \in Importers : WF_vars(CallSteps(c))

---------------------------------------------------------------------------
\* The call is one that asks for nothing to be stored, in a way its engine looks at.
AsksForNoWrites(r) ==
    \/ r.mode \in {"preview", "validation"}
    \/ r.engine = "core" /\ (r.dryRun \/ r.validateOnly \/ r.preview \/ r.mode = "dry-run")

\* A call that asks for a preview or a validation stores nothing, whatever the strategy,
\* the feed and the other calls (core/synchronization-engine.ts, shouldSkipPersistence).
\* The incremental engine's coordinator is not meant: it does execute its plan.
PreviewWritesNothing ==
    \A c \in Importers :
        call[c] # None /\ AsksForNoWrites(call[c]) =>
            /\ \A e \in episodes : e.by # c
            /\ tally[c].podcasts = 0 /\ tally[c].updated = 0

Has(rows, item) == \E strategy \in 1..3 : \E e \in rows : Matches(e, item, strategy)

\* When a call that was to store reports completed, its import has stored the feed: every
\* episode it has parsed is there, the one it stored, or another that one of the strategies
\* finds.  The incremental engine reports an import that was refused as completed too
\* (service.ts import, detectEpisodeDuplicate; incremental-synchronization-engine.ts).
CompletedIsStored ==
    \A c \in Importers :
        (answer[c].status = "completed" /\ ~SkipsPersistence(request[c])) =>
            \/ call[c].engine = "incremental" /\ step[c] = "refused"
            \/ /\ step[c] = "imported" /\ known[c] # None
               /\ \A i \in DOMAIN parsed[c].episodes :
                      \/ \E e \in episodes : e.by = c /\ e.at = i
                      \/ Has({e \in episodes : e.podcast = known[c]}, parsed[c].episodes[i])

\* A podcast has two episodes of one URL only when two imports of it ran together: each
\* looked for the episode before the other had stored it.
DuplicatesNeedARace ==
    \A d, e \in episodes :
        d # e /\ d.podcast = e.podcast /\ d.url # None /\ d.url = e.url =>
            <<d.by, e.by>> \in together

\* The episodes that an import counts as created are the ones it has stored, at every
\* step and however it ends (service.ts, createdEpisodes).
CountsAgree ==
    \A c \in Importers : tally[c].created = Cardinality({e \in episodes : e.by = c})

\* A download makes no more requests than its policy allows (retry-policy.ts).
RequestsBounded == \A c \in Importers : requests[c] <= MaxRetries + 1

\* When the incremental engine has downloaded and reports unchanged, the server said so
\* of the version the checkpoint has, or sent nothing.
ChangeIsImported ==
    \A c \in Importers :
        (HasDownloader /\ call[c] # None /\ call[c].engine = "incremental"
         /\ answer[c].status = "unchanged") =>
            \/ seen[c].notModified /\ call[c].checkpoint.etag = seen[c].at
            \/ seen[c].snapshot # None /\ seen[c].snapshot.content = None

\* What a call answers is what it did to the tables: nothing for a preview that its engine
\* looks at, everything for a completed import, and no change passed over.
AnswersAreTrue == TypeOK /\ PreviewWritesNothing /\ CompletedIsStored /\ ChangeIsImported

\* The episodes are accounted for by the imports that stored them, and the requests to the
\* host by the policy of the downloads.
EpisodesAccounted == DuplicatesNeedARace /\ CountsAgree /\ RequestsBounded

\* Every call settles: the retries, the lookups and the episodes come to an end.
CallsSettle == \A c \in Importers : phase[c] # "idle" ~> phase[c] = "ended"
==============================================================================
