------------------------------- MODULE MCFeeds -------------------------------
(* What the library knows and guards of feeds, for TLC: their locks, their identity, their
   condition, and what observers see of their processing.  The parts share nothing; a
   behaviour is of one of them.  *)
EXTENDS FeedLocking, FeedIdentity, FeedCondition, Observation, TLC

CONSTANTS e1, e2, o1, o2

VARIABLE serving

vars == <<libVars, identityVars, conditionVars, observationVars, serving>>

Served == {"locks", "identity", "health", "status", "observation"}

\* A part that rests starts in one state only.
Init == /\ LibInit /\ IdentityInit /\ ConditionInit /\ ObservationInit
        /\ serving \in Served
        /\ serving # "status" => stored = "NEW"
        /\ serving # "observation" => collectors = Standard

ServeLocks == serving = "locks" /\ LibNext
              /\ UNCHANGED <<identityVars, conditionVars, observationVars, serving>>
ServeIdentity == serving = "identity" /\ IdentityNext
                 /\ UNCHANGED <<libVars, conditionVars, observationVars, serving>>
ServeHealth == serving = "health" /\ HealthNext
               /\ UNCHANGED <<libVars, identityVars, observationVars, serving>>
ServeStatus == serving = "status" /\ StatusNext
               /\ UNCHANGED <<libVars, identityVars, observationVars, serving>>
ServeObservation == serving = "observation" /\ ObservationNext
                    /\ UNCHANGED <<libVars, identityVars, conditionVars, serving>>

Next == ServeLocks \/ ServeIdentity \/ ServeHealth \/ ServeStatus \/ ServeObservation

Spec == Init /\ [][Next]_vars

\* Sound: nothing is promised to come about, only safety is checked.
Symmetry == Permutations(Owners)

------------------------------------------------------------------------------

plain(x) == [word |-> x, form |-> "plain"]
spelled(x, form) == [word |-> x, form |-> form]

nothing == [title |-> None, publisher |-> None, description |-> None, language |-> None,
            canonical |-> None, website |-> None, categories |-> {}, images |-> {},
            updatedAt |-> None]

told == [nothing EXCEPT !.title = plain("news"), !.language = plain("en"),
                        !.publisher = plain("press"), !.description = plain("daily"),
                        !.categories = {"a", "b"}, !.images = {plain("cover")}, !.updatedAt = 1]

asked == [original |-> plain("feed"), resolved |-> None, parsed |-> told, metadata |-> nothing,
          content |-> TRUE]

MCWords == {"feed", "old", "other", "site", "cover", "news", "sport", "press", "daily",
            "weekly", "en", "a", "b"}

\* One feed, asked for by two addresses and spelled in other ways; a feed of which nothing
\* but the address is known; and another feed of the same site.
MCRequests ==
    {asked,
     [asked EXCEPT !.original = spelled("feed", "hash")],
     [asked EXCEPT !.original = plain("old"), !.resolved = plain("feed"),
                   !.parsed.title = spelled("news", "spaced"), !.parsed.language = spelled("en", "regional"),
                   !.parsed.categories = {"a"}, !.parsed.updatedAt = 2],
     [asked EXCEPT !.parsed.title = spelled("news", "upper"), !.parsed.description = None],
     [asked EXCEPT !.parsed = nothing, !.content = FALSE],
     [asked EXCEPT !.parsed = nothing, !.metadata.canonical = plain("feed"), !.original = plain("old"),
                   !.metadata.website = plain("site"), !.metadata.updatedAt = 3],
     [asked EXCEPT !.original = plain("other"), !.metadata.website = plain("site"),
                   !.parsed.title = plain("sport"), !.parsed.description = plain("weekly")]}

listed == [discovered |-> FALSE, canonicalUrl |-> plain("feed"), originalUrl |-> plain("feed"),
           resolvedUrl |-> None, websiteUrl |-> None, title |-> spelled("news", "spaced"),
           language |-> spelled("en", "regional"), publisher |-> None, description |-> None,
           categories |-> {}, artworkUrl |-> None, fingerprint |-> None, identity |-> None,
           updatedAt |-> None]

\* Candidates that someone wrote down, one with the identity it had at another address
MCListed ==
    {listed,
     [listed EXCEPT !.originalUrl = plain("old"), !.canonicalUrl = None, !.websiteUrl = plain("site")],
     [listed EXCEPT !.identity = [primaryKey |-> plain("old"), normalizedUrl |-> plain("old"),
                                  feedGuid |-> None, confidence |-> 60]]}

well == [successRate |-> 1000, failureRate |-> 0, providerAvailability |-> 1000,
         syncDuration |-> 1000, downloadTime |-> 200, importTime |-> 10, checkpointAge |-> 1,
         freshness |-> 1, metadataChanges |-> 0]

MCAssessed ==
    {HealthJob(m) : m \in
        {well, [well EXCEPT !.providerAvailability = 900], [well EXCEPT !.providerAvailability = 50],
         [well EXCEPT !.successRate = 650, !.providerAvailability = 740], [well EXCEPT !.failureRate = 50],
         [well EXCEPT !.successRate = 1200, !.freshness = 20],
         [well EXCEPT !.successRate = 800, !.failureRate = 210, !.syncDuration = 6000],
         [well EXCEPT !.successRate = 450, !.checkpointAge = 30, !.metadataChanges = 11],
         [well EXCEPT !.successRate = 300, !.failureRate = 260, !.providerAvailability = 400],
         [well EXCEPT !.successRate = 300, !.importTime = 2000, !.downloadTime = 30000],
         [successRate |-> 900]}}
    \cup {Monitoring(record) : record \in
            [synced : {None, 30}, active : BOOLEAN, status : {"ACTIVE", "SYNC_FAILED"}]}
    \cup {[HealthJob(well) EXCEPT !.feed = FALSE], [HealthJob(well) EXCEPT !.previous = 100],
          [HealthJob(well) EXCEPT !.metrics = None]}

MCSpellings ==
    States \cup {"DRAFT", "PENDING", "SUCCESS", "FAILED", "FAILURE", "CREATED", "ERROR", "INACTIVE"}

MCStandard == <<"queue", "worker", "job">>
=============================================================================
