------------------------------ MODULE FeedImport ------------------------------
(***************************************************************************)
(* ImportService (packages/rss/src/import): a feed is downloaded through a *)
(* provider, parsed, and stored as a podcast and its episodes.             *)
(*                                                                         *)
(* Several imports run at a time, and each awaits the server and the       *)
(* repositories between two steps.  The repositories are external.  As the *)
(* schema says, a podcast's feed URL and slug and an episode's guid are    *)
(* unique; the slug of what has no identity is made of the time, so an     *)
(* insertion of it may fail.                                               *)
(***************************************************************************)
EXTENDS FeedDocument, FiniteSets

------------------------------------------------------------------------------
(* Rules of packages/rss/src/network and packages/rss/src/providers: when a request is     *)
(* made again, which responses are good, and which provider a feed gets.                   *)

\* What one request ends in.  The default client sets no timeout and no signal; an
\* adapter may throw TimeoutError or CancellationError, and these are not retried.
Thrown == [status : {0}, type : {"timeout", "cancelled", "network"}]

Response == [status : 100..599, type : {"xml", "html", ""}]

RetryableStatus == {408, 429, 500, 502, 503, 504}

\* DefaultRetryPolicy.shouldRetry, of a GET
ShouldRetry(status, attempt, max) == attempt < max /\ status \in RetryableStatus

\* executeWithRetry: the request is made again after a delay.
Again(outcome, attempt, max) ==
    IF outcome \in Thrown
    THEN outcome.type = "network" /\ ShouldRetry(500, attempt, max)
    ELSE outcome.status >= 400 /\ ShouldRetry(outcome.status, attempt, max)

\* HttpResponseValidator.validate: a redirect without a location is good.
Good(response) == response.status \in 200..399 /\ response.type \in {"xml", ""}

\* HttpDownloadService.download answers ok.
Ok(outcome) == outcome \notin Thrown /\ Good(outcome)

\* A provider: own, it parses by itself; claims, the feeds whose host is one of its
\* domains ("*" matches no host); supports, the URLs it says it can read.
Provider(feeds) == [id : STRING, priority : Nat, capabilities : SUBSET {"rss", "atom"},
                    claims : SUBSET feeds, supports : SUBSET feeds, downloads : BOOLEAN,
                    own : BOOLEAN]

\* collectCandidates, for the capabilities that the import asks for
Candidates(registry, f) ==
    {i \in DOMAIN registry : registry[i].capabilities # {} /\ f \in registry[i].supports}

\* evaluateProvider: the host and the domain are the same, so a match counts twice.
Score(provider, f) ==
    provider.priority + (IF f \in provider.claims THEN 40 ELSE 0)
    + 5 * (IF "rss" \in provider.capabilities THEN 1 ELSE 0)
    + 5 * (IF "atom" \in provider.capabilities THEN 1 ELSE 0)

\* Candidates are looked for by capability, "rss" first, and within one by priority and
\* then by registration; the sort by score keeps that order.
Before(registry, f, i, j) ==
    LET p == registry[i]
        q == registry[j]
        rss(provider) == "rss" \in provider.capabilities
    IN  \/ Score(p, f) > Score(q, f)
        \/ /\ Score(p, f) = Score(q, f)
           /\ \/ rss(p) /\ ~rss(q)
              \/ rss(p) = rss(q) /\ p.priority > q.priority
              \/ rss(p) = rss(q) /\ p.priority = q.priority /\ i < j

\* ProviderResolver.resolve, when there are candidates
Winner(registry, f) ==
    registry[CHOOSE i \in Candidates(registry, f) :
                 \A j \in Candidates(registry, f) \ {i} : Before(registry, f, i, j)]

------------------------------------------------------------------------------
(* The import *)

CONSTANTS
    Importers,
    Feeds,
    Documents,    \* what the server of each feed may have
    Providers,    \* the registry of providers, in order of registration
    Outcomes,     \* what the requests of the default client may end in
    MaxRetries,   \* of DefaultRetryPolicy
    MaxVersion,   \* bound of the versions of a feed
    AwaitsMayFail

ASSUME ImportAssumption ==
    /\ MaxRetries \in Nat /\ MaxVersion \in Nat \ {0}
    /\ None \notin Nat
    /\ \A f \in Feeds : Documents[f] \subseteq Document
    /\ AwaitsMayFail \in BOOLEAN
    /\ Outcomes \subseteq Thrown \cup Response
    /\ \A f \in Feeds : Cardinality(Candidates(Providers, f)) \in Nat

VARIABLES
    served,    \* the document each server has, and its version
    podcasts,
    episodes,  \* by: history, the importer that stored it, and where it stood in the feed
    step,      \* where each importer is
    request,   \* what it was asked for
    attempt,   \* the requests it has made again
    parsed,    \* the feed it has parsed
    known,     \* the id of the podcast it has found or stored
    looking,   \* the duplicate strategy it is at
    tally,     \* what it will report
    requests,  \* history: the requests it has made
    together   \* history: the importers that ran at the same time

importVars == <<served, podcasts, episodes, step, request, attempt, parsed, known, looking,
                tally, requests, together>>

\* The modes of a synchronization, which the engines pass on as they are
Modes == {"manual", "automatic", "incremental", "full", "validation", "preview", "dry-run",
          "custom"}

Request == [feed : Feeds, mode : Modes, dryRun : BOOLEAN, validateOnly : BOOLEAN]

Running == {"resolving", "requesting", "downloading", "findingById", "findingByUrl", "writing",
            "detecting", "creating", "reporting"}
Ended == {"imported", "refused", "rejected"}

Tally == [created : Nat, updated : 0..1, podcasts : 0..1, skipped : Nat]

NothingDone == [created |-> 0, updated |-> 0, podcasts |-> 0, skipped |-> 0]
NothingParsed == [title |-> None, feedId |-> None, episodes |-> <<>>]

ImportTypeOK ==
    /\ \A f \in Feeds : served[f].version \in 1..MaxVersion /\ served[f].doc \in Documents[f]
    /\ \A p \in podcasts :
           /\ p.id \in 1..Cardinality(podcasts) /\ p.rssUrl \in Feeds
           /\ p.slug \in FeedIds \cup {None} /\ p.title \in Titles \cup {None}
    /\ \A e \in episodes : e.podcast \in {p.id : p \in podcasts} /\ e.by \in Importers
    /\ step \in [Importers -> {"idle"} \cup Running \cup Ended]
    /\ \A c \in Importers : request[c] \in Request \cup {None}
    /\ attempt \in [Importers -> 0..MaxRetries]
    /\ known \in [Importers -> 1..Cardinality(podcasts) \cup {None}]
    /\ looking \in [Importers -> 1..3]
    /\ tally \in [Importers -> Tally]

ImportInit ==
    /\ \E initial \in [Feeds -> UNION {Documents[f] : f \in Feeds}] :
           /\ \A f \in Feeds : initial[f] \in Documents[f]
           /\ served = [f \in Feeds |-> [version |-> 1, doc |-> initial[f]]]
    /\ podcasts = {} /\ episodes = {}
    /\ step = [c \in Importers |-> "idle"]
    /\ request = [c \in Importers |-> None]
    /\ attempt = [c \in Importers |-> 0]
    /\ parsed = [c \in Importers |-> NothingParsed]
    /\ known = [c \in Importers |-> None]
    /\ looking = [c \in Importers |-> 1]
    /\ tally = [c \in Importers |-> NothingDone]
    /\ requests = [c \in Importers |-> 0]
    /\ together = {}

\* External: the publisher changes the feed.
FeedChanges(f, d) ==
    /\ served[f].version < MaxVersion /\ d # served[f].doc
    /\ served' = [served EXCEPT ![f] = [version |-> @.version + 1, doc |-> d]]
    /\ UNCHANGED <<podcasts, episodes, step, request, attempt, parsed, known, looking, tally,
                   requests, together>>

Goes(c, s) == step' = [step EXCEPT ![c] = s]

\* import is called
ImportBegins(c, r) ==
    /\ step[c] = "idle"
    /\ Goes(c, "resolving")
    /\ request' = [request EXCEPT ![c] = r]
    /\ together' = together \cup UNION {{<<c, d>>, <<d, c>>} : d \in
                                           {d \in Importers : step[d] \in Running}}
    /\ UNCHANGED <<served, podcasts, episodes, attempt, parsed, known, looking, tally, requests>>

ProviderOf(c) == Winner(Providers, request[c].feed)

\* The resolver throws when no provider reads the URL.  One that cannot download
\* makes the import answer without success.
Resolve(c) ==
    /\ step[c] = "resolving"
    /\ Goes(c, CASE Candidates(Providers, request[c].feed) = {} -> "rejected"
                 [] ~ProviderOf(c).downloads -> "refused"
                 [] ProviderOf(c).own -> "downloading"
                 [] OTHER -> "requesting")
    /\ UNCHANGED <<served, podcasts, episodes, request, attempt, parsed, known, looking, tally,
                   requests, together>>

\* A request of the generic provider's client, and whether it is made again
RequestEnds(c, outcome) ==
    /\ step[c] = "requesting"
    /\ requests' = [requests EXCEPT ![c] = @ + 1]
    /\ IF Again(outcome, attempt[c], MaxRetries)
       THEN attempt' = [attempt EXCEPT ![c] = @ + 1] /\ UNCHANGED step
       ELSE Goes(c, IF Ok(outcome) THEN "downloading" ELSE "rejected") /\ UNCHANGED attempt
    /\ UNCHANGED <<served, podcasts, episodes, request, parsed, known, looking, tally, together>>

\* The text is here: the generic provider looks at it, and the parser reads it.
Parse(c) ==
    LET doc == served[request[c].feed].doc
        feed == Normalized(doc, ProviderOf(c).own)
    IN  /\ step[c] = "downloading"
        /\ IF ~ProviderOf(c).own /\ (~LooksLikeFeed(doc) \/ Unreadable(doc))
           THEN Goes(c, "rejected") /\ UNCHANGED parsed
           ELSE /\ parsed' = [parsed EXCEPT ![c] = feed]
                /\ Goes(c, IF feed.feedId # None THEN "findingById" ELSE "findingByUrl")
        /\ UNCHANGED <<served, podcasts, episodes, request, attempt, known, looking, tally,
                       requests, together>>

\* shouldSkipPersistence.  A mode "dry-run" and an option skipPersistence are not looked at.
SkipsPersistence(r) == r.mode \in {"preview", "validation"} \/ r.dryRun \/ r.validateOnly

Found(c, rows, otherwise) ==
    IF rows = {} THEN Goes(c, otherwise) /\ UNCHANGED known
    ELSE /\ known' = [known EXCEPT ![c] = (CHOOSE p \in rows : TRUE).id]
         /\ Goes(c, IF SkipsPersistence(request[c]) THEN "imported" ELSE "writing")

\* findPodcast.  Nothing is stored that a lookup by provider or by canonical URL could find.
FindById(c) ==
    /\ step[c] = "findingById"
    /\ Found(c, {p \in podcasts : p.slug = parsed[c].feedId}, "findingByUrl")
    /\ UNCHANGED <<served, podcasts, episodes, request, attempt, parsed, looking, tally,
                   requests, together>>

FindByUrl(c) ==
    /\ step[c] = "findingByUrl"
    /\ Found(c, {p \in podcasts : p.rssUrl = request[c].feed},
             IF SkipsPersistence(request[c]) THEN "imported" ELSE "writing")
    /\ UNCHANGED <<served, podcasts, episodes, request, attempt, parsed, looking, tally,
                   requests, together>>

Distinct(row, rows) ==
    \A p \in rows : p.rssUrl # row.rssUrl /\ (row.slug # None => p.slug # row.slug)

NextEpisode(c, done) == IF done >= Len(parsed[c].episodes) THEN "reporting" ELSE "detecting"

\* The row that updatePodcast and createPodcast are given.  A feed whose text did not
\* parse has the default title.
Row(c, id) ==
    [id |-> id, rssUrl |-> request[c].feed, slug |-> parsed[c].feedId, title |-> parsed[c].title]

\* The transaction of the podcast.  What it awaited may have changed the table.
UpdatePodcast(c) ==
    LET others == {p \in podcasts : p.id # known[c]}
    IN  /\ step[c] = "writing" /\ known[c] # None
        /\ IF Distinct(Row(c, known[c]), others)
           THEN /\ podcasts' = others \cup {Row(c, known[c])}
                /\ tally' = [tally EXCEPT ![c].updated = 1]
                /\ Goes(c, NextEpisode(c, 0))
           ELSE Goes(c, "rejected") /\ UNCHANGED <<podcasts, tally>>
        /\ UNCHANGED <<served, episodes, request, attempt, parsed, known, looking, requests,
                       together>>

CreatePodcast(c) ==
    LET id == Cardinality(podcasts) + 1
    IN  /\ step[c] = "writing" /\ known[c] = None
        /\ IF Distinct(Row(c, id), podcasts)
           THEN /\ podcasts' = podcasts \cup {Row(c, id)}
                /\ known' = [known EXCEPT ![c] = id]
                /\ tally' = [tally EXCEPT ![c].podcasts = 1]
                /\ Goes(c, NextEpisode(c, 0))
           ELSE Goes(c, "rejected") /\ UNCHANGED <<podcasts, known, tally>>
        /\ UNCHANGED <<served, episodes, request, attempt, parsed, looking, requests, together>>

\* The episodes that this import is done with
Done(c) == tally[c].created + tally[c].skipped
Current(c) == parsed[c].episodes[Done(c) + 1]

\* Mutant: an episode without a guid is no duplicate.
MatchesByGuid(e, item, strategy) == strategy = 1 /\ item.guid # None /\ e.guid = item.guid

\* The strategies that look something up: guid, episodeUrl and mediaUrl.  An episode
\* without media is stored with the URL of the feed as its audio.
Matches(e, item, strategy) ==
    CASE strategy = 1 -> item.guid # None /\ e.guid = item.guid
      [] strategy = 2 -> item.url # None /\ e.url = item.url
      [] strategy = 3 -> item.media # None /\ e.media = item.media

\* Mutant: a duplicate is not counted.
DetectUncounted(c) ==
    /\ step[c] = "detecting"
    /\ IF \E e \in episodes : e.podcast = known[c] /\ Matches(e, Current(c), looking[c])
       THEN UNCHANGED <<step, looking>>
       ELSE /\ looking' = [looking EXCEPT ![c] = IF @ = 3 THEN 1 ELSE @ + 1]
            /\ Goes(c, IF looking[c] = 3 THEN "creating" ELSE "detecting")
    /\ UNCHANGED <<served, podcasts, episodes, request, attempt, parsed, known, tally, requests,
                   together>>

\* One lookup of detectEpisodeDuplicate
Detect(c) ==
    /\ step[c] = "detecting"
    /\ IF \E e \in episodes : e.podcast = known[c] /\ Matches(e, Current(c), looking[c])
       THEN /\ tally' = [tally EXCEPT ![c].skipped = @ + 1]
            /\ looking' = [looking EXCEPT ![c] = 1]
            /\ Goes(c, NextEpisode(c, Done(c) + 1))
       ELSE /\ looking' = [looking EXCEPT ![c] = IF @ = 3 THEN 1 ELSE @ + 1]
            /\ Goes(c, IF looking[c] = 3 THEN "creating" ELSE "detecting")
            /\ UNCHANGED tally
    /\ UNCHANGED <<served, podcasts, episodes, request, attempt, parsed, known, requests,
                   together>>

EpisodeRow(c) ==
    LET item == Current(c)
    IN  [podcast |-> known[c], guid |-> item.guid, url |-> item.url,
         media |-> IF item.media = None THEN request[c].feed ELSE item.media,
         by |-> c, at |-> Done(c) + 1]

\* The transaction of one episode
CreateEpisode(c) ==
    /\ step[c] = "creating"
    /\ IF Current(c).guid # None /\ \E e \in episodes : e.guid = Current(c).guid
       THEN Goes(c, "rejected") /\ UNCHANGED <<episodes, tally>>
       ELSE /\ episodes' = episodes \cup {EpisodeRow(c)}
            /\ tally' = [tally EXCEPT ![c].created = @ + 1]
            /\ Goes(c, NextEpisode(c, Done(c) + 1))
    /\ UNCHANGED <<served, podcasts, request, attempt, parsed, known, looking, requests, together>>

\* The hook of import-completed, which a preview does not come to
Report(c) ==
    /\ step[c] = "reporting"
    /\ Goes(c, "imported")
    /\ UNCHANGED <<served, podcasts, episodes, request, attempt, parsed, known, looking, tally,
                   requests, together>>

\* The resolver, the provider's download or parse, a repository or the hook of an event
\* rejects, at any await, and so does import.  What is stored stays.
AwaitFails(c) ==
    /\ AwaitsMayFail /\ step[c] \in Running
    /\ Goes(c, "rejected")
    /\ UNCHANGED <<served, podcasts, episodes, request, attempt, parsed, known, looking, tally,
                   requests, together>>

ImportSteps(c) ==
    \/ Resolve(c) \/ Parse(c)
    \/ \E outcome \in Outcomes : RequestEnds(c, outcome)
    \/ FindById(c) \/ FindByUrl(c)
    \/ UpdatePodcast(c) \/ CreatePodcast(c)
    \/ Detect(c) \/ CreateEpisode(c) \/ Report(c)
==============================================================================
