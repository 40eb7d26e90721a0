---------------------------- MODULE SearchRequests ----------------------------
(***************************************************************************)
(* SearchService of the API: a search asks Meilisearch or PostgreSQL,      *)
(* records the query for its user and for analytics, and then collects     *)
(* suggestions.  Every step awaits, and each may fail.  Ranking and pages  *)
(* are left out: an engine's answer is the set of what it finds.           *)
(***************************************************************************)
EXTENDS Absent, Naturals, Sequences, SequencesExt

CONSTANTS
    Searches,    \* requests
    Searchers,   \* signed-in users
    Demands,     \* what they ask: a query under a filter
    Queries,     \* normalized
    Index,       \* what can be found, in the order in which titles are suggested
    Synonyms,    \* pairs of queries
    UseMeili,    \* MEILISEARCH_HOST is set
    Limit       \* of suggestions (8 in the code)

VARIABLES
    recents,     \* SearchRecentQuery: the queries of each user, the newest first
    analytics,   \* SearchAnalyticsEvent: a row is named by the search that made it
    search       \* the requests

searchVars == <<recents, analytics, search>>

\* What normalizeQuery leaves of blanks
NoQuery == ""

Types == {"podcast", "episode", "channel", "category"}

Documents == ToSet(Index)

Document == [title : STRING, type : Types, category : STRING \cup {None},
             channel : STRING \cup {None}, words : SUBSET Queries]

Filters == [type : Types \cup {None}, category : {d.category : d \in Documents} \cup {None},
            channel : {d.channel : d \in Documents} \cup {None}]

SearchAssumption == /\ Demands \subseteq [query : Queries, filters : Filters]
                    /\ Synonyms \subseteq Queries \X Queries /\ Limit \in Nat
                    /\ Index \in Seq(Document)
                    /\ \A i, j \in DOMAIN Index : i # j => Index[i].title # Index[j].title

NoFilter == [type |-> None, category |-> None, channel |-> None]

SearchTypeOK ==
    /\ \A u \in Searchers : recents[u] \in Seq(Queries \ {NoQuery}) /\ IsInjective(recents[u])
    /\ \A row \in analytics : row.by \in Searches /\ row.query \in Queries \ {NoQuery}
    /\ \A s \in Searches :
           /\ search[s].at \in {"new", "terms", "meili", "postgres", "recent", "analytics",
                                "complete", "suggest", "answered", "failed"}
           /\ search[s].results \subseteq Documents
           /\ Len(search[s].suggestions) <= Limit /\ IsInjective(search[s].suggestions)

SearchInit ==
    /\ recents = [u \in Searchers |-> <<>>]
    /\ analytics = {}
    /\ search = [s \in Searches |->
                    [at |-> "new", user |-> None, query |-> NoQuery, filters |-> NoFilter,
                     terms |-> {}, results |-> {}, suggestions |-> <<>>]]

\* expandSynonyms: the query and the other word of each synonym
Expanded(query) ==
    {query} \cup {pair[1] : pair \in {p \in Synonyms : p[2] = query}}
            \cup {pair[2] : pair \in {p \in Synonyms : p[1] = query}}

\* buildMeiliFilter is the same for all four indexes.
MeiliResults(terms, f) ==
    {d \in Documents : /\ d.words \cap terms # {}
                       /\ f.type # None => d.type = f.type
                       /\ f.category # None => d.category = f.category
                       /\ f.channel # None => d.channel = f.channel}

\* searchWithPostgres: the category narrows podcasts alone, the channel podcasts and
\* episodes; the synonyms are not used.
PostgresResults(query, f) ==
    {d \in Documents :
        /\ query \in d.words
        /\ f.type # None => d.type = f.type
        /\ (d.type = "podcast" /\ f.category # None) => d.category = f.category
        /\ (d.type \in {"podcast", "episode"} /\ f.channel # None) => d.channel = f.channel}

\* fetchTrending: the type is not looked at.
Trending(f) ==
    {d \in Documents :
        /\ (d.type = "podcast" /\ f.category # None) => d.category = f.category
        /\ (d.type = "episode" /\ f.channel # None) => d.channel = f.channel}

\* An upsert moves the query to the front: recents are read by createdAt, descending.
Recorded(queries, query) ==
    <<query>> \o Picked(queries, {i \in DOMAIN queries : queries[i] # query})

\* A Set keeps the first of equal suggestions; the answer is its first Limit.
Suggestions(titles, queries) ==
    LET all == titles \o Picked(queries, {i \in DOMAIN queries : ~Contains(titles, queries[i])})
    IN  SubSeq(all, 1, IF Len(all) < Limit THEN Len(all) ELSE Limit)

RecentOf(user) == IF user = None THEN <<>> ELSE recents[user]

\* The titles that complete a query
Titles(query, types) ==
    LET found == Picked(Index, {i \in DOMAIN Index : /\ query \in Index[i].words
                                                     /\ Index[i].type \in types})
    IN  [i \in DOMAIN found |-> found[i].title]

-----------------------------------------------------------------------------
Continues(s, at) == search' = [search EXCEPT ![s].at = at]

\* search: the empty query gets what is new, and is not recorded.
Ask(s) ==
    /\ search[s].at = "new"
    /\ \E user \in Searchers \cup {None}, demand \in Demands :
           search' = [search EXCEPT ![s] =
               [@ EXCEPT !.user = user, !.query = demand.query, !.filters = demand.filters,
                         !.at = IF demand.query = NoQuery THEN "suggest" ELSE "terms",
                         !.results = IF demand.query = NoQuery THEN Trending(demand.filters) ELSE {}]]
    /\ UNCHANGED <<recents, analytics>>

Expand(s) ==
    /\ search[s].at = "terms"
    /\ search' = [search EXCEPT ![s].terms = Expanded(search[s].query),
                                ![s].at = IF UseMeili THEN "meili" ELSE "postgres"]
    /\ UNCHANGED <<recents, analytics>>

\* Meilisearch failing is not the search failing.
AskMeili(s) ==
    /\ search[s].at = "meili"
    /\ \/ search' = [search EXCEPT ![s].results = MeiliResults(search[s].terms, search[s].filters),
                                   ![s].at = "recent"]
       \/ Continues(s, "postgres")
    /\ UNCHANGED <<recents, analytics>>

AskPostgres(s) ==
    /\ search[s].at = "postgres"
    /\ search' = [search EXCEPT ![s].results = PostgresResults(search[s].query, search[s].filters),
                                ![s].at = "recent"]
    /\ UNCHANGED <<recents, analytics>>

\* recordRecentSearch, for a signed-in user
RecordRecent(s) ==
    /\ search[s].at = "recent"
    /\ LET user == search[s].user
       IN  recents' = IF user = None THEN recents
                      ELSE [recents EXCEPT ![user] = Recorded(@, search[s].query)]
    /\ Continues(s, "analytics")
    /\ UNCHANGED analytics

\* Mutant: categories are not counted.
RecordSomeAnalytics(s) ==
    /\ search[s].at = "analytics"
    /\ analytics' = analytics \cup
           {[by |-> s, query |-> search[s].query, user |-> search[s].user,
             count |-> Cardinality({d \in search[s].results : d.type # "category"})]}
    /\ Continues(s, "complete")
    /\ UNCHANGED recents

\* recordSearchAnalytics, with the number of results
RecordAnalytics(s) ==
    /\ search[s].at = "analytics"
    /\ analytics' = analytics \cup {[by |-> s, query |-> search[s].query, user |-> search[s].user,
                                     count |-> Cardinality(search[s].results)]}
    /\ Continues(s, "complete")
    /\ UNCHANGED recents

\* autocomplete: Meilisearch looks at categories too, and falls back when it fails.
Complete(s) ==
    /\ search[s].at = "complete"
    /\ \E types \in {Types \ {"category"}} \cup (IF UseMeili THEN {Types} ELSE {}) :
           search' = [search EXCEPT ![s].suggestions =
                                        Suggestions(Titles(search[s].query, types),
                                                    RecentOf(search[s].user)),
                                    ![s].at = "suggest"]
    /\ UNCHANGED <<recents, analytics>>

\* getSuggestions reads the recent queries again, and the search is answered.
Suggest(s) ==
    /\ search[s].at = "suggest"
    /\ search' = [search EXCEPT ![s].suggestions = Suggestions(@, RecentOf(search[s].user)),
                                ![s].at = "answered"]
    /\ UNCHANGED <<recents, analytics>>

\* A query of PostgreSQL fails: so does the search, whatever it has found and recorded.
QueryFails(s) ==
    /\ search[s].at \in {"terms", "postgres", "recent", "analytics", "complete", "suggest"}
    /\ Continues(s, "failed")
    /\ UNCHANGED <<recents, analytics>>

SearchNext ==
    \E s \in Searches :
        \/ Ask(s) \/ Expand(s) \/ AskMeili(s) \/ AskPostgres(s) \/ RecordRecent(s)
        \/ RecordAnalytics(s) \/ Complete(s) \/ Suggest(s) \/ QueryFails(s)

-----------------------------------------------------------------------------
\* A search that was answered has been counted once, with the number of its results, and
\* its user finds the query among the recent ones and, unless enough titles complete it,
\* among the suggestions (search, recordRecentSearch, recordSearchAnalytics).
AnsweredIsRecorded ==
    \A s \in Searches :
        LET asked == search[s]
        IN  (asked.at = "answered" /\ asked.query # NoQuery) =>
               /\ {row.count : row \in {r \in analytics : r.by = s}} = {Cardinality(asked.results)}
               /\ asked.user # None =>
                      /\ Contains(recents[asked.user], asked.query)
                      /\ Contains(asked.suggestions, asked.query) \/ Len(asked.suggestions) = Limit
=============================================================================
