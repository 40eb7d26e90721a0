SPECIFICATION FairSpec

CONSTANTS
    c1 = c1
    c2 = c2
    own = own
    plain = plain
    silent = silent
    g1 = g1
    u1 = u1
    u2 = u2
    t1 = t1
    id1 = id1
    None = None
    Bad = Bad
    Guids = {g1}
    Urls = {u1, u2}
    Titles = {t1}
    FeedIds = {id1}
    Importers = {c1, c2}
    Feeds = {own, plain, silent}
    Documents <- MCDocuments
    Providers <- MCProviders
    Outcomes <- MCOutcomes
    MaxRetries = 1
    MaxVersion = 2
    AwaitsMayFail = TRUE
    Calls <- MCCalls
    HasDownloader = TRUE

CHECK_DEADLOCK FALSE
INVARIANTS AnswersAreTrue EpisodesAccounted
PROPERTIES CallsSettle
