CONSTANTS
    None = None
    q1 = q1
    q2 = q2
    q3 = q3
    r1 = r1
    r2 = r2
    r3 = r3
    r4 = r4
    r5 = r5
    r6 = r6
    r7 = r7
    r8 = r8
    r9 = r9
    u1 = u1
    u2 = u2
    u3 = u3
    u4 = u4
    u5 = u5
    e1 = e1
    e2 = e2
    s1 = s1
    s2 = s2
    url1 = url1
    url2 = url2
    slug1 = slug1
    v1 = v1
    v2 = v2
    v3 = v3
    x1 = x1
    x2 = x2
    w1 = w1
    w2 = w2
    t1 = t1
    k1 = k1
    k2 = k2
    k3 = k3
    n1 = n1
    n2 = n2
    Requests = {q1, q2, q3}
    Users = {u1, u2, u3, u4, u5}
    Rows = {r1, r2, r3, r4, r5, r6, r7, r8, r9}
    Emails = {e1, e2}
    Secrets = {s1, s2}
    NewSecrets = {s1}
    Urls = {url1, url2}
    Slugs = {slug1}
    Admins = {u2}
    MaxSecond = 1
    InitialUsers <- MCUsers
    InitialProfiles <- MCProfiles
    InitialRows <- MCRows
    Callers = {v1, v2, v3}
    Addresses = {e1, e2}
    Passwords = {"p", "q"}
    Searches = {x1, x2}
    Searchers = {"ann"}
    Queries = {"", "a", "b"}
    Index <- MCIndex
    Synonyms <- MCSynonyms
    UseMeili = TRUE
    Demands <- MCDemands
    Limit = 2
    Uploads = {w1, w2}
    Transfers = {t1}
    MaxParts = 2
    Sockets = {k1, k2, k3}
    Listeners = {"ann"}
    RSessions = {"x"}
    Rooms = {"m"}
    MaxRequests = 2
    Window = 1
    MaxTick = 2
    Served = {"notices"}
    Notifiers = {n1, n2}
    Readers = {"ann", "bob"}
    NoticeDemands <- MCNoticeDemands
    Wishes <- MCWishes
SPECIFICATION Spec
SYMMETRY Symmetry
CHECK_DEADLOCK FALSE
INVARIANT DatedItemsWait
