------------------------------ MODULE ApiTables ------------------------------
(***************************************************************************)
(* The tables of prisma/schema.prisma that the API's services read and     *)
(* write, with the constraints PostgreSQL holds them to, and the requests  *)
(* that are in flight.  A request is a sequence of awaited queries: each   *)
(* is one step, and the steps of different requests interleave.            *)
(***************************************************************************)
EXTENDS Absent, Naturals, FiniteSets

CONSTANTS
    Requests,    \* requests to the API
    Users,       \* ids of users, never used twice
    Rows,        \* ids of all other rows, never used twice
    Emails,
    Secrets,     \* passwords; a hash is the password it is of
    NewSecrets,  \* the ones that are set
    Urls,        \* of feeds
    Slugs,       \* strings that callers write, besides the ones of Imported
    Admins,      \* users whose role is admin
    MaxSecond    \* bound on the clock

VARIABLES
    users,       \* User: the row of each id, None while or when there is none
    profiles,    \* Profile: how many each user has
    rows,        \* Channel, Podcast, Episode, Playlist, Bookmark, ListeningHistory, Tag, Category
    made,        \* ids that have been given out
    second,      \* Date.now(), in the seconds of a token's iat
    calls        \* the requests

apiVars == <<users, profiles, rows, made, second, calls>>

\* A refresh token: two that are signed for one user in one second are one string.
Tokens == [user : Users, at : 0..MaxSecond]

UserRow == [email : Emails, secret : Secrets \cup {None}, token : Tokens \cup {None}]

\* The slug of the channel that feeds.create makes for an owner who has none: a string that
\* anybody may choose as well
Imported(user) == <<"imported-feeds", user>>

\* The column that @unique is about: the slug, and of a podcast the rssUrl.  The slug of
\* a podcast ends in the time and is taken to be new.
Keyed == {"channel", "podcast", "episode", "tag", "category"}
Names == Slugs \cup {Imported(u) : u \in Users}
Keys == Names \cup Urls

Owned == {"channel", "playlist", "bookmark", "history"}

\* The table that a required relation refers to
ParentOf == [podcast |-> "channel", episode |-> "podcast", bookmark |-> "episode",
             history |-> "episode"]

Row == [table : Keyed \cup Owned, owner : Users \cup {None}, parent : Rows \cup {None},
        key : Keys \cup {None}]

ASSUME IdAssumption == Users \cap Rows = {} /\ None \notin Users \cup Rows

\* A row has the columns of its table.
WellFormed(row) ==
    /\ row.table \in Owned <=> row.owner # None
    /\ row.table \in DOMAIN ParentOf <=> row.parent # None
    /\ row.table \in Keyed <=> row.key # None

HasEmail(email) == \E u \in Users : users[u] # None /\ users[u].email = email

\* Another row of the table has the key.
Taken(row, self) ==
    /\ row.table \in Keyed
    /\ \E r \in Rows \ {self} :
           rows[r] # None /\ rows[r].table = row.table /\ rows[r].key = row.key

\* The rows that the new row refers to are there.
Refers(row) ==
    /\ row.table \in Owned => users[row.owner] # None
    /\ row.table \in DOMAIN ParentOf =>
           rows[row.parent] # None /\ rows[row.parent].table = ParentOf[row.table]

\* A row that others refer to is not deleted: no relation of the schema cascades.
Referred(r) == \E other \in Rows : rows[other] # None /\ rows[other].parent = r

UserReferred(u) ==
    profiles[u] > 0 \/ \E r \in Rows : rows[r] # None /\ rows[r].owner = u

NewUser == CHOOSE u \in Users : u \notin made
NewRow == CHOOSE r \in Rows : r \notin made

\* A run never uses up its ids.
UserIdLeft == Users \ made # {}
RowIdLeft == Rows \ made # {}

-----------------------------------------------------------------------------
\* A request: what it asks, where it is, what it has read, and what it is answered.
\* before: the requests that had ended when it began; held: of a creation of a feed, whether
\* a channel of somebody else had the slug it may need then.
Ops == {"register", "login", "refresh", "createUser", "updateUser", "removeUser",
        "updateProfile", "create", "change", "remove", "createFeed", "importFeed"}

Request(op) ==
    [op |-> op, at |-> "done", actor |-> None, target |-> None, key |-> None, secret |-> None,
     row |-> None, read |-> None, token |-> None, answer |-> None, held |-> FALSE,
     before |-> {d \in Requests : calls[d].at = "done"}]

Idle == [op |-> None, at |-> "new", actor |-> None, target |-> None, key |-> None,
         secret |-> None, row |-> None, read |-> None, token |-> None, answer |-> None,
         held |-> FALSE, before |-> {}]

Answers == {"ok", "conflict", "unauthorized", "forbidden", "notFound", "imported",
            "taken", "broken", "missing"}   \* these three are errors of the database

ASSUME ValueAssumption ==
    /\ IsFiniteSet(Requests) /\ MaxSecond \in Nat
    /\ NewSecrets \subseteq Secrets
    /\ None \notin Emails \cup Secrets \cup Keys
    /\ None \notin UserRow \cup Row \cup Tokens \cup Ops \cup Answers

\* c begins and awaits a query.
Begins(c, request, at) == calls' = [calls EXCEPT ![c] = [request EXCEPT !.at = at]]

\* c is answered without awaiting another query.
Refused(c, request, answer) == calls' = [calls EXCEPT ![c] = [request EXCEPT !.answer = answer]]

Goes(c, at) == calls' = [calls EXCEPT ![c].at = at]
Ends(c, answer) == calls' = [calls EXCEPT ![c].at = "done", ![c].answer = answer]

TablesTypeOK ==
    /\ users \in [Users -> UserRow \cup {None}]
    /\ profiles \in [Users -> 0..Cardinality(Requests) + 1]
    /\ rows \in [Rows -> Row \cup {None}]
    /\ \A r \in Rows : rows[r] # None => WellFormed(rows[r])
    /\ made \subseteq Users \cup Rows
    /\ second \in 0..MaxSecond
    /\ \A c \in Requests :
           /\ calls[c].at # "new" => calls[c].op \in Ops
           /\ calls[c].at = "done" => calls[c].answer \in Answers

\* Neither of two requests had ended when the other began.
Overlap(c, d) == c # d /\ c \notin calls[d].before /\ d \notin calls[c].before
                 /\ calls[c].at # "new" /\ calls[d].at # "new"
=============================================================================
