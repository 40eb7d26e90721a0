------------------------------- MODULE Notices -------------------------------
(***************************************************************************)
(* NotificationsService of the API: its table of notifications, and the    *)
(* preferences, templates and queue it has in memory.  A call awaits the   *)
(* table, and what follows is one step: also the pass over the queue, in   *)
(* which nothing is awaited and nothing is sent.                           *)
(***************************************************************************)
EXTENDS Absent, Naturals, Sequences, SequencesExt

CONSTANTS
    Notifiers,     \* calls
    Readers,       \* users
    NoticeDemands, \* what create is asked for
    Wishes         \* what setPreferences sets: the channels that are on

VARIABLES
    notices,       \* Notification: a row is named by the call that made it
    wishes,        \* preferences: the channels each user wants
    template,      \* a template of the name that calls use is registered
    noticeItems,   \* queueItems
    notice         \* the calls

noticeVars == <<notices, wishes, template, noticeItems, notice>>

Channels == {"in-app", "email", "push", "web-push"}

\* DEFAULT_PREFERENCES
Defaults == Channels \ {"web-push"}

\* normalizeChannel
NormalChannel(asked) ==
    CASE asked \in {"webpush", "web-push", "web_push"} -> "web-push"
      [] asked \in {"email", "push"} -> asked
      [] OTHER -> "in-app"

\* shouldDeliver
Admits(wanted, channel) == channel \in wanted

\* preferences: what the call brings along instead of its user's.  waits: queue or
\* scheduledAt.  dated: with scheduledAt, a time later than any here; no item keeps it, and
\* what is kept of it here is for the properties.
Demand(d) ==
    /\ d.preferences = None \/ d.preferences \subseteq Channels
    /\ d.channels \in Seq(STRING) /\ d.max \in Nat
    /\ d.waits \in BOOLEAN /\ d.named \in BOOLEAN
    /\ d.dated \in BOOLEAN /\ (d.dated => d.waits)

ASSUME NoticeAssumption ==
    /\ \A d \in NoticeDemands : Demand(d)
    /\ None \notin NoticeDemands
    /\ Wishes \subseteq SUBSET Channels

NoticeTypeOK ==
    /\ \A n \in notices :
           /\ n.by \in Notifiers /\ n.user \in Readers /\ n.read \in BOOLEAN
           /\ n.title \in {"template", "own", "digest"} /\ n.of \subseteq Notifiers
    /\ wishes \in [Readers -> SUBSET Channels]
    /\ template \in BOOLEAN
    /\ \A i \in DOMAIN noticeItems :
           /\ noticeItems[i].of \in Notifiers /\ noticeItems[i].channel \in Channels
           /\ noticeItems[i].status \in {"queued", "completed", "failed"}
           /\ noticeItems[i].dated \in BOOLEAN
    /\ \A c \in Notifiers :
           notice[c].at \in {"new", "creating", "digesting", "gathering", "marking",
                             "answered", "notFound", "failed"}

Uncalled == [at |-> "new", user |-> None, demand |-> None, admits |-> {}, title |-> "own",
             delivered |-> <<>>, skipped |-> <<>>, upTo |-> 0, about |-> {}, read |-> FALSE]

NoticeInit ==
    /\ notices = {}
    /\ wishes = [u \in Readers |-> Defaults]
    /\ template = FALSE
    /\ noticeItems = <<>>
    /\ notice = [c \in Notifiers |-> Uncalled]

\* setPreferences and registerTemplate, which await nothing
SetPreferences(u, on) ==
    /\ wishes' = [wishes EXCEPT ![u] = on]
    /\ UNCHANGED <<notices, template, noticeItems, notice>>

RegisterTemplate ==
    /\ ~template /\ template' = TRUE
    /\ UNCHANGED <<notices, wishes, noticeItems, notice>>

\* renderTemplate, whose null lets the call's own title stand
NoticeTitle(d) == IF d.named /\ template THEN "template" ELSE "own"

\* create and schedule up to the insertion: what the user wants is read now.
CreateNotice(c, u, d) ==
    /\ notice[c].at = "new"
    /\ notice' = [notice EXCEPT ![c] =
           [Uncalled EXCEPT !.at = "creating", !.user = u, !.demand = d,
                !.admits = IF d.preferences = None THEN wishes[u] ELSE d.preferences,
                !.title = NoticeTitle(d)]]
    /\ UNCHANGED <<notices, wishes, template, noticeItems>>

\* Mutant: a pass takes the first item that waits.
PassFirst(items) ==
    [i \in DOMAIN items |->
        IF items[i].status # "queued" \/ \E j \in 1..i - 1 : items[j].status = "queued"
        THEN items[i]
        ELSE [items[i] EXCEPT !.status = IF items[i].max >= 1 THEN "completed" ELSE "failed"]]

\* processQueue: each item that waits has its one attempt, whoever queued it and for when.
Pass(items) ==
    [i \in DOMAIN items |->
        IF items[i].status # "queued" THEN items[i]
        ELSE [items[i] EXCEPT !.status = IF items[i].max >= 1 THEN "completed" ELSE "failed"]]

NewNotice(c) ==
    [by |-> c, user |-> notice[c].user, read |-> FALSE, title |-> notice[c].title,
     of |-> notice[c].about]

\* create after the insertion.  Only a call that waits queues its channels; what another
\* one names as delivered is in no queue.
NoticeCreated(c) ==
    LET call == notice[c]
        asked == IF call.demand.channels = <<>> THEN <<"in-app">>
                 ELSE [i \in DOMAIN call.demand.channels |->
                          NormalChannel(call.demand.channels[i])]
        admitted == {i \in DOMAIN asked : Admits(call.admits, asked[i])}
        delivered == Picked(asked, admitted)
        queued == [i \in DOMAIN delivered |->
                      [of |-> c, channel |-> delivered[i], max |-> call.demand.max,
                       dated |-> call.demand.dated, status |-> "queued"]]
    IN  /\ call.at = "creating"
        /\ notices' = notices \cup {NewNotice(c)}
        /\ noticeItems' = IF call.demand.waits THEN noticeItems \o queued ELSE Pass(noticeItems)
        /\ notice' = [notice EXCEPT ![c] =
               [call EXCEPT !.at = "answered", !.delivered = delivered,
                    !.skipped = Picked(asked, DOMAIN asked \ admitted),
                    !.upTo = Len(noticeItems)]]
        /\ UNCHANGED <<wishes, template>>

\* markAsRead and markAsUnread: of anyone's notification.  Rows are never removed.
FindNotice(c, by, read) ==
    /\ notice[c].at = "new"
    /\ notice' = [notice EXCEPT ![c] =
           [Uncalled EXCEPT !.at = IF \E n \in notices : n.by = by THEN "marking" ELSE "notFound",
                            !.about = {by}, !.read = read]]
    /\ UNCHANGED <<notices, wishes, template, noticeItems>>

MarkNotice(c) ==
    /\ notice[c].at = "marking"
    /\ notices' = {IF n.by \in notice[c].about THEN [n EXCEPT !.read = notice[c].read] ELSE n :
                       n \in notices}
    /\ notice' = [notice EXCEPT ![c].at = "answered"]
    /\ UNCHANGED <<wishes, template, noticeItems>>

\* createDigest: the user's notifications among the ones that were named, then the row
AskDigest(c, u, named) ==
    /\ notice[c].at = "new"
    /\ notice' = [notice EXCEPT ![c] =
           [Uncalled EXCEPT !.at = "gathering", !.user = u, !.title = "digest", !.about = named]]
    /\ UNCHANGED <<notices, wishes, template, noticeItems>>

GatherDigest(c) ==
    LET call == notice[c]
        found == {n \in notices : n.by \in call.about /\ n.user = call.user}
    IN  /\ call.at = "gathering"
        /\ notice' = [notice EXCEPT ![c] =
               [call EXCEPT !.at = "digesting", !.about = {n.by : n \in found}]]
        /\ UNCHANGED <<notices, wishes, template, noticeItems>>

DigestCreated(c) ==
    /\ notice[c].at = "digesting"
    /\ notices' = notices \cup {NewNotice(c)}
    /\ notice' = [notice EXCEPT ![c].at = "answered"]
    /\ UNCHANGED <<wishes, template, noticeItems>>

\* A query fails, and the call with it.
NoticeFails(c) ==
    /\ notice[c].at \in {"creating", "marking", "gathering", "digesting"}
    /\ notice' = [notice EXCEPT ![c].at = "failed"]
    /\ UNCHANGED <<notices, wishes, template, noticeItems>>

NoticesNext ==
    \/ \E u \in Readers, on \in Wishes : SetPreferences(u, on)
    \/ RegisterTemplate
    \/ \E c \in Notifiers :
           \/ \E u \in Readers :
                  \/ \E d \in NoticeDemands : CreateNotice(c, u, d)
                  \/ \E named \in SUBSET (Notifiers \ {c}) : AskDigest(c, u, named)
           \/ \E by \in Notifiers \ {c}, read \in BOOLEAN : FindNotice(c, by, read)
           \/ NoticeCreated(c) \/ MarkNotice(c) \/ GatherDigest(c) \/ DigestCreated(c)
           \/ NoticeFails(c)

-----------------------------------------------------------------------------
\* A call that does not wait leaves nothing without a date waiting that was queued before it
\* was answered; and each item is of a row that is there, for the channels its call was
\* answered to have delivered, and for no other (create).
QueueIsEmptied ==
    \A c \in Notifiers :
        LET call == notice[c]
            own == {i \in DOMAIN noticeItems : noticeItems[i].of = c}
            created == call.at = "answered" /\ call.demand # None
        IN  /\ created /\ ~call.demand.waits =>
                   \A i \in 1..call.upTo :
                       noticeItems[i].dated \/ noticeItems[i].status # "queued"
            /\ Picked([i \in DOMAIN noticeItems |-> noticeItems[i].channel], own)
                   = IF created /\ call.demand.waits THEN call.delivered ELSE <<>>
            /\ own # {} => \E n \in notices : n.by = c /\ n.user = call.user
            /\ ToSet(call.delivered) \cap ToSet(call.skipped) = {}

\* A notification that is to go out at a later time waits for it: this is what the operation
\* POST notifications/schedule and the field scheduledAt of the API are named for, and what
\* schedule's default, a minute from now, is of use for.  The code does otherwise.
DatedItemsWait ==
    \A i \in DOMAIN noticeItems : noticeItems[i].dated => noticeItems[i].status = "queued"

\* A digest tells its user of notifications that were there and were the user's, whoever's
\* the request named (createDigest).
DigestsAreOwn ==
    \A n \in notices : n.title = "digest" =>
        n.of \subseteq {m.by : m \in {m \in notices : m.user = n.user}} \ {n.by}
=============================================================================
