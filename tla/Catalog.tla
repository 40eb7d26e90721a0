------------------------------- MODULE Catalog -------------------------------
(***************************************************************************)
(* The services of channels, podcasts and feeds, episodes, playlists,      *)
(* bookmarks, listening history, tags and categories.  They share one      *)
(* form: create writes at once; update and remove find the row, check who  *)
(* asks, and write it by its id after another await.                       *)
(***************************************************************************)
EXTENDS ApiTables

onlyRequests == UNCHANGED <<users, profiles, rows, made, second>>

\* Who may create, change and remove a row of each table: whoever the controller lets
\* through, the owner (or an admin), or nobody, for want of such an operation.
Rules(create, change, remove) == [create |-> create, change |-> change, remove |-> remove]

ChannelRules == Rules("anybody", "owner", "owner")
PlaylistRules == Rules("owner", "owner", "owner")
BookmarkRules == Rules("owner", "nobody", "owner")
HistoryRules == Rules("owner", "nobody", "owner")
EpisodeRules == Rules("anybody", "anybody", "anybody")
TagRules == Rules("anybody", "anybody", "anybody")
CategoryRules == Rules("anybody", "anybody", "anybody")
PodcastRules == Rules("nobody", "nobody", "anybody")

RulesOf ==
    [channel |-> ChannelRules, playlist |-> PlaylistRules, bookmark |-> BookmarkRules,
     history |-> HistoryRules, episode |-> EpisodeRules, tag |-> TagRules,
     category |-> CategoryRules, podcast |-> PodcastRules]

Permitted(row, actor, op) ==
    RulesOf[row.table][op] = "owner" => row.owner = actor \/ actor \in Admins

\* The slug of a channel is any string: that of the channel of somebody's imported feeds too.
NamesOf(table) == IF table = "channel" THEN Names ELSE Slugs

\* What each create can be given.  A channel may be made for somebody else.
NewRows ==
    LET of(table, owners, keys) ==
            [table : {table}, owner : owners, key : keys,
             parent : IF table \in DOMAIN ParentOf
                      THEN {r \in made \cap Rows :
                                rows[r] # None => rows[r].table = ParentOf[table]}
                      ELSE {None}]
    IN  of("channel", made \cap Users, Names) \cup of("playlist", made \cap Users, {None})
        \cup of("bookmark", made \cap Users, {None}) \cup of("history", made \cap Users, {None})
        \cup of("episode", {None}, Slugs) \cup of("tag", {None}, Slugs)
        \cup of("category", {None}, Slugs)

Inserted(row) ==
    /\ RowIdLeft
    /\ rows' = [rows EXCEPT ![NewRow] = row]
    /\ made' = made \cup {NewRow}

\* create of the seven services
CreateRow(c) ==
    /\ calls[c].at = "new"
    /\ \E row \in NewRows, actor \in made \cap Users :
           LET request == [Request("create") EXCEPT !.actor = actor, !.key = row.key]
           IN  IF ~Permitted(row, actor, "create")
               THEN Refused(c, request, "forbidden") /\ UNCHANGED <<rows, made>>
               ELSE IF Taken(row, None) THEN Refused(c, request, "taken") /\ UNCHANGED <<rows, made>>
               ELSE IF ~Refers(row) THEN Refused(c, request, "broken") /\ UNCHANGED <<rows, made>>
               ELSE Refused(c, [request EXCEPT !.row = NewRow], "ok") /\ Inserted(row)
    /\ UNCHANGED <<users, profiles, second>>

\* findUnique and the check of the owner, of update and remove
Find(c) ==
    /\ calls[c].at = "new"
    /\ \E r \in made \cap Rows, actor \in made \cap Users, op \in {"change", "remove"},
          key \in Names \cup {None} :
           LET request == [Request(op) EXCEPT !.row = r, !.actor = actor, !.key = key]
           IN  /\ key \in IF op = "change" /\ rows[r] # None THEN NamesOf(rows[r].table) ELSE {None}
               /\ IF rows[r] = None THEN Refused(c, request, "notFound")
                  ELSE /\ RulesOf[rows[r].table][op] # "nobody"
                       /\ IF Permitted(rows[r], actor, op) THEN Begins(c, request, "write")
                          ELSE Refused(c, request, "forbidden")
    /\ onlyRequests

\* feeds.triggerImport answers that it has imported, and imports nothing.
TriggerImport(c) ==
    /\ calls[c].at = "new"
    /\ \E r \in made \cap Rows :
           /\ rows[r] # None => rows[r].table = "podcast"
           /\ Refused(c, [Request("importFeed") EXCEPT !.row = r],
                      IF rows[r] = None THEN "notFound" ELSE "imported")
    /\ onlyRequests

\* update by id
Change(c) ==
    /\ calls[c].at = "write" /\ calls[c].op = "change"
    /\ LET r == calls[c].row
           row == rows[r]
           changed == IF row.table \in Keyed THEN [row EXCEPT !.key = calls[c].key] ELSE row
       IN  IF row = None THEN Ends(c, "missing") /\ rows' = rows
           ELSE IF Taken(changed, r) THEN Ends(c, "taken") /\ rows' = rows
           ELSE Ends(c, "ok") /\ rows' = [rows EXCEPT ![r] = changed]
    /\ UNCHANGED <<users, profiles, made, second>>

\* delete by id: refused while another row refers to it.
Delete(c) ==
    /\ calls[c].at = "write" /\ calls[c].op = "remove"
    /\ LET r == calls[c].row
       IN  IF rows[r] = None THEN Ends(c, "missing") /\ rows' = rows
           ELSE IF Referred(r) THEN Ends(c, "broken") /\ rows' = rows
           ELSE Ends(c, "ok") /\ rows' = [rows EXCEPT ![r] = None]
    /\ UNCHANGED <<users, profiles, made, second>>

\* A channel of somebody else has the slug that the channel of u's imported feeds would have.
SlugHeld(u) ==
    \E r \in Rows : /\ rows[r] # None /\ rows[r].table = "channel"
                    /\ rows[r].key = Imported(u) /\ rows[r].owner # u

\* Mutant: the feed is made without looking for its URL.
CreateFeedUnseen(c) ==
    /\ calls[c].at = "new"
    /\ \E url \in Urls, actor \in made \cap Users :
           Begins(c, [Request("createFeed") EXCEPT !.actor = actor, !.key = url,
                                                   !.held = SlugHeld(actor)], "channel")
    /\ onlyRequests

\* feeds.create: a feed whose URL is known is answered as it is.
CreateFeed(c) ==
    /\ calls[c].at = "new"
    /\ \E url \in Urls, actor \in made \cap Users :
           LET request == [Request("createFeed") EXCEPT !.actor = actor, !.key = url,
                                                        !.held = SlugHeld(actor)]
           IN  IF \E r \in Rows : rows[r] # None /\ rows[r].table = "podcast" /\ rows[r].key = url
               THEN Refused(c, request, "ok")
               ELSE Begins(c, request, "channel")
    /\ onlyRequests

\* Any channel of the actor, or a new one
FindChannel(c) ==
    /\ calls[c].at = "channel"
    /\ LET own == {r \in Rows : rows[r] # None /\ rows[r].table = "channel"
                                /\ rows[r].owner = calls[c].actor}
       IN  \/ \E r \in own : calls' = [calls EXCEPT ![c].row = r, ![c].at = "podcast"]
           \/ own = {} /\ Goes(c, "newChannel")
    /\ onlyRequests

InsertChannel(c) ==
    /\ calls[c].at = "newChannel"
    /\ LET actor == calls[c].actor
           row == [table |-> "channel", owner |-> actor, parent |-> None, key |-> Imported(actor)]
       IN  IF Taken(row, None) THEN Ends(c, "taken") /\ UNCHANGED <<rows, made>>
           ELSE IF ~Refers(row) THEN Ends(c, "broken") /\ UNCHANGED <<rows, made>>
           ELSE /\ Inserted(row)
                /\ calls' = [calls EXCEPT ![c].row = NewRow, ![c].at = "podcast"]
    /\ UNCHANGED <<users, profiles, second>>

\* The channel may have been removed since it was found.
InsertPodcast(c) ==
    /\ calls[c].at = "podcast"
    /\ LET row == [table |-> "podcast", owner |-> None, parent |-> calls[c].row,
                   key |-> calls[c].key]
       IN  IF Taken(row, None) THEN Ends(c, "taken") /\ UNCHANGED <<rows, made>>
           ELSE IF ~Refers(row) THEN Ends(c, "broken") /\ UNCHANGED <<rows, made>>
           ELSE Inserted(row) /\ Ends(c, "ok")
    /\ UNCHANGED <<users, profiles, second>>

CatalogNext ==
    \E c \in Requests :
        \/ CreateRow(c) \/ TriggerImport(c) \/ Find(c) \/ Change(c) \/ Delete(c)
        \/ CreateFeed(c) \/ FindChannel(c) \/ InsertChannel(c) \/ InsertPodcast(c)

-----------------------------------------------------------------------------
\* Creating a feed is refused for its URL only when another creation for that URL ran beside
\* it (feeds.create looks for it first); for the slug of its channel only when another creation
\* of that actor ran beside it, or somebody chose that very slug, beside it or before for a
\* channel of theirs; for a channel that is gone only when a removal ran beside it, or when
\* the actor is gone.
RefusedFeedNeedsARace ==
    \A c \in Requests : calls[c].op = "createFeed" =>
        /\ calls[c].answer = "taken" /\ calls[c].row # None =>
               \E d \in Requests : /\ Overlap(c, d) /\ calls[d].op = "createFeed"
                                   /\ calls[d].key = calls[c].key
        /\ calls[c].answer = "taken" /\ calls[c].row = None =>
               \/ calls[c].held
               \/ \E d \in Requests :
                      /\ Overlap(c, d)
                      /\ \/ calls[d].op = "createFeed" /\ calls[d].actor = calls[c].actor
                         \/ /\ calls[d].op \in {"create", "change"} /\ calls[d].answer = "ok"
                            /\ calls[d].key = Imported(calls[c].actor)
        /\ calls[c].answer = "broken" =>
               \/ users[calls[c].actor] = None
               \/ \E d \in Requests : Overlap(c, d) /\ calls[d].op = "remove"

\* A row that was found is gone when it is written only if a removal of it ran beside
\* (update and remove of every service, feeds.remove).
MissingNeedsARace ==
    \A c \in Requests :
        (calls[c].op \in {"change", "remove"} /\ calls[c].answer = "missing")
        => \E d \in Requests : /\ Overlap(c, d) /\ calls[d].op = "remove"
                               /\ calls[d].row = calls[c].row /\ calls[d].answer = "ok"
=============================================================================
