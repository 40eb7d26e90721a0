------------------------- MODULE FeedAdministration --------------------------
(***************************************************************************)
(* FeedsAdministrationService and FeedsService.remove                      *)
(* (apps/api/src/modules/feeds): the administrators' requests about one    *)
(* feed.  Requests about different feeds share nothing, so one row stands  *)
(* for all of them.                                                        *)
(*                                                                         *)
(* Every operation reads the podcast row, decides on what it read, and     *)
(* updates the row in a second query; other requests run in between.  No   *)
(* operation uses a database transaction.                                  *)
(*                                                                         *)
(* The editable metadata (title, description, tags and so on) is left out. *)
(***************************************************************************)
EXTENDS LifecycleRules, TLC

CONSTANTS
    AdminRequests, \* the requests of a run
    Kinds,         \* the operations they may ask for
    NoRow,         \* podcast.findUnique returned null
    NoConfig,      \* configurationStore.get(feedId) === undefined
    Unset          \* a field the request does not mention

ASSUME KindsAssumption ==
    Kinds \subseteq {"enable", "disable", "archive", "unarchive", "reset",
                     "configure", "remove"}

VARIABLES
    row,        \* the podcast row
    config,     \* configurationStore.get(feedId)
    at,         \* where each request is
    kind,       \* what it asks for
    change,     \* the configuration a configure request asks for
    seen,       \* the row it read
    merged      \* nextConfiguration, computed from that row

adminVars == <<row, config, at, kind, change, seen, merged>>

\* No code in the repository sets syncStatus but create and reset: the
\* importer the column is for is not there yet.  A row may hold any value.
SyncStatuses == {"PENDING", "IMPORTING", "SUCCESS", "FAILED", "DISABLED"}

Row == [status : {"draft", "published", "archived"},
        syncStatus : SyncStatuses, isActive : BOOLEAN]

\* The two values of a configuration that mean isActive
Config == [sync : BOOLEAN, import : BOOLEAN]

Change == [sync : BOOLEAN \cup {Unset}, import : BOOLEAN \cup {Unset}]

ASSUME AbsenceAssumption == NoRow \notin Row /\ Unset \notin BOOLEAN

AdminTypeOK ==
    /\ row \in Row \cup {NoRow}
    /\ config \in Config \cup {NoConfig}
    /\ at \in [AdminRequests -> {"new", "read", "sync", "import", "write", "done", "failed"}]
    /\ kind \in [AdminRequests -> Kinds \cup {Unset}]
    /\ change \in [AdminRequests -> Change \cup {Unset}]
    /\ seen \in [AdminRequests -> Row \cup {NoRow}]
    /\ merged \in [AdminRequests -> Config \cup {NoConfig}]

AdminInit ==
    /\ row \in Row
    /\ config = NoConfig
    /\ at = [r \in AdminRequests |-> "new"]
    /\ kind = [r \in AdminRequests |-> Unset]
    /\ change = [r \in AdminRequests |-> Unset]
    /\ seen = [r \in AdminRequests |-> NoRow]
    /\ merged = [r \in AdminRequests |-> NoConfig]

Proceeds(r, label) == at' = [at EXCEPT ![r] = label]

------------------------------------------------------------------------------
(* What the operations make of the row they read *)

\* mapFeedState.  A feed that is enabled and neither importing nor failed is
\* READY, whatever it was before: no row is ACTIVE.
FeedState(p) ==
    CASE p.status = "archived"        -> "ARCHIVED"
      [] p.status # "archived" /\ p.syncStatus = "IMPORTING" -> "IMPORTING"
      [] p.status # "archived" /\ p.syncStatus = "FAILED"    -> "SYNC_FAILED"
      [] OTHER -> IF p.isActive THEN "READY" ELSE "DISABLED"

\* The state a request asks the lifecycle service to move to
Target == [enable |-> "ACTIVE", disable |-> "DISABLED", archive |-> "ARCHIVED",
           unarchive |-> "ACTIVE", reset |-> "READY"]

\* A request with nothing to do is answered at once ('already-enabled').
Settled(k, p) ==
    CASE k = "enable"    -> p.isActive
      [] k = "disable"   -> ~p.isActive
      [] k = "archive"   -> p.status = "archived"
      [] k = "unarchive" -> p.status # "archived"
      [] k = "reset"     -> FALSE

\* The update of row p by an enable that had read row s, and so on
Enabled(p, s) ==
    [p EXCEPT !.isActive = TRUE,
              !.status = IF s.status = "archived" THEN "draft" ELSE s.status]

Disabled(p, s) == [p EXCEPT !.isActive = FALSE, !.status = s.status]

Archived(p, s) == [p EXCEPT !.status = "archived"]

Unarchived(p, s) == [p EXCEPT !.status = "draft"]

Reset(p, s) == [p EXCEPT !.status = "draft", !.syncStatus = "PENDING", !.isActive = TRUE]

Updated(k, p, s) ==
    CASE k = "enable"    -> Enabled(p, s)
      [] k = "disable"   -> Disabled(p, s)
      [] k = "archive"   -> Archived(p, s)
      [] k = "unarchive" -> Unarchived(p, s)
      [] k = "reset"     -> Reset(p, s)

\* buildConfiguration: what was stored wins over the row.
Configuration(p) ==
    IF config # NoConfig THEN config ELSE [sync |-> p.isActive, import |-> p.isActive]

Named(new, old) == IF new = Unset THEN old ELSE new

Merge(c, ch) == [sync |-> Named(ch.sync, c.sync), import |-> Named(ch.import, c.import)]

------------------------------------------------------------------------------
(* The steps of a request r *)

\* podcast.findUnique; a missing row throws NotFoundException.
Find(r, k) ==
    /\ at[r] = "new"
    /\ kind' = [kind EXCEPT ![r] = k]
    /\ seen' = [seen EXCEPT ![r] = row]
    /\ Proceeds(r, IF row = NoRow THEN "failed" ELSE "read")
    /\ UNCHANGED <<row, config, change, merged>>

\* Mutant: the lifecycle service is asked, its refusal is not heeded.
DecideAnyway(r) ==
    /\ at[r] = "read"
    /\ kind[r] \in DOMAIN Target
    /\ Proceeds(r, IF Settled(kind[r], seen[r]) THEN "done" ELSE "write")
    /\ UNCHANGED <<row, config, kind, change, seen, merged>>

\* enable, disable, archive, unarchive, reset: transition() throws when the
\* lifecycle refuses, which ends the request.
Decide(r) ==
    /\ at[r] = "read"
    /\ kind[r] \in DOMAIN Target
    /\ Proceeds(r, CASE Settled(kind[r], seen[r]) -> "done"
                 [] OTHER -> IF Gate(FeedState(seen[r]), Target[kind[r]])
                             THEN "write" ELSE "failed")
    /\ UNCHANGED <<row, config, kind, change, seen, merged>>

\* podcast.update: a row that is gone makes it reject.  A reset drops the
\* stored configuration as well.
Write(r) ==
    /\ at[r] = "write"
    /\ kind[r] \in DOMAIN Target
    /\ IF row = NoRow
       THEN Proceeds(r, "failed") /\ UNCHANGED <<row, config>>
       ELSE /\ row' = Updated(kind[r], row, seen[r])
            /\ config' = IF kind[r] = "reset" THEN NoConfig ELSE config
            /\ Proceeds(r, "done")
    /\ UNCHANGED <<kind, change, seen, merged>>

\* FeedsService.remove: delete after the findUnique
Remove(r) ==
    /\ at[r] = "read"
    /\ kind[r] = "remove"
    /\ Proceeds(r, IF row = NoRow THEN "failed" ELSE "done")
    /\ row' = NoRow
    /\ UNCHANGED <<config, kind, change, seen, merged>>

\* updateConfiguration merges what the request names into what it found ...
Configure(r, ch) ==
    /\ at[r] = "read"
    /\ kind[r] = "configure"
    /\ change' = [change EXCEPT ![r] = ch]
    /\ merged' = [merged EXCEPT ![r] = Merge(Configuration(seen[r]), ch)]
    /\ Proceeds(r, "sync")
    /\ UNCHANGED <<row, config, kind, seen>>

\* ... updates isActive to one named value and then to the other, without the
\* lifecycle service; a field that is not named costs no query ...
SetActive(r, value, label) ==
    /\ \/ value = Unset /\ UNCHANGED row /\ Proceeds(r, label)
       \/ value # Unset /\ row = NoRow /\ UNCHANGED row /\ Proceeds(r, "failed")
       \/ /\ value # Unset /\ row # NoRow
          /\ row' = [row EXCEPT !.isActive = value]
          /\ Proceeds(r, label)
    /\ UNCHANGED <<config, kind, change, seen, merged>>

ConfigureSync(r) == at[r] = "sync" /\ SetActive(r, change[r].sync, "import")

ConfigureImport(r) == at[r] = "import" /\ SetActive(r, change[r].import, "write")

\* ... and stores the result, over what others stored meanwhile.
Store(r) ==
    /\ at[r] = "write"
    /\ kind[r] = "configure"
    /\ config' = merged[r]
    /\ Proceeds(r, "done")
    /\ UNCHANGED <<row, kind, change, seen, merged>>

AdminStep(r) ==
    \/ Decide(r)
    \/ Write(r)
    \/ Remove(r)
    \/ \E ch \in Change : Configure(r, ch)
    \/ ConfigureSync(r)
    \/ ConfigureImport(r)
    \/ Store(r)

AdminEnds ==
    /\ \A r \in AdminRequests : at[r] \in {"done", "failed"}
    /\ UNCHANGED adminVars

AdminNext ==
    \/ \E r \in AdminRequests : AdminStep(r) \/ \E k \in Kinds : Find(r, k)
    \/ AdminEnds

AdminSpec == AdminInit /\ [][AdminNext]_adminVars

\* The requests are alike.
AdminSymmetry == Permutations(AdminRequests)

------------------------------------------------------------------------------
(* Properties *)

\* A request to archive or to restore a feed that is there does so: what the
\* routes promise ('Archive a feed without removing it', 'Restore an archived
\* feed').  The lifecycle refuses it in every state a row can be in.
ArchivingWorks ==
    [][\A r \in AdminRequests :
           Decide(r) /\ kind[r] \in {"archive", "unarchive"} => at'[r] # "failed"]_adminVars

\* An administrator's request activates or deactivates a feed only when the
\* lifecycle, asked at the moment of the update, allows it: the row the request
\* decided on may be old by then, and configurations are stored in between.
ActivationGated ==
    [][\A r \in AdminRequests :
           Write(r) /\ row # NoRow /\ row'.isActive # row.isActive
               => Gate(FeedState(row), IF row'.isActive THEN "ACTIVE" ELSE "DISABLED")]_adminVars
==============================================================================
