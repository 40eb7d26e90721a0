----------------------------- MODULE ApiServices -----------------------------
(***************************************************************************)
(* The services behind the API and the realtime server.  They share no     *)
(* table, map or room with one another, but for the users that own rows:   *)
(* a behaviour is of one of them, and the others stay as they are.         *)
(* Accounts and the catalog work on the same tables.                       *)
(***************************************************************************)
EXTENDS Accounts, Catalog, SearchRequests, MediaUploads, RealtimeRooms, Notices

CONSTANTS Served, InitialUsers, InitialProfiles, InitialRows

VARIABLE serving

vars == <<apiVars, packageVars, searchVars, mediaVars, realtimeVars, noticeVars, serving>>

ApiAssumption ==
    /\ InitialUsers \in [Users -> UserRow \cup {None}]
    /\ InitialProfiles \in [Users -> {0, 1}]
    /\ \A u \in Users : InitialProfiles[u] = 1 => InitialUsers[u] # None
    /\ InitialRows \in [Rows -> Row \cup {None}]
    /\ \A r \in Rows : InitialRows[r] # None => WellFormed(InitialRows[r])
    /\ Cardinality({u \in Users : InitialUsers[u] = None}) >= Cardinality(Requests)
    /\ Cardinality({r \in Rows : InitialRows[r] = None}) >= 2 * Cardinality(Requests)

ASSUME ApiAssumptionHolds == ApiAssumption
ASSUME SearchAssumptionHolds == SearchAssumption

Init ==
    /\ users = InitialUsers /\ profiles = InitialProfiles /\ rows = InitialRows
    /\ made = {u \in Users : InitialUsers[u] # None} \cup {r \in Rows : InitialRows[r] # None}
    /\ second = 0
    /\ calls = [c \in Requests |-> Idle]
    /\ PackageInit /\ SearchInit /\ MediaInit /\ RealtimeInit /\ NoticeInit
    /\ serving \in Served

ServeAccounts == serving = "accounts" /\ AccountsNext
                 /\ UNCHANGED <<packageVars, searchVars, mediaVars, realtimeVars, noticeVars, serving>>
ServeCatalog == serving = "catalog" /\ CatalogNext
                /\ UNCHANGED <<packageVars, searchVars, mediaVars, realtimeVars, noticeVars, serving>>
ServePackage == serving = "package" /\ PackageNext
                /\ UNCHANGED <<apiVars, searchVars, mediaVars, realtimeVars, noticeVars, serving>>
ServeSearch == serving = "search" /\ SearchNext
               /\ UNCHANGED <<apiVars, packageVars, mediaVars, realtimeVars, noticeVars, serving>>
ServeMedia == serving = "media" /\ MediaNext
              /\ UNCHANGED <<apiVars, packageVars, searchVars, realtimeVars, noticeVars, serving>>
ServeRealtime == serving = "realtime" /\ RealtimeNext
                 /\ UNCHANGED <<apiVars, packageVars, searchVars, mediaVars, noticeVars, serving>>
ServeNotices == serving = "notices" /\ NoticesNext
                /\ UNCHANGED <<apiVars, packageVars, searchVars, mediaVars, realtimeVars, serving>>

Next == \/ ServeAccounts \/ ServeCatalog \/ ServePackage
        \/ ServeSearch \/ ServeMedia \/ ServeRealtime \/ ServeNotices

Spec == Init /\ [][Next]_vars

\* What the services do not guard against by themselves goes wrong only when two requests
\* run side by side: an address or a feed's URL refused by the database after it was found
\* free, a row gone between its check and its write, a second profile of a user, a session
\* of a user that another registration replaced.
OnlyRacesGoWrong ==
    /\ TakenAddressNeedsARace /\ SecondProfileNeedsARace
    /\ RefusedFeedNeedsARace /\ MissingNeedsARace
    /\ SessionOfNobodyNeedsARace

\* The same of the tables as a whole: their rows keep their form meanwhile.
TablesHold == TablesTypeOK /\ PackageTypeOK /\ serving \in Served /\ OnlyRacesGoWrong

\* Uploads that stop halfway leave no row without its media and its job; and a session that
\* was dropped has lost no part but those it accepted while its last upload was on its way.
UploadsAreWhole == MediaTypeOK /\ AssetIsWhole /\ DroppedIsUploaded

\* What the services keep in lists: searches, the requests a limiter counts, no more than
\* it admits, and notifications.  The queue is of what calls were answered, what was put off
\* without a date is not forgotten, and what users are told in a digest is theirs.
ListsHold ==
    /\ SearchTypeOK /\ RealtimeTypeOK /\ NoticeTypeOK
    /\ WindowsHold /\ QueueIsEmptied /\ DigestsAreOwn
=============================================================================
