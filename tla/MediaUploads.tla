----------------------------- MODULE MediaUploads -----------------------------
(***************************************************************************)
(* MediaService of packages/media: an upload stores a thumbnail and the    *)
(* object, enqueues its processing and then writes the asset's row; a      *)
(* resumable upload collects parts in memory and ends in an upload.  The   *)
(* order of these awaited steps is what callers and the processor meet.    *)
(***************************************************************************)
EXTENDS Absent, Naturals, FiniteSets

CONSTANTS
    Uploads,     \* calls of upload and of completeResumableUpload
    Transfers,   \* sessions of resumable uploads
    MaxParts     \* bound on the parts of one

ASSUME MediaAssumption == MaxParts \in Nat \ {0} /\ None \notin Transfers \cup {"queued", "ready"}

VARIABLES
    transfer,    \* the sessions that are kept in memory
    upload,      \* the calls; the key of the object is new and is named by the call
    objects,     \* the media that the storage holds
    thumbnails,  \* and the thumbnails
    jobs,        \* the jobs that were enqueued: the queue never forgets one
    assets       \* the status of each asset's row

mediaVars == <<transfer, upload, objects, thumbnails, jobs, assets>>

\* An upload that is on its way
Underway == {"thumbnail", "object", "enqueue", "asset"}

\* parts: of a session, those it was given; of an upload, those it holds.  missed: the ones
\* its session was given while the upload was on its way.
MediaTypeOK ==
    /\ transfer \in [Transfers -> [at : {"none", "open", "gone"}, parts : 0..MaxParts]]
    /\ upload \in [Uploads -> [at : Underway \cup {"new", "done", "failed", "notFound"},
                               of : Transfers \cup {None}, parts : 0..MaxParts, missed : Nat]]
    /\ objects \subseteq Uploads /\ thumbnails \subseteq Uploads /\ jobs \subseteq Uploads
    /\ assets \in [Uploads -> {None, "queued", "ready"}]

MediaInit ==
    /\ transfer = [t \in Transfers |-> [at |-> "none", parts |-> 0]]
    /\ upload = [u \in Uploads |-> [at |-> "new", of |-> None, parts |-> 0, missed |-> 0]]
    /\ objects = {} /\ thumbnails = {} /\ jobs = {}
    /\ assets = [u \in Uploads |-> None]

UploadGoes(u, at) == upload' = [upload EXCEPT ![u].at = at]

Joined(t, parts) == [at |-> "thumbnail", of |-> t, parts |-> parts, missed |-> 0]

StartUpload(u) ==
    /\ upload[u].at = "new"
    /\ upload' = [upload EXCEPT ![u] = Joined(None, 1)]
    /\ UNCHANGED <<transfer, objects, thumbnails, jobs, assets>>

\* createResumableUpload; what it says of the size and of its end is never looked at.
StartTransfer(t) ==
    /\ transfer[t].at = "none"
    /\ transfer' = [transfer EXCEPT ![t].at = "open"]
    /\ UNCHANGED <<upload, objects, thumbnails, jobs, assets>>

\* appendResumableUploadPart: accepted while the session is kept, also while its parts have
\* been joined and are being uploaded.
AppendPart(t) ==
    /\ transfer[t].at = "open" /\ transfer[t].parts < MaxParts
    /\ transfer' = [transfer EXCEPT ![t].parts = @ + 1]
    /\ upload' = [u \in Uploads |->
                      IF upload[u].of = t /\ upload[u].at \in Underway
                      THEN [upload[u] EXCEPT !.missed = @ + 1] ELSE upload[u]]
    /\ UNCHANGED <<objects, thumbnails, jobs, assets>>

\* Mutant: the session is dropped before its upload is awaited.
CompleteAtOnce(u) ==
    /\ upload[u].at = "new"
    /\ \E t \in Transfers :
           IF transfer[t].at = "open"
           THEN /\ upload' = [upload EXCEPT ![u] = Joined(t, transfer[t].parts)]
                /\ transfer' = [transfer EXCEPT ![t].at = "gone"]
           ELSE UploadGoes(u, "notFound") /\ UNCHANGED transfer
    /\ UNCHANGED <<objects, thumbnails, jobs, assets>>

\* completeResumableUpload: the parts that are there are joined, and uploaded.
CompleteTransfer(u) ==
    /\ upload[u].at = "new"
    /\ \E t \in Transfers :
           IF transfer[t].at = "open"
           THEN upload' = [upload EXCEPT ![u] = Joined(t, transfer[t].parts)]
           ELSE UploadGoes(u, "notFound")
    /\ UNCHANGED <<transfer, objects, thumbnails, jobs, assets>>

\* extractMetadata stores a thumbnail, whatever the media is.
StoreThumbnail(u) ==
    /\ upload[u].at = "thumbnail"
    /\ thumbnails' = thumbnails \cup {u}
    /\ UploadGoes(u, "object")
    /\ UNCHANGED <<transfer, objects, jobs, assets>>

StoreObject(u) ==
    /\ upload[u].at = "object"
    /\ objects' = objects \cup {u}
    /\ UploadGoes(u, "enqueue")
    /\ UNCHANGED <<transfer, thumbnails, jobs, assets>>

\* The job can be taken from here on.
Enqueue(u) ==
    /\ upload[u].at = "enqueue"
    /\ jobs' = jobs \cup {u}
    /\ UploadGoes(u, "asset")
    /\ UNCHANGED <<transfer, objects, thumbnails, assets>>

\* The row says "queued"; then a resumable session is dropped.
CreateAsset(u) ==
    /\ upload[u].at = "asset"
    /\ assets' = [assets EXCEPT ![u] = "queued"]
    /\ UploadGoes(u, "done")
    /\ transfer' = [t \in Transfers |-> IF t = upload[u].of THEN [transfer[t] EXCEPT !.at = "gone"]
                                                            ELSE transfer[t]]
    /\ UNCHANGED <<objects, thumbnails, jobs>>

\* The storage, the queue or the table fails: what was stored stays.
UploadFails(u) ==
    /\ upload[u].at \in Underway
    /\ UploadGoes(u, "failed")
    /\ UNCHANGED <<transfer, objects, thumbnails, jobs, assets>>

\* processJob: the update of a row that is not there is refused, and so is the job.
Process(u) ==
    /\ u \in jobs
    /\ assets' = [assets EXCEPT ![u] = IF assets[u] = None THEN None ELSE "ready"]
    /\ UNCHANGED <<transfer, upload, objects, thumbnails, jobs>>

MediaNext ==
    \/ \E u \in Uploads :
           \/ StartUpload(u) \/ CompleteTransfer(u) \/ StoreThumbnail(u) \/ StoreObject(u)
           \/ Enqueue(u) \/ CreateAsset(u) \/ UploadFails(u) \/ Process(u)
    \/ \E t \in Transfers : StartTransfer(t) \/ AppendPart(t)

-----------------------------------------------------------------------------
\* A row is of media and of a thumbnail that are stored, and its job has been enqueued:
\* what stops an upload halfway never leaves a row alone (MediaService.upload).
AssetIsWhole ==
    \A u \in Uploads : assets[u] # None => u \in objects /\ u \in thumbnails /\ u \in jobs

\* A session is dropped only after an upload of it ended well.  The parts that are lost with
\* it are counted exactly: those it accepted after that upload had joined the ones there were
\* (appendResumableUploadPart while completeResumableUpload awaits upload), and no other.
DroppedIsUploaded ==
    \A t \in Transfers : transfer[t].at = "gone" =>
        \E u \in Uploads : /\ upload[u].of = t /\ upload[u].at = "done" /\ assets[u] # None
                           /\ upload[u].parts + upload[u].missed = transfer[t].parts
=============================================================================
