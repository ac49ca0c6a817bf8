----------------------------- MODULE Retention -----------------------------
(***************************************************************************)
(* The objects of one event from the upload that stores them to the        *)
(* collector that erases them.  The database and the object store share no *)
(* transaction: the upload route stores an original before it inserts the  *)
(* photo, a worker stores both derivatives before it records their keys,   *)
(* and run_retention() hands over the keys the rows name.                  *)
(*                                                                         *)
(* The queue and its collectors are StorageGC.  Of the ingestion pipeline  *)
(* (IngestQueue) only the passes over a photograph remain; at most one     *)
(* worker is at a photograph.                                              *)
(***************************************************************************)
EXTENDS Naturals, FiniteSets

CONSTANTS
    Photos,  \* the photographs of the event
    Collectors, NoCollector, NoKey, MaxAttempts, BatchSize, Forever,
    MaxKills, MaxOverruns, ClaimBound

Original(p) == <<p, "original">>
Derivatives(p) == {<<p, "preview">>, <<p, "thumb">>}
Objects == UNION {{Original(p)} \cup Derivatives(p) : p \in Photos}

VARIABLES
    gone,      \* the event was deleted
    stored,    \* the photographs with a row in photos
    derived,   \* those whose row names preview_key and thumb_key
    upload,    \* where the upload request for a photograph is
    pass,      \* where the ingestion of a photograph is
    disturbed, \* an upload or a pass broke off, or was cut off by retention
    bucket, rowState, attempts, due, lockedBy, lease, pc, todo, cur, moved,
    kills, overruns

GC == INSTANCE StorageGC WITH Keys <- Objects, Unsafe <- {}

albumVars == <<gone, stored, derived, upload, pass, disturbed>>
queueVars == <<attempts, due, lockedBy, lease, pc, todo, cur, moved, kills, overruns>>
vars == <<albumVars, bucket, rowState, queueVars>>

OnRoad == {"claimed", "preview", "thumb", "recorded"}
InFlight(p) == upload[p] # "none" \/ pass[p] \in OnRoad

TypeOK ==
    /\ gone \in BOOLEAN
    /\ stored \subseteq Photos
    /\ derived \subseteq stored
    /\ upload \in [Photos -> {"none", "checked", "put"}]
    /\ pass \in [Photos -> OnRoad \cup {"none", "waiting", "done", "dead"}]
    /\ disturbed \in BOOLEAN
    /\ GC!TypeOK

Init ==
    /\ gone = FALSE
    /\ stored = {}
    /\ derived = {}
    /\ upload = [p \in Photos |-> "none"]
    /\ pass = [p \in Photos |-> "none"]
    /\ disturbed = FALSE
    /\ bucket = {}
    /\ GC!RowsInit

\* The collectors and their queue are not concerned, nothing breaks off.
Elsewhere == UNCHANGED <<rowState, queueVars>>
Smoothly == Elsewhere /\ UNCHANGED disturbed

-----------------------------------------------------------------------------
(* POST /api/events/[id]/upload *)

UploadAt(p, from, to) ==
    /\ upload[p] = from
    /\ upload' = [upload EXCEPT ![p] = to]

\* The event is looked up, long before anything is written.
CheckEvent(p) ==
    /\ ~gone
    /\ UploadAt(p, "none", "checked")
    /\ UNCHANGED <<gone, stored, derived, pass, bucket>>
    /\ Smoothly

\* storage().put(): the same photograph lands on the same key.
PutOriginal(p) ==
    /\ UploadAt(p, "checked", "put")
    /\ bucket' = bucket \cup {Original(p)}
    /\ UNCHANGED <<gone, stored, derived, pass>>
    /\ Smoothly

\* The transaction: photo and job, nothing when the photo is already there, and
\* a foreign key failure when the event is gone.
InsertPhoto(p) ==
    /\ UploadAt(p, "put", "none")
    /\ IF gone \/ p \in stored
       THEN UNCHANGED <<stored, pass>>
       ELSE /\ stored' = stored \cup {p}
            /\ pass' = [pass EXCEPT ![p] = "waiting"]
    /\ UNCHANGED <<gone, derived, bucket>>
    /\ Smoothly

\* put() raises, the connection drops or the server goes down.
UploadFails(p) ==
    /\ upload[p] # "none"
    /\ UploadAt(p, upload[p], "none")
    /\ disturbed' = TRUE
    /\ UNCHANGED <<gone, stored, derived, pass, bucket>>
    /\ Elsewhere

-----------------------------------------------------------------------------
(* process_one() *)

PassAt(p, from, to) ==
    /\ pass[p] = from
    /\ pass' = [pass EXCEPT ![p] = to]

ClaimPhoto(p) ==
    /\ PassAt(p, "waiting", "claimed")
    /\ UNCHANGED <<gone, stored, derived, upload, bucket>>
    /\ Smoothly

\* storage.exists, storage.read and storage.write(preview_key)
WritePreview(p) ==
    /\ Original(p) \in bucket
    /\ PassAt(p, "claimed", "preview")
    /\ bucket' = bucket \cup {<<p, "preview">>}
    /\ UNCHANGED <<gone, stored, derived, upload>>
    /\ Smoothly

\* storage.write(thumb_key)
WriteThumb(p) ==
    /\ PassAt(p, "preview", "thumb")
    /\ bucket' = bucket \cup {<<p, "thumb">>}
    /\ UNCHANGED <<gone, stored, derived, upload>>
    /\ Smoothly

\* Faulty variants of RecordDerivatives: an upsert instead of an UPDATE; the keys
\* are recorded before the second object is stored.
RecordDerivativesUpsert(p) ==
    /\ PassAt(p, "thumb", "recorded")
    /\ derived' = derived \cup {p}
    /\ UNCHANGED <<gone, stored, upload, bucket>>
    /\ Smoothly
RecordDerivativesEarly(p) ==
    /\ PassAt(p, "preview", "recorded")
    /\ derived' = derived \cup ({p} \cap stored)
    /\ UNCHANGED <<gone, stored, upload, bucket>>
    /\ Smoothly

\* store_photo_derivatives(): the UPDATE matches nothing once the photo is gone.
RecordDerivatives(p) ==
    /\ PassAt(p, "thumb", "recorded")
    /\ derived' = derived \cup ({p} \cap stored)
    /\ UNCHANGED <<gone, stored, upload, bucket>>
    /\ Smoothly

\* replace_faces() and finish_ingest_job(), which touch no object.
FinishPass(p) ==
    /\ pass[p] = "recorded"
    /\ PassAt(p, "recorded", IF gone THEN "none" ELSE "done")
    /\ UNCHANGED <<gone, stored, derived, upload, bucket>>
    /\ Smoothly

\* The pass raises or its worker dies, anywhere: the job goes back to the queue
\* or, out of attempts, to the dead letters.  With the event its job is gone.
PassFails(p) ==
    /\ pass[p] \in OnRoad
    /\ \E to \in IF gone THEN {"none"} ELSE {"waiting", "dead"} :
          PassAt(p, pass[p], to)
    /\ disturbed' = TRUE
    /\ UNCHANGED <<gone, stored, derived, upload, bucket>>
    /\ Elsewhere

-----------------------------------------------------------------------------

\* A faulty variant of RunRetention: only the originals are enqueued.
RunRetentionOriginals ==
    /\ ~gone
    /\ rowState' = GC!Enqueued({Original(p) : p \in stored})
    /\ gone' = TRUE
    /\ disturbed' = (disturbed \/ \E p \in Photos : InFlight(p))
    /\ stored' = {}
    /\ derived' = {}
    /\ pass' = [p \in Photos |-> IF pass[p] \in OnRoad THEN pass[p] ELSE "none"]
    /\ UNCHANGED <<upload, bucket, queueVars>>

\* run_retention(): enqueue the keys that the rows name, then delete the event
\* and, by cascade, the photos and jobs.  Requests and workers are not told.
RunRetention ==
    /\ ~gone
    /\ rowState' = GC!Enqueued({Original(p) : p \in stored}
                               \cup UNION {Derivatives(p) : p \in derived})
    /\ gone' = TRUE
    /\ disturbed' = (disturbed \/ \E p \in Photos : InFlight(p))
    /\ stored' = {}
    /\ derived' = {}
    /\ pass' = [p \in Photos |-> IF pass[p] \in OnRoad THEN pass[p] ELSE "none"]
    /\ UNCHANGED <<upload, bucket, queueVars>>

Album(p) ==
    \/ CheckEvent(p)
    \/ PutOriginal(p)
    \/ InsertPhoto(p)
    \/ UploadFails(p)
    \/ ClaimPhoto(p)
    \/ WritePreview(p)
    \/ WriteThumb(p)
    \/ RecordDerivatives(p)
    \/ FinishPass(p)
    \/ PassFails(p)

Next ==
    \/ \E p \in Photos : Album(p)
    \/ RunRetention
    \/ GC!Collect /\ UNCHANGED albumVars

Spec == Init /\ [][Next]_vars

\* The collectors run (StorageGC); nothing is asked of uploads and workers.
FairSpec == Spec /\ GC!Fairness

-----------------------------------------------------------------------------

\* What an album shows is there: the collector, which works from keys alone,
\* never takes an object that a photo row still names.
ShownIsStored ==
    /\ \A p \in stored : Original(p) \in bucket
    /\ \A p \in derived : Derivatives(p) \subseteq bucket

\* Every object of a deleted event that is still stored is in the hands of the
\* collector or of a human.
AllEnqueued ==
    gone /\ (\A p \in Photos : ~InFlight(p)) =>
        \A k \in bucket : rowState[k] \in {"pending", "failed"}

\* None is forgotten as long as every upload and pass came to its end before the
\* event did, in whatever order they and the collector went.
NothingForgotten == ~disturbed => AllEnqueued

\* "This album is deleted" comes true of the bytes: after an undisturbed event its
\* objects go, up to those that were dead-lettered.
AlbumErased == gone /\ ~disturbed ~> \A k \in bucket : rowState[k] = "failed"
=============================================================================
