---------------------------- MODULE IngestQueue ----------------------------
(***************************************************************************)
(* The ingestion pipeline: the ingest_jobs table with its two functions,   *)
(* the photos, faces and events rows they write, the upload route that     *)
(* enqueues, and the worker processes of faceapp_worker/ingest.py.         *)
(*                                                                         *)
(* A job is named by its photo (ingest_jobs.photo_id is unique).  Clocks   *)
(* are abstracted to what the queries compare: whether run_after <= now()  *)
(* (due) and whether locked_until < now() (lease).  The state of a worker  *)
(* is its program counter between two database calls.  finish_ingest_job   *)
(* looks whether the album is drained in one step and commits in another,  *)
(* since under READ COMMITTED the others go on in between; EventReady.tla  *)
(* takes all of its statements apart, and those of an upload.              *)
(***************************************************************************)
EXTENDS Naturals, FiniteSets

CONSTANTS
    Photos,       \* the photographs that may be uploaded
    Events,       \* the events that may hold them
    EventOf,      \* the event each photograph is uploaded to
    Workers,      \* the ingestion worker processes
    NoWorker,     \* locked_by is null
    NoPhoto,      \* the worker is between two photographs
    Unattested,   \* youth events without a recorded attestation
    MaxAttempts,  \* ingest_jobs.max_attempts
    BatchSize,    \* Settings.batch_size
    MaxKills,     \* bound: kills, lost replies
    MaxOverruns,  \* bound: leases that run out under a live worker
    ClaimBound    \* bound: a job claimed this often is not claimed again

ASSUME IngestAssumption ==
    /\ EventOf \in [Photos -> Events]
    /\ Unattested \subseteq Events
    /\ NoWorker \notin Workers
    /\ NoPhoto \notin Photos
    /\ MaxAttempts \in Nat \ {0}
    /\ BatchSize \in Nat \ {0}
    /\ MaxKills \in Nat
    /\ MaxOverruns \in Nat
    /\ ClaimBound \in Nat

VARIABLES
    jobState,     \* ingest_jobs.state, "none" when there is no row
    attempts,     \* ingest_jobs.attempts
    due,          \* run_after <= now()
    lockedBy,     \* ingest_jobs.locked_by
    lease,        \* locked_until: "null", in the future or in the past
    photoStatus,  \* photos.status, "none" when there is no row
    derived,      \* photos.preview_key and thumb_key are set
    faceRows,     \* the replace_faces batches whose rows are in faces
    credits,      \* how often p_faces of a photo was added to face_count
    eventStatus,  \* events.status, "gone" once the row is deleted
    photoCount,   \* events.photo_count
    pc,           \* where a worker is in the loop of run()
    held,         \* Job.attempts of the jobs a worker has still to do, else 0
    batch,        \* the whole list the last claim returned
    cur,          \* the job in process_one
    snap,         \* the face batches the DELETE of replace_faces saw
    verdict,      \* what finish_ingest_job, not yet committed, saw of the album
    crossed,      \* ghost: the events where a dead-letter finish met another
                  \* finish or an upload
    kills, overruns

queueVars == <<jobState, attempts, due, lockedBy, lease>>
albumVars == <<photoStatus, derived, faceRows, credits, eventStatus, photoCount>>
workerVars == <<pc, held, batch, cur, snap, verdict>>
vars == <<queueVars, albumVars, workerVars, crossed, kills, overruns>>

PhotosOf(e) == {p \in Photos : EventOf[p] = e}
Open == {"pending", "running"}
Holders(p) == {w \in Workers : held[w][p] > 0}
Nothing == [p \in Photos |-> 0]

\* A faulty variant of FailState: a state the table does not know.
FailStateUnknown(p) == IF attempts[p] >= MaxAttempts THEN "dead" ELSE "pending"

\* What p_ok = false does to a job: back to the queue, or dead-lettered.
FailState(p) == IF attempts[p] >= MaxAttempts THEN "failed" ELSE "pending"

\* What becomes of the job that a worker finishes.
Outcome(w) == IF pc[w] = "indexed" THEN "done" ELSE FailState(cur[w])

\* The workers inside finish_ingest_job, which keeps the rows of its job and its
\* photo locked; a success has locked the events row as well.
Finishing(p) == {w \in Workers : cur[w] = p /\ verdict[w] # "none"}
Settling(e) == UNION {Finishing(p) : p \in PhotosOf(e)}
Counting(e) == {w \in Settling(e) : Outcome(w) = "done"}
Burying(e) == {w \in Settling(e) : Outcome(w) = "failed"}

TypeOK ==
    /\ jobState \in [Photos -> {"none", "pending", "running", "done", "failed"}]
    /\ attempts \in [Photos -> Nat]
    /\ due \in [Photos -> BOOLEAN]
    /\ lockedBy \in [Photos -> Workers \cup {NoWorker}]
    /\ lease \in [Photos -> {"null", "live", "expired"}]
    /\ photoStatus \in
         [Photos -> {"none", "pending", "processing", "done", "failed"}]
    /\ derived \in [Photos -> BOOLEAN]
    /\ faceRows \in [Photos -> SUBSET Nat]
    /\ credits \in [Photos -> Nat]
    /\ eventStatus \in [Events -> {"draft", "indexing", "ready", "gone"}]
    /\ photoCount \in [Events -> Nat]
    /\ pc \in [Workers -> {"idle", "beat", "next", "derived", "replacing",
                           "indexed", "raised", "down"}]
    /\ held \in [Workers -> [Photos -> Nat]]
    /\ batch \in [Workers -> SUBSET Photos]
    /\ cur \in [Workers -> Photos \cup {NoPhoto}]
    /\ snap \in [Workers -> SUBSET Nat]
    /\ verdict \in [Workers -> {"none", "open", "keep"}]
    /\ crossed \subseteq Events
    /\ kills \in Nat
    /\ overruns \in Nat

Init ==
    /\ jobState = [p \in Photos |-> "none"]
    /\ attempts = [p \in Photos |-> 0]
    /\ due = [p \in Photos |-> TRUE]
    /\ lockedBy = [p \in Photos |-> NoWorker]
    /\ lease = [p \in Photos |-> "null"]
    /\ photoStatus = [p \in Photos |-> "none"]
    /\ derived = [p \in Photos |-> FALSE]
    /\ faceRows = [p \in Photos |-> {}]
    /\ credits = [p \in Photos |-> 0]
    /\ eventStatus = [e \in Events |-> "draft"]
    /\ photoCount = [e \in Events |-> 0]
    /\ pc = [w \in Workers |-> "idle"]
    /\ held = [w \in Workers |-> Nothing]
    /\ batch = [w \in Workers |-> {}]
    /\ cur = [w \in Workers |-> NoPhoto]
    /\ snap = [w \in Workers |-> {}]
    /\ verdict = [w \in Workers |-> "none"]
    /\ crossed = {}
    /\ kills = 0
    /\ overruns = 0

-----------------------------------------------------------------------------
(* The upload route and the end of an event. *)

\* POST /api/events/[id]/upload: photo, job and event row in one transaction.
\* A photo that is already there conflicts and nothing is written.
Upload(p) ==
    LET e == EventOf[p] IN
    /\ eventStatus[e] # "gone"
    /\ photoStatus[p] = "none"
    /\ Counting(e) = {}
    /\ photoStatus' = [photoStatus EXCEPT ![p] = "pending"]
    /\ jobState' = [jobState EXCEPT ![p] = "pending"]
    /\ eventStatus' = [eventStatus EXCEPT ![e] = "indexing"]
    /\ photoCount' = [photoCount EXCEPT ![e] = @ + 1]
    /\ crossed' = IF Burying(e) = {} THEN crossed ELSE crossed \cup {e}
    /\ UNCHANGED <<attempts, due, lockedBy, lease, derived, faceRows, credits,
                   workerVars, kills, overruns>>

\* The event row is deleted (run_retention); photos, faces and ingest_jobs go
\* with it by ON DELETE CASCADE.  The workers are not told.
DeleteEvent(e) ==
    LET Erase(f, v) == [p \in Photos |-> IF EventOf[p] = e THEN v ELSE f[p]] IN
    /\ eventStatus[e] # "gone"
    /\ \A p \in PhotosOf(e) : Finishing(p) = {}
    /\ eventStatus' = [eventStatus EXCEPT ![e] = "gone"]
    /\ photoCount' = [photoCount EXCEPT ![e] = 0]
    /\ jobState' = Erase(jobState, "none")
    /\ attempts' = Erase(attempts, 0)
    /\ due' = Erase(due, TRUE)
    /\ lockedBy' = Erase(lockedBy, NoWorker)
    /\ lease' = Erase(lease, "null")
    /\ photoStatus' = Erase(photoStatus, "none")
    /\ derived' = Erase(derived, FALSE)
    /\ faceRows' = Erase(faceRows, {})
    /\ credits' = Erase(credits, 0)
    /\ UNCHANGED <<workerVars, crossed, kills, overruns>>

-----------------------------------------------------------------------------
(* Time. *)

\* now() passes run_after of a job that backed off.
BackoffElapses(p) ==
    /\ ~due[p]
    /\ due' = [due EXCEPT ![p] = TRUE]
    /\ UNCHANGED <<jobState, attempts, lockedBy, lease, albumVars, workerVars,
                   crossed, kills, overruns>>

ExpireLease(p) ==
    /\ lease[p] = "live"
    /\ lease' = [lease EXCEPT ![p] = "expired"]
    /\ UNCHANGED <<jobState, attempts, due, lockedBy, albumVars, workerVars, crossed,
                   kills>>

\* now() passes locked_until of a job that no live worker has in hand.
LeaseExpires(p) ==
    /\ Holders(p) = {}
    /\ ExpireLease(p)
    /\ UNCHANGED overruns

\* The same while a live worker still has the job in hand: a batch that takes
\* longer than lease_seconds between two heartbeats.
LeaseOverruns(p) ==
    /\ Holders(p) # {}
    /\ overruns < MaxOverruns
    /\ ExpireLease(p)
    /\ overruns' = overruns + 1

-----------------------------------------------------------------------------
(* claim_ingest_jobs() *)

\* Faulty variants of Claimable: the lease is not looked at; a job whose worker
\* died is not taken up again; dead-lettered jobs are.
ClaimableWithoutLease == {p \in Photos : due[p] /\ jobState[p] \in Open}
ClaimableOnce == {p \in Photos : due[p] /\ jobState[p] = "pending"}
ClaimableDeadLetters ==
    {p \in Photos : /\ due[p]
                    /\ \/ jobState[p] \in {"pending", "failed"}
                       \/ jobState[p] = "running" /\ lease[p] = "expired"}

Claimable == {p \in Photos : /\ due[p]
                             /\ \/ jobState[p] = "pending"
                                \/ jobState[p] = "running" /\ lease[p] = "expired"}

\* The rows a claim may return: SKIP LOCKED can hide any of them, and hides those
\* that a finish has locked.
ClaimSets ==
    {S \in SUBSET {p \in Claimable : attempts[p] < ClaimBound /\ Finishing(p) = {}} :
         S # {} /\ Cardinality(S) <= BatchSize}

\* Faulty variants of ClaimRows: a job taken over keeps its expired lease; a job
\* taken over keeps its owner.
ClaimRowsStaleLease(w, S) ==
    /\ jobState' = [p \in Photos |-> IF p \in S THEN "running" ELSE jobState[p]]
    /\ attempts' = [p \in Photos |-> IF p \in S THEN attempts[p] + 1 ELSE attempts[p]]
    /\ lockedBy' = [p \in Photos |-> IF p \in S THEN w ELSE lockedBy[p]]
    /\ lease' = [p \in Photos |-> IF p \in S /\ lease[p] = "null" THEN "live"
                                  ELSE lease[p]]
    /\ UNCHANGED due

ClaimRowsOldOwner(w, S) ==
    /\ jobState' = [p \in Photos |-> IF p \in S THEN "running" ELSE jobState[p]]
    /\ attempts' = [p \in Photos |-> IF p \in S THEN attempts[p] + 1 ELSE attempts[p]]
    /\ lockedBy' = [p \in Photos |-> IF p \in S /\ lockedBy[p] = NoWorker THEN w
                                     ELSE lockedBy[p]]
    /\ lease' = [p \in Photos |-> IF p \in S THEN "live" ELSE lease[p]]
    /\ UNCHANGED due

ClaimRows(w, S) ==
    /\ jobState' = [p \in Photos |-> IF p \in S THEN "running" ELSE jobState[p]]
    /\ attempts' = [p \in Photos |-> IF p \in S THEN attempts[p] + 1 ELSE attempts[p]]
    /\ lockedBy' = [p \in Photos |-> IF p \in S THEN w ELSE lockedBy[p]]
    /\ lease' = [p \in Photos |-> IF p \in S THEN "live" ELSE lease[p]]
    /\ UNCHANGED due

-----------------------------------------------------------------------------
(* run() and process_one() *)

\* The for loop over the batch goes on while todo has jobs; then the loop of
\* run() comes round to the next claim and the batch is forgotten.
ToNextJob(w, todo) ==
    LET over == todo = Nothing IN
    /\ pc' = [pc EXCEPT ![w] = IF over THEN "idle" ELSE "next"]
    /\ batch' = [batch EXCEPT ![w] = IF over THEN {} ELSE @]

Claim(w) ==
    /\ pc[w] = "idle"
    /\ \E S \in ClaimSets :
         /\ ClaimRows(w, S)
         /\ held' = [held EXCEPT ![w] =
                       [p \in Photos |-> IF p \in S THEN attempts[p] + 1 ELSE 0]]
         /\ batch' = [batch EXCEPT ![w] = S]
    /\ pc' = [pc EXCEPT ![w] = "beat"]
    /\ UNCHANGED <<albumVars, cur, snap, verdict, crossed, kills, overruns>>

\* The claim commits and the connection drops before the rows arrive: the
\* exception is logged and the loop goes on, the jobs stay leased to nobody.
ClaimReplyLost(w) ==
    /\ pc[w] = "idle"
    /\ kills < MaxKills
    /\ \E S \in ClaimSets : ClaimRows(w, S)
    /\ kills' = kills + 1
    /\ UNCHANGED <<albumVars, workerVars, crossed, overruns>>

\* Repo.heartbeat() over the whole batch: every job of it that is 'running',
\* whoever holds it now; one that is being finished is waited for.  Then the next
\* job, or the next claim.
Heartbeat(w) ==
    /\ pc[w] = "beat"
    /\ \A p \in batch[w] : jobState[p] = "running" => Finishing(p) = {}
    /\ lease' = [p \in Photos |-> IF p \in batch[w] /\ jobState[p] = "running"
                                  THEN "live" ELSE lease[p]]
    /\ ToNextJob(w, held[w])
    /\ UNCHANGED <<jobState, attempts, due, lockedBy, albumVars, held, cur, snap,
                   verdict, crossed, kills, overruns>>

\* The photograph is read and both derivatives are written and recorded.  The
\* UPDATE matches no row when the photo is gone, and says nothing about it.
Derive(w, p) ==
    /\ pc[w] = "next"
    /\ held[w][p] > 0
    /\ Finishing(p) = {}
    /\ IF photoStatus[p] = "none"
       THEN UNCHANGED <<photoStatus, derived>>
       ELSE /\ photoStatus' = [photoStatus EXCEPT ![p] = "processing"]
            /\ derived' = [derived EXCEPT ![p] = TRUE]
    /\ cur' = [cur EXCEPT ![w] = p]
    /\ pc' = [pc EXCEPT ![w] = "derived"]
    /\ UNCHANGED <<queueVars, faceRows, credits, eventStatus, photoCount, held,
                   batch, snap, verdict, crossed, kills, overruns>>

\* process_one() raises before anything is recorded: the original is missing
\* or is not an image.
RaiseEarly(w, p) ==
    /\ pc[w] = "next"
    /\ held[w][p] > 0
    /\ cur' = [cur EXCEPT ![w] = p]
    /\ pc' = [pc EXCEPT ![w] = "raised"]
    /\ UNCHANGED <<queueVars, albumVars, held, batch, snap, verdict, crossed,
                   kills, overruns>>

\* A faulty variant of DeleteFaces: the rows of an earlier pass stay.
DeleteFacesNever(w) ==
    /\ pc[w] = "derived"
    /\ pc' = [pc EXCEPT ![w] = "replacing"]
    /\ UNCHANGED <<queueVars, albumVars, held, batch, cur, snap, verdict, crossed,
                   kills, overruns>>

\* The faces are detected; replace_faces() opens its transaction and its DELETE
\* takes every row committed by then.
DeleteFaces(w) ==
    /\ pc[w] = "derived"
    /\ snap' = [snap EXCEPT ![w] = faceRows[cur[w]]]
    /\ pc' = [pc EXCEPT ![w] = "replacing"]
    /\ UNCHANGED <<queueVars, albumVars, held, batch, cur, verdict, crossed,
                   kills, overruns>>

\* A faulty variant of CommitFaces: the DELETE comes after the INSERT.
CommitFacesSwapped(w) ==
    /\ pc[w] = "replacing"
    /\ faceRows' = [faceRows EXCEPT ![cur[w]] = {}]
    /\ snap' = [snap EXCEPT ![w] = {}]
    /\ pc' = [pc EXCEPT ![w] = "indexed"]
    /\ UNCHANGED <<queueVars, photoStatus, derived, credits, eventStatus,
                   photoCount, held, batch, cur, verdict, crossed, kills, overruns>>

\* replace_faces() commits.  Without a photo only an empty insert goes through.  When
\* the reply is lost, process_one() raises with the faces stored.
CommitFaces(w) ==
    LET p == cur[w] IN
    /\ pc[w] = "replacing"
    /\ faceRows' = IF photoStatus[p] = "none" THEN faceRows
                   ELSE [faceRows EXCEPT ![p] = (@ \ snap[w]) \cup {held[w][p]}]
    /\ snap' = [snap EXCEPT ![w] = {}]
    /\ \E next \in {"indexed", "raised"} : pc' = [pc EXCEPT ![w] = next]
    /\ UNCHANGED <<queueVars, photoStatus, derived, credits, eventStatus,
                   photoCount, held, batch, cur, verdict, crossed, kills, overruns>>

\* The engine raises, or the transaction fails (a foreign key when the photo is
\* gone) and rolls back.
RaiseLate(w) ==
    /\ pc[w] \in {"derived", "replacing"}
    /\ snap' = [snap EXCEPT ![w] = {}]
    /\ pc' = [pc EXCEPT ![w] = "raised"]
    /\ UNCHANGED <<queueVars, albumVars, held, batch, cur, verdict, crossed,
                   kills, overruns>>

-----------------------------------------------------------------------------
(* finish_ingest_job() *)

\* Faulty variants of Drained: running jobs are forgotten; a dead-lettered job
\* keeps the album closed.
DrainedButRunning(e, js) ==
    /\ eventStatus[e] = "indexing"
    /\ \A q \in PhotosOf(e) : js[q] # "pending"
DrainedIfAllDone(e, js) ==
    /\ eventStatus[e] = "indexing"
    /\ \A q \in PhotosOf(e) : js[q] \in {"none", "done"}

\* The last statement: an indexing event with no job left to do is ready.
Drained(e, js) ==
    /\ eventStatus[e] = "indexing"
    /\ \A q \in PhotosOf(e) : js[q] \notin Open

\* Two finishes of an album overlap, and one of them is a dead letter, which looks
\* without the lock of the events row.
Crosses(w, e) ==
    crossed' = IF Burying(e) # {} \/ (Settling(e) # {} /\ Outcome(w) = "failed")
               THEN crossed \cup {e} ELSE crossed

\* The row of the job is locked and written, then, for a success, that of the event;
\* then the NOT EXISTS looks at what was committed by now, and at its own job.
CheckDrained(w) ==
    LET p == cur[w]
        e == EventOf[p]
        mine == [jobState EXCEPT ![p] = Outcome(w)]
    IN
    /\ pc[w] \in {"indexed", "raised"}
    /\ verdict[w] = "none" /\ jobState[p] # "none"
    /\ Finishing(p) = {}
    /\ pc[w] = "indexed" => Counting(e) = {}
    /\ verdict' = [verdict EXCEPT ![w] = IF Drained(e, mine) THEN "open" ELSE "keep"]
    /\ Crosses(w, e)
    /\ UNCHANGED <<queueVars, albumVars, pc, held, batch, cur, snap, kills, overruns>>

\* The event row qualified, and its status, looked at again once the row is locked,
\* still does.
Opens(w) == verdict[w] = "open" /\ eventStatus[EventOf[cur[w]]] = "indexing"

\* Faulty variants of FinishRow: a photo to be retried stays 'processing'; the
\* lease of a finished job is kept.
FinishRowPhotoLeft(w, s) ==
    LET p == cur[w]
        e == EventOf[p]
    IN  /\ verdict[w] # "none"
        /\ verdict[w] = "open" => Counting(e) \subseteq {w}
        /\ ~(Opens(w) /\ e \in Unattested)
        /\ jobState' = [jobState EXCEPT ![p] = s]
        /\ photoStatus' = [photoStatus EXCEPT ![p] = IF s = "pending" THEN @ ELSE s]
        /\ lockedBy' = [lockedBy EXCEPT ![p] = NoWorker]
        /\ lease' = [lease EXCEPT ![p] = "null"]
        /\ eventStatus' = [eventStatus EXCEPT ![e] = IF Opens(w) THEN "ready" ELSE @]

FinishRowLeaseKept(w, s) ==
    LET p == cur[w]
        e == EventOf[p]
    IN  /\ verdict[w] # "none"
        /\ verdict[w] = "open" => Counting(e) \subseteq {w}
        /\ ~(Opens(w) /\ e \in Unattested)
        /\ jobState' = [jobState EXCEPT ![p] = s]
        /\ photoStatus' = [photoStatus EXCEPT ![p] = s]
        /\ lockedBy' = [lockedBy EXCEPT ![p] = NoWorker]
        /\ eventStatus' = [eventStatus EXCEPT ![e] = IF Opens(w) THEN "ready" ELSE @]
        /\ UNCHANGED lease

\* The commit: the job leaves 'running' for state s with its photo, and the event
\* follows the verdict.
FinishRow(w, s) ==
    LET p == cur[w]
        e == EventOf[p]
    IN  /\ verdict[w] # "none"
        /\ verdict[w] = "open" => Counting(e) \subseteq {w}
        /\ ~(Opens(w) /\ e \in Unattested)
        /\ jobState' = [jobState EXCEPT ![p] = s]
        /\ photoStatus' = [photoStatus EXCEPT ![p] = s]
        /\ lockedBy' = [lockedBy EXCEPT ![p] = NoWorker]
        /\ lease' = [lease EXCEPT ![p] = "null"]
        /\ eventStatus' = [eventStatus EXCEPT ![e] = IF Opens(w) THEN "ready" ELSE @]

\* The worker is through with its current job.
Drop(w) ==
    /\ held' = [held EXCEPT ![w] = [@ EXCEPT ![cur[w]] = 0]]
    /\ cur' = [cur EXCEPT ![w] = NoPhoto]
    /\ verdict' = [verdict EXCEPT ![w] = "none"]

\* repo.finish(job.id, True, ...), followed by a heartbeat.
FinishOk(w) ==
    /\ pc[w] = "indexed"
    /\ FinishRow(w, "done")
    /\ credits' = [credits EXCEPT ![cur[w]] = @ + 1]
    /\ Drop(w)
    /\ pc' = [pc EXCEPT ![w] = "beat"]
    /\ UNCHANGED <<attempts, due, derived, faceRows, photoCount, batch, snap,
                   crossed, kills, overruns>>

\* repo.finish(job.id, False, ...), followed by continue: no heartbeat.
FinishFailed(w) ==
    LET p == cur[w]
        s == FailState(p)
    IN
    /\ pc[w] = "raised"
    /\ FinishRow(w, s)
    /\ due' = [due EXCEPT ![p] = IF s = "pending" THEN FALSE ELSE @]
    /\ Drop(w)
    /\ ToNextJob(w, [held[w] EXCEPT ![p] = 0])
    /\ UNCHANGED <<attempts, derived, faceRows, credits, photoCount, snap,
                   crossed, kills, overruns>>

\* Memory and connection are gone; nothing is written.
Halt(w) ==
    /\ pc' = [pc EXCEPT ![w] = "down"]
    /\ held' = [held EXCEPT ![w] = Nothing]
    /\ batch' = [batch EXCEPT ![w] = {}]
    /\ cur' = [cur EXCEPT ![w] = NoPhoto]
    /\ snap' = [snap EXCEPT ![w] = {}]
    /\ verdict' = [verdict EXCEPT ![w] = "none"]
    /\ UNCHANGED <<queueVars, albumVars, crossed, overruns>>

\* finish_ingest_job() raises: the job is gone, or the event would become ready
\* against events_youth_attested_before_ready.  The transaction rolls back and
\* nothing in run() catches the exception.
FinishRaises(w) ==
    LET p == cur[w] IN
    /\ pc[w] \in {"indexed", "raised"}
    /\ \/ verdict[w] = "none" /\ jobState[p] = "none"
       \/ Opens(w) /\ Counting(EventOf[p]) \subseteq {w} /\ EventOf[p] \in Unattested
    /\ Halt(w)
    /\ UNCHANGED kills

\* The process is killed, loses its connection or a deadlock with run_retention(),
\* or stops between two batches after a SIGTERM.
Kill(w) ==
    /\ pc[w] # "down"
    /\ kills < MaxKills
    /\ Halt(w)
    /\ kills' = kills + 1

\* python -m faceapp_worker.ingest is started again.
Restart(w) ==
    /\ pc[w] = "down"
    /\ pc' = [pc EXCEPT ![w] = "idle"]
    /\ UNCHANGED <<queueVars, albumVars, held, batch, cur, snap, verdict, crossed,
                   kills, overruns>>

-----------------------------------------------------------------------------

\* What a running worker does next by itself.
Work(w) ==
    \/ Claim(w)
    \/ Heartbeat(w)
    \/ \E p \in Photos : Derive(w, p) \/ RaiseEarly(w, p)
    \/ DeleteFaces(w)
    \/ CommitFaces(w)
    \/ RaiseLate(w)
    \/ CheckDrained(w)
    \/ FinishOk(w)
    \/ FinishFailed(w)
    \/ FinishRaises(w)

Next ==
    \/ \E p \in Photos : \/ Upload(p)
                         \/ BackoffElapses(p)
                         \/ LeaseExpires(p)
                         \/ LeaseOverruns(p)
    \/ \E e \in Events : DeleteEvent(e)
    \/ \E w \in Workers : \/ Work(w)
                          \/ ClaimReplyLost(w)
                          \/ Kill(w)
                          \/ Restart(w)

\* The loop of run() is a loop, workers are started again, and clocks go on.
Fairness ==
    /\ \A w \in Workers : WF_vars(Work(w)) /\ WF_vars(Restart(w))
    /\ \A p \in Photos : WF_vars(BackoffElapses(p)) /\ WF_vars(LeaseExpires(p))

Spec == Init /\ [][Next]_vars
FairSpec == Spec /\ Fairness

-----------------------------------------------------------------------------
(* What the pipeline must do.  The first group supposes MaxOverruns = 0: the  *)
(* heartbeats keep every lease ahead of the worker that holds it.             *)

\* Claims and expired leases never put one photograph into two live workers at
\* once, and what a worker has in hand is its own current claim of a running
\* job (or of a job deleted with its event).
SoleHolder ==
    \A w \in Workers, p \in Photos : held[w][p] > 0 =>
        /\ Holders(p) = {w}
        /\ \/ jobState[p] = "none"
           \/ /\ jobState[p] = "running"
              /\ lockedBy[p] = w
              /\ attempts[p] = held[w][p]

\* events.face_count holds the faces of exactly the photographs whose job is
\* done, each once, through retries, kills and reclaims.
CountedOnce == \A p \in Photos : credits[p] = IF jobState[p] = "done" THEN 1 ELSE 0

\* Re-processing a photograph never doubles its faces, and a photograph that
\* is done has them.
FacesOnce ==
    \A p \in Photos : /\ \A a, b \in faceRows[p] : a = b
                      /\ photoStatus[p] = "done" => derived[p] /\ faceRows[p] # {}

\* A ready event, the only kind that is searched, has nothing left to ingest, dead
\* letters or not, as long as no dead-letter finish met another finish or an upload.
ReadyMeansDrained ==
    \A e \in Events \ crossed : eventStatus[e] = "ready" =>
        \A p \in PhotosOf(e) : jobState[p] \notin Open

\* The photo page and the queue tell the operator the same of every photograph:
\* settled together, and in progress together.
PhotoFollowsJob ==
    \A p \in Photos :
        IF jobState[p] = "running" THEN photoStatus[p] \in {"pending", "processing"}
        ELSE photoStatus[p] = jobState[p]

\* A job that is done or dead-lettered stays so until its event is deleted.
SettledStaysSettled ==
    [][\A p \in Photos : jobState[p] \in {"done", "failed"} =>
          jobState'[p] \in {jobState[p], "none"}]_vars

\* Killing workers loses no job: each one is done, dead-lettered or deleted in
\* the end, and each album that was being indexed opens or is deleted: a dead letter
\* does not hold it hostage, unless its finish met another one.
JobsSettle == \A p \in Photos : jobState[p] \in Open ~> jobState[p] \notin Open
AlbumsOpen ==
    \A e \in Events : eventStatus[e] = "indexing" ~>
                          eventStatus[e] # "indexing" \/ e \in crossed

\* The table with its leases implements the queue of WorkQueue: a job is in
\* hand while a live worker holds it, and waits while its lease runs down.
PlaceOf(p) ==
    CASE jobState[p] = "none"   -> "absent"
      [] jobState[p] = "done"   -> "done"
      [] jobState[p] = "failed" -> "dead"
      [] OTHER -> IF Holders(p) = {} THEN "waiting" ELSE "held"
OwnerOf(p) == IF PlaceOf(p) = "held" THEN lockedBy[p] ELSE NoWorker

Queue == INSTANCE WorkQueue WITH
    Jobs  <- Photos,
    place <- [p \in Photos |-> PlaceOf(p)],
    owner <- [p \in Photos |-> OwnerOf(p)]
QueueSpec == Queue!QSpec

\* The jobs of an event and its status are an album of AlbumGate.
Gate(e) == INSTANCE AlbumGate WITH
    Photos <- PhotosOf(e),
    job    <- [p \in PhotosOf(e) |-> jobState[p]],
    event  <- eventStatus[e]

(* These hold whatever the leases do. *)

\* A job is running exactly while it carries a lease and an owner: no state
\* exists from which the claim query could not take it up again.
RunningIsLeased ==
    \A p \in Photos : /\ (jobState[p] = "running") <=> (lease[p] # "null")
                      /\ (jobState[p] = "running") <=> (lockedBy[p] # NoWorker)
                      /\ jobState[p] = "running" => due[p]

\* A photograph shown as done has its derivatives, faces of a finished pass and
\* was counted.
DoneIsSearchable ==
    \A p \in Photos : photoStatus[p] = "done" =>
        derived[p] /\ faceRows[p] # {} /\ credits[p] > 0

-----------------------------------------------------------------------------
(* What a test says of the pipeline and the code does not do.                 *)

\* "The retry is counted, so a job that kills workers cannot loop forever": no
\* job is claimed more often than max_attempts.
AttemptsWithinMax == \A p \in Photos : attempts[p] <= MaxAttempts

-----------------------------------------------------------------------------
(* The inductive invariants the proofs go through.  Base holds whatever the   *)
(* leases do; Strict adds what holds as long as no lease overruns.            *)

Working == {"derived", "replacing", "indexed", "raised"}

\* The program counter of a worker and what it has in hand.
AtWork ==
    \A w \in Workers :
        /\ pc[w] \in Working => cur[w] \in Photos /\ held[w][cur[w]] > 0
        /\ pc[w] \in {"idle", "down"} => held[w] = Nothing

\* Photo and job row come and go together, and never come back after the event.
Cascade ==
    \A p \in Photos :
        /\ jobState[p] = "none" <=> photoStatus[p] = "none"
        /\ eventStatus[EventOf[p]] = "gone" => jobState[p] = "none"
        /\ \A w \in Workers : held[w][p] > 0 /\ jobState[p] = "none" =>
              eventStatus[EventOf[p]] = "gone"

\* What a worker has written by each point of process_one.
Written ==
    \A w \in Workers, p \in Photos : cur[w] = p /\ photoStatus[p] # "none" =>
        /\ pc[w] \in {"derived", "replacing", "indexed"} => derived[p]
        /\ pc[w] = "indexed" => faceRows[p] # {}

\* A finish that is under way has found its job.
FoundJob ==
    \A w \in Workers : verdict[w] # "none" =>
        pc[w] \in {"indexed", "raised"} /\ jobState[cur[w]] # "none"

Base == /\ TypeOK /\ AtWork /\ Cascade /\ Written /\ FoundJob
        /\ RunningIsLeased /\ DoneIsSearchable

\* SoleHolder with the lease that makes it so.
InHand ==
    \A w \in Workers, p \in Photos : held[w][p] > 0 =>
        /\ \A v \in Workers : held[v][p] > 0 => v = w
        /\ jobState[p] # "none" =>
              /\ jobState[p] = "running"
              /\ lockedBy[p] = w
              /\ lease[p] = "live"
              /\ attempts[p] = held[w][p]

\* No other worker writes the faces of a photograph between DELETE and commit.
SnapCurrent ==
    \A w \in Workers, p \in Photos :
        cur[w] = p /\ pc[w] = "replacing" /\ photoStatus[p] # "none" =>
            snap[w] = faceRows[p]

\* One success at a time has the events row.
OneCounting ==
    \A v, w \in Workers :
        /\ verdict[v] # "none" /\ pc[v] = "indexed"
        /\ verdict[w] # "none" /\ pc[w] = "indexed"
        /\ EventOf[cur[v]] = EventOf[cur[w]]
        => v = w

\* Two finishes of an album that overlap, one of them a dead letter, have crossed.
CrossedKnown ==
    \A v, w \in Workers :
        /\ v # w /\ verdict[v] # "none" /\ verdict[w] # "none"
        /\ EventOf[cur[v]] = EventOf[cur[w]] /\ Outcome(v) = "failed"
        => EventOf[cur[v]] \in crossed

\* What a finish saw of its album still holds when it commits.
VerdictHolds ==
    \A w \in Workers :
        verdict[w] # "none" /\ EventOf[cur[w]] \notin crossed =>
            (verdict[w] = "open" <=>
                Drained(EventOf[cur[w]], [jobState EXCEPT ![cur[w]] = Outcome(w)]))

Strict == /\ Base /\ overruns = 0 /\ InHand /\ SnapCurrent /\ CountedOnce
          /\ FacesOnce /\ PhotoFollowsJob /\ OneCounting /\ CrossedKnown
          /\ VerdictHolds /\ ReadyMeansDrained

=============================================================================
