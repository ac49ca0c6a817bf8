----------------------------- MODULE EventReady -----------------------------
(***************************************************************************)
(* The transactions that decide whether an album is searchable, statement  *)
(* by statement under READ COMMITTED: the upload's three writes and        *)
(* finish_ingest_job().  Every statement reads what was committed when it  *)
(* began and what its own transaction wrote.  The events row is the one    *)
(* row they share; who updates it keeps it locked until the end of the     *)
(* transaction.  An UPDATE that waited for the lock looks again at the     *)
(* locked row, but its NOT EXISTS keeps the answer from before the wait.   *)
(*                                                                         *)
(* There is at most one transaction per photograph at a time (finish takes *)
(* the job row FOR UPDATE), so a transaction is named by its photograph.   *)
(***************************************************************************)
EXTENDS FiniteSets

CONSTANTS
    Photos,    \* the photographs of one event
    Outcomes,  \* what finish_ingest_job makes of a job
    NoPhoto    \* nobody has the events row locked

ASSUME ReadyAssumption ==
    /\ Outcomes \subseteq {"done", "failed", "pending"}
    /\ NoPhoto \notin Photos

VARIABLES
    job,    \* ingest_jobs.state as committed, "none" when there is no row
    event,  \* events.status as committed
    lock,   \* the transaction that has updated the events row
    pc,     \* the last statement of a transaction
    out,    \* the state finish has written to its own job
    opens   \* the transaction has set the event ready

vars == <<job, event, lock, pc, out, opens>>

TypeOK ==
    /\ job \in [Photos -> {"none", "pending", "running", "done", "failed"}]
    /\ event \in {"draft", "indexing", "ready"}
    /\ lock \in Photos \cup {NoPhoto}
    /\ pc \in [Photos -> {"none", "inserted", "touched",
                          "marked", "counted", "opening", "ending"}]
    /\ out \in [Photos -> {"none", "done", "failed", "pending"}]
    /\ opens \in [Photos -> BOOLEAN]

Init ==
    /\ job = [p \in Photos |-> "none"]
    /\ event = "draft"
    /\ lock = NoPhoto
    /\ pc = [p \in Photos |-> "none"]
    /\ out = [p \in Photos |-> "none"]
    /\ opens = [p \in Photos |-> FALSE]

Goto(p, l) == pc' = [pc EXCEPT ![p] = l]

\* The transaction is over: its locks go and nothing of it remains in memory.
Over(p) ==
    /\ Goto(p, "none")
    /\ lock' = IF lock = p THEN NoPhoto ELSE lock
    /\ out' = [out EXCEPT ![p] = "none"]
    /\ opens' = [opens EXCEPT ![p] = FALSE]

-----------------------------------------------------------------------------
(* Upload *)

\* insert into photos; insert into ingest_jobs
InsertJob(p) ==
    /\ pc[p] = "none" /\ job[p] = "none"
    /\ Goto(p, "inserted")
    /\ UNCHANGED <<job, event, lock, out, opens>>

\* A faulty variant of TouchEvent: nobody is waited for.
TouchEventUnlocked(p) ==
    /\ pc[p] = "inserted"
    /\ Goto(p, "touched")
    /\ UNCHANGED <<job, event, lock, out, opens>>

\* update events set photo_count = photo_count + 1, status = 'indexing'
TouchEvent(p) ==
    /\ pc[p] = "inserted"
    /\ lock = NoPhoto
    /\ lock' = p
    /\ Goto(p, "touched")
    /\ UNCHANGED <<job, event, out, opens>>

CommitUpload(p) ==
    /\ pc[p] = "touched"
    /\ job' = [job EXCEPT ![p] = "pending"]
    /\ event' = "indexing"
    /\ Over(p)

\* claim_ingest_jobs(), one statement.
Claim(p) ==
    /\ pc[p] = "none" /\ job[p] = "pending"
    /\ job' = [job EXCEPT ![p] = "running"]
    /\ UNCHANGED <<event, lock, pc, out, opens>>

-----------------------------------------------------------------------------
(* finish_ingest_job() *)

\* A faulty variant of MarkJob: the job may be left running.
MarkJobRunning(p) ==
    /\ pc[p] = "none" /\ job[p] = "running"
    /\ \E s \in Outcomes \cup {"running"} : out' = [out EXCEPT ![p] = s]
    /\ Goto(p, "marked")
    /\ UNCHANGED <<job, event, lock, opens>>

\* select ... for update; update ingest_jobs; update photos
MarkJob(p) ==
    /\ pc[p] = "none" /\ job[p] = "running"
    /\ \E s \in Outcomes : out' = [out EXCEPT ![p] = s]
    /\ Goto(p, "marked")
    /\ UNCHANGED <<job, event, lock, opens>>

\* A faulty variant of CountFaces: the counter lives elsewhere, and with it goes
\* the lock.
CountFacesUnlocked(p) ==
    /\ pc[p] = "marked" /\ out[p] = "done"
    /\ Goto(p, "counted")
    /\ UNCHANGED <<job, event, lock, out, opens>>

\* p_ok only: update events set face_count = face_count + p_faces
CountFaces(p) ==
    /\ pc[p] = "marked" /\ out[p] = "done"
    /\ lock = NoPhoto
    /\ lock' = p
    /\ Goto(p, "counted")
    /\ UNCHANGED <<job, event, out, opens>>

\* A faulty variant of CheckDrained: it does not see its own job settled.
CheckDrainedBlind(p) ==
    /\ pc[p] = IF out[p] = "done" THEN "counted" ELSE "marked"
    /\ Goto(p, IF /\ event = "indexing"
                  /\ \A q \in Photos : job[q] \notin {"pending", "running"}
               THEN "opening" ELSE "ending")
    /\ UNCHANGED <<job, event, lock, out, opens>>

\* The snapshot of the last UPDATE: does the row qualify?
CheckDrained(p) ==
    LET mine == [job EXCEPT ![p] = out[p]] IN
    /\ pc[p] = IF out[p] = "done" THEN "counted" ELSE "marked"
    /\ Goto(p, IF /\ event = "indexing"
                  /\ \A q \in Photos : mine[q] \notin {"pending", "running"}
               THEN "opening" ELSE "ending")
    /\ UNCHANGED <<job, event, lock, out, opens>>

\* The row qualified.  Once it is locked its status is looked at again.
OpenEvent(p) ==
    /\ pc[p] = "opening"
    /\ lock \in {NoPhoto, p}
    /\ lock' = p
    /\ opens' = [opens EXCEPT ![p] = (event = "indexing")]
    /\ Goto(p, "ending")
    /\ UNCHANGED <<job, event, out>>

CommitFinish(p) ==
    /\ pc[p] = "ending"
    /\ job' = [job EXCEPT ![p] = out[p]]
    /\ event' = IF opens[p] THEN "ready" ELSE event
    /\ Over(p)

\* A connection drops, or a process dies: the transaction never happened.
Rollback(p) ==
    /\ pc[p] # "none"
    /\ Over(p)
    /\ UNCHANGED <<job, event>>

-----------------------------------------------------------------------------

Step(p) ==
    \/ TouchEvent(p)
    \/ CommitUpload(p)
    \/ Claim(p)
    \/ MarkJob(p)
    \/ CountFaces(p)
    \/ CheckDrained(p)
    \/ OpenEvent(p)
    \/ CommitFinish(p)

\* Everything was uploaded and settled and nobody is at work.
AllSettled ==
    /\ \A p \in Photos : job[p] \in {"done", "failed"} /\ pc[p] = "none"
    /\ UNCHANGED vars

Next ==
    \/ \E p \in Photos : InsertJob(p) \/ Step(p) \/ Rollback(p)
    \/ AllSettled

Spec == Init /\ [][Next]_vars

-----------------------------------------------------------------------------

\* With all transactions over and no job left to do, an album that was being
\* indexed is ready: no pair of finishes leaves the opening to each other.
DrainedMeansReady ==
    (\A p \in Photos : pc[p] = "none" /\ job[p] \notin {"pending", "running"}) =>
        event # "indexing"

\* No upload slips under the statement that opens the album: when no transaction
\* is open, a ready album has no job left.
ReadyMeansDrained ==
    event = "ready" => \A p \in Photos : job[p] \notin {"pending", "running"}

\* Seen from outside the transactions, each of them happens at its commit.
Gate == INSTANCE AlbumGate
AtomicFinish == Gate!GateSpec
=============================================================================
