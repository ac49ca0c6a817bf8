-------------------------- MODULE IngestQueueProofs --------------------------
(***************************************************************************)
(* Theorems about IngestQueue for every number of photographs, events and  *)
(* workers.  Base is inductive whatever the leases do; Strict is inductive  *)
(* relative to MaxOverruns = 0, the operating assumption that heartbeats    *)
(* keep every lease ahead of its worker.  There is one lemma per action,    *)
(* and under it one step per part of the invariant the action disturbs.     *)
(***************************************************************************)
EXTENDS IngestQueue, TLAPS

USE IngestAssumption
USE DEF queueVars, albumVars, workerVars, Working, Nothing

-----------------------------------------------------------------------------
(* Base *)

\* Base holds before anything was uploaded.
LEMMA BaseInit == Init => Base
BY DEF Init, Base, TypeOK, AtWork, Cascade, Written, FoundJob, RunningIsLeased,
       DoneIsSearchable


\* An upload adds a pending photo and job, never to an event that is gone.
LEMMA UploadBase ==
  ASSUME NEW p \in Photos, Base, Upload(p) PROVE Base'
<1>1. TypeOK'
  BY DEF Upload, Base, TypeOK
<1>2. Cascade'
  BY DEF Upload, Base, TypeOK, Cascade
<1>3. Written'
  BY DEF Upload, Base, TypeOK, Written, AtWork, Cascade
<1>4. RunningIsLeased'
  BY DEF Upload, Base, TypeOK, RunningIsLeased, Cascade
<1>5. DoneIsSearchable'
  BY DEF Upload, Base, TypeOK, DoneIsSearchable, AtWork, Written, Cascade
<1>6. AtWork'
  BY DEF Upload, Base, TypeOK, AtWork
<1>7. FoundJob'
  BY DEF Upload, Finishing, Base, TypeOK, FoundJob, AtWork
<1>. QED BY <1>1, <1>2, <1>3, <1>4, <1>5, <1>6, <1>7 DEF Base

\* A run_after that passes concerns no clause of Base but the type.
LEMMA BackoffBase ==
  ASSUME NEW p \in Photos, Base, BackoffElapses(p) PROVE Base'
<1>1. TypeOK'
  BY DEF BackoffElapses, Base, TypeOK
<1>2. RunningIsLeased'
  BY DEF BackoffElapses, Base, TypeOK, RunningIsLeased
<1>3. AtWork' /\ Cascade' /\ Written' /\ DoneIsSearchable'
  BY DEF BackoffElapses, Base, TypeOK, AtWork, Cascade, Written,
     DoneIsSearchable
<1>4. FoundJob'
  BY DEF BackoffElapses, Base, TypeOK, FoundJob, AtWork
<1>. QED BY <1>1, <1>2, <1>3, <1>4 DEF Base

\* A lease that expires is still a lease, so RunningIsLeased is kept.
LEMMA LeaseBase ==
  ASSUME NEW p \in Photos, Base, ExpireLease(p), overruns' \in Nat PROVE Base'
<1>1. TypeOK'
  BY DEF ExpireLease, Base, TypeOK
<1>2. RunningIsLeased'
  BY DEF ExpireLease, Base, TypeOK, RunningIsLeased
<1>3. AtWork' /\ Cascade' /\ Written' /\ DoneIsSearchable'
  BY DEF ExpireLease, Base, TypeOK, AtWork, Cascade, Written, DoneIsSearchable
<1>4. FoundJob'
  BY DEF ExpireLease, Base, TypeOK, FoundJob, AtWork
<1>. QED BY <1>1, <1>2, <1>3, <1>4 DEF Base

\* The cascade takes photo, job, faces and lease together.
LEMMA DeleteBase ==
  ASSUME NEW e \in Events, Base, DeleteEvent(e) PROVE Base'
<1>1. TypeOK'
  BY DEF DeleteEvent, Base, TypeOK
<1>2. Cascade'
  BY DEF DeleteEvent, Base, TypeOK, Cascade
<1>3. Written'
  BY DEF DeleteEvent, Base, TypeOK, Written, AtWork, Cascade
<1>4. RunningIsLeased'
  BY DEF DeleteEvent, Base, TypeOK, RunningIsLeased
<1>5. DoneIsSearchable'
  BY DEF DeleteEvent, Base, TypeOK, DoneIsSearchable, AtWork, Written, Cascade
<1>6. AtWork'
  BY DEF DeleteEvent, Base, TypeOK, AtWork
<1>7. FoundJob'
  BY DEF DeleteEvent, PhotosOf, Finishing, Base, TypeOK, FoundJob, AtWork
<1>. QED BY <1>1, <1>2, <1>3, <1>4, <1>5, <1>6, <1>7 DEF Base

\* A claim gives every row it takes a lease and an owner at once.
LEMMA ClaimBase ==
  ASSUME NEW w \in Workers, Base, Claim(w) PROVE Base'
<1>. PICK S \in ClaimSets :
        /\ ClaimRows(w, S)
        /\ held' = [held EXCEPT ![w] =
                      [p \in Photos |-> IF p \in S THEN attempts[p] + 1 ELSE 0]]
        /\ batch' = [batch EXCEPT ![w] = S]
  BY DEF Claim
<1>1. S \subseteq Photos /\ \A p \in S : due[p] /\ jobState[p] \in Open
  BY DEF ClaimSets, Claimable, Open, Base, TypeOK
<1>2. TypeOK'
  BY <1>1 DEF Claim, ClaimRows, Open, Base, TypeOK
<1>3. AtWork'
  BY <1>1 DEF Claim, ClaimRows, Open, Base, TypeOK, AtWork
<1>4. Cascade'
  <2>1. \A v \in Workers, q \in Photos :
          held'[v][q] > 0 => held[v][q] > 0 \/ q \in S
    BY DEF Base, TypeOK
  <2>2. \A q \in Photos : jobState'[q] = IF q \in S THEN "running" ELSE jobState[q]
    BY DEF ClaimRows
  <2>3. UNCHANGED <<photoStatus, eventStatus>>
    BY DEF Claim
  <2>. QED BY <1>1, <2>1, <2>2, <2>3 DEF Base, Cascade, Open
<1>5. Written'
  BY <1>1 DEF Claim, ClaimRows, Open, Base, TypeOK, Written, AtWork, Cascade
<1>6. RunningIsLeased'
  BY <1>1 DEF Claim, ClaimRows, Open, Base, TypeOK, RunningIsLeased
<1>7. DoneIsSearchable'
  BY DEF Claim, ClaimRows, Open, Base, TypeOK, DoneIsSearchable
<1>8. FoundJob'
  BY <1>1 DEF Claim, ClaimRows, Base, TypeOK, FoundJob, AtWork
<1>. QED BY <1>1, <1>2, <1>3, <1>4, <1>5, <1>6, <1>7, <1>8 DEF Base

\* So does a claim whose answer is lost; no worker knows of it.
LEMMA LostBase ==
  ASSUME NEW w \in Workers, Base, ClaimReplyLost(w) PROVE Base'
<1>. PICK S \in ClaimSets : ClaimRows(w, S)
  BY DEF ClaimReplyLost
<1>1. S \subseteq Photos /\ \A p \in S : due[p] /\ jobState[p] \in Open
  BY DEF ClaimSets, Claimable, Open, Base, TypeOK
<1>2. TypeOK'
  BY <1>1 DEF ClaimReplyLost, ClaimRows, Open, Base, TypeOK
<1>3. Cascade'
  BY <1>1 DEF ClaimReplyLost, ClaimRows, Open, Base, TypeOK, Cascade
<1>4. RunningIsLeased'
  BY <1>1 DEF ClaimReplyLost, ClaimRows, Open, Base, TypeOK, RunningIsLeased
<1>5. AtWork' /\ Written' /\ DoneIsSearchable'
  BY DEF ClaimReplyLost, ClaimRows, Open, Base, TypeOK, AtWork, Written,
     DoneIsSearchable
<1>6. FoundJob'
  BY <1>1 DEF ClaimReplyLost, ClaimRows, Base, TypeOK, FoundJob, AtWork
<1>. QED BY <1>1, <1>2, <1>3, <1>4, <1>5, <1>6 DEF Base

\* A heartbeat writes leases of running jobs only.
LEMMA HeartbeatBase ==
  ASSUME NEW w \in Workers, Base, Heartbeat(w) PROVE Base'
<1>1. TypeOK'
  BY DEF Heartbeat, ToNextJob, Base, TypeOK
<1>2. AtWork'
  BY DEF Heartbeat, ToNextJob, Base, TypeOK, AtWork
<1>3. Written'
  BY DEF Heartbeat, ToNextJob, Base, TypeOK, Written, AtWork, Cascade
<1>4. RunningIsLeased'
  BY DEF Heartbeat, ToNextJob, Base, TypeOK, RunningIsLeased
<1>5. Cascade' /\ DoneIsSearchable'
  BY DEF Heartbeat, ToNextJob, Base, TypeOK, Cascade, DoneIsSearchable
<1>6. FoundJob'
  BY DEF Heartbeat, ToNextJob, Base, TypeOK, FoundJob, AtWork
<1>. QED BY <1>1, <1>2, <1>3, <1>4, <1>5, <1>6 DEF Base

\* store_photo_derivatives() never writes a row that is gone.
LEMMA DeriveBase ==
  ASSUME NEW w \in Workers, NEW q \in Photos, Base, Derive(w, q) PROVE Base'
<1>1. TypeOK'
  BY DEF Derive, Base, TypeOK
<1>2. AtWork'
  BY DEF Derive, Base, TypeOK, AtWork
<1>3. Cascade'
  BY DEF Derive, Base, TypeOK, Cascade
<1>4. Written'
  BY DEF Derive, Base, TypeOK, Written, AtWork, Cascade
<1>5. DoneIsSearchable'
  BY DEF Derive, Base, TypeOK, DoneIsSearchable, AtWork, Written, Cascade
<1>6. RunningIsLeased'
  BY DEF Derive, Base, TypeOK, RunningIsLeased
<1>7. FoundJob'
  BY DEF Derive, Base, TypeOK, FoundJob, AtWork
<1>. QED BY <1>1, <1>2, <1>3, <1>4, <1>5, <1>6, <1>7 DEF Base

\* A pass that raises before it wrote anything changes its worker only.
LEMMA RaiseEarlyBase ==
  ASSUME NEW w \in Workers, NEW q \in Photos, Base, RaiseEarly(w, q) PROVE Base'
<1>1. TypeOK'
  BY DEF RaiseEarly, Base, TypeOK
<1>2. AtWork'
  BY DEF RaiseEarly, Base, TypeOK, AtWork
<1>3. Written'
  BY DEF RaiseEarly, Base, TypeOK, Written, AtWork, Cascade
<1>4. Cascade' /\ RunningIsLeased' /\ DoneIsSearchable'
  BY DEF RaiseEarly, Base, TypeOK, Cascade, RunningIsLeased, DoneIsSearchable
<1>5. FoundJob'
  BY DEF RaiseEarly, Base, TypeOK, FoundJob, AtWork
<1>. QED BY <1>1, <1>2, <1>3, <1>4, <1>5 DEF Base

\* Opening the transaction of replace_faces() changes no committed row.
LEMMA DeleteFacesBase ==
  ASSUME NEW w \in Workers, Base, DeleteFaces(w) PROVE Base'
<1>1. TypeOK'
  BY DEF DeleteFaces, Base, TypeOK, AtWork
<1>2. AtWork'
  BY DEF DeleteFaces, Base, TypeOK, AtWork
<1>3. Written'
  BY DEF DeleteFaces, Base, TypeOK, Written, AtWork, Cascade
<1>4. Cascade' /\ RunningIsLeased' /\ DoneIsSearchable'
  BY DEF DeleteFaces, Base, TypeOK, Cascade, RunningIsLeased, DoneIsSearchable
<1>5. FoundJob'
  BY DEF DeleteFaces, Base, TypeOK, FoundJob, AtWork
<1>. QED BY <1>1, <1>2, <1>3, <1>4, <1>5 DEF Base

\* A pass that raises later rolls back what it had not committed.
LEMMA RaiseLateBase ==
  ASSUME NEW w \in Workers, Base, RaiseLate(w) PROVE Base'
<1>1. TypeOK'
  BY DEF RaiseLate, Base, TypeOK
<1>2. AtWork'
  BY DEF RaiseLate, Base, TypeOK, AtWork
<1>3. Written'
  BY DEF RaiseLate, Base, TypeOK, Written, AtWork, Cascade
<1>4. Cascade' /\ RunningIsLeased' /\ DoneIsSearchable'
  BY DEF RaiseLate, Base, TypeOK, Cascade, RunningIsLeased, DoneIsSearchable
<1>5. FoundJob'
  BY DEF RaiseLate, Base, TypeOK, FoundJob, AtWork
<1>. QED BY <1>1, <1>2, <1>3, <1>4, <1>5 DEF Base

\* The commit of replace_faces() leaves the rows of the pass behind, which is what
\* FinishOk relies on to show the photograph as done.
LEMMA CommitFacesBase ==
  ASSUME NEW w \in Workers, Base, CommitFaces(w) PROVE Base'
<1>. PICK next \in {"indexed", "raised"} : pc' = [pc EXCEPT ![w] = next]
  BY DEF CommitFaces
<1>1. \A q \in Photos : photoStatus[q] # "none" =>
        /\ cur[w] = q => faceRows'[q] # {}
        /\ faceRows[q] # {} => faceRows'[q] # {}
  <2>. TAKE q \in Photos
  <2>1. CASE cur[w] = q /\ photoStatus[q] # "none"
    <3>1. held[w][q] \in faceRows'[q]
      BY <2>1 DEF CommitFaces, Base, TypeOK
    <3>. QED BY <3>1
  <2>2. CASE cur[w] # q
    <3>1. faceRows'[q] = faceRows[q]
      BY <2>2 DEF CommitFaces, Base, TypeOK
    <3>. QED BY <2>2, <3>1
  <2>. QED BY <2>1, <2>2
<1>2. TypeOK'
  BY DEF CommitFaces, Base, TypeOK, AtWork
<1>3. AtWork'
  BY DEF CommitFaces, Base, TypeOK, AtWork
<1>4. Written'
  <2>. SUFFICES ASSUME NEW v \in Workers, NEW q \in Photos, cur[v] = q,
                       photoStatus[q] # "none"
                PROVE  /\ pc'[v] \in {"derived", "replacing", "indexed"} => derived[q]
                       /\ pc'[v] = "indexed" => faceRows'[q] # {}
    BY DEF CommitFaces, Written
  <2>1. pc[v] \in {"derived", "replacing", "indexed"} => derived[q]
    BY DEF Base, Written
  <2>2. pc'[v] = pc[v] \/ (v = w /\ pc[v] = "replacing")
    BY DEF CommitFaces, Base, TypeOK
  <2>3. pc[v] = "indexed" => faceRows[q] # {}
    BY DEF Base, Written
  <2>. QED BY <1>1, <2>1, <2>2, <2>3
<1>5. DoneIsSearchable'
  BY <1>1 DEF CommitFaces, Base, TypeOK, DoneIsSearchable, AtWork, Written,
     Cascade
<1>6. Cascade' /\ RunningIsLeased'
  BY DEF CommitFaces, Base, TypeOK, Cascade, RunningIsLeased
<1>7. FoundJob'
  BY DEF CommitFaces, Base, TypeOK, FoundJob, AtWork
<1>. QED BY <1>1, <1>2, <1>3, <1>4, <1>5, <1>6, <1>7 DEF Base

\* A finish that looks at its album changes its own verdict only.
LEMMA CheckDrainedBase ==
  ASSUME NEW w \in Workers, Base, CheckDrained(w) PROVE Base'
<1>1. TypeOK'
  BY DEF CheckDrained, Crosses, Base, TypeOK, AtWork
<1>2. FoundJob'
  BY DEF CheckDrained, Base, TypeOK, FoundJob
<1>3. AtWork' /\ Cascade' /\ Written' /\ RunningIsLeased' /\ DoneIsSearchable'
  BY DEF CheckDrained, Base, AtWork, Cascade, Written, RunningIsLeased,
     DoneIsSearchable
<1>. QED BY <1>1, <1>2, <1>3 DEF Base

\* A successful finish clears lease and owner and counts what was indexed.
LEMMA FinishOkBase ==
  ASSUME NEW w \in Workers, Base, FinishOk(w) PROVE Base'
<1>1. TypeOK'
  BY DEF FinishOk, FinishRow, Drop, Base, TypeOK, AtWork
<1>2. AtWork'
  BY DEF FinishOk, FinishRow, Drop, Base, TypeOK, AtWork
<1>3. Cascade'
  BY DEF FinishOk, FinishRow, Drop, Base, TypeOK, Cascade, AtWork, FoundJob
<1>4. Written'
  BY DEF FinishOk, FinishRow, Drop, Base, TypeOK, Written, AtWork, Cascade,
     FoundJob
<1>5. RunningIsLeased'
  BY DEF FinishOk, FinishRow, Drop, Base, TypeOK, RunningIsLeased, AtWork
<1>6. DoneIsSearchable'
  BY DEF FinishOk, FinishRow, Drop, Base, TypeOK, DoneIsSearchable, AtWork,
     Written, Cascade, FoundJob
<1>7. FoundJob'
  BY DEF FinishOk, FinishRow, Drop, Base, TypeOK, FoundJob, AtWork
<1>. QED BY <1>1, <1>2, <1>3, <1>4, <1>5, <1>6, <1>7 DEF Base

\* A failed finish clears lease and owner, and never shows the photograph as done.
LEMMA FinishFailedBase ==
  ASSUME NEW w \in Workers, Base, FinishFailed(w) PROVE Base'
<1>1. TypeOK'
  BY DEF FinishFailed, FinishRow, FailState, Drop, ToNextJob, Base, TypeOK,
     AtWork
<1>2. AtWork'
  BY DEF FinishFailed, FinishRow, FailState, Drop, ToNextJob, Base, TypeOK,
     AtWork
<1>3. Cascade'
  BY DEF FinishFailed, FinishRow, FailState, Drop, ToNextJob, Base, TypeOK,
     Cascade, AtWork, FoundJob
<1>4. Written'
  BY DEF FinishFailed, FinishRow, FailState, Drop, ToNextJob, Base, TypeOK,
     Written, AtWork, Cascade,
     FoundJob
<1>5. RunningIsLeased'
  BY DEF FinishFailed, FinishRow, FailState, Drop, ToNextJob, Base, TypeOK,
     RunningIsLeased, AtWork
<1>6. DoneIsSearchable'
  BY DEF FinishFailed, FinishRow, FailState, Drop, ToNextJob, Base, TypeOK,
     DoneIsSearchable, AtWork, Written, Cascade, FoundJob
<1>7. FoundJob'
  BY DEF FinishFailed, FinishRow, FailState, Drop, ToNextJob, Base, TypeOK,
     FoundJob, AtWork
<1>. QED BY <1>1, <1>2, <1>3, <1>4, <1>5, <1>6, <1>7 DEF Base

\* A worker that dies changes no row.
LEMMA HaltBase ==
  ASSUME NEW w \in Workers, Base, Halt(w), kills' \in Nat PROVE Base'
<1>1. TypeOK'
  BY DEF Halt, Base, TypeOK
<1>2. AtWork'
  BY DEF Halt, Base, TypeOK, AtWork
<1>3. Cascade'
  BY DEF Halt, Base, TypeOK, Cascade
<1>4. Written'
  BY DEF Halt, Base, TypeOK, Written, AtWork, Cascade
<1>5. RunningIsLeased' /\ DoneIsSearchable'
  BY DEF Halt, Base, TypeOK, RunningIsLeased, DoneIsSearchable
<1>6. FoundJob'
  BY DEF Halt, Base, TypeOK, FoundJob, AtWork
<1>. QED BY <1>1, <1>2, <1>3, <1>4, <1>5, <1>6 DEF Base

\* Nor does one that is started again.
LEMMA RestartBase ==
  ASSUME NEW w \in Workers, Base, Restart(w) PROVE Base'
<1>1. TypeOK'
  BY DEF Restart, Base, TypeOK
<1>2. AtWork'
  BY DEF Restart, Base, TypeOK, AtWork
<1>3. Written'
  BY DEF Restart, Base, TypeOK, Written, AtWork, Cascade
<1>4. Cascade' /\ RunningIsLeased' /\ DoneIsSearchable'
  BY DEF Restart, Base, TypeOK, Cascade, RunningIsLeased, DoneIsSearchable
<1>5. FoundJob'
  BY DEF Restart, Base, TypeOK, FoundJob, AtWork
<1>. QED BY <1>1, <1>2, <1>3, <1>4, <1>5 DEF Base

-----------------------------------------------------------------------------
(* Strict *)

\* What is known of the finishes under way stays known through a step that starts none,
\* if it leaves the events whose album a finish may open alone, and the rest of their jobs
\* open or not as they were.  A job that goes back to the queue keeps its album closed.
LEMMA FinishesKept ==
  ASSUME Strict, Base', crossed \subseteq crossed',
         \A v \in Workers : verdict'[v] # "none" =>
             /\ verdict'[v] = verdict[v] /\ pc'[v] = pc[v] /\ cur'[v] = cur[v]
             /\ attempts'[cur[v]] = attempts[cur[v]],
         \A v \in Workers :
             /\ verdict'[v] # "none" /\ EventOf[cur[v]] \notin crossed'
             /\ Outcome(v) # "pending"
             => /\ eventStatus'[EventOf[cur[v]]] = eventStatus[EventOf[cur[v]]]
                /\ \A q \in PhotosOf(EventOf[cur[v]]) :
                      q = cur[v] \/ (jobState'[q] \in Open <=> jobState[q] \in Open)
  PROVE  OneCounting' /\ CrossedKnown' /\ VerdictHolds'
<1>1. \A v \in Workers : verdict'[v] # "none" => Outcome(v)' = Outcome(v)
  BY DEF Outcome, FailState
<1>2. OneCounting'
  BY DEF Strict, OneCounting
<1>3. CrossedKnown'
  BY <1>1 DEF Strict, CrossedKnown
<1>4. VerdictHolds'
  <2>. SUFFICES ASSUME NEW v \in Workers, verdict'[v] # "none",
                       EventOf[cur[v]] \notin crossed'
                PROVE  verdict'[v] = "open" <=>
                          Drained(EventOf[cur[v]], [jobState EXCEPT ![cur[v]] = Outcome(v)])'
    BY DEF VerdictHolds
  <2>1. /\ cur[v] \in Photos /\ cur[v] \in PhotosOf(EventOf[cur[v]])
        /\ pc[v] \in {"indexed", "raised"}
    BY DEF Strict, Base, FoundJob, AtWork, PhotosOf
  <2>2. verdict[v] = "open" <=>
           Drained(EventOf[cur[v]], [jobState EXCEPT ![cur[v]] = Outcome(v)])
    BY DEF Strict, VerdictHolds
  <2>3. jobState \in [Photos -> {"none", "pending", "running", "done", "failed"}]
        /\ jobState' \in [Photos -> {"none", "pending", "running", "done", "failed"}]
    BY DEF Strict, Base, TypeOK
  <2>4. CASE Outcome(v) = "pending"
    BY <1>1, <2>1, <2>2, <2>3, <2>4 DEF Drained, Open
  <2>5. CASE Outcome(v) # "pending"
    BY <1>1, <2>1, <2>2, <2>3, <2>5 DEF Drained, Open, PhotosOf
  <2>. QED BY <2>4, <2>5
<1>. QED BY <1>2, <1>3, <1>4

\* A step that touches neither job nor event, and no finish but to end it, keeps them too.
LEMMA FinishesSame ==
  ASSUME Strict, Base', UNCHANGED <<jobState, attempts, eventStatus, crossed>>,
         \A v \in Workers : verdict'[v] # "none" =>
             verdict'[v] = verdict[v] /\ pc'[v] = pc[v] /\ cur'[v] = cur[v]
  PROVE  OneCounting' /\ CrossedKnown' /\ VerdictHolds'
BY FinishesKept

\* A new job is in nobody's hands and opens the album for indexing.
LEMMA UploadStrict ==
  ASSUME NEW p \in Photos, Strict, Upload(p),
         overruns' = overruns, Base'
  PROVE  Strict'
<1>1. InHand'
  BY DEF Upload, Strict, Base, TypeOK, InHand, AtWork, Cascade
<1>2. SnapCurrent'
  BY DEF Upload, Strict, Base, TypeOK, SnapCurrent, AtWork, InHand, Cascade
<1>3. CountedOnce'
  BY DEF Upload, Strict, Base, TypeOK, CountedOnce, AtWork, InHand, Cascade,
     Written, RunningIsLeased
<1>4. FacesOnce'
  BY DEF Upload, Strict, Base, TypeOK, FacesOnce, AtWork, InHand, SnapCurrent,
     Cascade, Written
<1>5. ReadyMeansDrained'
  BY DEF Upload, Strict, Base, TypeOK, ReadyMeansDrained, AtWork, InHand,
     PhotosOf, Open, Cascade
<1>6. PhotoFollowsJob'
  BY DEF Upload, Strict, Base, TypeOK, PhotoFollowsJob, AtWork, InHand, Cascade
<1>7. OneCounting' /\ CrossedKnown' /\ VerdictHolds'
  <2>1. \A v \in Workers : verdict[v] # "none" => cur[v] \in Photos
    BY DEF Strict, Base, FoundJob, AtWork
  <2>2. \A v \in Workers : verdict'[v] # "none" =>
         /\ verdict'[v] = verdict[v] /\ pc'[v] = pc[v] /\ cur'[v] = cur[v]
         /\ attempts'[cur[v]] = attempts[cur[v]]
    BY DEF Upload
  <2>3. \A v \in Workers :
         /\ verdict[v] # "none" /\ EventOf[cur[v]] = EventOf[p] /\ EventOf[p] \notin crossed'
         => Outcome(v) = "pending"
    BY <2>1 DEF Upload, Counting, Burying, Settling, Finishing, PhotosOf, Outcome, FailState
  <2>4. \A v \in Workers :
         /\ verdict'[v] # "none" /\ EventOf[cur[v]] \notin crossed' /\ Outcome(v) # "pending"
         => /\ eventStatus'[EventOf[cur[v]]] = eventStatus[EventOf[cur[v]]]
            /\ \A q \in PhotosOf(EventOf[cur[v]]) :
                  q = cur[v] \/ (jobState'[q] \in Open <=> jobState[q] \in Open)
    BY <2>1, <2>2, <2>3 DEF Upload, PhotosOf, Strict, Base, TypeOK
  <2>. QED BY <2>2, <2>4, FinishesKept DEF Upload
<1>. QED BY <1>1, <1>2, <1>3, <1>4, <1>5, <1>6, <1>7 DEF Strict

\* A run_after that passes gives nobody a job.
LEMMA BackoffStrict ==
  ASSUME NEW p \in Photos, Strict, BackoffElapses(p),
         overruns' = overruns, Base'
  PROVE  Strict'
<1>1. InHand' /\ SnapCurrent' /\ CountedOnce' /\ FacesOnce' /\
   ReadyMeansDrained' /\ PhotoFollowsJob'
  BY DEF BackoffElapses, Strict, InHand, SnapCurrent, CountedOnce, FacesOnce,
     ReadyMeansDrained, PhotoFollowsJob, PhotosOf
<1>2. OneCounting' /\ CrossedKnown' /\ VerdictHolds'
  BY FinishesSame DEF BackoffElapses, Strict, Base, TypeOK, FoundJob
<1>. QED BY <1>1, <1>2 DEF Strict

\* A lease that runs out behind nobody takes no job from a worker.
LEMMA LeaseStrict ==
  ASSUME NEW p \in Photos, Strict, ExpireLease(p), Holders(p) = {},
         overruns' = overruns, Base'
  PROVE  Strict'
<1>1. InHand'
  BY DEF ExpireLease, Holders, Strict, Base, TypeOK, InHand, AtWork, Cascade
<1>2. SnapCurrent' /\ CountedOnce' /\ FacesOnce' /\ ReadyMeansDrained' /\
   PhotoFollowsJob'
  BY DEF ExpireLease, Holders, Strict, SnapCurrent, CountedOnce, FacesOnce,
     ReadyMeansDrained, PhotoFollowsJob, PhotosOf
<1>3. OneCounting' /\ CrossedKnown' /\ VerdictHolds'
  BY FinishesSame DEF ExpireLease, Strict, Base, TypeOK, FoundJob
<1>. QED BY <1>1, <1>2, <1>3 DEF Strict

\* Whatever a worker holds of a deleted event has no row any more.
LEMMA DeleteStrict ==
  ASSUME NEW e \in Events, Strict, DeleteEvent(e),
         overruns' = overruns, Base'
  PROVE  Strict'
<1>1. InHand'
  BY DEF DeleteEvent, Strict, Base, TypeOK, InHand, AtWork, Cascade
<1>2. SnapCurrent'
  BY DEF DeleteEvent, Strict, Base, TypeOK, SnapCurrent, AtWork, InHand,
     Cascade
<1>3. CountedOnce'
  BY DEF DeleteEvent, Strict, Base, TypeOK, CountedOnce, AtWork, InHand,
     Cascade, Written, RunningIsLeased
<1>4. FacesOnce'
  BY DEF DeleteEvent, Strict, Base, TypeOK, FacesOnce, AtWork, InHand,
     SnapCurrent, Cascade, Written
<1>5. ReadyMeansDrained'
  BY DEF DeleteEvent, Strict, Base, TypeOK, ReadyMeansDrained, AtWork, InHand,
     PhotosOf, Open, Cascade
<1>6. PhotoFollowsJob'
  BY DEF DeleteEvent, Strict, Base, TypeOK, PhotoFollowsJob, AtWork, InHand,
     Cascade
<1>7. OneCounting' /\ CrossedKnown' /\ VerdictHolds'
  <2>1. \A v \in Workers : verdict[v] # "none" => cur[v] \in Photos
    BY DEF Strict, Base, FoundJob, AtWork
  <2>2. \A v \in Workers : verdict'[v] # "none" =>
         /\ verdict'[v] = verdict[v] /\ pc'[v] = pc[v] /\ cur'[v] = cur[v]
         /\ attempts'[cur[v]] = attempts[cur[v]]
    BY <2>1 DEF DeleteEvent, Finishing, PhotosOf
  <2>3. \A v \in Workers :
         /\ verdict'[v] # "none" /\ EventOf[cur[v]] \notin crossed' /\ Outcome(v) # "pending"
         => /\ eventStatus'[EventOf[cur[v]]] = eventStatus[EventOf[cur[v]]]
            /\ \A q \in PhotosOf(EventOf[cur[v]]) :
                  q = cur[v] \/ (jobState'[q] \in Open <=> jobState[q] \in Open)
    BY <2>1, <2>2 DEF DeleteEvent, Finishing, PhotosOf, Strict, Base, TypeOK
  <2>. QED BY <2>2, <2>3, FinishesKept DEF DeleteEvent
<1>. QED BY <1>1, <1>2, <1>3, <1>4, <1>5, <1>6, <1>7 DEF Strict

\* What a claim may take is in nobody's hands.
LEMMA ClaimableFree ==
  ASSUME Strict, NEW S \in ClaimSets
  PROVE  /\ S \subseteq Photos
         /\ \A p \in S : jobState[p] \in Open /\ \A v \in Workers : ~(held[v][p] > 0)
<1>1. S \subseteq Claimable
  BY DEF ClaimSets
<1>2. ASSUME NEW p \in Claimable, NEW v \in Workers, held[v][p] > 0 PROVE FALSE
  BY <1>2 DEF Claimable, Strict, InHand
<1>. QED BY <1>1, <1>2 DEF Claimable, Open

\* A claim takes free jobs only, so its worker is their one holder.
LEMMA ClaimStrict ==
  ASSUME NEW w \in Workers, Strict, Claim(w),
         overruns' = overruns, Base'
  PROVE  Strict'
<1>. PICK S \in ClaimSets :
        /\ ClaimRows(w, S)
        /\ held' = [held EXCEPT ![w] =
                      [p \in Photos |-> IF p \in S THEN attempts[p] + 1 ELSE 0]]
  BY DEF Claim
<1>1. /\ S \subseteq Photos
      /\ \A p \in S : jobState[p] \in Open /\ \A v \in Workers : ~(held[v][p] > 0)
  BY ClaimableFree
<1>2. InHand'
  <2>. SUFFICES ASSUME NEW v \in Workers, NEW p \in Photos, held'[v][p] > 0
                PROVE  /\ \A u \in Workers : held'[u][p] > 0 => u = v
                       /\ jobState'[p] # "none" =>
                             /\ jobState'[p] = "running"
                             /\ lockedBy'[p] = v
                             /\ lease'[p] = "live"
                             /\ attempts'[p] = held'[v][p]
    BY DEF InHand
  <2>1. CASE p \in S
    <3>1. \A u \in Workers : held'[u][p] > 0 => u = w
      BY <1>1, <2>1 DEF Strict, Base, TypeOK
    <3>. QED BY <2>1, <3>1 DEF ClaimRows, Strict, Base, TypeOK
  <2>2. CASE p \notin S
    <3>1. \A u \in Workers : held'[u][p] > 0 => u # w /\ held'[u][p] = held[u][p]
      BY <2>2 DEF Strict, Base, TypeOK
    <3>. QED BY <2>2, <3>1 DEF ClaimRows, Strict, InHand
  <2>. QED BY <2>1, <2>2
<1>3. SnapCurrent'
  BY DEF Claim, Strict, Base, TypeOK, SnapCurrent
<1>4. CountedOnce'
  BY <1>1 DEF Claim, ClaimRows, Strict, CountedOnce, Open
<1>5. FacesOnce'
  BY DEF Claim, Strict, FacesOnce
<1>6. ReadyMeansDrained'
  BY <1>1 DEF Claim, ClaimRows, Strict, ReadyMeansDrained, PhotosOf, Open, Base, TypeOK
<1>7. PhotoFollowsJob'
  BY <1>1 DEF Claim, ClaimRows, Strict, PhotoFollowsJob, Open
<1>8. OneCounting' /\ CrossedKnown' /\ VerdictHolds'
  <2>1. \A v \in Workers : verdict'[v] # "none" =>
         /\ verdict'[v] = verdict[v] /\ pc'[v] = pc[v] /\ cur'[v] = cur[v]
         /\ attempts'[cur[v]] = attempts[cur[v]]
    <3>. SUFFICES ASSUME NEW v \in Workers, verdict'[v] # "none"
                  PROVE  /\ verdict'[v] = verdict[v] /\ pc'[v] = pc[v] /\ cur'[v] = cur[v]
                         /\ attempts'[cur[v]] = attempts[cur[v]]
      OBVIOUS
    <3>1. verdict[v] # "none" /\ cur'[v] = cur[v]
      BY DEF Claim
    <3>2. pc[v] \in {"indexed", "raised"} /\ cur[v] \in Photos
      BY <3>1 DEF Strict, Base, FoundJob, AtWork
    <3>3. cur[v] \notin S
      BY <3>1 DEF ClaimSets, Finishing
    <3>. QED BY <3>1, <3>2, <3>3 DEF Claim, ClaimRows, Strict, Base, TypeOK
  <2>2. \A v \in Workers :
         /\ verdict'[v] # "none" /\ EventOf[cur[v]] \notin crossed' /\ Outcome(v) # "pending"
         => /\ eventStatus'[EventOf[cur[v]]] = eventStatus[EventOf[cur[v]]]
            /\ \A q \in PhotosOf(EventOf[cur[v]]) :
                  q = cur[v] \/ (jobState'[q] \in Open <=> jobState[q] \in Open)
    BY <1>1 DEF Claim, ClaimRows, PhotosOf, Open
  <2>. QED BY <2>1, <2>2, FinishesKept DEF Claim
<1>. QED BY <1>2, <1>3, <1>4, <1>5, <1>6, <1>7, <1>8 DEF Strict

\* A claim whose answer is lost gives the jobs to nobody.
LEMMA LostStrict ==
  ASSUME NEW w \in Workers, Strict, ClaimReplyLost(w),
         overruns' = overruns, Base'
  PROVE  Strict'
<1>. PICK S \in ClaimSets : ClaimRows(w, S)
  BY DEF ClaimReplyLost
<1>1. /\ S \subseteq Photos
      /\ \A p \in S : jobState[p] \in Open /\ \A v \in Workers : ~(held[v][p] > 0)
  BY ClaimableFree
<1>2. InHand'
  BY <1>1 DEF ClaimReplyLost, ClaimRows, Strict, InHand
<1>3. CountedOnce'
  BY <1>1 DEF ClaimReplyLost, ClaimRows, Strict, CountedOnce, Open
<1>4. ReadyMeansDrained'
  BY <1>1 DEF ClaimReplyLost, ClaimRows, Strict, ReadyMeansDrained, PhotosOf, Open,
              Base, TypeOK
<1>5. PhotoFollowsJob'
  BY <1>1 DEF ClaimReplyLost, ClaimRows, Strict, PhotoFollowsJob, Open
<1>6. SnapCurrent' /\ FacesOnce'
  BY DEF ClaimReplyLost, Strict, SnapCurrent, FacesOnce
<1>7. OneCounting' /\ CrossedKnown' /\ VerdictHolds'
  <2>1. \A v \in Workers : verdict'[v] # "none" =>
         /\ verdict'[v] = verdict[v] /\ pc'[v] = pc[v] /\ cur'[v] = cur[v]
         /\ attempts'[cur[v]] = attempts[cur[v]]
    <3>. SUFFICES ASSUME NEW v \in Workers, verdict'[v] # "none"
                  PROVE  /\ verdict'[v] = verdict[v] /\ pc'[v] = pc[v] /\ cur'[v] = cur[v]
                         /\ attempts'[cur[v]] = attempts[cur[v]]
      OBVIOUS
    <3>1. verdict[v] # "none" /\ cur'[v] = cur[v]
      BY DEF ClaimReplyLost
    <3>2. pc[v] \in {"indexed", "raised"} /\ cur[v] \in Photos
      BY <3>1 DEF Strict, Base, FoundJob, AtWork
    <3>3. cur[v] \notin S
      BY <3>1 DEF ClaimSets, Finishing
    <3>. QED BY <3>1, <3>2, <3>3 DEF ClaimReplyLost, ClaimRows, Strict, Base, TypeOK
  <2>2. \A v \in Workers :
         /\ verdict'[v] # "none" /\ EventOf[cur[v]] \notin crossed' /\ Outcome(v) # "pending"
         => /\ eventStatus'[EventOf[cur[v]]] = eventStatus[EventOf[cur[v]]]
            /\ \A q \in PhotosOf(EventOf[cur[v]]) :
                  q = cur[v] \/ (jobState'[q] \in Open <=> jobState[q] \in Open)
    BY <1>1 DEF ClaimReplyLost, ClaimRows, PhotosOf, Open
  <2>. QED BY <2>1, <2>2, FinishesKept DEF ClaimReplyLost
<1>. QED BY <1>2, <1>3, <1>4, <1>5, <1>6, <1>7 DEF Strict

\* A heartbeat prolongs leases; it never shortens one.
LEMMA HeartbeatStrict ==
  ASSUME NEW w \in Workers, Strict, Heartbeat(w),
         overruns' = overruns, Base'
  PROVE  Strict'
<1>1. InHand'
  BY DEF Heartbeat, ToNextJob, Strict, Base, TypeOK, InHand, AtWork, Cascade
<1>2. SnapCurrent'
  BY DEF Heartbeat, ToNextJob, Strict, Base, TypeOK, SnapCurrent, AtWork,
     InHand, Cascade
<1>3. CountedOnce' /\ FacesOnce' /\ ReadyMeansDrained' /\ PhotoFollowsJob'
  BY DEF Heartbeat, ToNextJob, Strict, CountedOnce, FacesOnce,
     ReadyMeansDrained, PhotoFollowsJob, PhotosOf
<1>4. OneCounting' /\ CrossedKnown' /\ VerdictHolds'
  BY FinishesSame DEF Heartbeat, ToNextJob, Strict, Base, TypeOK, FoundJob
<1>. QED BY <1>1, <1>2, <1>3, <1>4 DEF Strict

\* Only the holder of a running job marks its photograph 'processing'.
LEMMA DeriveStrict ==
  ASSUME NEW w \in Workers, NEW q \in Photos, Strict, Derive(w, q),
         overruns' = overruns, Base'
  PROVE  Strict'
<1>1. SnapCurrent'
  BY DEF Derive, Strict, Base, TypeOK, SnapCurrent, AtWork, InHand, Cascade
<1>2. FacesOnce'
  BY DEF Derive, Strict, Base, TypeOK, FacesOnce, AtWork, InHand, SnapCurrent,
     Cascade, Written
<1>3. PhotoFollowsJob'
  BY DEF Derive, Strict, Base, TypeOK, PhotoFollowsJob, AtWork, InHand, Cascade
<1>4. InHand' /\ CountedOnce' /\ ReadyMeansDrained'
  BY DEF Derive, Strict, InHand, CountedOnce, ReadyMeansDrained, PhotosOf
<1>5. OneCounting' /\ CrossedKnown' /\ VerdictHolds'
  BY FinishesSame DEF Derive, Strict, Base, TypeOK, FoundJob
<1>. QED BY <1>1, <1>2, <1>3, <1>4, <1>5 DEF Strict

\* A pass that raises keeps its job in hand until the finish.
LEMMA RaiseEarlyStrict ==
  ASSUME NEW w \in Workers, NEW q \in Photos, Strict, RaiseEarly(w, q),
         overruns' = overruns, Base'
  PROVE  Strict'
<1>1. SnapCurrent'
  BY DEF RaiseEarly, Strict, Base, TypeOK, SnapCurrent, AtWork, InHand, Cascade
<1>2. InHand' /\ CountedOnce' /\ FacesOnce' /\ ReadyMeansDrained' /\
   PhotoFollowsJob'
  BY DEF RaiseEarly, Strict, InHand, CountedOnce, FacesOnce, ReadyMeansDrained,
     PhotoFollowsJob, PhotosOf
<1>3. OneCounting' /\ CrossedKnown' /\ VerdictHolds'
  BY FinishesSame DEF RaiseEarly, Strict, Base, TypeOK, FoundJob
<1>. QED BY <1>1, <1>2, <1>3 DEF Strict

\* What the DELETE of the sole holder saw stays what is committed.
LEMMA DeleteFacesStrict ==
  ASSUME NEW w \in Workers, Strict, DeleteFaces(w),
         overruns' = overruns, Base'
  PROVE  Strict'
<1>1. SnapCurrent'
  BY DEF DeleteFaces, Strict, Base, TypeOK, SnapCurrent, AtWork, InHand,
     Cascade
<1>2. InHand' /\ CountedOnce' /\ FacesOnce' /\ ReadyMeansDrained' /\
   PhotoFollowsJob'
  BY DEF DeleteFaces, Strict, InHand, CountedOnce, FacesOnce,
     ReadyMeansDrained, PhotoFollowsJob, PhotosOf
<1>3. OneCounting' /\ CrossedKnown' /\ VerdictHolds'
  BY FinishesSame DEF DeleteFaces, Strict, Base, TypeOK, FoundJob
<1>. QED BY <1>1, <1>2, <1>3 DEF Strict

\* A rolled back replace_faces() leaves the committed rows alone.
LEMMA RaiseLateStrict ==
  ASSUME NEW w \in Workers, Strict, RaiseLate(w),
         overruns' = overruns, Base'
  PROVE  Strict'
<1>1. SnapCurrent'
  BY DEF RaiseLate, Strict, Base, TypeOK, SnapCurrent, AtWork, InHand, Cascade
<1>2. InHand' /\ CountedOnce' /\ FacesOnce' /\ ReadyMeansDrained' /\
   PhotoFollowsJob'
  BY DEF RaiseLate, Strict, InHand, CountedOnce, FacesOnce, ReadyMeansDrained,
     PhotoFollowsJob, PhotosOf
<1>3. OneCounting' /\ CrossedKnown' /\ VerdictHolds'
  BY FinishesSame DEF RaiseLate, Strict, Base, TypeOK, FoundJob
<1>. QED BY <1>1, <1>2, <1>3 DEF Strict

\* The DELETE saw every committed row, so only the rows of this pass remain.
LEMMA CommitFacesStrict ==
  ASSUME NEW w \in Workers, Strict, CommitFaces(w),
         overruns' = overruns, Base'
  PROVE  Strict'
<1>1. SnapCurrent'
  BY DEF CommitFaces, Strict, Base, TypeOK, SnapCurrent, AtWork, InHand,
     Cascade
<1>2. FacesOnce'
  BY DEF CommitFaces, Strict, Base, TypeOK, FacesOnce, AtWork, InHand,
     SnapCurrent, Cascade, Written
<1>3. InHand' /\ CountedOnce' /\ ReadyMeansDrained' /\ PhotoFollowsJob'
  BY DEF CommitFaces, Strict, InHand, CountedOnce, ReadyMeansDrained,
     PhotoFollowsJob, PhotosOf
<1>4. OneCounting' /\ CrossedKnown' /\ VerdictHolds'
  BY FinishesSame DEF CommitFaces, Strict, Base, TypeOK, FoundJob
<1>. QED BY <1>1, <1>2, <1>3, <1>4 DEF Strict

\* Of an album that no dead letter crossed, one finish opens or counts at a time: the
\* other ones put their jobs back.
LEMMA FinishAlone ==
  ASSUME Strict, NEW w \in Workers, NEW v \in Workers, v # w,
         verdict[w] # "none", verdict[v] # "none",
         EventOf[cur[v]] = EventOf[cur[w]], EventOf[cur[v]] \notin crossed,
         Outcome(v) # "pending"
  PROVE  Outcome(w) = "pending" /\ verdict[w] = "keep" /\ cur[v] # cur[w]
<1>1. /\ cur[w] \in Photos /\ cur[v] \in Photos /\ cur[w] # cur[v]
      /\ pc[w] \in {"indexed", "raised"} /\ pc[v] \in {"indexed", "raised"}
  BY DEF Strict, Base, FoundJob, AtWork, InHand
<1>2. Outcome(v) # "failed" /\ Outcome(w) # "failed"
  BY DEF Strict, CrossedKnown
<1>3. Outcome(w) = "pending"
  BY <1>1, <1>2 DEF Outcome, FailState, Strict, OneCounting
<1>4. verdict[w] # "open"
  BY <1>1, <1>3 DEF Strict, VerdictHolds, Drained, Open, PhotosOf, Base, TypeOK
<1>. QED BY <1>1, <1>3, <1>4 DEF Strict, Base, TypeOK

\* The job that is finished runs until its finish commits, and only its photograph, its
\* event and its worker follow.
LEMMA FinishMoves ==
  ASSUME NEW w \in Workers, Strict, FinishOk(w) \/ FinishFailed(w)
  PROVE  /\ verdict[w] # "none" /\ cur[w] \in Photos /\ jobState[cur[w]] = "running"
         /\ \A q \in Photos : jobState'[q] = IF q = cur[w] THEN Outcome(w) ELSE jobState[q]
         /\ \A e \in Events : eventStatus'[e] =
              IF e = EventOf[cur[w]] /\ Opens(w) THEN "ready" ELSE eventStatus[e]
         /\ attempts' = attempts /\ crossed' = crossed
         /\ \A v \in Workers : verdict'[v] # "none" =>
              v # w /\ verdict'[v] = verdict[v] /\ pc'[v] = pc[v] /\ cur'[v] = cur[v]
<1>1. /\ verdict[w] # "none" /\ attempts' = attempts /\ crossed' = crossed
      /\ verdict' = [verdict EXCEPT ![w] = "none"]
      /\ cur' = [cur EXCEPT ![w] = NoPhoto]
      /\ jobState' = [jobState EXCEPT ![cur[w]] = Outcome(w)]
      /\ eventStatus' = [eventStatus EXCEPT ![EventOf[cur[w]]] =
                           IF Opens(w) THEN "ready" ELSE @]
  BY DEF FinishOk, FinishFailed, FinishRow, Drop, Outcome
<1>2. cur[w] \in Photos /\ jobState[cur[w]] = "running"
  BY <1>1 DEF Strict, Base, FoundJob, AtWork, InHand
<1>3. \A q \in Photos : jobState'[q] = IF q = cur[w] THEN Outcome(w) ELSE jobState[q]
  BY <1>1 DEF Strict, Base, TypeOK
<1>4. \A e \in Events : eventStatus'[e] =
        IF e = EventOf[cur[w]] /\ Opens(w) THEN "ready" ELSE eventStatus[e]
  BY <1>1 DEF Strict, Base, TypeOK
<1>5. \A v \in Workers : v # w => pc'[v] = pc[v]
  <2>. pc \in [Workers -> {"idle", "beat", "next", "derived", "replacing",
                           "indexed", "raised", "down"}]
    BY DEF Strict, Base, TypeOK
  <2>1. CASE FinishOk(w)
    BY <2>1 DEF FinishOk
  <2>2. CASE FinishFailed(w)
    BY <2>2 DEF FinishFailed, ToNextJob
  <2>. QED BY <2>1, <2>2
<1>6. \A v \in Workers : verdict'[v] # "none" =>
        v # w /\ verdict'[v] = verdict[v] /\ cur'[v] = cur[v]
  BY <1>1 DEF Strict, Base, TypeOK
<1>. QED BY <1>1, <1>2, <1>3, <1>4, <1>5, <1>6

\* A finish that commits leaves what the others under way know as it is, and opens an
\* album, if no dead letter crossed it, only when it is drained.
LEMMA FinishParts ==
  ASSUME NEW w \in Workers, Strict, FinishOk(w) \/ FinishFailed(w), Base'
  PROVE  OneCounting' /\ CrossedKnown' /\ VerdictHolds' /\ ReadyMeansDrained'
<1>1. \A v \in Workers : verdict'[v] # "none" => v # w /\ verdict'[v] = verdict[v]
  BY FinishMoves
<1>2. \A v \in Workers :
         /\ verdict'[v] # "none" /\ EventOf[cur[v]] \notin crossed' /\ Outcome(v) # "pending"
         => /\ eventStatus'[EventOf[cur[v]]] = eventStatus[EventOf[cur[v]]]
            /\ \A q \in PhotosOf(EventOf[cur[v]]) :
                  q = cur[v] \/ (jobState'[q] \in Open <=> jobState[q] \in Open)
  <2>. SUFFICES ASSUME NEW v \in Workers, verdict'[v] # "none",
                       EventOf[cur[v]] \notin crossed', Outcome(v) # "pending"
                PROVE  /\ eventStatus'[EventOf[cur[v]]] = eventStatus[EventOf[cur[v]]]
                       /\ \A q \in PhotosOf(EventOf[cur[v]]) :
                             jobState'[q] \in Open <=> jobState[q] \in Open
    OBVIOUS
  <2>3. cur[v] \in Photos
    BY <1>1 DEF Strict, Base, FoundJob, AtWork
  <2>1. CASE EventOf[cur[v]] = EventOf[cur[w]]
    <3>1. Outcome(w) = "pending" /\ verdict[w] = "keep"
      BY <1>1, <2>1, FinishMoves, FinishAlone
    <3>. QED BY <2>1, <2>3, <3>1, FinishMoves DEF Opens, Open, PhotosOf
  <2>2. CASE EventOf[cur[v]] # EventOf[cur[w]]
    BY <2>2, <2>3, FinishMoves DEF PhotosOf
  <2>. QED BY <2>1, <2>2
<1>3. OneCounting' /\ CrossedKnown' /\ VerdictHolds'
  BY <1>1, <1>2, FinishMoves, FinishesKept
<1>4. ReadyMeansDrained'
  <2>. SUFFICES ASSUME NEW e \in Events \ crossed, eventStatus'[e] = "ready",
                       NEW q \in PhotosOf(e)
                PROVE  jobState'[q] \notin Open
    BY FinishMoves DEF ReadyMeansDrained, PhotosOf
  <2>1. CASE EventOf[cur[w]] = e /\ Opens(w)
    <3>1. Drained(EventOf[cur[w]], [jobState EXCEPT ![cur[w]] = Outcome(w)])
      <4>1. verdict[w] = "open" /\ EventOf[cur[w]] \notin crossed
        BY <2>1 DEF Opens
      <4>2. verdict[w] # "none"
        BY <4>1
      <4>. QED BY <4>1, <4>2, Zenon DEF Strict, VerdictHolds
    <3>2. [jobState EXCEPT ![cur[w]] = Outcome(w)][q] = jobState'[q]
      <4>1. q \in Photos /\ jobState'[q] = IF q = cur[w] THEN Outcome(w) ELSE jobState[q]
        BY FinishMoves DEF PhotosOf
      <4>. QED BY <4>1 DEF Strict, Base, TypeOK
    <3>. QED BY <2>1, <3>1, <3>2 DEF Drained
  <2>2. CASE ~(EventOf[cur[w]] = e /\ Opens(w))
    <3>1. eventStatus[e] = "ready"
      BY <2>2, FinishMoves
    <3>2. EventOf[cur[w]] # e
      BY <3>1, FinishMoves DEF Strict, ReadyMeansDrained, PhotosOf, Open
    <3>. QED BY <3>1, <3>2, FinishMoves DEF Strict, ReadyMeansDrained, PhotosOf
  <2>. QED BY <2>1, <2>2
<1>. QED BY <1>3, <1>4

\* A finish that looks at its album: one success at a time does, crossings are noted, and
\* what it saw is so.
LEMMA CheckDrainedStrict ==
  ASSUME NEW w \in Workers, Strict, CheckDrained(w),
         overruns' = overruns, Base'
  PROVE  Strict'
<1>. DEFINE e == EventOf[cur[w]]
<1>1. \A v \in Workers : v # w => verdict'[v] = verdict[v]
  BY DEF CheckDrained, Strict, Base, TypeOK
<1>2. /\ UNCHANGED <<jobState, attempts, eventStatus, cur, pc>>
      /\ crossed \subseteq crossed' /\ pc[w] \in {"indexed", "raised"}
      /\ \A v \in Workers : Outcome(v)' = Outcome(v)
  BY DEF CheckDrained, Crosses, Outcome, FailState
<1>3. cur[w] \in Photos /\ \A v \in Workers : verdict[v] # "none" => cur[v] \in Photos
  BY <1>2 DEF Strict, Base, FoundJob, AtWork
<1>4. OneCounting'
  <2>1. \A v \in Workers :
          /\ v # w /\ verdict[v] # "none" /\ pc[v] = "indexed" /\ EventOf[cur[v]] = e
          => pc[w] # "indexed"
    BY <1>3 DEF CheckDrained, Counting, Settling, Finishing, PhotosOf, Outcome
  <2>. QED BY <1>1, <1>2, <2>1 DEF OneCounting, Strict
<1>5. CrossedKnown'
  <2>1. \A v \in Workers :
          /\ v # w /\ verdict[v] # "none" /\ EventOf[cur[v]] = e
          /\ Outcome(v) = "failed" \/ Outcome(w) = "failed"
          => e \in crossed'
    BY <1>3 DEF CheckDrained, Crosses, Burying, Settling, Finishing, PhotosOf
  <2>. QED BY <1>1, <1>2, <2>1 DEF CrossedKnown, Strict
<1>6. VerdictHolds'
  <2>1. verdict'[w] = "open" <=> Drained(e, [jobState EXCEPT ![cur[w]] = Outcome(w)])
    BY DEF CheckDrained, Strict, Base, TypeOK
  <2>2. \A v \in Workers :
          Drained(EventOf[cur[v]], [jobState EXCEPT ![cur[v]] = Outcome(v)])'
             <=> Drained(EventOf[cur[v]], [jobState EXCEPT ![cur[v]] = Outcome(v)])
    BY <1>2 DEF Drained
  <2>. QED BY <1>1, <1>2, <2>1, <2>2 DEF VerdictHolds, Strict
<1>7. ReadyMeansDrained'
  BY <1>2 DEF ReadyMeansDrained, Strict
<1>8. InHand' /\ SnapCurrent' /\ CountedOnce' /\ FacesOnce' /\ PhotoFollowsJob'
  BY DEF CheckDrained, Strict, InHand, SnapCurrent, CountedOnce, FacesOnce, PhotoFollowsJob
<1>. QED BY <1>4, <1>5, <1>6, <1>7, <1>8 DEF Strict

\* The sole holder finishes a running job: its faces are counted for the first time.
LEMMA FinishOkStrict ==
  ASSUME NEW w \in Workers, Strict, FinishOk(w),
         overruns' = overruns, Base'
  PROVE  Strict'
<1>1. InHand'
  BY DEF FinishOk, FinishRow, Drop, Strict, Base, TypeOK, InHand, AtWork,
     Cascade
<1>2. SnapCurrent'
  BY DEF FinishOk, FinishRow, Drop, Strict, Base, TypeOK, SnapCurrent, AtWork,
     InHand, Cascade
<1>3. CountedOnce'
  BY DEF FinishOk, FinishRow, Drop, Strict, Base, TypeOK, CountedOnce, AtWork,
     InHand, Cascade, Written, RunningIsLeased
<1>4. FacesOnce'
  BY DEF FinishOk, FinishRow, Drop, Strict, Base, TypeOK, FacesOnce, AtWork,
     InHand, SnapCurrent, Cascade, Written, FoundJob
<1>5. OneCounting' /\ CrossedKnown' /\ VerdictHolds' /\ ReadyMeansDrained'
  BY FinishParts
<1>6. PhotoFollowsJob'
  BY DEF FinishOk, FinishRow, Drop, Strict, Base, TypeOK, PhotoFollowsJob,
     AtWork, InHand, Cascade
<1>. QED BY <1>1, <1>2, <1>3, <1>4, <1>5, <1>6 DEF Strict

\* The sole holder returns or dead-letters a running job, uncounted.
LEMMA FinishFailedStrict ==
  ASSUME NEW w \in Workers, Strict, FinishFailed(w),
         overruns' = overruns, Base'
  PROVE  Strict'
<1>1. InHand'
  BY DEF FinishFailed, FinishRow, FailState, Drop, ToNextJob, Strict, Base,
     TypeOK, InHand, AtWork, Cascade
<1>2. SnapCurrent'
  BY DEF FinishFailed, FinishRow, FailState, Drop, ToNextJob, Strict, Base,
     TypeOK, SnapCurrent, AtWork, InHand, Cascade
<1>3. CountedOnce'
  BY DEF FinishFailed, FinishRow, FailState, Drop, ToNextJob, Strict, Base,
     TypeOK, CountedOnce, AtWork, InHand, Cascade, Written, RunningIsLeased
<1>4. FacesOnce'
  BY DEF FinishFailed, FinishRow, FailState, Drop, ToNextJob, Strict, Base,
     TypeOK, FacesOnce, AtWork, InHand, SnapCurrent, Cascade, Written, FoundJob
<1>5. OneCounting' /\ CrossedKnown' /\ VerdictHolds' /\ ReadyMeansDrained'
  BY FinishParts
<1>6. PhotoFollowsJob'
  BY DEF FinishFailed, FinishRow, FailState, Drop, ToNextJob, Strict, Base,
     TypeOK, PhotoFollowsJob, AtWork, InHand, Cascade
<1>. QED BY <1>1, <1>2, <1>3, <1>4, <1>5, <1>6 DEF Strict

\* A worker that dies leaves its jobs running, leased and in nobody's hands.
LEMMA HaltStrict ==
  ASSUME NEW w \in Workers, Strict, Halt(w),
         overruns' = overruns, Base'
  PROVE  Strict'
<1>1. InHand'
  BY DEF Halt, Strict, Base, TypeOK, InHand, AtWork, Cascade
<1>2. SnapCurrent'
  BY DEF Halt, Strict, Base, TypeOK, SnapCurrent, AtWork, InHand, Cascade
<1>3. CountedOnce' /\ FacesOnce' /\ ReadyMeansDrained' /\ PhotoFollowsJob'
  BY DEF Halt, Strict, CountedOnce, FacesOnce, ReadyMeansDrained,
     PhotoFollowsJob, PhotosOf
<1>4. OneCounting' /\ CrossedKnown' /\ VerdictHolds'
  BY FinishesSame DEF Halt, Strict, Base, TypeOK, FoundJob
<1>. QED BY <1>1, <1>2, <1>3, <1>4 DEF Strict

\* A worker that is started again holds nothing.
LEMMA RestartStrict ==
  ASSUME NEW w \in Workers, Strict, Restart(w),
         overruns' = overruns, Base'
  PROVE  Strict'
<1>1. SnapCurrent'
  BY DEF Restart, Strict, Base, TypeOK, SnapCurrent, AtWork, InHand, Cascade
<1>2. InHand' /\ CountedOnce' /\ FacesOnce' /\ ReadyMeansDrained' /\
   PhotoFollowsJob'
  BY DEF Restart, Strict, InHand, CountedOnce, FacesOnce, ReadyMeansDrained,
     PhotoFollowsJob, PhotosOf
<1>3. OneCounting' /\ CrossedKnown' /\ VerdictHolds'
  BY FinishesSame DEF Restart, Strict, Base, TypeOK, FoundJob
<1>. QED BY <1>1, <1>2, <1>3 DEF Strict
-----------------------------------------------------------------------------
(* The invariants of the specification. *)

\* The actions of Next, one by one.
LEMMA StepCases ==
  ASSUME Next
  PROVE  \/ \E p \in Photos : \/ Upload(p) \/ BackoffElapses(p)
                              \/ LeaseExpires(p) \/ LeaseOverruns(p)
         \/ \E e \in Events : DeleteEvent(e)
         \/ \E w \in Workers, q \in Photos : Derive(w, q) \/ RaiseEarly(w, q)
         \/ \E w \in Workers :
              \/ Claim(w) \/ ClaimReplyLost(w) \/ Heartbeat(w) \/ DeleteFaces(w)
              \/ RaiseLate(w) \/ CommitFaces(w) \/ CheckDrained(w) \/ FinishOk(w)
              \/ FinishFailed(w) \/ FinishRaises(w) \/ Kill(w) \/ Restart(w)
BY DEF Next, Work

\* A lease that runs out, behind a worker or not, is all that changes.
LEMMA LeaseStep ==
  ASSUME NEW p \in Photos, Base, LeaseExpires(p) \/ LeaseOverruns(p)
  PROVE  ExpireLease(p) /\ overruns' \in Nat
BY DEF LeaseExpires, LeaseOverruns, Base, TypeOK

\* A worker that is killed, or that finish takes down, only stops.
LEMMA HaltStep ==
  ASSUME NEW w \in Workers, Base, FinishRaises(w) \/ Kill(w)
  PROVE  Halt(w) /\ kills' \in Nat /\ overruns' = overruns
BY DEF FinishRaises, Kill, Halt, Base, TypeOK

\* Base is inductive.
LEMMA BaseNext == Base /\ [Next]_vars => Base'
<1> SUFFICES ASSUME Base, [Next]_vars PROVE Base'
  OBVIOUS
<1>1. CASE Next
  BY <1>1, StepCases, LeaseStep, HaltStep, UploadBase, BackoffBase, LeaseBase,
     DeleteBase, ClaimBase, LostBase, HeartbeatBase, DeriveBase, RaiseEarlyBase,
     DeleteFacesBase, RaiseLateBase, CommitFacesBase, CheckDrainedBase, FinishOkBase,
     FinishFailedBase, HaltBase, RestartBase
<1>2. CASE UNCHANGED vars
  BY <1>2 DEF vars, Base, TypeOK, AtWork, Cascade, Written, FoundJob, RunningIsLeased,
     DoneIsSearchable
<1>. QED BY <1>1, <1>2

\* What holds whatever the leases do: types, cascades, the order of the writes of a
\* pass, a lease behind every running job, faces behind every done photograph.
THEOREM BaseInvariant == Spec => []Base
BY BaseInit, BaseNext, PTL DEF Spec

\* Every variable has its type in every reachable state.
THEOREM TypeCorrect == Spec => []TypeOK
BY BaseInvariant, PTL DEF Base

\* A job that is running always has an owner and a lease, so its lease can run
\* out and the job can be claimed again: also after kills and overruns.
THEOREM RunningAlwaysLeased == Spec => []RunningIsLeased
BY BaseInvariant, PTL DEF Base

\* A photograph shown as done has its derivatives and faces, whatever the leases
\* did on the way.
THEOREM DoneAlwaysSearchable == Spec => []DoneIsSearchable
BY BaseInvariant, PTL DEF Base

\* Strict holds before anything was uploaded.
LEMMA StrictInit == Init => Strict
BY BaseInit DEF Init, Strict, InHand, SnapCurrent, CountedOnce, FacesOnce, OneCounting,
                CrossedKnown, VerdictHolds, ReadyMeansDrained, PhotoFollowsJob

\* Without overruns the lease of a job in hand does not expire.
LEMMA NoOverrun ==
  ASSUME MaxOverruns = 0, Strict, Next
  PROVE  /\ overruns' = overruns
         /\ \A p \in Photos : LeaseExpires(p) \/ LeaseOverruns(p) =>
              ExpireLease(p) /\ Holders(p) = {}
<1>1. \A p \in Photos : ~LeaseOverruns(p)
  BY DEF LeaseOverruns, Strict
<1>2. overruns' = overruns
  BY <1>1, StepCases DEF Upload, BackoffElapses, LeaseExpires, DeleteEvent, Claim,
     ClaimReplyLost, Heartbeat, Derive, RaiseEarly, DeleteFaces, RaiseLate,
     CommitFaces, CheckDrained, FinishOk, FinishFailed, FinishRaises, Kill, Halt, Restart
<1>. QED BY <1>1, <1>2 DEF LeaseExpires

\* Strict is inductive as long as no lease overruns.
LEMMA StrictNext == ASSUME MaxOverruns = 0 PROVE Strict /\ [Next]_vars => Strict'
<1> SUFFICES ASSUME Strict, [Next]_vars PROVE Strict'
  OBVIOUS
<1>1. Base'
  BY BaseNext DEF Strict
<1>2. CASE Next
  <2>1. Base
    BY DEF Strict
  <2>. QED
    BY <1>1, <1>2, <2>1, StepCases, NoOverrun, HaltStep, UploadStrict, BackoffStrict,
       LeaseStrict, DeleteStrict, ClaimStrict, LostStrict, HeartbeatStrict,
       DeriveStrict, RaiseEarlyStrict, DeleteFacesStrict, RaiseLateStrict,
       CommitFacesStrict, CheckDrainedStrict, FinishOkStrict, FinishFailedStrict, HaltStrict,
       RestartStrict
<1>3. CASE UNCHANGED vars
  BY <1>1, <1>3, FinishesSame DEF vars, Strict, InHand, SnapCurrent, CountedOnce,
     FacesOnce, ReadyMeansDrained, PhotoFollowsJob, PhotosOf
<1>. QED BY <1>2, <1>3

\* What holds while heartbeats keep every lease ahead of its worker: one holder per
\* job, faces indexed and counted once, drained albums, agreeing pages.
THEOREM StrictInvariant == ASSUME MaxOverruns = 0 PROVE Spec => []Strict
BY StrictInit, StrictNext, PTL DEF Spec

\* No photograph is ever in the hands of two workers.
THEOREM SoleHolderAlways == ASSUME MaxOverruns = 0 PROVE Spec => []SoleHolder
<1>1. Strict => SoleHolder
  BY DEF Strict, InHand, SoleHolder, Holders
<1>. QED BY <1>1, StrictInvariant, PTL

\* events.face_count is the faces of the photographs that are done, each counted once,
\* whatever claims, kills, lost replies and reclaims the jobs went through.
THEOREM LedgerAlwaysRight == ASSUME MaxOverruns = 0 PROVE Spec => []CountedOnce
BY StrictInvariant, PTL DEF Strict

\* replace_faces() leaves one pass's rows of a photograph, whoever retries it.
THEOREM FacesAlwaysOnce == ASSUME MaxOverruns = 0 PROVE Spec => []FacesOnce
BY StrictInvariant, PTL DEF Strict

\* An album that finish_ingest_job() opened has no photograph left in the queue, also with
\* dead letters in it, unless a dead-letter finish met another finish or an upload there.
THEOREM ReadyAlwaysDrained == ASSUME MaxOverruns = 0 PROVE Spec => []ReadyMeansDrained
BY StrictInvariant, PTL DEF Strict

\* The page (photos.status) and the queue (ingest_jobs.state) tell the same.
THEOREM PhotoAlwaysFollows == ASSUME MaxOverruns = 0 PROVE Spec => []PhotoFollowsJob
BY StrictInvariant, PTL DEF Strict

\* No step takes a settled job up again.
THEOREM SettledAlwaysStays == ASSUME MaxOverruns = 0 PROVE Spec => SettledStaysSettled
<1>1. ASSUME Strict, [Next]_vars
      PROVE  [\A p \in Photos : jobState[p] \in {"done", "failed"} =>
                 jobState'[p] \in {jobState[p], "none"}]_vars
  <2>. SUFFICES ASSUME Next, NEW p \in Photos, jobState[p] \in {"done", "failed"}
                PROVE  jobState'[p] \in {jobState[p], "none"}
    BY <1>1
  <2>. USE <1>1 DEF Strict
  <2>1. ASSUME NEW q \in Photos, Upload(q) PROVE jobState'[p] = jobState[p]
    BY <2>1 DEF Upload, Base, TypeOK, Cascade
  <2>2. ASSUME NEW e \in Events, DeleteEvent(e)
        PROVE  jobState'[p] \in {jobState[p], "none"}
    BY <2>2 DEF DeleteEvent
  <2>3. ASSUME NEW w \in Workers, Claim(w) \/ ClaimReplyLost(w)
        PROVE  jobState'[p] = jobState[p]
    <3>1. PICK S \in ClaimSets : ClaimRows(w, S)
      BY <2>3 DEF Claim, ClaimReplyLost
    <3>2. p \notin S
      BY <3>1, ClaimableFree DEF Open
    <3>. QED BY <3>1, <3>2 DEF ClaimRows
  <2>4. ASSUME NEW w \in Workers, FinishOk(w) \/ FinishFailed(w)
        PROVE  jobState'[p] = jobState[p]
    BY <2>4, FinishMoves
  <2>5. CASE UNCHANGED jobState
    BY <2>5
  <2>. QED
    BY <2>1, <2>2, <2>3, <2>4, <2>5, StepCases DEF BackoffElapses, LeaseExpires,
       LeaseOverruns, ExpireLease, Heartbeat, Derive, RaiseEarly, DeleteFaces,
       RaiseLate, CommitFaces, CheckDrained, FinishRaises, Kill, Halt, Restart
<1>. QED BY <1>1, StrictInvariant, PTL DEF Spec, SettledStaysSettled

-----------------------------------------------------------------------------
(* IngestQueue implements WorkQueue. *)

\* The places of the abstract queue, without its quantifiers.
LEMMA PlaceCases ==
  ASSUME Strict, NEW p \in Photos
  PROVE  /\ PlaceOf(p) = "absent" <=> jobState[p] = "none"
         /\ PlaceOf(p) = "done" <=> jobState[p] = "done"
         /\ PlaceOf(p) = "dead" <=> jobState[p] = "failed"
         /\ PlaceOf(p) = "held" <=> jobState[p] \in Open /\ Holders(p) # {}
         /\ PlaceOf(p) = "waiting" <=> jobState[p] \in Open /\ Holders(p) = {}
         /\ PlaceOf(p) = "held" <=> OwnerOf(p) # NoWorker
BY DEF PlaceOf, OwnerOf, Open, Strict, Base, TypeOK, InHand, Holders

\* A step moves the jobs of S if it does so place by place and owner by owner.
LEMMA MoveStep ==
  ASSUME NEW S \in SUBSET Photos, NEW to, NEW v,
         \A p \in Photos : /\ PlaceOf(p)' = IF p \in S THEN to ELSE PlaceOf(p)
                           /\ OwnerOf(p)' = IF p \in S THEN v ELSE OwnerOf(p)
  PROVE  Queue!Move(S, to, v)
BY DEF Queue!Move

\* What the abstract worker has in hand is what the real one holds of rows still there.
LEMMA HeldByIs ==
  ASSUME Strict, NEW w \in Workers
  PROVE  Queue!HeldBy(w) = {p \in Photos : jobState[p] # "none" /\ held[w][p] > 0}
<1>1. ASSUME NEW p \in Photos
      PROVE  PlaceOf(p) = "held" /\ OwnerOf(p) = w <=>
                jobState[p] # "none" /\ held[w][p] > 0
  <2>1. ASSUME jobState[p] # "none", held[w][p] > 0
        PROVE  PlaceOf(p) = "held" /\ OwnerOf(p) = w
    BY <2>1, PlaceCases DEF Strict, InHand, Holders, OwnerOf, Open
  <2>2. ASSUME PlaceOf(p) = "held", OwnerOf(p) = w
        PROVE  jobState[p] # "none" /\ held[w][p] > 0
    BY <2>2, PlaceCases DEF Strict, InHand, Holders, OwnerOf, Open
  <2>. QED BY <2>1, <2>2
<1>. QED BY <1>1 DEF Queue!HeldBy

\* Steps that touch neither a job state nor what a worker has in hand.
LEMMA QueueStutter ==
  ASSUME Strict, Strict', UNCHANGED <<jobState, held, lockedBy>>
  PROVE  UNCHANGED Queue!qvars
BY DEF Queue!qvars, PlaceOf, OwnerOf, Holders

\* An upload adds a job.
LEMMA QueueUpload ==
  ASSUME Strict, Strict', NEW p \in Photos, Upload(p) PROVE Queue!Add({p})
<1>1. PlaceOf(p) = "absent" /\ Holders(p) = {}
  BY PlaceCases DEF Upload, Strict, Base, Cascade, Holders
<1>2. \A q \in Photos : /\ PlaceOf(q)' = IF q \in {p} THEN "waiting" ELSE PlaceOf(q)
                        /\ OwnerOf(q)' = IF q \in {p} THEN NoWorker ELSE OwnerOf(q)
  BY <1>1 DEF Upload, PlaceOf, OwnerOf, Holders, Strict, Base, TypeOK
<1>3. Queue!Move({p}, "waiting", NoWorker)
  BY <1>2, MoveStep
<1>. QED BY <1>1, <1>3 DEF Queue!Add

\* Retention withdraws the jobs of an event, in hand or not.
LEMMA QueueDelete ==
  ASSUME Strict, Strict', NEW e \in Events, DeleteEvent(e)
  PROVE  Queue!Withdraw(PhotosOf(e))
<1>1. \A q \in Photos :
        /\ PlaceOf(q)' = IF q \in PhotosOf(e) THEN "absent" ELSE PlaceOf(q)
        /\ OwnerOf(q)' = IF q \in PhotosOf(e) THEN NoWorker ELSE OwnerOf(q)
  BY DEF DeleteEvent, PhotosOf, PlaceOf, OwnerOf, Holders
<1>. QED BY <1>1, MoveStep DEF Queue!Withdraw, PhotosOf

\* A claim takes waiting jobs.
LEMMA QueueClaim ==
  ASSUME Strict, Strict', NEW w \in Workers, Claim(w)
  PROVE  \E S \in SUBSET Photos : Queue!Take(w, S)
<1>. PICK S \in ClaimSets :
        /\ ClaimRows(w, S)
        /\ held' = [held EXCEPT ![w] =
                      [p \in Photos |-> IF p \in S THEN attempts[p] + 1 ELSE 0]]
  BY DEF Claim
<1>1. /\ S \in SUBSET Photos
      /\ \A p \in S : jobState[p] \in Open /\ \A v \in Workers : ~(held[v][p] > 0)
  BY ClaimableFree
<1>2. \A p \in S : PlaceOf(p) = "waiting"
  BY <1>1, PlaceCases DEF Holders
<1>3. \A q \in Photos : q \in S => PlaceOf(q)' = "held" /\ OwnerOf(q)' = w
  <2>. SUFFICES ASSUME NEW q \in Photos, q \in S
                PROVE  PlaceOf(q)' = "held" /\ OwnerOf(q)' = w
    OBVIOUS
  <2>1. held'[w][q] > 0 /\ jobState'[q] = "running" /\ lockedBy'[q] = w
    BY <1>1 DEF ClaimRows, Strict, Base, TypeOK
  <2>. QED BY <2>1 DEF PlaceOf, OwnerOf, Holders
<1>4. \A q \in Photos : q \notin S =>
         PlaceOf(q)' = PlaceOf(q) /\ OwnerOf(q)' = OwnerOf(q)
  <2>. SUFFICES ASSUME NEW q \in Photos, q \notin S
                PROVE  PlaceOf(q)' = PlaceOf(q) /\ OwnerOf(q)' = OwnerOf(q)
    OBVIOUS
  <2>1. \A v \in Workers : held'[v][q] > 0 <=> held[v][q] > 0
    BY DEF Claim, Strict, Base, TypeOK, AtWork
  <2>2. jobState'[q] = jobState[q] /\ lockedBy'[q] = lockedBy[q]
    BY DEF ClaimRows
  <2>. QED BY <2>1, <2>2 DEF PlaceOf, OwnerOf, Holders
<1>5. Queue!Move(S, "held", w)
  BY <1>1, <1>3, <1>4, MoveStep
<1>. QED BY <1>1, <1>2, <1>5 DEF Queue!Take

\* Jobs whose claim got lost keep waiting: leased, but in nobody's hands.
LEMMA QueueLost ==
  ASSUME Strict, Strict', NEW w \in Workers, ClaimReplyLost(w)
  PROVE  UNCHANGED Queue!qvars
<1>. PICK S \in ClaimSets : ClaimRows(w, S)
  BY DEF ClaimReplyLost
<1>1. /\ S \subseteq Photos
      /\ \A p \in S : jobState[p] \in Open /\ \A v \in Workers : ~(held[v][p] > 0)
  BY ClaimableFree
<1>2. \A q \in Photos : PlaceOf(q)' = PlaceOf(q) /\ OwnerOf(q)' = OwnerOf(q)
  BY <1>1 DEF ClaimReplyLost, ClaimRows, PlaceOf, OwnerOf, Holders, Open
<1>. QED BY <1>2 DEF Queue!qvars

\* A finish settles a job in hand, or puts it back to wait.
LEMMA QueueFinish ==
  ASSUME Strict, Strict', NEW w \in Workers, FinishOk(w) \/ FinishFailed(w)
  PROVE  \E j \in Photos, to \in {"done", "dead", "waiting"} : Queue!Settle(w, j, to)
<1>. PICK p \in Photos : p = cur[w] /\ held[w][p] > 0 /\ jobState[p] = "running"
  BY FinishMoves DEF FinishOk, FinishFailed, Strict, Base, AtWork
<1>1. jobState[p] # "none"
  OBVIOUS
<1>2. PICK s \in {"done", "failed", "pending"} :
        /\ jobState' = [jobState EXCEPT ![p] = s]
        /\ lockedBy' = [lockedBy EXCEPT ![p] = NoWorker]
        /\ held' = [held EXCEPT ![w] = [@ EXCEPT ![p] = 0]]
  BY DEF FinishOk, FinishFailed, FinishRow, FailState, Drop
<1>. DEFINE to == IF s = "done" THEN "done"
                  ELSE IF s = "failed" THEN "dead" ELSE "waiting"
<1>3. p \in Queue!HeldBy(w)
  BY <1>1, HeldByIs
<1>4. PlaceOf(p)' = to /\ OwnerOf(p)' = NoWorker
  <2>1. jobState'[p] = s /\ lockedBy'[p] = NoWorker
    BY <1>1, <1>2 DEF Strict, Base, TypeOK
  <2>2. Holders(p)' = {}
    <3>1. \A v \in Workers : held[v][p] > 0 => v = w
      BY <1>1 DEF Strict, InHand
    <3>2. \A v \in Workers : ~(held'[v][p] > 0)
      BY <1>1, <1>2, <3>1 DEF Strict, Base, TypeOK
    <3>. QED BY <3>2 DEF Holders
  <2>. QED BY <1>2, <2>1, <2>2 DEF PlaceOf, OwnerOf
<1>5. \A q \in Photos : q # p => PlaceOf(q)' = PlaceOf(q) /\ OwnerOf(q)' = OwnerOf(q)
  <2>. SUFFICES ASSUME NEW q \in Photos, q # p
                PROVE  PlaceOf(q)' = PlaceOf(q) /\ OwnerOf(q)' = OwnerOf(q)
    OBVIOUS
  <2>1. \A v \in Workers : held'[v][q] = held[v][q]
    BY <1>2 DEF Strict, Base, TypeOK
  <2>2. jobState'[q] = jobState[q] /\ lockedBy'[q] = lockedBy[q]
    BY <1>2 DEF Strict, Base, TypeOK
  <2>. QED BY <2>1, <2>2 DEF PlaceOf, OwnerOf, Holders
<1>6. Queue!Move({p}, to, NoWorker)
  BY <1>1, <1>4, <1>5, MoveStep
<1>. QED BY <1>1, <1>2, <1>3, <1>6 DEF Queue!Settle

\* A worker that dies abandons what it has in hand.
LEMMA QueueHalt ==
  ASSUME Strict, Strict', NEW w \in Workers, Halt(w)
  PROVE  Queue!Abandon(w)
<1>. DEFINE S == {p \in Photos : jobState[p] # "none" /\ held[w][p] > 0}
<1>1. \A v \in Workers, q \in Photos :
         held'[v][q] > 0 <=> v # w /\ held[v][q] > 0
  BY DEF Halt, Strict, Base, TypeOK
<1>2. UNCHANGED <<jobState, lockedBy>>
  BY DEF Halt
<1>3. \A q \in Photos : q \in S => PlaceOf(q)' = "waiting" /\ OwnerOf(q)' = NoWorker
  <2>. SUFFICES ASSUME NEW q \in Photos, q \in S
                PROVE  PlaceOf(q)' = "waiting" /\ OwnerOf(q)' = NoWorker
    OBVIOUS
  <2>1. jobState[q] = "running" /\ Holders(q)' = {}
    BY <1>1 DEF Strict, InHand, Holders
  <2>. QED BY <1>2, <2>1 DEF PlaceOf, OwnerOf
<1>4. \A q \in Photos : q \notin S =>
         PlaceOf(q)' = PlaceOf(q) /\ OwnerOf(q)' = OwnerOf(q)
  <2>. SUFFICES ASSUME NEW q \in Photos, q \notin S
                PROVE  PlaceOf(q)' = PlaceOf(q) /\ OwnerOf(q)' = OwnerOf(q)
    OBVIOUS
  <2>1. jobState[q] = "none" \/ Holders(q)' = Holders(q)
    BY <1>1 DEF Holders
  <2>. QED BY <1>2, <2>1 DEF PlaceOf, OwnerOf
<1>5. Queue!Move(S, "waiting", NoWorker)
  BY <1>3, <1>4, MoveStep
<1>. QED BY <1>5, HeldByIs DEF Queue!Abandon

\* Both queues start empty.
LEMMA QueueInit == Init => Queue!QInit
BY DEF Init, Queue!QInit, PlaceOf, OwnerOf

\* Every step of the pipeline is a step of the abstract queue, or none.
LEMMA QueueNext ==
  ASSUME MaxOverruns = 0, Strict, Strict', [Next]_vars
  PROVE  [Queue!QNext]_(Queue!qvars)
<1>1. CASE Next
  <2>1. ASSUME NEW p \in Photos, Upload(p) PROVE Queue!QNext
    BY <2>1, QueueUpload DEF Queue!QNext
  <2>2. ASSUME NEW e \in Events, DeleteEvent(e) PROVE Queue!QNext
    BY <2>2, QueueDelete DEF Queue!QNext, PhotosOf
  <2>3. ASSUME NEW w \in Workers, Claim(w) PROVE Queue!QNext
    BY <2>3, QueueClaim DEF Queue!QNext
  <2>4. ASSUME NEW w \in Workers, FinishOk(w) \/ FinishFailed(w) PROVE Queue!QNext
    BY <2>4, QueueFinish DEF Queue!QNext
  <2>5. ASSUME NEW w \in Workers, FinishRaises(w) \/ Kill(w) PROVE Queue!QNext
    BY <2>5, QueueHalt, HaltStep DEF Queue!QNext, Strict
  <2>6. ASSUME NEW w \in Workers, ClaimReplyLost(w) PROVE UNCHANGED Queue!qvars
    BY <2>6, QueueLost
  <2>7. CASE UNCHANGED <<jobState, held, lockedBy>>
    BY <2>7, QueueStutter
  <2>. QED
    BY <1>1, <2>1, <2>2, <2>3, <2>4, <2>5, <2>6, <2>7, StepCases DEF BackoffElapses,
       LeaseExpires, LeaseOverruns, ExpireLease, Heartbeat, Derive, RaiseEarly,
       DeleteFaces, RaiseLate, CommitFaces, CheckDrained, Restart
<1>2. CASE UNCHANGED vars
  BY <1>2, QueueStutter DEF vars
<1>. QED BY <1>1, <1>2

\* ingest_jobs with its leases is a queue that hands a job to one worker at a
\* time, settles it once and never loses it.
THEOREM ImplementsQueue == ASSUME MaxOverruns = 0 PROVE Spec => QueueSpec
<1>1. Strict /\ Strict' /\ [Next]_vars => [Queue!QNext]_(Queue!qvars)
  BY QueueNext
<1>. QED BY <1>1, QueueInit, StrictInvariant, PTL DEF Spec, QueueSpec, Queue!QSpec

-----------------------------------------------------------------------------
(* Every album of IngestQueue implements AlbumGate. *)

\* Nothing happens to an album whose jobs and status stay.
LEMMA GateSame ==
  ASSUME NEW e \in Events,
         \A p \in PhotosOf(e) : jobState'[p] = jobState[p],
         eventStatus'[e] = eventStatus[e]
  PROVE  UNCHANGED Gate(e)!gateVars
BY DEF Gate!gateVars, PhotosOf

\* An upload is the upload of its own album.
LEMMA GateUpload ==
  ASSUME Strict, NEW e \in Events, NEW p \in Photos, Upload(p)
  PROVE  [Gate(e)!GateNext]_(Gate(e)!gateVars)
<1>1. CASE EventOf[p] = e
  <2>1. jobState[p] = "none" /\ eventStatus[e] # "gone" /\ p \in PhotosOf(e)
    BY <1>1 DEF Upload, PhotosOf, Strict, Base, TypeOK, Cascade
  <2>2. /\ [q \in PhotosOf(e) |-> jobState'[q]]
              = [[q \in PhotosOf(e) |-> jobState[q]] EXCEPT ![p] = "pending"]
        /\ eventStatus'[e] = "indexing"
    BY <1>1 DEF Upload, PhotosOf, Strict, Base, TypeOK
  <2>3. Gate(e)!Enqueue(p)
    BY <2>1, <2>2 DEF Gate!Enqueue
  <2>. QED BY <2>1, <2>3 DEF Gate!GateNext
<1>2. CASE EventOf[p] # e
  BY <1>2, GateSame DEF Upload, Strict, Base, TypeOK, PhotosOf
<1>. QED BY <1>1, <1>2

\* Retention ends its own album and no other.
LEMMA GateDelete ==
  ASSUME Strict, NEW e \in Events, NEW d \in Events, DeleteEvent(d)
  PROVE  [Gate(e)!GateNext]_(Gate(e)!gateVars)
<1>1. CASE d = e
  <2>1. Gate(e)!Purge
    BY <1>1 DEF DeleteEvent, Gate!Purge, PhotosOf, Strict, Base, TypeOK
  <2>. QED BY <2>1 DEF Gate!GateNext
<1>2. CASE d # e
  BY <1>2, GateSame DEF DeleteEvent, Strict, Base, TypeOK, PhotosOf
<1>. QED BY <1>1, <1>2

\* A claim starts those of its batch that waited, in every album of theirs; a job that
\* is taken over was started before.
LEMMA GateClaim ==
  ASSUME Strict, NEW e \in Events, NEW w \in Workers, Claim(w) \/ ClaimReplyLost(w)
  PROVE  Gate(e)!GateNext
<1>. PICK S \in ClaimSets : ClaimRows(w, S)
  BY DEF Claim, ClaimReplyLost
<1>1. S \subseteq Photos /\ \A p \in S : jobState[p] \in {"pending", "running"}
  BY DEF ClaimSets, Claimable
<1>2. PICK T \in SUBSET PhotosOf(e) : T = {p \in S : EventOf[p] = e /\ jobState[p] = "pending"}
  BY <1>1 DEF PhotosOf
<1>3. eventStatus' = eventStatus
  BY DEF Claim, ClaimReplyLost, albumVars
<1>4. \A p \in PhotosOf(e) :
          jobState'[p] = IF p \in T THEN "running" ELSE jobState[p]
  BY <1>1, <1>2 DEF ClaimRows, PhotosOf
<1>5. Gate(e)!Start(T)
  BY <1>2, <1>3, <1>4 DEF Gate!Start
<1>. QED BY <1>5 DEF Gate!GateNext

\* A finish is of a job that runs, and opens its album if no other is left: what it saw
\* before it committed is still so, if no dead letter crossed it.
LEMMA GateFinish ==
  ASSUME Strict, NEW e \in Events, NEW w \in Workers, FinishOk(w) \/ FinishFailed(w),
         e \notin crossed
  PROVE  [Gate(e)!GateNext]_(Gate(e)!gateVars)
<1>. PICK p \in Photos, s \in {"done", "failed", "pending"} :
        p = cur[w] /\ s = Outcome(w) /\ jobState[p] = "running"
  BY FinishMoves DEF Outcome, FailState
<1>2. CASE EventOf[p] = e
  <2> DEFINE js == [jobState EXCEPT ![p] = s]
             album == [q \in PhotosOf(e) |-> jobState[q]]
  <2>0. p \in PhotosOf(e) /\ \A q \in PhotosOf(e) : q \in Photos
    BY <1>2 DEF PhotosOf
  <2>1. [q \in PhotosOf(e) |-> jobState'[q]] = [album EXCEPT ![p] = s]
    <3>1. \A q \in PhotosOf(e) : jobState'[q] = IF q = p THEN s ELSE jobState[q]
      BY <2>0, FinishMoves
    <3>. QED BY <2>0, <3>1
  <2>2. [q \in PhotosOf(e) |-> js[q]] = [album EXCEPT ![p] = s]
    BY <1>2 DEF Strict, Base, TypeOK, PhotosOf
  <2>3. verdict[w] = "open" <=> Drained(EventOf[p], js)
    <3>1. verdict[w] # "none" /\ EventOf[p] \notin crossed
      BY <1>2, FinishMoves
    <3>. QED BY <3>1, Zenon DEF Strict, VerdictHolds
  <2>4. Drained(e, js) <=>
            eventStatus[e] = "indexing" /\ Gate(e)!NothingOpen([q \in PhotosOf(e) |-> js[q]])
    BY DEF Drained, Gate!NothingOpen, Open
  <2>5. Opens(w) <=>
            eventStatus[e] = "indexing" /\ Gate(e)!NothingOpen([album EXCEPT ![p] = s])
    <3>. HIDE DEF js
    <3>. QED BY <1>2, <2>2, <2>3, <2>4 DEF Opens
  <2>6. eventStatus'[e] =
            IF eventStatus[e] = "indexing" /\ Gate(e)!NothingOpen([album EXCEPT ![p] = s])
            THEN "ready" ELSE eventStatus[e]
    <3>1. CASE Opens(w)
      BY <1>2, <2>5, <3>1, FinishMoves
    <3>2. CASE ~Opens(w)
      BY <1>2, <2>5, <3>2, FinishMoves
    <3>. QED BY <3>1, <3>2
  <2>7. Gate(e)!Finish(p, s)
    BY <2>0, <2>1, <2>6 DEF Gate!Finish
  <2>. QED BY <2>0, <2>7 DEF Gate!GateNext
<1>3. CASE EventOf[p] # e
  BY <1>3, FinishMoves, GateSame DEF PhotosOf
<1>. QED BY <1>2, <1>3

\* Every step of the pipeline is a step of every album, or none.
LEMMA GateNextStep ==
  ASSUME MaxOverruns = 0, Strict, NEW e \in Events, [Next]_vars, e \notin crossed
  PROVE  [Gate(e)!GateNext]_(Gate(e)!gateVars)
<1>1. CASE Next
  <2>1. CASE UNCHANGED <<jobState, eventStatus>>
    BY <2>1, GateSame
  <2>2. ASSUME NEW w \in Workers, FinishRaises(w) \/ Kill(w)
        PROVE  UNCHANGED <<jobState, eventStatus>>
    BY <2>2, HaltStep DEF Halt, Strict, queueVars, albumVars
  <2>. QED
    BY <1>1, <2>1, <2>2, GateUpload, GateDelete, GateClaim, GateFinish, StepCases DEF
       BackoffElapses, LeaseExpires, LeaseOverruns, ExpireLease, Heartbeat, Derive, RaiseEarly,
       DeleteFaces, RaiseLate, CommitFaces, CheckDrained, Restart, queueVars, albumVars
<1>2. CASE UNCHANGED vars
  BY <1>2, GateSame DEF vars, queueVars, albumVars
<1>. QED BY <1>1, <1>2

\* As long as no dead-letter finish meets another finish or an upload of its album, the
\* pipeline with its claims, batches, kills and retention implements AlbumGate.  That is
\* also what the transactions of one album do statement by statement while no job is
\* dead-lettered (FinishIsAtomic); past a crossing neither grain promises it.
THEOREM ImplementsGate ==
    ASSUME MaxOverruns = 0, NEW e \in Events
    PROVE  Spec /\ [](e \notin crossed) => Gate(e)!GateSpec
<1>1. Init => Gate(e)!GateInit
  BY DEF Init, Gate!GateInit, PhotosOf
<1>2. Strict /\ [Next]_vars /\ e \notin crossed => [Gate(e)!GateNext]_(Gate(e)!gateVars)
  BY GateNextStep
<1>. QED BY <1>1, <1>2, StrictInvariant, PTL DEF Spec, Gate!GateSpec
=============================================================================
