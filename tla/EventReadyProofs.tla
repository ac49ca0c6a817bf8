-------------------------- MODULE EventReadyProofs --------------------------
(***************************************************************************)
(* Theorems about EventReady for every number of photographs.  What they   *)
(* rest on is the lock of the events row: as long as every job that ends   *)
(* does so with its faces counted (nothing is dead-lettered), who decides  *)
(* whether the album opens has held that row since before it looked, so    *)
(* that what it saw of the other jobs still holds when it commits.         *)
(***************************************************************************)
EXTENDS EventReady, TLAPS

NoneFailed == "failed" \notin Outcomes

OpenJob(p) == job[p] \in {"pending", "running"}
OthersOpen(p) == \E q \in Photos \ {p} : OpenJob(q)

\* Who has the events row: an upload from its UPDATE on, a finish from its count on.
LockKept ==
    \A p \in Photos :
        lock = p <=> \/ pc[p] \in {"touched", "counted", "opening"}
                     \/ pc[p] = "ending" /\ out[p] = "done"

\* What a transaction knows of its own job, and what the job is to become.
OwnJob ==
    \A p \in Photos :
        /\ pc[p] \in {"inserted", "touched"} => job[p] = "none"
        /\ pc[p] \in {"marked", "counted", "opening", "ending"} =>
               job[p] = "running" /\ out[p] \in {"done", "pending"}
        /\ pc[p] \in {"counted", "opening"} => out[p] = "done"
        /\ pc[p] # "ending" => ~opens[p]

\* What it saw still holds.
Decided ==
    \A p \in Photos :
        /\ pc[p] = "opening" => event = "indexing" /\ ~OthersOpen(p)
        /\ pc[p] = "ending" =>
               (opens[p] <=> out[p] = "done" /\ event = "indexing" /\ ~OthersOpen(p))

\* The album is being indexed only while there is a job, and ready only when there
\* is none.
JobsKnown ==
    /\ event = "indexing" => \E p \in Photos : OpenJob(p)
    /\ event = "ready" => \A p \in Photos : ~OpenJob(p)

IInv == TypeOK /\ LockKept /\ OwnJob /\ Decided /\ JobsKnown

USE ReadyAssumption
USE DEF Goto, OpenJob, OthersOpen

-----------------------------------------------------------------------------

\* The tables and transactions keep their types, dead letters or not.
THEOREM GateTypeCorrect == Spec => []TypeOK
<1>1. Init => TypeOK
  BY DEF Init, TypeOK
<1>2. TypeOK /\ [Next]_vars => TypeOK'
  <2>. SUFFICES ASSUME TypeOK, [Next]_vars PROVE TypeOK'
    OBVIOUS
  <2>1. ASSUME NEW p \in Photos, InsertJob(p) \/ TouchEvent(p) \/ Claim(p) \/ MarkJob(p)
        PROVE  TypeOK'
    BY <2>1 DEF InsertJob, TouchEvent, Claim, MarkJob, TypeOK
  <2>2. ASSUME NEW p \in Photos, CountFaces(p) \/ CheckDrained(p) \/ OpenEvent(p)
        PROVE  TypeOK'
    BY <2>2 DEF CountFaces, CheckDrained, OpenEvent, TypeOK
  <2>3. ASSUME NEW p \in Photos, CommitUpload(p) \/ CommitFinish(p) \/ Rollback(p)
        PROVE  TypeOK'
    <3>1. job' \in [Photos -> {"none", "pending", "running", "done", "failed"}]
      BY <2>3 DEF CommitUpload, CommitFinish, Rollback, TypeOK
    <3>2. event' \in {"draft", "indexing", "ready"}
      BY <2>3 DEF CommitUpload, CommitFinish, Rollback, TypeOK
    <3>3. Over(p)
      BY <2>3 DEF CommitUpload, CommitFinish, Rollback
    <3>. QED BY <3>1, <3>2, <3>3 DEF Over, TypeOK
  <2>4. CASE UNCHANGED vars
    BY <2>4 DEF vars, TypeOK
  <2>. QED BY <2>1, <2>2, <2>3, <2>4 DEF Next, Step, AllSettled
<1>. QED BY <1>1, <1>2, PTL DEF Spec

\* It holds at the start,
LEMMA InitIInv == Init => IInv
BY DEF Init, IInv, TypeOK, LockKept, OwnJob, Decided, JobsKnown

\* A statement that commits nothing and takes no lock.
LEMMA BeginIInv ==
  ASSUME NEW p \in Photos, NoneFailed, IInv, InsertJob(p) \/ MarkJob(p)
  PROVE  IInv'
<1>1. CASE InsertJob(p)
  BY <1>1 DEF InsertJob, IInv, TypeOK, LockKept, OwnJob, Decided, JobsKnown
<1>2. CASE MarkJob(p)
  <2>1. TypeOK'
    BY <1>2 DEF MarkJob, IInv, TypeOK, NoneFailed
  <2>2. OwnJob'
    BY <1>2 DEF MarkJob, IInv, TypeOK, OwnJob, NoneFailed
  <2>3. LockKept' /\ Decided' /\ JobsKnown'
    BY <1>2 DEF MarkJob, IInv, TypeOK, LockKept, Decided, JobsKnown, NoneFailed
  <2>. QED BY <2>1, <2>2, <2>3 DEF IInv
<1>. QED BY <1>1, <1>2

\* The events row is locked: by nobody else, and nothing is committed.
LEMMA LockIInv ==
  ASSUME NEW p \in Photos, IInv, TouchEvent(p) \/ CountFaces(p)
  PROVE  IInv'
<1>1. CASE TouchEvent(p)
  BY <1>1 DEF TouchEvent, IInv, TypeOK, LockKept, OwnJob, Decided, JobsKnown
<1>2. CASE CountFaces(p)
  BY <1>2 DEF CountFaces, IInv, TypeOK, LockKept, OwnJob, Decided, JobsKnown
<1>. QED BY <1>1, <1>2

\* A claim turns one open job into another.
LEMMA ClaimIInv == ASSUME NEW p \in Photos, IInv, Claim(p) PROVE IInv'
<1>1. \A q \in Photos : OpenJob(q)' <=> OpenJob(q)
  BY DEF Claim, IInv, TypeOK
<1>2. \A q \in Photos : OthersOpen(q)' <=> OthersOpen(q)
  BY <1>1
<1>3. TypeOK' /\ LockKept' /\ OwnJob'
  BY DEF Claim, IInv, TypeOK, LockKept, OwnJob
<1>4. Decided'
  BY <1>2 DEF Claim, IInv, Decided
<1>5. JobsKnown'
  BY <1>1 DEF Claim, IInv, JobsKnown
<1>. QED BY <1>3, <1>4, <1>5 DEF IInv

\* The snapshot: a finish that found the album drained has the lock already.
LEMMA CheckIInv == ASSUME NEW p \in Photos, IInv, CheckDrained(p) PROVE IInv'
<1>. DEFINE mine == [job EXCEPT ![p] = out[p]]
<1>1. /\ pc[p] = IF out[p] = "done" THEN "counted" ELSE "marked"
      /\ out[p] \in {"done", "pending"} /\ job[p] = "running"
  BY DEF CheckDrained, IInv, OwnJob
<1>2. (\A q \in Photos : mine[q] \notin {"pending", "running"}) <=>
         out[p] = "done" /\ ~OthersOpen(p)
  BY <1>1 DEF IInv, TypeOK
<1>3. pc' = [pc EXCEPT ![p] = IF event = "indexing" /\ out[p] = "done" /\ ~OthersOpen(p)
                              THEN "opening" ELSE "ending"]
  BY <1>2 DEF CheckDrained
<1>4. UNCHANGED <<job, event, lock, out, opens>>
  BY DEF CheckDrained
<1>5. ~opens[p]
  BY <1>1 DEF IInv, OwnJob
<1>. QED BY <1>1, <1>3, <1>4, <1>5 DEF IInv, TypeOK, LockKept, OwnJob, Decided, JobsKnown

\* The lock was its own already, so the status it looks at again is the one it saw.
LEMMA OpenIInv == ASSUME NEW p \in Photos, IInv, OpenEvent(p) PROVE IInv'
<1>1. event = "indexing" /\ out[p] = "done" /\ ~OthersOpen(p) /\ lock = p
  BY DEF OpenEvent, IInv, OwnJob, Decided, LockKept
<1>2. /\ opens' = [opens EXCEPT ![p] = TRUE]
      /\ pc' = [pc EXCEPT ![p] = "ending"]
      /\ UNCHANGED <<job, event, lock, out>>
  BY <1>1 DEF OpenEvent
<1>. QED BY <1>1, <1>2 DEF IInv, TypeOK, LockKept, OwnJob, Decided, JobsKnown

\* A rollback leaves the tables alone and gives its lock back.
LEMMA RollbackIInv == ASSUME NEW p \in Photos, IInv, Rollback(p) PROVE IInv'
<1>1. UNCHANGED <<job, event>>
  BY DEF Rollback
<1>2. TypeOK' /\ OwnJob'
  BY <1>1 DEF Rollback, Over, IInv, TypeOK, OwnJob
<1>3. LockKept'
  BY DEF Rollback, Over, IInv, TypeOK, LockKept
<1>4. Decided'
  BY <1>1 DEF Rollback, Over, IInv, TypeOK, Decided
<1>5. JobsKnown'
  BY <1>1 DEF IInv, JobsKnown
<1>. QED BY <1>2, <1>3, <1>4, <1>5 DEF IInv

\* An upload commits with the lock in hand: nobody is about to open the album.
LEMMA UploadIInv == ASSUME NEW p \in Photos, IInv, CommitUpload(p) PROVE IInv'
<1>1. lock = p /\ job[p] = "none" /\ pc[p] = "touched"
  BY DEF CommitUpload, IInv, LockKept, OwnJob
<1>2. \A q \in Photos : q # p =>
         /\ pc[q] # "opening"
         /\ pc[q] = "ending" => out[q] # "done"
  BY <1>1 DEF IInv, LockKept
<1>3. TypeOK'
  BY DEF CommitUpload, Over, IInv, TypeOK
<1>4. LockKept'
  BY <1>1 DEF CommitUpload, Over, IInv, TypeOK, LockKept
<1>5. OwnJob'
  BY DEF CommitUpload, Over, IInv, TypeOK, OwnJob
<1>6. Decided'
  BY <1>2 DEF CommitUpload, Over, IInv, TypeOK, Decided
<1>7. JobsKnown'
  BY DEF CommitUpload, Over, IInv, TypeOK, JobsKnown
<1>. QED BY <1>3, <1>4, <1>5, <1>6, <1>7 DEF IInv

\* A finish that commits opens the album exactly when it leaves no open job.
LEMMA FinishDecides ==
  ASSUME NEW p \in Photos, IInv, CommitFinish(p)
  PROVE  /\ job[p] = "running" /\ out[p] \in {"done", "pending"}
         /\ job' = [job EXCEPT ![p] = out[p]]
         /\ event' = IF event = "indexing" /\ (\A q \in Photos : ~OpenJob(q)')
                     THEN "ready" ELSE event
<1>1. /\ job[p] = "running" /\ out[p] \in {"done", "pending"}
      /\ opens[p] <=> out[p] = "done" /\ event = "indexing" /\ ~OthersOpen(p)
  BY DEF CommitFinish, IInv, OwnJob, Decided
<1>2. job' = [job EXCEPT ![p] = out[p]]
  BY DEF CommitFinish
<1>3. (\A q \in Photos : ~OpenJob(q)') <=> out[p] = "done" /\ ~OthersOpen(p)
  BY <1>1, <1>2 DEF IInv, TypeOK
<1>. QED BY <1>1, <1>2, <1>3 DEF CommitFinish

\* when a photograph is finished,
LEMMA FinishIInv == ASSUME NEW p \in Photos, IInv, CommitFinish(p) PROVE IInv'
<1>1. /\ job[p] = "running" /\ out[p] \in {"done", "pending"}
      /\ job' = [job EXCEPT ![p] = out[p]]
      /\ event' = IF event = "indexing" /\ (\A q \in Photos : ~OpenJob(q)')
                  THEN "ready" ELSE event
  BY FinishDecides
<1>2. pc[p] = "ending" /\ Over(p)
  BY DEF CommitFinish
<1>3. TypeOK'
  BY <1>1, <1>2 DEF Over, IInv, TypeOK
<1>4. LockKept'
  BY <1>2 DEF Over, IInv, TypeOK, LockKept
<1>5. OwnJob'
  BY <1>1, <1>2 DEF Over, IInv, TypeOK, OwnJob
<1>6. JobsKnown'
  <2>1. event' = "indexing" => \E q \in Photos : OpenJob(q)'
    BY <1>1
  <2>2. event' = "ready" => event # "ready"
    BY <1>1 DEF IInv, JobsKnown
  <2>3. event' = "ready" => \A q \in Photos : ~OpenJob(q)'
    BY <1>1, <2>2
  <2>. QED BY <2>1, <2>3 DEF JobsKnown
<1>7. Decided'
  <2>. SUFFICES ASSUME NEW q \in Photos, q # p
                PROVE  /\ pc'[q] = "opening" => event' = "indexing" /\ ~OthersOpen(q)'
                       /\ pc'[q] = "ending" =>
                             (opens'[q] <=> out'[q] = "done" /\ event' = "indexing"
                                            /\ ~OthersOpen(q)')
    <3>1. pc'[p] = "none"
      BY <1>2 DEF Over, IInv, TypeOK
    <3>. QED BY <3>1 DEF Decided
  <2>1. pc'[q] = pc[q] /\ out'[q] = out[q] /\ opens'[q] = opens[q]
    BY <1>2 DEF Over, IInv, TypeOK
  <2>2. OpenJob(p) /\ OthersOpen(q)
    BY <1>1
  <2>3. pc[q] # "opening"
    BY <2>2 DEF IInv, Decided
  <2>4. CASE pc[q] = "ending" /\ out[q] = "done"
    <3>1. lock = q /\ lock # p
      BY <2>4 DEF IInv, LockKept
    <3>2. out[p] = "pending"
      BY <1>1, <1>2, <3>1 DEF IInv, LockKept
    <3>3. OpenJob(p)' /\ OthersOpen(q)'
      BY <1>1, <3>2 DEF IInv, TypeOK
    <3>4. ~opens[q]
      BY <2>2, <2>4 DEF IInv, Decided
    <3>. QED BY <2>1, <2>3, <3>3, <3>4
  <2>5. CASE pc[q] = "ending" /\ out[q] # "done"
    BY <2>1, <2>5 DEF IInv, Decided
  <2>. QED BY <2>1, <2>3, <2>4, <2>5
<1>. QED BY <1>3, <1>4, <1>5, <1>6, <1>7 DEF IInv

\* and after every other step.
LEMMA NextIInv == ASSUME NoneFailed, IInv, [Next]_vars PROVE IInv'
<1>1. CASE UNCHANGED vars
  BY <1>1 DEF vars, IInv, TypeOK, LockKept, OwnJob, Decided, JobsKnown
<1>2. ASSUME NEW p \in Photos, InsertJob(p) \/ Step(p) \/ Rollback(p) PROVE IInv'
  BY <1>2, BeginIInv, LockIInv, ClaimIInv, CheckIInv, OpenIInv, RollbackIInv, UploadIInv,
     FinishIInv DEF Step
<1>. QED BY <1>1, <1>2 DEF Next, AllSettled

\* The strengthening is an invariant.
THEOREM GateInvariant == ASSUME NoneFailed PROVE Spec => []IInv
BY InitIInv, NextIInv, PTL DEF Spec

\* While nothing is dead-lettered, a ready album has no job left: no upload slips
\* under the statement that opens it.
THEOREM ReadyStaysDrained == ASSUME NoneFailed PROVE Spec => []ReadyMeansDrained
<1>1. IInv => ReadyMeansDrained
  BY DEF IInv, JobsKnown, ReadyMeansDrained
<1>. QED BY <1>1, GateInvariant, PTL

\* ... and an album without jobs is not left waiting, however many finishes overlap.
THEOREM DrainedIsReady == ASSUME NoneFailed PROVE Spec => []DrainedMeansReady
<1>1. IInv => DrainedMeansReady
  BY DEF IInv, JobsKnown, DrainedMeansReady
<1>. QED BY <1>1, GateInvariant, PTL

-----------------------------------------------------------------------------
(* Refinement *)

\* A commit is the step it stands for, and every other statement changes nothing
\* that can be seen.
LEMMA GateStep == ASSUME IInv, [Next]_vars PROVE [Gate!GateNext]_(Gate!gateVars)
<1>1. ASSUME NEW p \in Photos, CommitUpload(p) PROVE Gate!Enqueue(p)
  BY <1>1 DEF CommitUpload, IInv, TypeOK, OwnJob, Gate!Enqueue
<1>2. ASSUME NEW p \in Photos, Claim(p) PROVE Gate!Start({p})
  BY <1>2 DEF Claim, Gate!Start, IInv, TypeOK
<1>3. ASSUME NEW p \in Photos, CommitFinish(p)
      PROVE  \E s \in {"done", "failed", "pending"} : Gate!Finish(p, s)
  <2>1. (\A q \in Photos : ~OpenJob(q)') <=> Gate!NothingOpen(job')
    BY DEF Gate!NothingOpen
  <2>. QED BY <1>3, <2>1, FinishDecides DEF Gate!Finish
<1>4. ASSUME NEW p \in Photos,
             InsertJob(p) \/ TouchEvent(p) \/ MarkJob(p) \/ CountFaces(p) \/ CheckDrained(p)
             \/ OpenEvent(p) \/ Rollback(p)
      PROVE  UNCHANGED Gate!gateVars
  BY <1>4 DEF InsertJob, TouchEvent, MarkJob, CountFaces, CheckDrained, OpenEvent, Rollback,
              Gate!gateVars
<1>5. CASE UNCHANGED vars
  BY <1>5 DEF vars, Gate!gateVars
<1>. QED BY <1>1, <1>2, <1>3, <1>4, <1>5 DEF Next, Step, AllSettled, Gate!GateNext

\* While nothing is dead-lettered, the interleaved statements of uploads and
\* finishes are what AlbumGate does in one step each.
THEOREM FinishIsAtomic == ASSUME NoneFailed PROVE Spec => AtomicFinish
<1>1. Init => Gate!GateInit
  BY DEF Init, Gate!GateInit
<1>. QED BY <1>1, GateStep, GateInvariant, PTL DEF Spec, AtomicFinish, Gate!GateSpec
=============================================================================
