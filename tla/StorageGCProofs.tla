-------------------------- MODULE StorageGCProofs --------------------------
(***************************************************************************)
(* Theorems about StorageGC for every set of keys and collectors, whatever *)
(* dies and whichever leases run out.                                      *)
(***************************************************************************)
EXTENDS StorageGC, TLAPS

USE StorageGCAssumption
USE DEF gcVars, rowVars, procVars

\* What a process knows about its row: an object whose delete came back is gone,
\* and only unusable keys are dead-lettered out of turn.
Knows ==
    \A c \in Collectors :
        /\ todo[c] \subseteq {k \in Keys : rowState[k] # "none"}
        /\ pc[c] \in {"erased", "raised", "refused", "deferred"} => cur[c] \in todo[c]
        /\ pc[c] = "erased" => cur[c] \notin bucket
        /\ pc[c] \in {"refused", "deferred"} => cur[c] \in Unsafe

IInv == TypeOK /\ Knows /\ DoneMeansErased /\ NoEarlyDeadLetter

\* The invariant holds in the initial states.
LEMMA InitIInv == GCInit => IInv
BY DEF GCInit, RowsInit, IInv, TypeOK, Knows, DoneMeansErased, NoEarlyDeadLetter

\* Enqueuing gives rows to keys that had none.
LEMMA EnqueueIInv == ASSUME NEW S \in SUBSET Keys, IInv, Enqueue(S) PROVE IInv'
<1>1. TypeOK'
  BY DEF Enqueue, Enqueued, IInv, TypeOK
<1>2. Knows'
  BY DEF Enqueue, Enqueued, IInv, TypeOK, Knows
<1>3. DoneMeansErased' /\ NoEarlyDeadLetter'
  BY DEF Enqueue, Enqueued, IInv, TypeOK, DoneMeansErased, NoEarlyDeadLetter
<1>. QED BY <1>1, <1>2, <1>3 DEF IInv

\* Clocks change neither a state nor an object.
LEMMA ClockIInv ==
  ASSUME NEW k \in Keys, IInv, BackoffElapses(k) \/ LeaseExpires(k) PROVE IInv'
<1>1. TypeOK'
  <2>1. CASE BackoffElapses(k)
    BY <2>1 DEF BackoffElapses, IInv, TypeOK
  <2>2. CASE LeaseExpires(k)
    BY <2>2 DEF LeaseExpires, IInv, TypeOK
  <2>. QED BY <2>1, <2>2
<1>2. UNCHANGED <<bucket, rowState, attempts, procVars>>
  BY DEF BackoffElapses, LeaseExpires
<1>3. Knows' /\ DoneMeansErased' /\ NoEarlyDeadLetter'
  BY <1>2 DEF IInv, Knows, DoneMeansErased, NoEarlyDeadLetter
<1>. QED BY <1>1, <1>3 DEF IInv

\* A claim takes pending rows.
LEMMA ClaimIInv == ASSUME NEW c \in Collectors, IInv, Claim(c) PROVE IInv'
<1>. PICK S \in SUBSET Claimable :
        /\ S # {}
        /\ attempts' = [k \in Keys |-> IF k \in S THEN attempts[k] + 1 ELSE attempts[k]]
        /\ lockedBy' = [k \in Keys |-> IF k \in S THEN c ELSE lockedBy[k]]
        /\ lease' = [k \in Keys |-> IF k \in S THEN "live" ELSE lease[k]]
        /\ Proceed(c, S, FALSE)
  BY DEF Claim
<1>1. S \subseteq Keys /\ \A k \in S : rowState[k] = "pending"
  BY DEF Claimable
<1>2. TypeOK'
  BY <1>1 DEF Claim, Proceed, IInv, TypeOK
<1>3. Knows'
  BY <1>1 DEF Claim, Proceed, IInv, TypeOK, Knows
<1>4. DoneMeansErased' /\ NoEarlyDeadLetter'
  BY <1>1 DEF Claim, IInv, TypeOK, DoneMeansErased, NoEarlyDeadLetter
<1>. QED BY <1>2, <1>3, <1>4 DEF IInv

\* The store is asked to delete an object, or refuses the key.
LEMMA DeleteIInv ==
  ASSUME NEW c \in Collectors, NEW k \in Keys, IInv,
         Erase(c, k) \/ EraseFails(c, k) \/ Refuse(c, k)
  PROVE  IInv'
<1>1. TypeOK'
  BY DEF Erase, EraseFails, Refuse, At, IInv, TypeOK
<1>2. bucket' \subseteq bucket
  BY DEF Erase, EraseFails, Refuse
<1>3. Knows'
  BY <1>2 DEF Erase, EraseFails, Refuse, At, IInv, TypeOK, Knows
<1>4. DoneMeansErased' /\ NoEarlyDeadLetter'
  BY <1>2 DEF Erase, EraseFails, Refuse, At, IInv, TypeOK, DoneMeansErased,
     NoEarlyDeadLetter
<1>. QED BY <1>1, <1>3, <1>4 DEF IInv

\* The row of an erased object is done, late or not.
LEMMA ErasedIInv == ASSUME NEW c \in Collectors, IInv, FinishErased(c) PROVE IInv'
<1>1. cur[c] \in Keys /\ cur[c] \in todo[c]
  BY DEF FinishErased, IInv, TypeOK, Knows
<1>2. TypeOK'
  BY <1>1 DEF FinishErased, FinishRow, Proceed, IInv, TypeOK
<1>3. Knows'
  BY <1>1 DEF FinishErased, FinishRow, Proceed, IInv, TypeOK, Knows
<1>4. DoneMeansErased'
  BY <1>1 DEF FinishErased, FinishRow, Proceed, IInv, TypeOK, Knows, DoneMeansErased
<1>5. NoEarlyDeadLetter'
  BY <1>1 DEF FinishErased, FinishRow, Proceed, IInv, TypeOK, Knows, NoEarlyDeadLetter
<1>. QED BY <1>2, <1>3, <1>4, <1>5 DEF IInv

\* A failed delete goes back to the queue or to the dead letters.
LEMMA RaisedIInv == ASSUME NEW c \in Collectors, IInv, FinishRaised(c) PROVE IInv'
<1>1. cur[c] \in Keys /\ cur[c] \in todo[c]
  BY DEF FinishRaised, IInv, TypeOK, Knows
<1>2. TypeOK'
  BY <1>1 DEF FinishRaised, FinishRow, FailState, Proceed, IInv, TypeOK
<1>3. Knows'
  BY <1>1 DEF FinishRaised, FinishRow, FailState, Proceed, IInv, TypeOK, Knows
<1>4. DoneMeansErased'
  BY <1>1 DEF FinishRaised, FinishRow, FailState, Proceed, IInv, TypeOK, Knows,
     DoneMeansErased
<1>5. NoEarlyDeadLetter'
  BY <1>1 DEF FinishRaised, FinishRow, FailState, Proceed, IInv, TypeOK, Knows,
     NoEarlyDeadLetter
<1>. QED BY <1>2, <1>3, <1>4, <1>5 DEF IInv

\* The first statement about an unusable key.
LEMMA RefusedIInv == ASSUME NEW c \in Collectors, IInv, FinishRefused(c) PROVE IInv'
<1>1. cur[c] \in Keys /\ cur[c] \in todo[c]
  BY DEF FinishRefused, IInv, TypeOK, Knows
<1>2. TypeOK'
  BY <1>1 DEF FinishRefused, FinishRow, FailState, IInv, TypeOK
<1>3. Knows'
  BY <1>1 DEF FinishRefused, FinishRow, FailState, IInv, TypeOK, Knows
<1>4. DoneMeansErased'
  BY <1>1 DEF FinishRefused, FinishRow, FailState, IInv, TypeOK, Knows, DoneMeansErased
<1>5. NoEarlyDeadLetter'
  BY <1>1 DEF FinishRefused, FinishRow, FailState, IInv, TypeOK, Knows, NoEarlyDeadLetter
<1>. QED BY <1>2, <1>3, <1>4, <1>5 DEF IInv

\* The second statement about an unusable key.
LEMMA MarkIInv == ASSUME NEW c \in Collectors, IInv, MarkFailed(c) PROVE IInv'
<1>1. cur[c] \in Keys /\ cur[c] \in todo[c]
  BY DEF MarkFailed, IInv, TypeOK, Knows
<1>2. TypeOK'
  BY <1>1 DEF MarkFailed, Proceed, IInv, TypeOK
<1>3. Knows'
  BY <1>1 DEF MarkFailed, Proceed, IInv, TypeOK, Knows
<1>4. DoneMeansErased'
  BY <1>1 DEF MarkFailed, Proceed, IInv, TypeOK, Knows, DoneMeansErased
<1>5. NoEarlyDeadLetter'
  BY <1>1 DEF MarkFailed, Proceed, IInv, TypeOK, Knows, NoEarlyDeadLetter
<1>. QED BY <1>2, <1>3, <1>4, <1>5 DEF IInv

\* A process ends or starts.
LEMMA ProcessIInv ==
  ASSUME NEW c \in Collectors, IInv, ClaimNothing(c) \/ Kill(c) \/ Start(c)
  PROVE  IInv'
<1>1. TypeOK'
  <2>1. CASE ClaimNothing(c)
    BY <2>1 DEF ClaimNothing, Proceed, IInv, TypeOK
  <2>2. CASE Kill(c)
    BY <2>2 DEF Kill, IInv, TypeOK
  <2>3. CASE Start(c)
    BY <2>3 DEF Start, IInv, TypeOK
  <2>. QED BY <2>1, <2>2, <2>3
<1>2. Knows'
  BY DEF ClaimNothing, Proceed, Kill, Start, IInv, TypeOK, Knows
<1>3. DoneMeansErased' /\ NoEarlyDeadLetter'
  BY DEF ClaimNothing, Kill, Start, IInv, DoneMeansErased, NoEarlyDeadLetter
<1>. QED BY <1>1, <1>2, <1>3 DEF IInv

\* The invariant is inductive.
LEMMA NextIInv == IInv /\ [GCNext]_gcVars => IInv'
<1>. SUFFICES ASSUME IInv, [GCNext]_gcVars PROVE IInv'
  OBVIOUS
<1>1. CASE UNCHANGED gcVars
  BY <1>1 DEF IInv, TypeOK, Knows, DoneMeansErased, NoEarlyDeadLetter
<1>2. CASE GCNext
  BY <1>2, EnqueueIInv, ClockIInv, ClaimIInv, DeleteIInv, ErasedIInv, RaisedIInv,
     RefusedIInv, MarkIInv, ProcessIInv DEF GCNext, Collect, Drain
<1>. QED BY <1>1, <1>2

\* The types, what each process knows and both promises about the rows hold in
\* every reachable state.
THEOREM GCInvariant == GCSpec => []IInv
BY InitIInv, NextIInv, PTL DEF GCSpec

\* The tables and processes of the collector keep their types.
THEOREM GCTypeCorrect == GCSpec => []TypeOK
BY GCInvariant, PTL DEF IInv

\* A row that says done never stands for an object that is still stored, for any
\* number of collectors, kills, failed deletes and overrun leases.
THEOREM DoneAlwaysErased == GCSpec => []DoneMeansErased
BY GCInvariant, PTL DEF IInv

\* A usable key is never dead-lettered before its attempts are used up.
THEOREM NeverGivenUpEarly == GCSpec => []NoEarlyDeadLetter
BY GCInvariant, PTL DEF IInv

-----------------------------------------------------------------------------
(* StorageGC implements WorkQueue, as long as no lease overruns.  An unusable *)
(* key is out of the abstraction: between its two statements its process has *)
(* it in hand although the row is free.                                      *)

\* What a process has still to do is its own, leased and pending.
Handed ==
    \A c \in Collectors, k \in Keys : k \in todo[c] =>
        /\ rowState[k] = "pending"
        /\ lockedBy[k] = c
        /\ lease[k] = "live"
        /\ \A d \in Collectors : k \in todo[d] => d = c

\* Between two batches it has nothing to do.
Idle == \A c \in Collectors : pc[c] \in {"claim", "over", "killed"} => todo[c] = {}

Hand == IInv /\ overruns = 0 /\ Handed /\ Idle

\* The actions of GCNext, one by one.
LEMMA StepCases ==
  ASSUME GCNext
  PROVE  \/ \E S \in SUBSET Keys : Enqueue(S)
         \/ \E k \in Keys : BackoffElapses(k) \/ LeaseExpires(k)
         \/ \E c \in Collectors : Claim(c)
         \/ \E c \in Collectors : ClaimNothing(c) \/ Start(c)
         \/ \E c \in Collectors, k \in Keys : Erase(c, k) \/ EraseFails(c, k)
         \/ \E c \in Collectors, k \in Keys : Refuse(c, k)
         \/ \E c \in Collectors : FinishErased(c) \/ FinishRaised(c)
         \/ \E c \in Collectors : FinishRefused(c) \/ MarkFailed(c)
         \/ \E c \in Collectors : Kill(c)
BY DEF GCNext, Collect, Drain

\* A finish of a usable key settles a row that its process has in hand.
LEMMA FinishStep ==
  ASSUME NEW c \in Collectors, IInv, FinishErased(c) \/ FinishRaised(c)
  PROVE  \E k \in todo[c], s \in {"done", "failed", "pending"} :
            /\ k \in Keys
            /\ rowState' = [rowState EXCEPT ![k] = s]
            /\ lockedBy' = [lockedBy EXCEPT ![k] = NoCollector]
            /\ lease' = [lease EXCEPT ![k] = "null"]
            /\ todo' = [todo EXCEPT ![c] = todo[c] \ {k}]
            /\ pc'[c] # "next" => todo'[c] = {}
            /\ \A d \in Collectors : d # c => pc'[d] = pc[d]
            /\ overruns' = overruns
<1>1. cur[c] \in Keys /\ cur[c] \in todo[c]
  BY DEF FinishErased, FinishRaised, IInv, TypeOK, Knows
<1>2. CASE FinishErased(c)
  BY <1>1, <1>2 DEF FinishErased, FinishRow, Proceed, IInv, TypeOK
<1>3. CASE FinishRaised(c)
  BY <1>1, <1>3 DEF FinishRaised, FinishRow, FailState, Proceed,
     IInv, TypeOK
<1>. QED BY <1>2, <1>3

\* Rows in hand stay in hand until their process is through with them or dies.
LEMMA HandNext ==
  ASSUME MaxOverruns = 0, Unsafe = {}, Hand, [GCNext]_gcVars PROVE Hand'
<1>. USE DEF Hand, IInv, Idle
<1>1. IInv'
  BY NextIInv
<1>2. CASE UNCHANGED gcVars
  BY <1>1, <1>2 DEF Handed
<1>3. ASSUME NEW S \in SUBSET Keys, Enqueue(S) PROVE Hand'
  BY <1>1, <1>3 DEF Handed, Enqueue, Enqueued, TypeOK
<1>4. ASSUME NEW k \in Keys, BackoffElapses(k) \/ LeaseExpires(k) PROVE Hand'
  BY <1>1, <1>4 DEF Handed, BackoffElapses, LeaseExpires, Holders, TypeOK
<1>5. ASSUME NEW c \in Collectors, Claim(c) PROVE Hand'
  <2>. PICK S \in SUBSET Claimable :
          /\ lockedBy' = [k \in Keys |-> IF k \in S THEN c ELSE lockedBy[k]]
          /\ lease' = [k \in Keys |-> IF k \in S THEN "live" ELSE lease[k]]
          /\ todo' = [todo EXCEPT ![c] = S]
    BY <1>5 DEF Claim, Proceed
  <2>1. \A k \in S : /\ k \in Keys /\ rowState[k] = "pending"
                     /\ \A d \in Collectors : k \notin todo[d]
    BY DEF Claimable, Handed
  <2>2. UNCHANGED <<rowState, overruns>>
    BY <1>5 DEF Claim
  <2>3. Handed'
    BY <2>1, <2>2 DEF Handed, TypeOK
  <2>4. Idle'
    BY <1>5 DEF Claim, Proceed, TypeOK
  <2>. QED BY <1>1, <2>2, <2>3, <2>4
<1>6. ASSUME NEW c \in Collectors, ClaimNothing(c) \/ Start(c) PROVE Hand'
  BY <1>1, <1>6 DEF Handed, ClaimNothing, Proceed, Start, TypeOK
<1>7. ASSUME NEW c \in Collectors, NEW k \in Keys, Erase(c, k) \/ EraseFails(c, k)
      PROVE  Hand'
  BY <1>1, <1>7 DEF Handed, Erase, EraseFails, At, TypeOK
<1>8. ASSUME NEW c \in Collectors, FinishErased(c) \/ FinishRaised(c) PROVE Hand'
  <2>. PICK k \in todo[c], s \in {"done", "failed", "pending"} :
          /\ k \in Keys
          /\ rowState' = [rowState EXCEPT ![k] = s]
          /\ lockedBy' = [lockedBy EXCEPT ![k] = NoCollector]
          /\ lease' = [lease EXCEPT ![k] = "null"]
          /\ todo' = [todo EXCEPT ![c] = todo[c] \ {k}]
          /\ pc'[c] # "next" => todo'[c] = {}
          /\ \A d \in Collectors : d # c => pc'[d] = pc[d]
          /\ overruns' = overruns
    BY <1>8, FinishStep
  <2>1. \A d \in Collectors : k \in todo[d] => d = c
    BY DEF Handed
  <2>2. Handed'
    BY <2>1 DEF Handed, TypeOK
  <2>3. Idle'
    BY DEF TypeOK
  <2>. QED BY <1>1, <2>2, <2>3
<1>9. ASSUME NEW c \in Collectors, Kill(c) PROVE Hand'
  BY <1>1, <1>9 DEF Handed, Kill, TypeOK
<1>10. \A c \in Collectors : /\ ~FinishRefused(c) /\ ~MarkFailed(c)
                             /\ \A k \in Keys : ~Refuse(c, k)
  BY DEF FinishRefused, MarkFailed, Refuse, Knows
<1>. QED BY <1>2, <1>3, <1>4, <1>5, <1>6, <1>7, <1>8, <1>9, <1>10, StepCases

\* A step moves the rows of S if it does so place by place and owner by owner.
LEMMA MoveStep ==
  ASSUME NEW S \in SUBSET Keys, NEW to, NEW v,
         \A k \in Keys : /\ PlaceOf(k)' = IF k \in S THEN to ELSE PlaceOf(k)
                         /\ OwnerOf(k)' = IF k \in S THEN v ELSE OwnerOf(k)
  PROVE  Queue!Move(S, to, v)
BY DEF Queue!Move

\* What the abstract worker has in hand is what the process has still to do.
LEMMA HeldByIs ==
  ASSUME Hand, NEW c \in Collectors PROVE Queue!HeldBy(c) = todo[c]
<1>1. ASSUME NEW k \in Keys
      PROVE  PlaceOf(k) = "held" /\ OwnerOf(k) = c <=> k \in todo[c]
  <2>1. ASSUME k \in todo[c] PROVE PlaceOf(k) = "held" /\ OwnerOf(k) = c
    BY <2>1 DEF PlaceOf, OwnerOf, Holders, Hand, Handed
  <2>2. ASSUME PlaceOf(k) = "held", OwnerOf(k) = c PROVE k \in todo[c]
    <3>1. PICK d \in Collectors : k \in todo[d]
      BY <2>2 DEF PlaceOf, Holders
    <3>. QED BY <2>2, <3>1 DEF OwnerOf, Hand, Handed
  <2>. QED BY <2>1, <2>2
<1>. QED BY <1>1 DEF Queue!HeldBy, Hand, IInv, TypeOK

\* Steps that change no row state, no owner in hand and no process's rows.
LEMMA QueueStutter ==
  ASSUME UNCHANGED <<rowState, lockedBy, todo>> PROVE UNCHANGED Queue!qvars
BY DEF Queue!qvars, PlaceOf, OwnerOf, Holders

\* Retention adds the keys that had no row.
LEMMA QueueEnqueue ==
  ASSUME Hand, NEW S \in SUBSET Keys, Enqueue(S)
  PROVE  \E T \in SUBSET Keys : Queue!Add(T)
<1>. DEFINE T == {k \in S : rowState[k] = "none"}
<1>1. \A k \in T : PlaceOf(k) = "absent" /\ Holders(k) = {}
  BY DEF PlaceOf, Holders, Hand, Handed
<1>2. \A k \in Keys : /\ PlaceOf(k)' = IF k \in T THEN "waiting" ELSE PlaceOf(k)
                      /\ OwnerOf(k)' = IF k \in T THEN NoCollector ELSE OwnerOf(k)
  BY <1>1 DEF Enqueue, Enqueued, procVars, PlaceOf, OwnerOf, Holders
<1>3. Queue!Move(T, "waiting", NoCollector)
  BY <1>2, MoveStep
<1>. QED BY <1>1, <1>3 DEF Queue!Add

\* A claim takes waiting rows.
LEMMA QueueClaim ==
  ASSUME Hand, NEW c \in Collectors, Claim(c)
  PROVE  \E S \in SUBSET Keys : Queue!Take(c, S)
<1>. PICK S \in SUBSET Claimable :
        /\ lockedBy' = [k \in Keys |-> IF k \in S THEN c ELSE lockedBy[k]]
        /\ todo' = [todo EXCEPT ![c] = S]
  BY DEF Claim, Proceed
<1>1. S \in SUBSET Keys /\ \A k \in S : rowState[k] = "pending" /\ Holders(k) = {}
  BY DEF Claimable, Holders, Hand, Handed
<1>2. \A k \in S : PlaceOf(k) = "waiting"
  BY <1>1 DEF PlaceOf
<1>3. \A k \in Keys : k \in S => PlaceOf(k)' = "held" /\ OwnerOf(k)' = c
  BY <1>1 DEF Claim, PlaceOf, OwnerOf, Holders, Hand, IInv, TypeOK
<1>4. \A k \in Keys : k \notin S =>
         PlaceOf(k)' = PlaceOf(k) /\ OwnerOf(k)' = OwnerOf(k)
  <2>. SUFFICES ASSUME NEW k \in Keys, k \notin S
                PROVE  PlaceOf(k)' = PlaceOf(k) /\ OwnerOf(k)' = OwnerOf(k)
    OBVIOUS
  <2>1. \A d \in Collectors : k \in todo'[d] <=> k \in todo[d]
    BY DEF Claim, Hand, IInv, TypeOK, Idle
  <2>2. rowState'[k] = rowState[k] /\ lockedBy'[k] = lockedBy[k]
    BY DEF Claim
  <2>. QED BY <2>1, <2>2 DEF PlaceOf, OwnerOf, Holders
<1>5. Queue!Move(S, "held", c)
  BY <1>1, <1>3, <1>4, MoveStep
<1>. QED BY <1>1, <1>2, <1>5 DEF Queue!Take

\* A finish settles a row in hand, or puts it back to wait.
LEMMA QueueFinish ==
  ASSUME Hand, NEW c \in Collectors, FinishErased(c) \/ FinishRaised(c)
  PROVE  \E k \in Keys, to \in {"done", "dead", "waiting"} : Queue!Settle(c, k, to)
<1>. PICK k \in todo[c], s \in {"done", "failed", "pending"} :
        /\ k \in Keys
        /\ rowState' = [rowState EXCEPT ![k] = s]
        /\ lockedBy' = [lockedBy EXCEPT ![k] = NoCollector]
        /\ todo' = [todo EXCEPT ![c] = todo[c] \ {k}]
  BY FinishStep DEF Hand
<1>. DEFINE to == IF s = "done" THEN "done"
                  ELSE IF s = "failed" THEN "dead" ELSE "waiting"
<1>1. k \in Queue!HeldBy(c)
  BY HeldByIs
<1>2. PlaceOf(k)' = to /\ OwnerOf(k)' = NoCollector
  <2>1. rowState'[k] = s /\ lockedBy'[k] = NoCollector
    BY DEF Hand, IInv, TypeOK
  <2>2. Holders(k)' = {}
    BY DEF Holders, Hand, Handed, IInv, TypeOK
  <2>. QED BY <2>1, <2>2 DEF PlaceOf, OwnerOf
<1>3. \A q \in Keys : q # k => PlaceOf(q)' = PlaceOf(q) /\ OwnerOf(q)' = OwnerOf(q)
  <2>. SUFFICES ASSUME NEW q \in Keys, q # k
                PROVE  PlaceOf(q)' = PlaceOf(q) /\ OwnerOf(q)' = OwnerOf(q)
    OBVIOUS
  <2>1. \A d \in Collectors : q \in todo'[d] <=> q \in todo[d]
    BY DEF Hand, IInv, TypeOK
  <2>2. rowState'[q] = rowState[q] /\ lockedBy'[q] = lockedBy[q]
    BY DEF Hand, IInv, TypeOK
  <2>. QED BY <2>1, <2>2 DEF PlaceOf, OwnerOf, Holders
<1>4. Queue!Move({k}, to, NoCollector)
  BY <1>2, <1>3, MoveStep
<1>. QED BY <1>1, <1>4 DEF Queue!Settle

\* A process that dies abandons what it has in hand.
LEMMA QueueKill ==
  ASSUME Hand, NEW c \in Collectors, Kill(c) PROVE Queue!Abandon(c)
<1>. DEFINE S == todo[c]
<1>1. UNCHANGED <<rowState, lockedBy>> /\ todo' = [todo EXCEPT ![c] = {}]
  BY DEF Kill, rowVars
<1>2. \A k \in Keys : k \in S => PlaceOf(k)' = "waiting" /\ OwnerOf(k)' = NoCollector
  <2>. SUFFICES ASSUME NEW k \in Keys, k \in S
                PROVE  PlaceOf(k)' = "waiting" /\ OwnerOf(k)' = NoCollector
    OBVIOUS
  <2>1. rowState[k] = "pending" /\ Holders(k)' = {}
    BY <1>1 DEF Holders, Hand, Handed, IInv, TypeOK
  <2>. QED BY <1>1, <2>1 DEF PlaceOf, OwnerOf
<1>3. \A k \in Keys : k \notin S =>
         PlaceOf(k)' = PlaceOf(k) /\ OwnerOf(k)' = OwnerOf(k)
  <2>. SUFFICES ASSUME NEW k \in Keys, k \notin S
                PROVE  PlaceOf(k)' = PlaceOf(k) /\ OwnerOf(k)' = OwnerOf(k)
    OBVIOUS
  <2>1. Holders(k)' = Holders(k)
    BY <1>1 DEF Holders, Hand, IInv, TypeOK
  <2>. QED BY <1>1, <2>1 DEF PlaceOf, OwnerOf
<1>4. S \in SUBSET Keys
  BY DEF Hand, IInv, TypeOK
<1>5. Queue!Move(S, "waiting", NoCollector)
  BY <1>2, <1>3, <1>4, MoveStep
<1>. QED BY <1>5, HeldByIs DEF Queue!Abandon

\* Both queues start empty.
LEMMA HandInit == GCInit => Hand /\ Queue!QInit
BY InitIInv DEF GCInit, RowsInit, Hand, Handed, Idle, Queue!QInit, PlaceOf, OwnerOf

\* Every step of the collector is a step of the abstract queue, or none.
LEMMA QueueNext ==
  ASSUME Unsafe = {}, Hand, [GCNext]_gcVars PROVE [Queue!QNext]_(Queue!qvars)
<1>1. CASE GCNext
  <2>1. ASSUME NEW S \in SUBSET Keys, Enqueue(S) PROVE Queue!QNext
    BY <2>1, QueueEnqueue DEF Queue!QNext
  <2>2. ASSUME NEW c \in Collectors, Claim(c) PROVE Queue!QNext
    BY <2>2, QueueClaim DEF Queue!QNext
  <2>3. ASSUME NEW c \in Collectors, FinishErased(c) \/ FinishRaised(c)
        PROVE  Queue!QNext
    BY <2>3, QueueFinish DEF Queue!QNext
  <2>4. ASSUME NEW c \in Collectors, Kill(c) PROVE Queue!QNext
    BY <2>4, QueueKill DEF Queue!QNext
  <2>5. \A c \in Collectors : /\ ~FinishRefused(c) /\ ~MarkFailed(c)
                              /\ \A k \in Keys : ~Refuse(c, k)
    BY DEF FinishRefused, MarkFailed, Refuse, Knows, Hand, IInv
  <2>6. ASSUME NEW c \in Collectors, ClaimNothing(c)
        PROVE  UNCHANGED <<rowState, lockedBy, todo>>
    BY <2>6 DEF ClaimNothing, Proceed, Hand, IInv, TypeOK, Idle
  <2>7. CASE UNCHANGED <<rowState, lockedBy, todo>>
    BY <2>7, QueueStutter
  <2>. QED
    BY <1>1, <2>1, <2>2, <2>3, <2>4, <2>5, <2>6, <2>7, StepCases DEF BackoffElapses,
       LeaseExpires, Start, Erase, EraseFails, At
<1>2. CASE UNCHANGED gcVars
  BY <1>2, QueueStutter
<1>. QED BY <1>1, <1>2

\* storage_gc_queue, whose claimed rows stay 'pending', hands a key to one process
\* at a time, settles it once and never loses it, as ingest_jobs does.
THEOREM GCImplementsQueue ==
  ASSUME MaxOverruns = 0, Unsafe = {} PROVE GCSpec => QueueSpec
<1>1. Hand /\ [GCNext]_gcVars => Hand'
  BY HandNext
<1>2. Hand /\ [GCNext]_gcVars => [Queue!QNext]_(Queue!qvars)
  BY QueueNext
<1>. QED BY <1>1, <1>2, HandInit, PTL DEF GCSpec, QueueSpec, Queue!QSpec
=============================================================================
