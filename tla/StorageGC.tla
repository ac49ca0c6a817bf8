----------------------------- MODULE StorageGC -----------------------------
(***************************************************************************)
(* The storage_gc_queue table with claim_storage_gc() and                  *)
(* finish_storage_gc(), the object store, and the processes of             *)
(* faceapp_worker/storage_gc.py that empty the one on behalf of the other. *)
(*                                                                         *)
(* A row is named by its object key (bucket and storage_key are unique).   *)
(* Clocks are abstracted as in IngestQueue.  Every statement commits by    *)
(* itself: the connection is autocommit.                                   *)
(***************************************************************************)
EXTENDS Naturals, FiniteSets

CONSTANTS
    Keys,         \* object keys that an event may own
    Unsafe,       \* keys that assert_safe_key() refuses
    Collectors,   \* the storage_gc processes
    NoCollector,  \* locked_by is null
    NoKey,        \* a process is between two rows
    MaxAttempts,  \* storage_gc_queue.max_attempts
    BatchSize,    \* --batch
    Forever,      \* --forever
    MaxKills,     \* bound: kills, lost connections, claims that meet only locks
    MaxOverruns,  \* bound: leases that run out under a live process
    ClaimBound    \* bound: a row claimed this often is not claimed again

ASSUME StorageGCAssumption ==
    /\ Unsafe \subseteq Keys
    /\ NoCollector \notin Collectors
    /\ NoKey \notin Keys
    /\ MaxAttempts \in Nat \ {0}
    /\ BatchSize \in Nat \ {0}
    /\ Forever \in BOOLEAN
    /\ MaxKills \in Nat
    /\ MaxOverruns \in Nat
    /\ ClaimBound \in Nat

VARIABLES
    bucket,    \* the objects in the store
    rowState,  \* storage_gc_queue.state, "none" when there is no row
    attempts,  \* storage_gc_queue.attempts
    due,       \* run_after <= now()
    lockedBy,  \* storage_gc_queue.locked_by
    lease,     \* locked_until: "null", in the future or in the past
    pc,        \* where a process is in drain_once()
    todo,      \* the claimed rows it has still to do
    cur,       \* the row it is at
    moved,     \* deleted or failed of this batch is not zero
    kills, overruns

rowVars == <<rowState, attempts, due, lockedBy, lease>>
procVars == <<pc, todo, cur, moved>>
gcVars == <<bucket, rowVars, procVars, kills, overruns>>

Holders(k) == {c \in Collectors : k \in todo[c]}

TypeOK ==
    /\ bucket \subseteq Keys
    /\ rowState \in [Keys -> {"none", "pending", "done", "failed"}]
    /\ attempts \in [Keys -> Nat]
    /\ due \in [Keys -> BOOLEAN]
    /\ lockedBy \in [Keys -> Collectors \cup {NoCollector}]
    /\ lease \in [Keys -> {"null", "live", "expired"}]
    /\ pc \in [Collectors -> {"claim", "next", "erased", "raised", "refused",
                              "deferred", "over", "killed"}]
    /\ todo \in [Collectors -> SUBSET Keys]
    /\ cur \in [Collectors -> Keys \cup {NoKey}]
    /\ moved \in [Collectors -> BOOLEAN]
    /\ kills \in Nat
    /\ overruns \in Nat

RowsInit ==
    /\ rowState = [k \in Keys |-> "none"]
    /\ attempts = [k \in Keys |-> 0]
    /\ due = [k \in Keys |-> TRUE]
    /\ lockedBy = [k \in Keys |-> NoCollector]
    /\ lease = [k \in Keys |-> "null"]
    /\ pc = [c \in Collectors |-> "claim"]
    /\ todo = [c \in Collectors |-> {}]
    /\ cur = [c \in Collectors |-> NoKey]
    /\ moved = [c \in Collectors |-> FALSE]
    /\ kills = 0
    /\ overruns = 0

GCInit == bucket = Keys /\ RowsInit

-----------------------------------------------------------------------------
(* The queue. *)

\* The insert of run_retention(): a key that has a row keeps it.
Enqueued(S) == [k \in Keys |-> IF k \in S /\ rowState[k] = "none" THEN "pending"
                               ELSE rowState[k]]

Enqueue(S) ==
    /\ \E k \in S : rowState[k] = "none"
    /\ rowState' = Enqueued(S)
    /\ UNCHANGED <<bucket, attempts, due, lockedBy, lease, procVars, kills, overruns>>

\* now() passes run_after.
BackoffElapses(k) ==
    /\ ~due[k]
    /\ due' = [due EXCEPT ![k] = TRUE]
    /\ UNCHANGED <<bucket, rowState, attempts, lockedBy, lease, procVars, kills,
                   overruns>>

\* now() passes locked_until; a live process may be overrun by it.
LeaseExpires(k) ==
    /\ lease[k] = "live"
    /\ Holders(k) # {} => overruns < MaxOverruns
    /\ lease' = [lease EXCEPT ![k] = "expired"]
    /\ overruns' = IF Holders(k) = {} THEN overruns ELSE overruns + 1
    /\ UNCHANGED <<bucket, rowState, attempts, due, lockedBy, procVars, kills>>

\* A faulty variant of Claimable: a row whose process died is not taken up again.
ClaimableOnce == {k \in Keys : /\ rowState[k] = "pending"
                               /\ due[k]
                               /\ lease[k] = "null"
                               /\ attempts[k] < ClaimBound}

Claimable == {k \in Keys : /\ rowState[k] = "pending"
                           /\ due[k]
                           /\ lease[k] # "live"
                           /\ attempts[k] < ClaimBound}

\* finish_storage_gc(k, p_ok)
FinishRow(k, s) ==
    /\ rowState[k] # "none"
    /\ rowState' = [rowState EXCEPT ![k] = s]
    /\ lockedBy' = [lockedBy EXCEPT ![k] = NoCollector]
    /\ lease' = [lease EXCEPT ![k] = "null"]
    /\ due' = [due EXCEPT ![k] = IF s = "pending" THEN FALSE ELSE @]
    /\ UNCHANGED attempts

\* Faulty variants of FailState: one attempt too few; an unknown state.
FailStateEarly(k) == IF attempts[k] + 1 >= MaxAttempts THEN "failed" ELSE "pending"
FailStateUnknown(k) == IF attempts[k] >= MaxAttempts THEN "dead" ELSE "pending"

FailState(k) == IF attempts[k] >= MaxAttempts THEN "failed" ELSE "pending"

-----------------------------------------------------------------------------
(* drain_once() and run() *)

\* The loop of run() comes round once the batch is through; without --forever a
\* batch in which nothing was deleted and nothing failed is the last one.
Proceed(c, left, progress) ==
    /\ todo' = [todo EXCEPT ![c] = left]
    /\ cur' = [cur EXCEPT ![c] = NoKey]
    /\ moved' = [moved EXCEPT ![c] = left # {} /\ progress]
    /\ pc' = [pc EXCEPT ![c] = IF left # {} THEN "next"
                               ELSE IF Forever \/ progress THEN "claim" ELSE "over"]

\* claim_storage_gc(); SKIP LOCKED can hide any row.
Claim(c) ==
    /\ pc[c] = "claim"
    /\ \E S \in SUBSET Claimable :
         /\ S # {} /\ Cardinality(S) <= BatchSize
         /\ attempts' = [k \in Keys |-> IF k \in S THEN attempts[k] + 1 ELSE attempts[k]]
         /\ lockedBy' = [k \in Keys |-> IF k \in S THEN c ELSE lockedBy[k]]
         /\ lease' = [k \in Keys |-> IF k \in S THEN "live" ELSE lease[k]]
         /\ Proceed(c, S, FALSE)
    /\ UNCHANGED <<bucket, rowState, due, kills, overruns>>

\* The claim finds nothing, or nothing that another process has not locked just now.
\* A lock lasts for a statement; that one is met counts among the kills.
ClaimNothing(c) ==
    /\ pc[c] = "claim"
    /\ ~Forever
    /\ \/ Claimable = {} /\ UNCHANGED kills
       \/ /\ Claimable # {} /\ \E d \in Collectors \ {c} : pc[d] \notin {"over", "killed"}
          /\ kills < MaxKills /\ kills' = kills + 1
    /\ Proceed(c, {}, FALSE)
    /\ UNCHANGED <<bucket, rowVars, overruns>>

At(c, k, l) ==
    /\ cur' = [cur EXCEPT ![c] = k]
    /\ pc' = [pc EXCEPT ![c] = l]
    /\ UNCHANGED <<rowVars, todo, moved, kills, overruns>>

\* storage.delete(): the object is gone, or was gone already.
Erase(c, k) ==
    /\ pc[c] = "next"
    /\ k \in todo[c] \ Unsafe
    /\ bucket' = bucket \ {k}
    /\ At(c, k, "erased")

\* A faulty variant of EraseFails: the exception is swallowed.
EraseFailsSilently(c, k) ==
    /\ pc[c] = "next"
    /\ k \in todo[c] \ Unsafe
    /\ bucket' \in {bucket, bucket \ {k}}
    /\ At(c, k, "erased")

\* storage.delete() raises; the store may have carried the request out.
EraseFails(c, k) ==
    /\ pc[c] = "next"
    /\ k \in todo[c] \ Unsafe
    /\ bucket' \in {bucket, bucket \ {k}}
    /\ At(c, k, "raised")

\* storage.delete() raises UnsafeKeyError.
Refuse(c, k) ==
    /\ pc[c] = "next"
    /\ k \in todo[c] \cap Unsafe
    /\ At(c, k, "refused")
    /\ UNCHANGED bucket

FinishErased(c) ==
    /\ pc[c] = "erased"
    /\ FinishRow(cur[c], "done")
    /\ Proceed(c, todo[c] \ {cur[c]}, TRUE)
    /\ UNCHANGED <<bucket, kills, overruns>>

\* A failure counts only once the row is dead-lettered.
FinishRaised(c) ==
    LET s == FailState(cur[c]) IN
    /\ pc[c] = "raised"
    /\ FinishRow(cur[c], s)
    /\ Proceed(c, todo[c] \ {cur[c]}, moved[c] \/ s = "failed")
    /\ UNCHANGED <<bucket, kills, overruns>>

\* An unusable key takes two statements: finish_storage_gc(false) ...
FinishRefused(c) ==
    /\ pc[c] = "refused"
    /\ FinishRow(cur[c], FailState(cur[c]))
    /\ pc' = [pc EXCEPT ![c] = "deferred"]
    /\ UNCHANGED <<bucket, todo, cur, moved, kills, overruns>>

\* ... and update storage_gc_queue set state = 'failed'.
MarkFailed(c) ==
    /\ pc[c] = "deferred"
    /\ rowState' = [rowState EXCEPT ![cur[c]] = "failed"]
    /\ Proceed(c, todo[c] \ {cur[c]}, TRUE)
    /\ UNCHANGED <<bucket, attempts, due, lockedBy, lease, kills, overruns>>

\* The process is killed, a call to the database raises (nothing catches it), or
\* it stops between two batches after a SIGTERM.
Kill(c) ==
    /\ pc[c] \notin {"over", "killed"}
    /\ kills < MaxKills
    /\ pc' = [pc EXCEPT ![c] = "killed"]
    /\ todo' = [todo EXCEPT ![c] = {}]
    /\ cur' = [cur EXCEPT ![c] = NoKey]
    /\ moved' = [moved EXCEPT ![c] = FALSE]
    /\ kills' = kills + 1
    /\ UNCHANGED <<bucket, rowVars, overruns>>

\* The scheduler runs storage_gc again.
Start(c) ==
    /\ pc[c] \in {"over", "killed"}
    /\ pc' = [pc EXCEPT ![c] = "claim"]
    /\ UNCHANGED <<bucket, rowVars, todo, cur, moved, kills, overruns>>

-----------------------------------------------------------------------------

Drain(c) ==
    \/ Claim(c)
    \/ ClaimNothing(c)
    \/ \E k \in Keys : Erase(c, k) \/ EraseFails(c, k) \/ Refuse(c, k)
    \/ FinishErased(c)
    \/ FinishRaised(c)
    \/ FinishRefused(c)
    \/ MarkFailed(c)

Collect ==
    \/ \E k \in Keys : BackoffElapses(k) \/ LeaseExpires(k)
    \/ \E c \in Collectors : Drain(c) \/ Kill(c) \/ Start(c)

GCNext == Collect \/ \E S \in SUBSET Keys : Enqueue(S)

\* The loop goes on, the scheduler starts processes again, and clocks go on.  A lease
\* that a live process outlives may expire, but need not.
Fairness ==
    /\ \A c \in Collectors : WF_gcVars(Drain(c) \/ Start(c))
    /\ \A k \in Keys : /\ WF_gcVars(BackoffElapses(k))
                       /\ WF_gcVars(Holders(k) = {} /\ LeaseExpires(k))

GCSpec == GCInit /\ [][GCNext]_gcVars

-----------------------------------------------------------------------------

\* A row that says done never stands for an object that is still in the store:
\* not after kills, late answers, failed deletes or an overrun lease.
DoneMeansErased == \A k \in Keys : rowState[k] = "done" => k \notin bucket

\* A usable key is given up, and left to a human, only after it has had all its
\* attempts.
NoEarlyDeadLetter ==
    \A k \in Keys \ Unsafe : rowState[k] = "failed" => attempts[k] >= MaxAttempts

\* Every key that retention enqueues is erased or dead-lettered in the end, and
\* stays so: no kill, retry or late answer leaves it in the queue for ever.
ErasureSettles ==
    \A k \in Keys : rowState[k] = "pending" ~> [](rowState[k] \in {"done", "failed"})

\* The queue has the shape of the ingestion queue: it implements WorkQueue,
\* although a claimed row here stays 'pending' and only its lease keeps it.  This
\* supposes usable keys and MaxOverruns = 0 (StorageGCProofs).
PlaceOf(k) ==
    CASE rowState[k] = "none"   -> "absent"
      [] rowState[k] = "done"   -> "done"
      [] rowState[k] = "failed" -> "dead"
      [] OTHER -> IF Holders(k) = {} THEN "waiting" ELSE "held"
OwnerOf(k) == IF PlaceOf(k) = "held" THEN lockedBy[k] ELSE NoCollector

Queue == INSTANCE WorkQueue WITH
    Jobs     <- Keys,
    Workers  <- Collectors,
    NoWorker <- NoCollector,
    place    <- [k \in Keys |-> PlaceOf(k)],
    owner    <- [k \in Keys |-> OwnerOf(k)]
QueueSpec == Queue!QSpec
=============================================================================
