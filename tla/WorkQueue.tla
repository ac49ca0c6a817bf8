----------------------------- MODULE WorkQueue -----------------------------
(***************************************************************************)
(* What ingest_jobs promises, without leases, clocks or attempts: a job    *)
(* that was added is waiting, in the hands of exactly one worker, done or  *)
(* dead-lettered, and leaves only by being withdrawn with its event.  A    *)
(* worker that dies puts everything it holds back.                         *)
(***************************************************************************)
EXTENDS FiniteSets

CONSTANTS Jobs, Workers, NoWorker

VARIABLES
    place,  \* where a job is
    owner   \* the worker that has it in hand

qvars == <<place, owner>>

QTypeOK ==
    /\ place \in [Jobs -> {"absent", "waiting", "held", "done", "dead"}]
    /\ owner \in [Jobs -> Workers \cup {NoWorker}]

QInit ==
    /\ place = [j \in Jobs |-> "absent"]
    /\ owner = [j \in Jobs |-> NoWorker]

Move(S, to, w) ==
    /\ place' = [j \in Jobs |-> IF j \in S THEN to ELSE place[j]]
    /\ owner' = [j \in Jobs |-> IF j \in S THEN w ELSE owner[j]]

HeldBy(w) == {j \in Jobs : place[j] = "held" /\ owner[j] = w}

Add(S) ==
    /\ \A j \in S : place[j] = "absent"
    /\ Move(S, "waiting", NoWorker)

Take(w, S) ==
    /\ \A j \in S : place[j] = "waiting"
    /\ Move(S, "held", w)

\* A job leaves the hand of its worker for good, or to wait for another try.
Settle(w, j, to) ==
    /\ j \in HeldBy(w)
    /\ to \in {"done", "dead", "waiting"}
    /\ Move({j}, to, NoWorker)

Abandon(w) == Move(HeldBy(w), "waiting", NoWorker)

Withdraw(S) == Move(S, "absent", NoWorker)

QNext ==
    \/ \E S \in SUBSET Jobs : Add(S) \/ Withdraw(S)
    \/ \E w \in Workers :
         \/ Abandon(w)
         \/ \E S \in SUBSET Jobs : Take(w, S)
         \/ \E j \in Jobs, to \in {"done", "dead", "waiting"} : Settle(w, j, to)

QSpec == QInit /\ [][QNext]_qvars
=============================================================================
