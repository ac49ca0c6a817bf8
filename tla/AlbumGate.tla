----------------------------- MODULE AlbumGate -----------------------------
(***************************************************************************)
(* What upload, claim, finish and retention promise about one album: every *)
(* transaction takes effect at once, an upload closes the gate and the     *)
(* transaction that leaves nothing to do opens it.  EventReady implements  *)
(* it while nothing is dead-lettered, IngestQueue also while the finish of *)
(* no dead letter crosses another finish or an upload.                     *)
(***************************************************************************)
CONSTANT Photos

VARIABLES job, event

gateVars == <<job, event>>

NothingOpen(j) == \A p \in Photos : j[p] \notin {"pending", "running"}

GateInit ==
    /\ job = [p \in Photos |-> "none"]
    /\ event = "draft"

Enqueue(p) ==
    /\ event # "gone" /\ job[p] = "none"
    /\ job' = [job EXCEPT ![p] = "pending"]
    /\ event' = "indexing"

Start(S) ==
    /\ \A p \in S : job[p] = "pending"
    /\ job' = [p \in Photos |-> IF p \in S THEN "running" ELSE job[p]]
    /\ UNCHANGED event

Finish(p, s) ==
    /\ job[p] = "running"
    /\ job' = [job EXCEPT ![p] = s]
    /\ event' = IF event = "indexing" /\ NothingOpen(job') THEN "ready" ELSE event

\* The jobs go with their event.
Purge ==
    /\ event # "gone" /\ event' = "gone"
    /\ job' = [p \in Photos |-> "none"]

GateNext ==
    \/ \E p \in Photos : Enqueue(p)
    \/ \E S \in SUBSET Photos : Start(S)
    \/ \E p \in Photos, s \in {"done", "failed", "pending"} : Finish(p, s)
    \/ Purge

GateSpec == GateInit /\ [][GateNext]_gateVars
=============================================================================
