---------------------------- MODULE WorkerImage ----------------------------
(***************************************************************************)
(* The programs of the worker image (ml/docker-entrypoint.sh) beside the   *)
(* ingestion worker, which has a module of its own: a container runs the   *)
(* one its command names, the enrolment service, the clustering job or the *)
(* collector, and the others are not there.                                *)
(***************************************************************************)
EXTENDS Clusters, EnrolService, StorageGC

VARIABLE command
imageVars == <<command, clusterVars, serviceVars, gcVars>>

\* The event's faces, of which only the clustering job takes notice.
FacesAbsent == similar = {} /\ clusters = {} /\ row = [f \in Faces |-> "unborn"]

Init ==
    /\ command \in {"service", "cluster", "storage-gc"}
    /\ ClusterInit
    /\ command # "cluster" => FacesAbsent
    /\ IF command = "service" THEN ServiceInit ELSE ServiceAbsent
    /\ GCInit

Next ==
    /\ UNCHANGED command
    /\ \/ command = "service" /\ ServiceNext /\ UNCHANGED <<clusterVars, gcVars>>
       \/ command = "cluster" /\ ClusterNext /\ UNCHANGED <<serviceVars, gcVars>>
       \/ command = "storage-gc" /\ GCNext /\ UNCHANGED <<clusterVars, serviceVars>>

\* The fairness of StorageGC, where the container collects.
Collecting == command = "storage-gc"
CollectorFairness ==
    /\ \A c \in Collectors : WF_gcVars(Collecting /\ (Drain(c) \/ Start(c)))
    /\ \A k \in Keys : /\ WF_gcVars(Collecting /\ BackoffElapses(k))
                       /\ WF_gcVars(Collecting /\ Holders(k) = {} /\ LeaseExpires(k))

FairSpec == Init /\ [][Next]_imageVars /\ ServiceFairness /\ CollectorFairness
=============================================================================
