------------------------------ MODULE Clusters ------------------------------
(***************************************************************************)
(* faceapp_worker.cluster over one event: processes that read the tier-2   *)
(* faces, group them outside any transaction and then replace the event's  *)
(* clusters in one.  Between the two, and while another process does the   *)
(* same, faces come (a photograph is ingested) and go (it is ingested      *)
(* again, or an attendee opts out); retention deletes the event.           *)
(*                                                                         *)
(* A cluster is [id, members]: its centroid is the mean of its members and *)
(* its face_count their number.  The database is READ COMMITTED: DELETE    *)
(* sees the clusters committed when it starts and waits for another        *)
(* process that is deleting one of them; the rest of the transaction takes *)
(* effect at its commit.                                                   *)
(***************************************************************************)
EXTENDS Dbscan

CONSTANTS
    NumFaces,   \* bound: the ids of tier-2 faces are 1..NumFaces, in id order
    Runs,       \* the processes, each of which clusters the event once
    Earlier,    \* one that ended before, in peace
    MinSizes,   \* MIN_CLUSTER_SIZE is one of these
    NoCluster

ASSUME NumFacesAssumption == NumFaces \in Nat
ASSUME MinSizesAssumption == MinSizes \subseteq Nat
ASSUME NamesAssumption == Earlier \notin Runs /\ NoCluster \notin (Runs \cup {Earlier}) \X Int

Faces == 1..NumFaces
Ids == (Runs \cup {Earlier}) \X (0..NumFaces)

VARIABLES
    similar,   \* the pairs of faces within eps of each other; never changes
    minSize,   \* MIN_CLUSTER_SIZE; never changes
    row,       \* face -> "unborn", "stored" or "deleted"
    clusterOf, \* faces.cluster_id
    clusters,  \* the table
    run,       \* process -> where it is
    seen,      \* process -> the faces its SELECT returned
    doomed,    \* process -> the ids its DELETE goes for
    alone,     \* process -> nothing else happened since its SELECT
    exact      \* the last commit came of such a run and no face changed since

clusterVars == <<similar, minSize, row, clusterOf, clusters, run, seen, doomed, alone, exact>>
config == <<similar, minSize>>

Stored == {f \in Faces : row[f] = "stored"}
Near(fs) == [f \in fs |-> {g \in fs : f = g \/ {f, g} \in similar}]
IdsOf(cs) == {c.id : c \in cs}
Busy == {r \in Runs : run[r] \in {"grouping", "waiting", "writing"}}

ClusterTypeOK ==
    /\ similar \subseteq {{f, g} : f, g \in Faces}
    /\ minSize \in MinSizes
    /\ row \in [Faces -> {"unborn", "stored", "deleted"}]
    /\ clusterOf \in [Faces -> Ids \cup {NoCluster}]
    /\ clusters \subseteq [id : Ids, members : SUBSET Faces]
    /\ run \in [Runs -> {"idle", "grouping", "waiting", "writing", "done"}]
    /\ seen \in [Runs -> SUBSET Faces]
    /\ doomed \in [Runs -> SUBSET Ids]
    /\ alone \in [Runs -> BOOLEAN]
    /\ exact \in BOOLEAN

\* The clusters that a process makes of the faces it read, and the id of the one
\* that a face is in.
Grouped(r, fs) ==
    LET labels == Dbscan(NumFaces, Near(fs), minSize)
    IN {[id |-> <<r, l>>, members |-> {f \in fs : labels[f] = l}] :
            l \in {labels[f] : f \in fs} \ {Noise}}
IdIn(cs, f) ==
    IF \E c \in cs : f \in c.members THEN (CHOOSE c \in cs : f \in c.members).id
    ELSE NoCluster

\* An event as ingestion, and perhaps an earlier clustering, left it.
ClusterInit ==
    /\ similar \in SUBSET {{f, g} : f, g \in Faces}
    /\ \A e \in similar : Cardinality(e) = 2
    /\ minSize \in MinSizes
    /\ row \in [Faces -> {"unborn", "stored"}]
    /\ clusters \in {{}, Grouped(Earlier, Stored)}
    /\ clusterOf = [f \in Faces |-> IdIn(clusters, f)]
    /\ run = [r \in Runs |-> "idle"]
    /\ seen = [r \in Runs |-> {}]
    /\ doomed = [r \in Runs |-> {}]
    /\ alone = [r \in Runs |-> FALSE]
    /\ exact = (clusters # {})

-----------------------------------------------------------------------------

RunAt(r, from, to) ==
    /\ run[r] = from
    /\ run' = [run EXCEPT ![r] = to]

\* The process ends, and what it held in memory with it.
Ends(r) ==
    /\ run' = [run EXCEPT ![r] = "done"]
    /\ seen' = [seen EXCEPT ![r] = {}]
    /\ doomed' = [doomed EXCEPT ![r] = {}]
    /\ alone' = [alone EXCEPT ![r] = FALSE]

\* The SELECT.  Without a tier-2 face the process ends, and touches no cluster.
ReadFaces(r) ==
    /\ RunAt(r, "idle", IF Stored = {} THEN "done" ELSE "grouping")
    /\ seen' = [seen EXCEPT ![r] = Stored]
    /\ alone' = [q \in Runs |-> q = r /\ Busy = {}]
    /\ UNCHANGED <<config, row, clusterOf, clusters, doomed, exact>>

\* The DELETE starts: its snapshot is taken before it waits for anybody.
BeginDelete(r) ==
    /\ run[r] = "grouping"
    /\ doomed' = [doomed EXCEPT ![r] = IdsOf(clusters)]
    /\ run' = [run EXCEPT ![r] = "waiting"]
    /\ UNCHANGED <<config, row, clusterOf, clusters, seen, alone, exact>>

\* ... and ends, once nobody else is deleting one of its rows.
EndDelete(r) ==
    /\ \A q \in Runs \ {r} : run[q] = "writing" =>
           doomed[q] \cap doomed[r] \cap IdsOf(clusters) = {}
    /\ RunAt(r, "waiting", "writing")
    /\ UNCHANGED <<config, row, clusterOf, clusters, seen, doomed, alone, exact>>

\* Faulty variants of CommitClusters: the old clusters are kept; they go, but the
\* faces that name them are not unset.
CommitClustersKeep(r) ==
    /\ run[r] = "writing" /\ Ends(r)
    /\ LET new == Grouped(r, seen[r])
       IN /\ clusters' = clusters \cup new
          /\ clusterOf' = [f \in Faces |->
                 IF f \in Stored /\ IdIn(new, f) # NoCluster THEN IdIn(new, f)
                 ELSE clusterOf[f]]
    /\ exact' = alone[r]
    /\ UNCHANGED <<config, row>>
CommitClustersDangling(r) ==
    /\ run[r] = "writing" /\ Ends(r)
    /\ LET new == Grouped(r, seen[r])
       IN /\ clusters' = {c \in clusters : c.id \notin doomed[r]} \cup new
          /\ clusterOf' = [f \in Faces |->
                 IF f \in Stored /\ IdIn(new, f) # NoCluster THEN IdIn(new, f)
                 ELSE clusterOf[f]]
    /\ exact' = alone[r]
    /\ UNCHANGED <<config, row>>

\* The commit: the doomed rows go and unset the faces that name them (ON DELETE
\* SET NULL), the new rows come, and those of their members that still exist are
\* given the new id.
CommitClusters(r) ==
    /\ run[r] = "writing" /\ Ends(r)
    /\ LET new == Grouped(r, seen[r])
       IN /\ clusters' = {c \in clusters : c.id \notin doomed[r]} \cup new
          /\ clusterOf' = [f \in Faces |->
                 IF f \in Stored /\ IdIn(new, f) # NoCluster THEN IdIn(new, f)
                 ELSE IF clusterOf[f] \in doomed[r] THEN NoCluster ELSE clusterOf[f]]
    /\ exact' = alone[r]
    /\ UNCHANGED <<config, row>>

\* The process is killed, or its transaction is rolled back: a deadlock with
\* another process, or the event is gone and the INSERT has no parent.
RunFails(r) ==
    /\ r \in Busy /\ Ends(r)
    /\ UNCHANGED <<config, row, clusterOf, clusters, exact>>

\* replace_faces() inserts a row, with no cluster.
FaceStored(f) ==
    /\ row[f] = "unborn"
    /\ row' = [row EXCEPT ![f] = "stored"]
    /\ alone' = [r \in Runs |-> FALSE]
    /\ exact' = FALSE
    /\ UNCHANGED <<config, clusterOf, clusters, run, seen, doomed>>

\* replace_faces() or an opt-out deletes one; nobody tells its cluster.
FaceDeleted(f) ==
    /\ row[f] = "stored"
    /\ row' = [row EXCEPT ![f] = "deleted"]
    /\ clusterOf' = [clusterOf EXCEPT ![f] = NoCluster]
    /\ alone' = [r \in Runs |-> FALSE]
    /\ exact' = FALSE
    /\ UNCHANGED <<config, clusters, run, seen, doomed>>

ClusterRun(r) ==
    \/ ReadFaces(r)
    \/ BeginDelete(r)
    \/ EndDelete(r)
    \/ CommitClusters(r)
    \/ RunFails(r)

ClusterNext ==
    \/ \E r \in Runs : ClusterRun(r)
    \/ \E f \in Faces : FaceStored(f) \/ FaceDeleted(f)

ClusterSpec == ClusterInit /\ [][ClusterNext]_clusterVars

-----------------------------------------------------------------------------

\* Whatever runs and changes overlap, a face that names a cluster names one that
\* exists and was made of it: nobody's face is filed under a stranger because two
\* processes crossed.
FacesInTheirCluster ==
    \A f \in Faces : clusterOf[f] # NoCluster =>
        /\ row[f] = "stored"
        /\ \E c \in clusters : c.id = clusterOf[f] /\ f \in c.members

\* "Powers the 'N distinct people in this album' view": a run that met nobody
\* leaves exactly the groups that DBSCAN is defined to find, each with a count of
\* the faces that name it, and nothing of an earlier run.
LabelOf(f) ==
    IF clusterOf[f] = NoCluster THEN Noise ELSE clusterOf[f][2]
QuietRunsExact ==
    exact =>
        /\ \A c \in clusters :
               /\ c.members = {f \in Faces : clusterOf[f] = c.id}
               /\ Cardinality(c.members) >= minSize
        /\ IsDbscan(Near(Stored), minSize, [f \in Stored |-> LabelOf(f)])
=============================================================================
