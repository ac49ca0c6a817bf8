------------------------- MODULE WorkerImageProofs -------------------------
(***************************************************************************)
(* EngineWhole for any number of requests, frames, failed loads and        *)
(* restarts; FacesInTheirCluster and QuietRunsExact for any number of      *)
(* faces and of processes; each for its component and, with what           *)
(* StorageGCProofs proves, for the image that runs one of them.            *)
(*                                                                         *)
(* EngineWhole is not inductive by itself: that only one thread loads is   *)
(* because whoever is between taking the lock and publishing holds it, and *)
(* nobody publishes before the policy is there.  FacesInTheirCluster is:   *)
(* what a commit gives a face is the id of a cluster it inserts with that  *)
(* face, and what it deletes it unsets.  Nothing about DBSCAN is used      *)
(* there: whatever the groups are, nobody is filed outside theirs.         *)
(* QuietRunsExact needs QuietKept: as long as nothing else happened, what  *)
(* a process read is what is stored and what its DELETE goes for is the    *)
(* whole table; and DBSCAN itself (DbscanProofs).                          *)
(***************************************************************************)
EXTENDS WorkerImage, DbscanProofs, StorageGCProofs

Inside == {"recheck", "model", "policy", "publish"}
Places == {"out", "check", "lock", "in"} \cup Inside

LockKept ==
    /\ at \in [Threads -> Places]
    /\ \A t \in Threads : at[t] \in Inside <=> holder = t
    /\ \A t \in Threads : at[t] \in Loading => ~engineSet
    /\ \A t \in Threads : at[t] = "publish" => policySet
    /\ \A t \in Threads : at[t] = "in" => engineSet
    /\ engineSet => policySet

\* A process that starts, with the warming thread or without, keeps the lock.
LEMMA StartKeeps ==
    ASSUME NEW t0, at = [t \in Threads |-> IF t = "warm" THEN t0 ELSE "out"],
           t0 \in {"check", "out"}, holder = NoThread, engineSet = FALSE, policySet = FALSE
    PROVE  LockKept
  BY ThreadsAssumption DEF LockKept, Threads, Places, Inside, Loading

\* Every step of engine(), whoever takes it, keeps the lock.
LEMMA EngineStepKeeps ==
    ASSUME LockKept, NEW t \in Threads, EngineStep(t)
    PROVE  LockKept'
<1> USE ThreadsAssumption DEF LockKept, Threads, Places, Inside, Loading, Goes
<1>1. CASE FirstLook(t)
  BY <1>1 DEF FirstLook, requestVars
<1>2. CASE TakeLock(t)
  BY <1>2 DEF TakeLock, requestVars
<1>3. CASE SecondLook(t)
  BY <1>3 DEF SecondLook, requestVars
<1>4. CASE LoadModel(t)
  BY <1>4 DEF LoadModel, requestVars
<1>5. CASE LoadPolicy(t)
  BY <1>5 DEF LoadPolicy, requestVars
<1>6. CASE Publish(t)
  BY <1>6 DEF Publish, requestVars
<1>7. CASE LoadFails(t)
  BY <1>7 DEF LoadFails
<1>8. QED
  BY <1>1, <1>2, <1>3, <1>4, <1>5, <1>6, <1>7 DEF EngineStep

\* The lock is kept by every step of the service.
LEMMA StepKeeps ==
    ASSUME LockKept, [ServiceNext]_serviceVars
    PROVE  LockKept'
<1>1. CASE \E t \in Threads : EngineStep(t)
  BY <1>1, EngineStepKeeps
<1>2. CASE Warmed
  BY <1>2, ThreadsAssumption
     DEF Warmed, Goes, LockKept, Threads, Places, Inside, Loading, requestVars
<1>3. CASE \E q \in Requests : Ask(q) \/ Receive(q) \/ Enter(q)
  BY <1>3, ThreadsAssumption
     DEF Ask, Receive, Enter, Goes, engineVars, LockKept, Threads, Places, Inside, Loading
<1>4. CASE Answer
  BY <1>4, ThreadsAssumption
     DEF Answer, Goes, engineVars, LockKept, Threads, Places, Inside, Loading
<1>5. CASE Probe \/ AnswerProbe
  BY <1>5 DEF Probe, AnswerProbe, engineVars, LockKept
<1>6. CASE Restart
  BY <1>6, ThreadsAssumption DEF Restart, LockKept, Threads, Places, Inside, Loading
<1>7. CASE UNCHANGED serviceVars
  BY <1>7 DEF serviceVars, LockKept
<1>8. QED
  BY <1>1, <1>2, <1>3, <1>4, <1>5, <1>6, <1>7 DEF ServiceNext

\* However many requests, failures and restarts there are, whoever finds the engine
\* set finds it whole, and nobody loads it beside another or a second time.
THEOREM EngineAlwaysWhole == ServiceSpec => []EngineWhole
<1>1. ServiceInit => LockKept
  <2> SUFFICES ASSUME ServiceInit PROVE LockKept
    OBVIOUS
  <2>1. at = [t \in Threads |-> IF t = "warm" THEN "check" ELSE "out"]
    BY DEF ServiceInit
  <2>2. QED
    BY <2>1, StartKeeps DEF ServiceInit, NothingYet
<1>2. LockKept /\ [ServiceNext]_serviceVars => LockKept'
  BY StepKeeps
<1>3. LockKept => EngineWhole
  BY DEF LockKept, EngineWhole, Inside, Loading
<1>4. QED
  BY <1>1, <1>2, <1>3, PTL DEF ServiceSpec

-----------------------------------------------------------------------------
(* Clustering. *)

\* The id a face gets is that of a cluster with the face in it.
LEMMA IdInNames ==
    ASSUME NEW cs, NEW f, IdIn(cs, f) # NoCluster
    PROVE  \E c \in cs : c.id = IdIn(cs, f) /\ f \in c.members
<1>1. PICK c \in cs : f \in c.members
  BY DEF IdIn
<1>2. QED
  BY <1>1 DEF IdIn

\* The clusters made of a set of faces hold no other face.
LEMMA GroupedMembers ==
    ASSUME NEW r, NEW fs, NEW c \in Grouped(r, fs)
    PROVE  c.members \subseteq fs
<1>1. PICK l : c = [id |-> <<r, l>>,
                    members |-> {f \in fs : Dbscan(NumFaces, Near(fs), minSize)[f] = l}]
  BY DEF Grouped
<1>2. QED
  BY <1>1

\* At the start a stored face names the cluster of an earlier run that holds it, if any.
LEMMA InitFiled ==
    ASSUME ClusterInit
    PROVE  FacesInTheirCluster
<1> SUFFICES ASSUME NEW f \in Faces, clusterOf[f] # NoCluster
             PROVE  /\ row[f] = "stored"
                    /\ \E c \in clusters : c.id = clusterOf[f] /\ f \in c.members
  BY DEF FacesInTheirCluster
<1>1. clusterOf[f] = IdIn(clusters, f)
  BY DEF ClusterInit
<1>2. PICK c \in clusters : c.id = clusterOf[f] /\ f \in c.members
  BY <1>1, IdInNames
<1>3. clusters = Grouped(Earlier, Stored)
  BY <1>2 DEF ClusterInit
<1>4. f \in Stored
  BY <1>2, <1>3, GroupedMembers
<1>5. QED
  BY <1>2, <1>4 DEF Stored

\* A run that commits writes the clusters and the faces that name them.
LEMMA CommitFiles ==
    ASSUME FacesInTheirCluster, NEW r \in Runs, CommitClusters(r)
    PROVE  FacesInTheirCluster'
<1> DEFINE new == Grouped(r, seen[r])
<1>1. clusters' = {c \in clusters : c.id \notin doomed[r]} \cup new /\ row' = row
  BY DEF CommitClusters
<1>2. clusterOf' = [f \in Faces |->
          IF f \in Stored /\ IdIn(new, f) # NoCluster THEN IdIn(new, f)
          ELSE IF clusterOf[f] \in doomed[r] THEN NoCluster ELSE clusterOf[f]]
  BY DEF CommitClusters
<1> SUFFICES ASSUME NEW f \in Faces, clusterOf'[f] # NoCluster
             PROVE  /\ row[f] = "stored"
                    /\ \E c \in clusters' : c.id = clusterOf'[f] /\ f \in c.members
  BY <1>1 DEF FacesInTheirCluster
<1> HIDE DEF new
<1>3. CASE f \in Stored /\ IdIn(new, f) # NoCluster
  <2>1. PICK c \in new : c.id = IdIn(new, f) /\ f \in c.members
    BY <1>3, IdInNames
  <2>2. clusterOf'[f] = IdIn(new, f)
    BY <1>2, <1>3
  <2>3. QED
    BY <1>1, <1>3, <2>1, <2>2 DEF Stored
<1>4. CASE ~(f \in Stored /\ IdIn(new, f) # NoCluster)
  <2>1. clusterOf[f] \notin doomed[r] /\ clusterOf'[f] = clusterOf[f]
    BY <1>2, <1>4
  <2>2. PICK c \in clusters : c.id = clusterOf[f] /\ f \in c.members
    BY <2>1 DEF FacesInTheirCluster
  <2>3. row[f] = "stored"
    BY <2>1 DEF FacesInTheirCluster
  <2>4. c \in clusters'
    BY <1>1, <2>1, <2>2
  <2>5. QED
    BY <2>1, <2>2, <2>3, <2>4
<1>5. QED
  BY <1>3, <1>4

\* The types that the next lemma needs: a face has one row and names one cluster.
Tables ==
    /\ row \in [Faces -> {"unborn", "stored", "deleted"}]
    /\ clusterOf \in [Faces -> {clusterOf[f] : f \in Faces}]

\* Every step keeps the tables in step with each other,
LEMMA StepKeepsTables ==
    ASSUME Tables, [ClusterNext]_clusterVars
    PROVE  Tables'
<1>1. CASE \E r \in Runs : ClusterRun(r)
  BY <1>1 DEF ClusterRun, ReadFaces, BeginDelete, EndDelete, CommitClusters, RunFails, Tables
<1>2. CASE \E f \in Faces : FaceStored(f)
  BY <1>2 DEF FaceStored, Tables
<1>3. CASE \E f \in Faces : FaceDeleted(f)
  BY <1>3 DEF FaceDeleted, Tables
<1>4. CASE UNCHANGED clusterVars
  BY <1>4 DEF clusterVars, Tables
<1>5. QED
  BY <1>1, <1>2, <1>3, <1>4 DEF ClusterNext

\* and every face in the cluster that it names.
LEMMA StepFiles ==
    ASSUME Tables, FacesInTheirCluster, [ClusterNext]_clusterVars
    PROVE  FacesInTheirCluster'
<1>1. CASE \E r \in Runs : CommitClusters(r)
  BY <1>1, CommitFiles
<1>2. ASSUME NEW r \in Runs, ReadFaces(r) \/ BeginDelete(r) \/ EndDelete(r) \/ RunFails(r)
      PROVE  FacesInTheirCluster'
  BY <1>2 DEF ReadFaces, BeginDelete, EndDelete, RunFails, FacesInTheirCluster
<1>3. ASSUME NEW f \in Faces, FaceStored(f)
      PROVE  FacesInTheirCluster'
  BY <1>3 DEF FaceStored, FacesInTheirCluster, Tables
<1>4. ASSUME NEW f \in Faces, FaceDeleted(f)
      PROVE  FacesInTheirCluster'
  BY <1>4 DEF FaceDeleted, FacesInTheirCluster, Tables
<1>5. CASE UNCHANGED clusterVars
  BY <1>5 DEF clusterVars, FacesInTheirCluster
<1>6. QED
  BY <1>1, <1>2, <1>3, <1>4, <1>5 DEF ClusterNext, ClusterRun

\* Whatever processes cluster an event at once, are killed or find it changed, and
\* whatever groups they find, a face names an existing cluster that was made of it.
THEOREM FacesAlwaysFiled == ClusterSpec => []FacesInTheirCluster
<1>1. ClusterInit => Tables /\ FacesInTheirCluster
  <2>1. ClusterInit => Tables
    BY DEF ClusterInit, Tables
  <2>2. QED
    BY <2>1, InitFiled
<1>2. Tables /\ FacesInTheirCluster /\ [ClusterNext]_clusterVars
        => (Tables /\ FacesInTheirCluster)'
  BY StepKeepsTables, StepFiles
<1>3. QED
  BY <1>1, <1>2, PTL DEF ClusterSpec

-----------------------------------------------------------------------------
(* A run that met nobody. *)

\* The neighbourhoods of stored faces are what DBSCAN wants.
LEMMA NearIsNear ==
    ASSUME NEW fs \in SUBSET Faces
    PROVE  IsNear(Near(fs)) /\ DOMAIN Near(fs) = fs /\ DOMAIN Near(fs) \subseteq 1..NumFaces
<1>1. DOMAIN Near(fs) = fs /\ fs \subseteq 1..NumFaces
  BY DEF Near, Faces
<1>2. IsFiniteSet(fs)
  <2>1. IsFiniteSet(1..NumFaces)
    BY NumFacesAssumption, FS_Interval
  <2>. QED BY <1>1, <2>1, FS_Subset
<1>3. \A p \in fs : p \in Near(fs)[p] /\ Near(fs)[p] \subseteq fs
  BY DEF Near
<1>4. ASSUME NEW p \in fs, NEW q \in fs, q \in Near(fs)[p] PROVE p \in Near(fs)[q]
  <2>1. p = q \/ {p, q} \in similar
    BY <1>4 DEF Near
  <2>2. {p, q} = {q, p}
    OBVIOUS
  <2>. QED BY <2>1, <2>2 DEF Near
<1>. QED BY <1>1, <1>2, <1>3, <1>4 DEF IsNear

\* The labels of a run, and the clusters it makes of them.
Labels(fs) == Dbscan(NumFaces, Near(fs), minSize)

\* A label is noise or a number below that of the faces,
LEMMA LabelsType ==
    ASSUME NEW fs \in SUBSET Faces, minSize \in MinSizes
    PROVE  Labels(fs) \in [fs -> {Noise} \cup 0..(NumFaces - 1)]
  BY NearIsNear, DbscanType, NumFacesAssumption, MinSizesAssumption DEF Labels

\* so the clusters of a run have ids of that run.
LEMMA GroupedType ==
    ASSUME NEW r \in Runs \cup {Earlier}, NEW fs \in SUBSET Faces, minSize \in MinSizes
    PROVE  Grouped(r, fs) \subseteq [id : Ids, members : SUBSET Faces]
<1>1. SUFFICES ASSUME NEW l \in {Labels(fs)[f] : f \in fs} \ {Noise}
               PROVE  [id |-> <<r, l>>, members |-> {f \in fs : Labels(fs)[f] = l}]
                          \in [id : Ids, members : SUBSET Faces]
  BY DEF Grouped, Labels
<1>2. l \in 0..NumFaces
  BY LabelsType, NumFacesAssumption
<1>. QED BY <1>2 DEF Ids

\* The id a face gets is NoCluster, or one of the ids.
LEMMA IdInType ==
    ASSUME NEW cs, cs \subseteq [id : Ids, members : SUBSET Faces], NEW f
    PROVE  IdIn(cs, f) \in Ids \cup {NoCluster}
<1>1. CASE IdIn(cs, f) # NoCluster
  BY <1>1, IdInNames
<1>. QED BY <1>1

\* Every step keeps the types.
LEMMA StepKeepsTypes ==
    ASSUME ClusterTypeOK, [ClusterNext]_clusterVars
    PROVE  ClusterTypeOK'
<1> USE DEF ClusterTypeOK
<1>0. Stored \subseteq Faces
  BY DEF Stored
<1>1. ASSUME NEW r \in Runs, ReadFaces(r) PROVE ClusterTypeOK'
  BY <1>0, <1>1 DEF ReadFaces, RunAt, config
<1>2. ASSUME NEW r \in Runs, BeginDelete(r) PROVE ClusterTypeOK'
  <2>1. IdsOf(clusters) \subseteq Ids
    BY DEF IdsOf
  <2>. QED BY <1>2, <2>1 DEF BeginDelete, config
<1>3. ASSUME NEW r \in Runs, EndDelete(r) PROVE ClusterTypeOK'
  BY <1>3 DEF EndDelete, RunAt, config
<1>4. ASSUME NEW r \in Runs, CommitClusters(r) PROVE ClusterTypeOK'
  <2> DEFINE new == Grouped(r, seen[r])
  <2>1. new \subseteq [id : Ids, members : SUBSET Faces]
    BY GroupedType
  <2>2. \A f \in Faces : IdIn(new, f) \in Ids \cup {NoCluster}
    BY <2>1, IdInType
  <2>3. /\ clusters' = {c \in clusters : c.id \notin doomed[r]} \cup new
        /\ clusterOf' = [f \in Faces |->
                 IF f \in Stored /\ IdIn(new, f) # NoCluster THEN IdIn(new, f)
                 ELSE IF clusterOf[f] \in doomed[r] THEN NoCluster ELSE clusterOf[f]]
    BY <1>4 DEF CommitClusters
  <2> HIDE DEF new
  <2>4. /\ clusters' \subseteq [id : Ids, members : SUBSET Faces]
        /\ clusterOf' \in [Faces -> Ids \cup {NoCluster}]
    BY <2>1, <2>2, <2>3
  <2>. QED BY <1>4, <2>4 DEF CommitClusters, Ends, config
<1>5. ASSUME NEW r \in Runs, RunFails(r) PROVE ClusterTypeOK'
  BY <1>5 DEF RunFails, Ends, config
<1>6. ASSUME NEW f \in Faces, FaceStored(f) \/ FaceDeleted(f) PROVE ClusterTypeOK'
  <2>1. row' \in [Faces -> {"unborn", "stored", "deleted"}]
    BY <1>6 DEF FaceStored, FaceDeleted
  <2>2. clusterOf' \in [Faces -> Ids \cup {NoCluster}]
    BY <1>6 DEF FaceStored, FaceDeleted
  <2>3. alone' \in [Runs -> BOOLEAN] /\ exact' \in BOOLEAN
    BY <1>6 DEF FaceStored, FaceDeleted
  <2>. QED BY <1>6, <2>1, <2>2, <2>3 DEF FaceStored, FaceDeleted, config
<1>7. CASE UNCHANGED clusterVars
  BY <1>7 DEF clusterVars
<1>. QED BY <1>1, <1>2, <1>3, <1>4, <1>5, <1>6, <1>7 DEF ClusterNext, ClusterRun

\* The types hold at the start.
LEMMA InitTypes ==
    ASSUME ClusterInit
    PROVE  ClusterTypeOK
<1>1. Stored \subseteq Faces
  BY DEF Stored
<1>2. clusters \subseteq [id : Ids, members : SUBSET Faces]
  BY <1>1, GroupedType DEF ClusterInit
<1>3. clusterOf \in [Faces -> Ids \cup {NoCluster}]
  BY <1>2, IdInType DEF ClusterInit
<1>. QED BY <1>2, <1>3 DEF ClusterInit, ClusterTypeOK

\* The table is what a process made of the faces that are stored.
MadeOf(r) ==
    /\ clusters = Grouped(r, Stored)
    /\ clusterOf = [f \in Faces |-> IdIn(clusters, f)]

\* As long as nothing else happened, what a process read is what is stored, no other
\* process is about, and what it goes to delete is the whole table.
QuietKept ==
    /\ exact => \E r \in Runs \cup {Earlier} : MadeOf(r)
    /\ \A r \in Busy : alone[r] =>
          /\ seen[r] = Stored
          /\ Busy = {r}
          /\ run[r] # "grouping" => doomed[r] = IdsOf(clusters)

\* A step that leaves the faces and the table alone leaves them made by whoever made them.
LEMMA MadeOfKept ==
    ASSUME UNCHANGED <<similar, minSize, row, clusterOf, clusters>>, NEW r, MadeOf(r)
    PROVE  MadeOf(r)'
<1>1. Stored' = Stored
  BY DEF Stored
<1>2. Near(Stored)' = Near(Stored)
  BY <1>1 DEF Near
<1>3. Grouped(r, Stored)' = Grouped(r, Stored)
  BY <1>1, <1>2 DEF Grouped
<1>. QED BY <1>3 DEF MadeOf

\* The commit of a run that met nobody.
LEMMA QuietCommit ==
    ASSUME ClusterTypeOK, FacesInTheirCluster, QuietKept,
           NEW r \in Runs, CommitClusters(r), alone[r]
    PROVE  MadeOf(r)'
<1> DEFINE new == Grouped(r, Stored)
<1>1. seen[r] = Stored /\ doomed[r] = IdsOf(clusters)
  BY DEF QuietKept, Busy, CommitClusters
<1>2. clusters' = new
  BY <1>1 DEF CommitClusters, IdsOf
<1>3. clusterOf' = [f \in Faces |->
          IF f \in Stored /\ IdIn(new, f) # NoCluster THEN IdIn(new, f)
          ELSE IF clusterOf[f] \in doomed[r] THEN NoCluster ELSE clusterOf[f]]
  BY <1>1 DEF CommitClusters
<1>4. Stored' = Stored
  BY DEF CommitClusters, Stored
<1>5. Near(Stored)' = Near(Stored)
  BY <1>4 DEF Near, CommitClusters, config
<1>6. Grouped(r, Stored)' = new
  BY <1>4, <1>5 DEF Grouped, CommitClusters, config
<1>7. \A f \in Faces : IdIn(new, f) # NoCluster => f \in Stored
  <2> SUFFICES ASSUME NEW f \in Faces, IdIn(new, f) # NoCluster PROVE f \in Stored
    OBVIOUS
  <2> HIDE DEF new
  <2>1. PICK c \in new : f \in c.members
    BY IdInNames
  <2>. QED BY <2>1, GroupedMembers DEF new
<1>8. \A f \in Faces : clusterOf[f] \notin doomed[r] => clusterOf[f] = NoCluster
  BY <1>1 DEF FacesInTheirCluster, IdsOf
<1> HIDE DEF new
<1>9. clusterOf' = [f \in Faces |-> IdIn(new, f)]
  BY <1>3, <1>7, <1>8
<1>. QED BY <1>2, <1>6, <1>9 DEF MadeOf, IdIn

\* Every step keeps what a quiet run knows.
LEMMA StepKeepsQuiet ==
    ASSUME ClusterTypeOK, FacesInTheirCluster, QuietKept, [ClusterNext]_clusterVars
    PROVE  QuietKept'
<1>1. ASSUME NEW r \in Runs, ReadFaces(r) PROVE QuietKept'
  <2>1. exact' => \E q \in Runs \cup {Earlier} : MadeOf(q)'
    BY <1>1, MadeOfKept DEF ReadFaces, config, QuietKept
  <2>2. ASSUME NEW q \in Busy', alone'[q]
        PROVE  seen'[q] = Stored' /\ Busy' = {q} /\ run'[q] = "grouping"
    <3>1. q = r /\ Busy = {}
      BY <1>1, <2>2 DEF ReadFaces, Busy
    <3>2. seen'[r] = Stored /\ Stored' = Stored
      BY <1>1 DEF ReadFaces, ClusterTypeOK, Stored
    <3>3. run'[r] \in {"done", "grouping"} /\ \A p \in Runs \ {r} : run'[p] = run[p]
      BY <1>1 DEF ReadFaces, RunAt, ClusterTypeOK
    <3>. QED BY <2>2, <3>1, <3>2, <3>3 DEF Busy
  <2>. QED BY <2>1, <2>2 DEF QuietKept
<1>2. ASSUME NEW r \in Runs, BeginDelete(r) PROVE QuietKept'
  <2>1. exact' => \E q \in Runs \cup {Earlier} : MadeOf(q)'
    BY <1>2, MadeOfKept DEF BeginDelete, config, QuietKept
  <2>2. /\ run'[r] = "waiting" /\ doomed'[r] = IdsOf(clusters)
        /\ \A p \in Runs \ {r} : run'[p] = run[p] /\ doomed'[p] = doomed[p]
        /\ run[r] = "grouping" /\ clusters' = clusters /\ seen' = seen /\ alone' = alone
        /\ Stored' = Stored
    BY <1>2 DEF BeginDelete, ClusterTypeOK, Stored
  <2>3. Busy' = Busy
    BY <2>2 DEF Busy
  <2>4. IdsOf(clusters)' = IdsOf(clusters)
    BY <2>2
  <2>. QED BY <2>1, <2>2, <2>3, <2>4 DEF QuietKept, Busy
<1>3. ASSUME NEW r \in Runs, EndDelete(r) PROVE QuietKept'
  <2>1. exact' => \E q \in Runs \cup {Earlier} : MadeOf(q)'
    BY <1>3, MadeOfKept DEF EndDelete, config, QuietKept
  <2>2. /\ run'[r] = "writing" /\ run[r] = "waiting" /\ doomed' = doomed
        /\ \A p \in Runs \ {r} : run'[p] = run[p]
        /\ clusters' = clusters /\ seen' = seen /\ alone' = alone /\ Stored' = Stored
    BY <1>3 DEF EndDelete, RunAt, ClusterTypeOK, Stored
  <2>3. Busy' = Busy
    BY <2>2 DEF Busy
  <2>4. IdsOf(clusters)' = IdsOf(clusters)
    BY <2>2
  <2>. QED BY <2>1, <2>2, <2>3, <2>4 DEF QuietKept, Busy
<1>4. ASSUME NEW r \in Runs, CommitClusters(r) PROVE QuietKept'
  <2>1. exact' => \E q \in Runs \cup {Earlier} : MadeOf(q)'
    BY <1>4, QuietCommit DEF CommitClusters
  <2>2. ASSUME NEW q \in Busy' PROVE q \in Busy /\ q # r /\ (alone'[q] => alone[q])
    <3>1. run' = [run EXCEPT ![r] = "done"] /\ alone' = [alone EXCEPT ![r] = FALSE]
      BY <1>4 DEF CommitClusters, Ends
    <3>2. run'[r] = "done" /\ \A p \in Runs \ {r} : run'[p] = run[p] /\ alone'[p] = alone[p]
      BY <3>1 DEF ClusterTypeOK
    <3>. QED BY <3>2 DEF Busy
  <2>3. r \in Busy
    BY <1>4 DEF CommitClusters, Busy
  <2>4. \A q \in Busy' : ~ alone'[q]
    BY <2>2, <2>3 DEF QuietKept
  <2>. QED BY <2>1, <2>4 DEF QuietKept
<1>5. ASSUME NEW r \in Runs, RunFails(r) PROVE QuietKept'
  <2>1. exact' => \E q \in Runs \cup {Earlier} : MadeOf(q)'
    BY <1>5, MadeOfKept DEF RunFails, config, QuietKept
  <2>2. ASSUME NEW q \in Busy' PROVE q \in Busy /\ q # r /\ (alone'[q] => alone[q])
    <3>1. run' = [run EXCEPT ![r] = "done"] /\ alone' = [alone EXCEPT ![r] = FALSE]
      BY <1>5 DEF RunFails, Ends
    <3>2. run'[r] = "done" /\ \A p \in Runs \ {r} : run'[p] = run[p] /\ alone'[p] = alone[p]
      BY <3>1 DEF ClusterTypeOK
    <3>. QED BY <3>2 DEF Busy
  <2>3. \A q \in Busy' : ~ alone'[q]
    BY <1>5, <2>2 DEF QuietKept, RunFails
  <2>. QED BY <2>1, <2>3 DEF QuietKept
<1>6. ASSUME NEW f \in Faces, FaceStored(f) \/ FaceDeleted(f) PROVE QuietKept'
  BY <1>6 DEF FaceStored, FaceDeleted, QuietKept, Busy
<1>7. CASE UNCHANGED clusterVars
  <2>1. exact' => \E q \in Runs \cup {Earlier} : MadeOf(q)'
    BY <1>7, MadeOfKept DEF clusterVars, QuietKept
  <2>2. Busy' = Busy /\ Stored' = Stored
    BY <1>7 DEF clusterVars, Busy, Stored
  <2>3. UNCHANGED <<alone, seen, run, doomed, clusters>>
    BY <1>7 DEF clusterVars
  <2>. QED BY <2>1, <2>2, <2>3 DEF QuietKept
<1>. QED BY <1>1, <1>2, <1>3, <1>4, <1>5, <1>6, <1>7 DEF ClusterNext, ClusterRun

\* A cluster made of stored faces is a group of labels, and its members name it.
LEMMA MadeOfLabels ==
    ASSUME ClusterTypeOK, NEW r \in Runs \cup {Earlier}, MadeOf(r)
    PROVE  /\ [f \in Stored |-> LabelOf(f)] = Labels(Stored)
           /\ \A c \in clusters : \E p \in Stored :
                 /\ Labels(Stored)[p] # Noise
                 /\ c.members = {f \in Stored : Labels(Stored)[f] = Labels(Stored)[p]}
                 /\ c.members = {f \in Faces : clusterOf[f] = c.id}
<1> DEFINE L == Labels(Stored)
           Cluster(l) == [id |-> <<r, l>>, members |-> {f \in Stored : L[f] = l}]
<1>1. Stored \in SUBSET Faces
  BY DEF Stored
<1>2. L \in [Stored -> Int] /\ Noise \in Int
  BY <1>1, LabelsType, NumFacesAssumption DEF ClusterTypeOK, Noise
<1>3. clusters = {Cluster(l) : l \in {L[f] : f \in Stored} \ {Noise}}
  BY DEF MadeOf, Grouped, Labels
<1> HIDE DEF L
<1>4. ASSUME NEW f \in Stored, L[f] # Noise PROVE clusterOf[f] = <<r, L[f]>>
  <2>1. Cluster(L[f]) \in clusters /\ f \in Cluster(L[f]).members
    BY <1>3, <1>4
  <2>2. ASSUME NEW c \in clusters, f \in c.members PROVE c.id = <<r, L[f]>>
    BY <1>3, <2>2
  <2>3. IdIn(clusters, f) = <<r, L[f]>>
    BY <2>1, <2>2 DEF IdIn
  <2>. QED BY <1>1, <2>3 DEF MadeOf
<1>5. ASSUME NEW f \in Faces, f \in Stored => L[f] = Noise PROVE clusterOf[f] = NoCluster
  <2>1. ~ \E c \in clusters : f \in c.members
    BY <1>3, <1>5
  <2>. QED BY <2>1 DEF MadeOf, IdIn
<1>6. \A l \in Int : <<r, l>> # NoCluster
  BY NamesAssumption
<1>7. ASSUME NEW f \in Stored PROVE LabelOf(f) = L[f]
  <2>1. CASE L[f] = Noise
    BY <1>1, <1>5, <2>1 DEF LabelOf
  <2>2. CASE L[f] # Noise
    <3>1. clusterOf[f] = <<r, L[f]>> /\ clusterOf[f] # NoCluster
      BY <1>2, <1>4, <1>6, <2>2
    <3>. QED BY <3>1 DEF LabelOf
  <2>. QED BY <2>1, <2>2
<1>8. [f \in Stored |-> LabelOf(f)] = L
  BY <1>2, <1>7
<1>9. ASSUME NEW c \in clusters
      PROVE  \E p \in Stored :
                 /\ L[p] # Noise
                 /\ c.members = {f \in Stored : L[f] = L[p]}
                 /\ c.members = {f \in Faces : clusterOf[f] = c.id}
  <2>1. PICK p \in Stored : L[p] # Noise /\ c = Cluster(L[p])
    BY <1>3
  <2>2. c.id = <<r, L[p]>> /\ c.members = {f \in Stored : L[f] = L[p]}
    BY <2>1
  <2>3. ASSUME NEW f \in Faces PROVE f \in c.members <=> clusterOf[f] = c.id
    <3>1. CASE f \in Stored /\ L[f] # Noise
      <4>1. clusterOf[f] = <<r, L[f]>>
        BY <1>4, <3>1
      <4>. QED BY <2>2, <3>1, <4>1
    <3>2. CASE ~ (f \in Stored /\ L[f] # Noise)
      <4>1. clusterOf[f] = NoCluster
        BY <1>5, <3>2
      <4>2. c.id # NoCluster
        BY <1>2, <1>6, <2>2
      <4>. QED BY <2>1, <2>2, <3>2, <4>1, <4>2
    <3>. QED BY <3>1, <3>2
  <2>4. c.members = {f \in Faces : clusterOf[f] = c.id}
    BY <1>1, <2>2, <2>3
  <2>. QED BY <2>1, <2>2, <2>4
<1>. QED BY <1>8, <1>9 DEF L

\* What a quiet run leaves, the sizes of the groups aside.
QuietGroups ==
    exact =>
        /\ \A c \in clusters : c.members = {f \in Faces : clusterOf[f] = c.id}
        /\ IsDbscan(Near(Stored), minSize, [f \in Stored |-> LabelOf(f)])

QuietIInv == ClusterTypeOK /\ FacesInTheirCluster /\ QuietKept

\* What the earlier run left is exact at the start,
LEMMA QuietInit ==
    ASSUME ClusterInit
    PROVE  QuietIInv
<1>1. clusters # {} => clusters = Grouped(Earlier, Stored)
  BY DEF ClusterInit
<1>2. exact => MadeOf(Earlier)
  BY <1>1 DEF ClusterInit, MadeOf
<1>3. Busy = {}
  BY DEF ClusterInit, Busy
<1>4. QuietKept
  BY <1>2, <1>3 DEF QuietKept
<1>. QED BY <1>4, InitTypes, InitFiled DEF QuietIInv

\* and every step keeps the invariant.
LEMMA QuietStep ==
    ASSUME QuietIInv, [ClusterNext]_clusterVars
    PROVE  QuietIInv'
<1>1. Tables
  BY DEF QuietIInv, ClusterTypeOK, Tables
<1>. QED BY <1>1, StepKeepsTypes, StepFiles, StepKeepsQuiet DEF QuietIInv

\* DbscanCorrect is what makes the groups of such a run those of DBSCAN.
LEMMA QuietMeans ==
    ASSUME QuietIInv
    PROVE  QuietGroups
<1> SUFFICES ASSUME exact PROVE QuietGroups
  BY DEF QuietGroups
<1>1. PICK r \in Runs \cup {Earlier} : MadeOf(r)
  BY DEF QuietIInv, QuietKept
<1>2. Stored \in SUBSET Faces /\ minSize \in Int
  BY MinSizesAssumption DEF Stored, QuietIInv, ClusterTypeOK
<1>3. IsDbscan(Near(Stored), minSize, Labels(Stored))
  BY <1>2, NearIsNear, DbscanCorrect, NumFacesAssumption DEF Labels
<1>4. /\ [f \in Stored |-> LabelOf(f)] = Labels(Stored)
      /\ \A c \in clusters : c.members = {f \in Faces : clusterOf[f] = c.id}
  BY <1>1, MadeOfLabels DEF QuietIInv
<1>. QED BY <1>3, <1>4 DEF QuietGroups

\* ... and GroupSizes what makes them as large as asked.
LEMMA QuietSizes ==
    ASSUME QuietIInv, MinSizes \subseteq 0..3
    PROVE  QuietRunsExact
<1> SUFFICES ASSUME exact PROVE QuietRunsExact
  BY DEF QuietRunsExact
<1>1. PICK r \in Runs \cup {Earlier} : MadeOf(r)
  BY DEF QuietIInv, QuietKept
<1>2. Stored \in SUBSET Faces /\ minSize \in 0..3 /\ minSize \in Int
  BY DEF Stored, QuietIInv, ClusterTypeOK
<1>3. IsDbscan(Near(Stored), minSize, Labels(Stored))
  BY <1>2, NearIsNear, DbscanCorrect, NumFacesAssumption DEF Labels
<1>4. ASSUME NEW c \in clusters PROVE Cardinality(c.members) >= minSize
  <2>1. PICK p \in Stored :
            /\ Labels(Stored)[p] # Noise
            /\ c.members = {f \in Stored : Labels(Stored)[f] = Labels(Stored)[p]}
    BY <1>1, MadeOfLabels DEF QuietIInv
  <2>2. IsNear(Near(Stored)) /\ DOMAIN Near(Stored) = Stored
    BY <1>2, NearIsNear
  <2>3. Cardinality({f \in DOMAIN Near(Stored) : Labels(Stored)[f] = Labels(Stored)[p]})
            >= minSize
    BY <1>2, <1>3, <2>1, <2>2, GroupSizes
  <2>. QED BY <2>1, <2>2, <2>3
<1>5. QuietGroups
  BY QuietMeans
<1>. QED BY <1>4, <1>5 DEF QuietGroups, QuietRunsExact

\* Whatever overlaps and fails, what a run that met nobody leaves is what DBSCAN is
\* defined to find in the faces that are stored, for any MIN_CLUSTER_SIZE; and every
\* face that names a cluster is counted in it.
THEOREM QuietRunsGroup == ClusterSpec => []QuietGroups
<1>1. ClusterInit => QuietIInv
  BY QuietInit
<1>2. QuietIInv /\ [ClusterNext]_clusterVars => QuietIInv'
  BY QuietStep
<1>3. QuietIInv => QuietGroups
  BY QuietMeans
<1>. QED BY <1>1, <1>2, <1>3, PTL DEF ClusterSpec

\* With a MIN_CLUSTER_SIZE up to 3 - the code's is 2 - its clusters are no smaller
\* either: a cluster smaller than this is a coincidence.
THEOREM QuietRunsAlwaysExact ==
    ASSUME MinSizes \subseteq 0..3
    PROVE  ClusterSpec => []QuietRunsExact
<1>1. ClusterInit => QuietIInv
  BY QuietInit
<1>2. QuietIInv /\ [ClusterNext]_clusterVars => QuietIInv'
  BY QuietStep
<1>3. QuietIInv => QuietRunsExact
  BY QuietSizes
<1>. QED BY <1>1, <1>2, <1>3, PTL DEF ClusterSpec

\* After a run that met nobody, two stored faces are in one cluster exactly if a chain of
\* stored faces, each similar to the next, leads from one to the other.
QuietPairs ==
    exact => \A f, g \in Stored : f # g =>
                 ((\E c \in clusters : f \in c.members /\ g \in c.members)
                     <=> Linked(Near(Stored), f, g))

\* A quiet run's clusters are its labels, and with two samples labels are chains.
LEMMA QuietLinks ==
    ASSUME QuietIInv, MinSizes = {2}
    PROVE  QuietPairs
<1> SUFFICES ASSUME exact, NEW f \in Stored, NEW g \in Stored, f # g
             PROVE  (\E c \in clusters : f \in c.members /\ g \in c.members)
                        <=> Linked(Near(Stored), f, g)
  BY DEF QuietPairs
<1> DEFINE L == Labels(Stored)
<1>1. PICK r \in Runs \cup {Earlier} : MadeOf(r)
  BY DEF QuietIInv, QuietKept
<1>2. Stored \in SUBSET Faces /\ minSize = 2
  BY DEF Stored, QuietIInv, ClusterTypeOK
<1>3. IsNear(Near(Stored)) /\ DOMAIN Near(Stored) = Stored /\ DOMAIN Near(Stored) \subseteq 1..NumFaces
  BY <1>2, NearIsNear
<1>4. IsDbscan(Near(Stored), 2, L)
  BY <1>2, <1>3, DbscanCorrect, NumFacesAssumption DEF Labels
<1>5. clusters = {[id |-> <<r, l>>, members |-> {p \in Stored : L[p] = l}] :
                      l \in {L[p] : p \in Stored} \ {Noise}}
  BY <1>1 DEF MadeOf, Grouped, Labels
<1>. HIDE DEF L
<1>6. (\E c \in clusters : f \in c.members /\ g \in c.members) <=> L[f] = L[g] /\ L[f] # Noise
  <2> DEFINE Cluster(l) == [id |-> <<r, l>>, members |-> {p \in Stored : L[p] = l}]
  <2>1. ASSUME NEW c \in clusters, f \in c.members, g \in c.members
        PROVE  L[f] = L[g] /\ L[f] # Noise
    BY <1>5, <2>1
  <2>2. ASSUME L[f] = L[g], L[f] # Noise
        PROVE  \E c \in clusters : f \in c.members /\ g \in c.members
    <3>1. Cluster(L[f]) \in clusters
      BY <1>5, <2>2
    <3>2. f \in Cluster(L[f]).members /\ g \in Cluster(L[f]).members
      BY <2>2
    <3>. QED BY <3>1, <3>2
  <2>. QED BY <2>1, <2>2
<1>7. L[f] = L[g] /\ L[f] # Noise <=> Linked(Near(Stored), f, g)
  BY <1>3, <1>4, PairsLink
<1>. QED BY <1>6, <1>7

\* With the MIN_CLUSTER_SIZE of the code a cluster is a chain: one face between two
\* people is enough to count them as one.
THEOREM QuietRunsLink ==
    ASSUME MinSizes = {2}
    PROVE  ClusterSpec => []QuietPairs
<1>1. ClusterInit => QuietIInv
  BY QuietInit
<1>2. QuietIInv /\ [ClusterNext]_clusterVars => QuietIInv'
  BY QuietStep
<1>3. QuietIInv => QuietPairs
  BY QuietLinks
<1>. QED BY <1>1, <1>2, <1>3, PTL DEF ClusterSpec

\* The types of the clustering, for any number of faces and processes.
THEOREM ClusterTypeCorrect == ClusterSpec => []ClusterTypeOK
<1>1. ClusterInit => ClusterTypeOK
  BY InitTypes
<1>2. ClusterTypeOK /\ [ClusterNext]_clusterVars => ClusterTypeOK'
  BY StepKeepsTypes
<1>. QED BY <1>1, <1>2, PTL DEF ClusterSpec

-----------------------------------------------------------------------------
(* The image. *)

\* Whichever command a container runs, and however long, the engine it may hold is
\* whole, no face is filed under a cluster that is not its own, what a quiet run left is
\* DBSCAN's, and a row that says done or failed has been erased or given all its attempts.
THEOREM ImageSound ==
    FairSpec => [](/\ EngineWhole /\ FacesInTheirCluster /\ QuietGroups
                   /\ DoneMeansErased /\ NoEarlyDeadLetter)
<1> DEFINE Inv == LockKept /\ QuietIInv /\ IInv
<1>1. Init => Inv
  <2>. SUFFICES ASSUME Init PROVE Inv
    OBVIOUS
  <2>1. ServiceInit \/ ServiceAbsent
    BY DEF Init
  <2>2. LockKept
    <3>1. CASE ServiceInit
      <4>1. at = [t \in Threads |-> IF t = "warm" THEN "check" ELSE "out"]
        BY <3>1 DEF ServiceInit
      <4>. QED BY <3>1, <4>1, StartKeeps DEF ServiceInit, NothingYet
    <3>2. CASE ServiceAbsent
      <4>1. at = [t \in Threads |-> IF t = "warm" THEN "out" ELSE "out"]
        BY <3>2 DEF ServiceAbsent
      <4>. QED BY <3>2, <4>1, StartKeeps DEF ServiceAbsent, NothingYet
    <3>. QED BY <2>1, <3>1, <3>2
  <2>3. ClusterInit /\ GCInit
    BY DEF Init
  <2>. QED BY <2>2, <2>3, QuietInit, InitIInv
<1>2. Inv /\ [Next]_imageVars => Inv'
  <2>. SUFFICES ASSUME Inv, [Next]_imageVars PROVE Inv'
    OBVIOUS
  <2>1. [ServiceNext]_serviceVars /\ [ClusterNext]_clusterVars /\ [GCNext]_gcVars
    BY DEF Next, imageVars
  <2>. QED BY <2>1, StepKeeps, QuietStep, NextIInv
<1>3. Inv => EngineWhole /\ DoneMeansErased /\ NoEarlyDeadLetter
  BY DEF LockKept, EngineWhole, Inside, Loading, IInv
<1>4. Inv => FacesInTheirCluster /\ QuietGroups
  BY QuietMeans DEF QuietIInv
<1>. QED BY <1>1, <1>2, <1>3, <1>4, PTL DEF FairSpec
=============================================================================
