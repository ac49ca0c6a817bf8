-------------------------- MODULE EvaluationProofs --------------------------
(***************************************************************************)
(* From an album to thresholds.toml, for any album, any people and any     *)
(* sequence of reviews, exports, evaluations, threshold choices and edits. *)
(*                                                                         *)
(* LabelsFollowReview: the inductive invariant says what the three tables  *)
(* of state.json have to do with each other: a group lists exactly the     *)
(* faces that name it, each once; what is marked removed or human is what  *)
(* was said last; and the labels are those that recomputing them would     *)
(* give again.  ExportLoads: a running export has written the first files  *)
(* of a dataset that loads.                                                *)
(*                                                                         *)
(* ReportHonest follows the chain of the code: what an export writes names *)
(* only enrolment images cut from held-out photographs (Apart); an index   *)
(* made of whole files enrols only such faces (Clean); and the cache gives *)
(* an index back under the policy it was made with.  MissesCount and       *)
(* TunedIsEarned rest on what a row counts (RowIs, ScoreIs, SmallestIs).   *)
(* TypeOK also needs that DBSCAN numbers its groups from 0.                *)
(*                                                                         *)
(* At the end, how the parts fit: what is proposed is what DBSCAN finds,   *)
(* what is chosen loads, and the chain is the labelling and no more.       *)
(***************************************************************************)
EXTENDS Evaluation, DbscanProofs

-----------------------------------------------------------------------------
(* The review. *)


Fields(d) ==
    d = [faces |-> d.faces, groupOf |-> d.groupOf, members |-> d.members,
         person |-> d.person, labels |-> d.labels, removed |-> d.removed,
         selfies |-> d.selfies]

Formed(d) ==
    /\ Fields(d)
    /\ NoGroup \notin GroupsOf(d)
    /\ d.groupOf \in [Detections -> GroupsOf(d) \cup {NoGroup}]
    /\ \A f \in Detections : d.groupOf[f] # NoGroup => f \in d.faces
    /\ d.faces \subseteq Detections
    /\ d.members = [g \in GroupsOf(d) |->
                       [f \in Detections |-> IF d.groupOf[f] = g THEN 1 ELSE 0]]
    /\ d.person = [g \in GroupsOf(d) |-> d.person[g]]

Marked(d, v) ==
    /\ v \in [Pairs -> {"none", "added", "removed"}]
    /\ d.labels \in [Pairs -> {"no", "cluster", "human"}]
    /\ d.removed = {k \in Pairs : v[k] = "removed"}
    /\ \A k \in Pairs : d.labels[k] = "human" <=> v[k] = "added"

DocInv == Formed(doc) /\ Marked(doc, verdict) /\ doc.labels = Recomputed(doc)

\* Where groups and faces agree, what is proposed is where a face of a group is.
LEMMA ProposedWhere ==
    ASSUME NEW d, Formed(d), NEW k \in Pairs
    PROVE  k \in Proposed(d) <=>
             \E f \in d.faces : /\ PhotoOf[f] = k[1]
                                /\ d.groupOf[f] # NoGroup
                                /\ d.person[d.groupOf[f]] = k[2]
<1>1. \A g \in GroupsOf(d), f \in Detections : d.members[g][f] > 0 <=> d.groupOf[f] = g
  BY DEF Formed
<1>2. ASSUME k \in Proposed(d)
      PROVE  \E f \in d.faces : /\ PhotoOf[f] = k[1]
                                /\ d.groupOf[f] # NoGroup
                                /\ d.person[d.groupOf[f]] = k[2]
  <2>1. PICK g \in GroupsOf(d), f \in Detections :
            d.members[g][f] > 0 /\ PhotoOf[f] = k[1] /\ d.person[g] = k[2]
    BY <1>2 DEF Proposed
  <2>2. d.groupOf[f] = g
    BY <1>1, <2>1
  <2>3. g # NoGroup /\ f \in d.faces
    BY <2>2 DEF Formed
  <2>4. QED
    BY <2>1, <2>2, <2>3
<1>3. ASSUME NEW f \in d.faces, PhotoOf[f] = k[1], d.groupOf[f] # NoGroup,
             d.person[d.groupOf[f]] = k[2]
      PROVE  k \in Proposed(d)
  <2>1. f \in Detections /\ d.groupOf[f] \in GroupsOf(d)
    BY <1>3 DEF Formed
  <2>2. d.members[d.groupOf[f]][f] > 0
    BY <1>1, <2>1
  <2>3. QED
    BY <1>3, <2>1, <2>2 DEF Proposed
<1>4. QED
  BY <1>2, <1>3

\* Recomputing and saving leaves the tables as they have to be.
LEMMA PostKeeps ==
    ASSUME NEW d, NEW v, Formed(d), Marked(d, v),
           NEW e, e = [d EXCEPT !.labels = Recomputed(d)]
    PROVE  Formed(e) /\ Marked(e, v) /\ e.labels = Recomputed(e)
<1>1. /\ e.labels = Recomputed(d) /\ e.faces = d.faces /\ e.groupOf = d.groupOf
      /\ e.members = d.members /\ e.person = d.person /\ e.removed = d.removed
      /\ e.selfies = d.selfies /\ Fields(e)
  BY DEF Formed, Fields
<1>2. GroupsOf(e) = GroupsOf(d) /\ Proposed(e) = Proposed(d)
  BY <1>1 DEF GroupsOf, Proposed
<1>3. Formed(e)
  <2>1. /\ NoGroup \notin GroupsOf(e)
        /\ e.groupOf \in [Detections -> GroupsOf(e) \cup {NoGroup}]
        /\ \A f \in Detections : e.groupOf[f] # NoGroup => f \in e.faces
        /\ e.faces \subseteq Detections
    BY <1>1, <1>2 DEF Formed
  <2>2. e.members = [g \in GroupsOf(e) |->
                        [f \in Detections |-> IF e.groupOf[f] = g THEN 1 ELSE 0]]
    BY <1>1, <1>2 DEF Formed
  <2>3. e.person = [g \in GroupsOf(e) |-> e.person[g]]
    BY <1>1, <1>2 DEF Formed
  <2>4. QED
    BY <1>1, <2>1, <2>2, <2>3 DEF Formed
<1>4. ASSUME NEW k \in Pairs
      PROVE  e.labels[k] = IF k \in d.removed THEN "no"
                           ELSE IF d.labels[k] = "human" THEN "human"
                           ELSE IF k \in Proposed(d) THEN "cluster" ELSE "no"
  BY <1>1 DEF Recomputed
<1>5. Marked(e, v)
  <2>1. e.labels \in [Pairs -> {"no", "cluster", "human"}]
    BY <1>1 DEF Recomputed
  <2>2. ASSUME NEW k \in Pairs PROVE e.labels[k] = "human" <=> v[k] = "added"
    BY <1>4 DEF Marked
  <2>3. QED
    BY <1>1, <2>1, <2>2 DEF Marked
<1>6. e.labels = Recomputed(e)
  <2>1. Recomputed(e) = [k \in Pairs |->
            IF k \in d.removed THEN "no"
            ELSE IF e.labels[k] = "human" THEN "human"
            ELSE IF k \in Proposed(d) THEN "cluster" ELSE "no"]
    BY <1>1, <1>2 DEF Recomputed
  <2>2. ASSUME NEW k \in Pairs
        PROVE  e.labels[k] = IF k \in d.removed THEN "no"
                             ELSE IF e.labels[k] = "human" THEN "human"
                             ELSE IF k \in Proposed(d) THEN "cluster" ELSE "no"
    BY <1>4
  <2>3. e.labels = [k \in Pairs |-> e.labels[k]]
    BY <1>5 DEF Marked
  <2>4. QED
    BY <2>1, <2>2, <2>3
<1>7. QED
  BY <1>3, <1>5, <1>6

\* Counting a face once more, or once less, in one group's list.
LEMMA OneMore ==
    ASSUME NEW G, NEW D, NEW m \in [G -> [D -> Int]], NEW g \in G, NEW f \in D,
           NEW n, n = [m EXCEPT ![g][f] = @ + 1]
    PROVE  /\ n \in [G -> [D -> Int]]
           /\ n[g][f] = m[g][f] + 1
           /\ \A h \in G, e \in D : h # g \/ e # f => n[h][e] = m[h][e]
<1>1. n = [m EXCEPT ![g] = [m[g] EXCEPT ![f] = m[g][f] + 1]]
  OBVIOUS
<1>2. [m[g] EXCEPT ![f] = m[g][f] + 1] \in [D -> Int]
  OBVIOUS
<1>3. QED
  BY <1>1, <1>2

\* A face counted once less in a group, and nothing else of the table touched.
LEMMA OneLess ==
    ASSUME NEW G, NEW D, NEW m \in [G -> [D -> Int]], NEW g \in G, NEW f \in D,
           NEW n, n = [m EXCEPT ![g][f] = @ - 1]
    PROVE  /\ n \in [G -> [D -> Int]]
           /\ n[g][f] = m[g][f] - 1
           /\ \A h \in G, e \in D : h # g \/ e # f => n[h][e] = m[h][e]
<1>1. n = [m EXCEPT ![g] = [m[g] EXCEPT ![f] = m[g][f] - 1]]
  OBVIOUS
<1>2. [m[g] EXCEPT ![f] = m[g][f] - 1] \in [D -> Int]
  OBVIOUS
<1>3. QED
  BY <1>1, <1>2

\* Each group lists the faces that name it; one face of them moves.
Lists(G, D, of, m) == m = [g \in G |-> [h \in D |-> IF of[h] = g THEN 1 ELSE 0]]
Moved(m, joined, left, source, target, f, No) ==
    /\ IF target = No THEN joined = m ELSE joined = [m EXCEPT ![target][f] = @ + 1]
    /\ IF source = No THEN left = joined ELSE left = [joined EXCEPT ![source][f] = @ - 1]

\* Lists that hold each face once, in the group that it names, do so after a move,
\* to the same group or to none as well.
LEMMA MoveCounts ==
    ASSUME NEW G, NEW D, NEW No, No \notin G, NEW of \in [D -> G \cup {No}],
           NEW f \in D, NEW target \in G \cup {No}, NEW m, NEW joined, NEW left,
           Lists(G, D, of, m), Moved(m, joined, left, of[f], target, f, No)
    PROVE  Lists(G, D, [of EXCEPT ![f] = target], left)
<1> DEFINE source == of[f]
           to == [of EXCEPT ![f] = target]
<1> USE DEF Lists, Moved
<1>1. m \in [G -> [D -> Int]]
  OBVIOUS
<1>2. \A g \in G, h \in D : m[g][h] = IF of[h] = g THEN 1 ELSE 0
  OBVIOUS
<1>3. /\ joined \in [G -> [D -> Int]]
      /\ target # No => joined[target][f] = m[target][f] + 1
      /\ \A g \in G, h \in D : g # target \/ h # f => joined[g][h] = m[g][h]
  <2>1. CASE target = No
    BY <1>1, <2>1
  <2>2. CASE target # No
    <3>1. target \in G /\ joined = [m EXCEPT ![target][f] = @ + 1]
      BY <2>2
    <3>2. QED
      BY ONLY <1>1, <2>2, <3>1, OneMore, f \in D
  <2>3. QED
    BY <2>1, <2>2
<1>4. /\ left \in [G -> [D -> Int]]
      /\ source # No => left[source][f] = joined[source][f] - 1
      /\ \A g \in G, h \in D : g # source \/ h # f => left[g][h] = joined[g][h]
  <2>1. CASE source = No
    BY <1>3, <2>1
  <2>2. CASE source # No
    <3>1. source \in G /\ left = [joined EXCEPT ![source][f] = @ - 1]
      BY <2>2
    <3>2. joined \in [G -> [D -> Int]]
      BY <1>3
    <3>3. QED
      BY ONLY <2>2, <3>1, <3>2, OneLess, f \in D
  <2>3. QED
    BY <2>1, <2>2
<1>5. ASSUME NEW g \in G, NEW h \in D
      PROVE  left[g][h] = IF to[h] = g THEN 1 ELSE 0
  <2>1. to[f] = target /\ (h # f => to[h] = of[h])
    OBVIOUS
  <2>2. CASE h # f
    BY <1>2, <1>3, <1>4, <2>1, <2>2
  <2>3. CASE h = f /\ g # source /\ g # target
    BY <1>2, <1>3, <1>4, <2>1, <2>3
  <2>4. CASE h = f /\ g # source /\ g = target
    BY <1>2, <1>3, <1>4, <2>1, <2>4
  <2>5. CASE h = f /\ g = source /\ g # target
    BY <1>2, <1>3, <1>4, <2>1, <2>5
  <2>6. CASE h = f /\ g = source /\ g = target
    <3>1. source # No /\ target # No
      BY <2>6
    <3>2. left[g][h] = (m[g][h] + 1) - 1
      BY <1>3, <1>4, <2>6, <3>1
    <3>3. m[g][h] = 1 /\ to[h] = g
      BY <1>2, <2>1, <2>6
    <3>4. QED
      BY <3>2, <3>3
  <2>7. QED
    BY <2>2, <2>3, <2>4, <2>5, <2>6
<1>6. ASSUME NEW g \in G
      PROVE  left[g] = [h \in D |-> IF to[h] = g THEN 1 ELSE 0]
  <2>1. left[g] \in [D -> Int]
    BY <1>4
  <2>2. QED
    BY <1>5, <2>1
<1>7. left = [g \in G |-> left[g]]
  BY <1>4
<1>8. QED
  BY <1>6, <1>7

\* Each request hands Post tables that agree.
LEMMA NamedFormed ==
    ASSUME DocInv, NEW g \in GroupsOf(doc), NEW p, NEW d,
           Fields(d), d.labels = doc.labels, d.faces = doc.faces, d.groupOf = doc.groupOf,
           d.members = doc.members, d.removed = doc.removed,
           d.person = [doc.person EXCEPT ![g] = p]
    PROVE  Formed(d) /\ Marked(d, verdict)
<1>1. GroupsOf(d) = GroupsOf(doc) /\ d.person = [h \in GroupsOf(d) |-> d.person[h]]
  <2>1. doc.person = [h \in GroupsOf(doc) |-> doc.person[h]]
    BY DEF DocInv, Formed
  <2>2. d.person = [h \in GroupsOf(doc) |-> IF h = g THEN p ELSE doc.person[h]]
    BY <2>1
  <2>3. DOMAIN d.person = GroupsOf(doc)
    BY <2>2
  <2>4. QED
    BY <2>2, <2>3 DEF GroupsOf
<1>2. Formed(d)
  BY <1>1 DEF DocInv, Formed
<1>3. QED
  BY <1>2 DEF DocInv, Marked

\* A face that move_face moves leaves the tables well formed.
LEMMA MovedFormed ==
    ASSUME DocInv, NEW f \in Detections, f \in doc.faces,
           NEW target \in GroupsOf(doc) \cup {NoGroup},
           NEW joined, NEW left, NEW d,
           target = NoGroup => joined = doc.members,
           target # NoGroup => joined = [doc.members EXCEPT ![target][f] = @ + 1],
           doc.groupOf[f] = NoGroup => left = joined,
           doc.groupOf[f] # NoGroup => left = [joined EXCEPT ![doc.groupOf[f]][f] = @ - 1],
           Fields(d), d.labels = doc.labels, d.faces = doc.faces, d.person = doc.person,
           d.removed = doc.removed, d.members = left,
           d.groupOf = [doc.groupOf EXCEPT ![f] = target]
    PROVE  Formed(d) /\ Marked(d, verdict)
<1>1. GroupsOf(d) = GroupsOf(doc)
  BY DEF GroupsOf
<1>2. doc.groupOf \in [Detections -> GroupsOf(doc) \cup {NoGroup}] /\ NoGroup \notin GroupsOf(doc)
  BY DEF DocInv, Formed
<1>3. doc.members = [g \in GroupsOf(doc) |->
                        [h \in Detections |-> IF doc.groupOf[h] = g THEN 1 ELSE 0]]
  BY DEF DocInv, Formed
<1>4. d.members = [g \in GroupsOf(d) |->
                      [h \in Detections |-> IF d.groupOf[h] = g THEN 1 ELSE 0]]
  <2>1. left = [g \in GroupsOf(doc) |->
                   [h \in Detections |->
                       IF [doc.groupOf EXCEPT ![f] = target][h] = g THEN 1 ELSE 0]]
    <3>1. Lists(GroupsOf(doc), Detections, doc.groupOf, doc.members)
      BY <1>3 DEF Lists
    <3>2. Moved(doc.members, joined, left, doc.groupOf[f], target, f, NoGroup)
      BY DEF Moved
    <3>3. Lists(GroupsOf(doc), Detections, [doc.groupOf EXCEPT ![f] = target], left)
      BY ONLY <1>2, <3>1, <3>2, MoveCounts, f \in Detections,
              target \in GroupsOf(doc) \cup {NoGroup}
    <3>4. QED
      BY <3>3 DEF Lists
  <2>2. QED
    BY <1>1, <2>1
<1>5. d.groupOf \in [Detections -> GroupsOf(d) \cup {NoGroup}]
  BY <1>1, <1>2
<1>6. \A h \in Detections : d.groupOf[h] # NoGroup => h \in d.faces
  <2>1. \A h \in Detections : h # f => d.groupOf[h] = doc.groupOf[h]
    BY <1>2
  <2>2. QED
    BY <2>1 DEF DocInv, Formed
<1>7. d.person = [g \in GroupsOf(d) |-> d.person[g]] /\ d.faces \subseteq Detections
  BY <1>1 DEF DocInv, Formed
<1>8. Formed(d)
  BY <1>1, <1>2, <1>4, <1>5, <1>6, <1>7 DEF Formed
<1>9. QED
  BY <1>8 DEF DocInv, Marked

\* A pair that a person says shows somebody, or not, leaves them well formed.
LEMMA SaidFormed ==
    ASSUME DocInv, NEW k \in Pairs, NEW v, NEW d,
           Fields(d), d.faces = doc.faces, d.groupOf = doc.groupOf,
           d.members = doc.members, d.person = doc.person,
           \/ /\ d.labels = [doc.labels EXCEPT ![k] = "human"]
              /\ d.removed = doc.removed \ {k}
              /\ v = [verdict EXCEPT ![k] = "added"]
           \/ /\ d.labels = [doc.labels EXCEPT ![k] = "no"]
              /\ d.removed = doc.removed \cup {k}
              /\ v = [verdict EXCEPT ![k] = "removed"]
           \/ d.labels = doc.labels /\ d.removed = doc.removed /\ v = verdict
    PROVE  Formed(d) /\ Marked(d, v)
<1>1. GroupsOf(d) = GroupsOf(doc)
  BY DEF GroupsOf
<1>2. Formed(d)
  BY <1>1 DEF DocInv, Formed
<1>3. Marked(d, v)
  <2>1. v \in [Pairs -> {"none", "added", "removed"}]
    BY DEF DocInv, Marked
  <2>2. d.labels \in [Pairs -> {"no", "cluster", "human"}]
    <3>1. doc.labels \in [Pairs -> {"no", "cluster", "human"}]
      BY DEF DocInv, Marked
    <3>2. /\ [doc.labels EXCEPT ![k] = "human"] \in [Pairs -> {"no", "cluster", "human"}]
          /\ [doc.labels EXCEPT ![k] = "no"] \in [Pairs -> {"no", "cluster", "human"}]
      BY <3>1
    <3>3. QED
      BY <3>1, <3>2
  <2>3. d.removed = {l \in Pairs : v[l] = "removed"}
    BY DEF DocInv, Marked
  <2>4. \A l \in Pairs : d.labels[l] = "human" <=> v[l] = "added"
    BY DEF DocInv, Marked
  <2>5. QED
    BY <2>1, <2>2, <2>3, <2>4 DEF Marked
<1>4. QED
  BY <1>2, <1>3


\* Whatever is posted, if it agrees with what has been said, the next state.json does.
LEMMA PostedKeeps ==
    ASSUME NEW d, Formed(d), Marked(d, verdict'), Post(d)
    PROVE  DocInv'
<1>1. doc' = [d EXCEPT !.labels = Recomputed(d)]
  BY DEF Post
<1>2. Formed(doc') /\ Marked(doc', verdict') /\ doc'.labels = Recomputed(doc')
  BY <1>1, PostKeeps
<1>3. QED
  BY <1>2 DEF DocInv, Formed, Marked, Recomputed, Proposed, GroupsOf, Fields

\* Every request of the review page keeps the invariant of the tables.
LEMMA ReviewKeeps ==
    ASSUME DocInv, Review
    PROVE  DocInv'
<1>0. Fields(doc)
  BY DEF DocInv, Formed
<1>1. ASSUME NEW g \in Groups, NEW p \in People \cup {Nobody}, NameGroup(g, p)
      PROVE  DocInv'
  <2> DEFINE d == [doc EXCEPT !.person[g] = p]
  <2>1. g \in GroupsOf(doc) /\ Post(d) /\ verdict' = verdict
    BY <1>1 DEF NameGroup
  <2>2. Formed(d) /\ Marked(d, verdict)
    <3>1. d = [doc EXCEPT !.person[g] = p]
      OBVIOUS
    <3> HIDE DEF d
    <3>2. /\ Fields(d) /\ d.labels = doc.labels /\ d.faces = doc.faces
          /\ d.groupOf = doc.groupOf /\ d.members = doc.members /\ d.removed = doc.removed
          /\ d.person = [doc.person EXCEPT ![g] = p]
      BY <1>0, <3>1 DEF Fields
    <3>3. QED
      BY <2>1, <3>2, NamedFormed
  <2>3. QED
    BY <2>1, <2>2, PostedKeeps
<1>2. ASSUME NEW g \in Groups, DropGroup(g)
      PROVE  DocInv'
  <2> DEFINE p == IF doc.person[g] = Dropped THEN Nobody ELSE Dropped
             d == [doc EXCEPT !.person[g] = p]
  <2>1. g \in GroupsOf(doc) /\ Post(d) /\ verdict' = verdict
    BY <1>2 DEF DropGroup
  <2> HIDE DEF p
  <2>2. Formed(d) /\ Marked(d, verdict)
    <3>1. d = [doc EXCEPT !.person[g] = p]
      OBVIOUS
    <3> HIDE DEF d
    <3>2. /\ Fields(d) /\ d.labels = doc.labels /\ d.faces = doc.faces
          /\ d.groupOf = doc.groupOf /\ d.members = doc.members /\ d.removed = doc.removed
          /\ d.person = [doc.person EXCEPT ![g] = p]
      BY <1>0, <3>1 DEF Fields
    <3>3. QED
      BY <2>1, <3>2, NamedFormed
  <2>3. QED
    BY <2>1, <2>2, PostedKeeps
<1>3. ASSUME NEW f \in Detections, NEW target \in Groups \cup {NoGroup}, MoveFace(f, target)
      PROVE  DocInv'
  <2> DEFINE joined == IF target = NoGroup THEN doc.members
                       ELSE [doc.members EXCEPT ![target][f] = @ + 1]
             left == IF doc.groupOf[f] = NoGroup THEN joined
                     ELSE [joined EXCEPT ![doc.groupOf[f]][f] = @ - 1]
             d == [doc EXCEPT !.members = left, !.groupOf[f] = target]
  <2>1. /\ f \in doc.faces /\ target \in GroupsOf(doc) \cup {NoGroup}
        /\ Post(d) /\ verdict' = verdict
    BY <1>3 DEF MoveFace
  <2>2. /\ target = NoGroup => joined = doc.members
        /\ target # NoGroup => joined = [doc.members EXCEPT ![target][f] = @ + 1]
        /\ doc.groupOf[f] = NoGroup => left = joined
        /\ doc.groupOf[f] # NoGroup => left = [joined EXCEPT ![doc.groupOf[f]][f] = @ - 1]
    OBVIOUS
  <2> HIDE DEF joined, left
  <2>3. Formed(d) /\ Marked(d, verdict)
    <3>1. d = [doc EXCEPT !.members = left, !.groupOf[f] = target]
      OBVIOUS
    <3> HIDE DEF d
    <3>2. /\ Fields(d) /\ d.labels = doc.labels /\ d.faces = doc.faces
          /\ d.person = doc.person /\ d.removed = doc.removed /\ d.members = left
          /\ d.groupOf = [doc.groupOf EXCEPT ![f] = target]
      BY <1>0, <3>1 DEF Fields
    <3>3. QED
      BY <2>1, <2>2, <3>2, MovedFormed
  <2>4. QED
    BY <2>1, <2>3, PostedKeeps
<1>4. ASSUME NEW photo \in Photos, NEW p \in People, AddLabel(photo, p)
      PROVE  DocInv'
  <2> DEFINE k == <<photo, p>>
             d == [doc EXCEPT !.labels[k] = "human", !.removed = @ \ {k}]
  <2>1. /\ k \in Pairs /\ Post(d) /\ verdict' = [verdict EXCEPT ![k] = "added"]
    BY <1>4 DEF AddLabel, Pairs
  <2> HIDE DEF k
  <2>2. Formed(d) /\ Marked(d, verdict')
    <3>1. d = [doc EXCEPT !.labels[k] = "human", !.removed = @ \ {k}]
      OBVIOUS
    <3> HIDE DEF d
    <3>2. /\ Fields(d) /\ d.faces = doc.faces /\ d.groupOf = doc.groupOf
          /\ d.members = doc.members /\ d.person = doc.person
          /\ d.labels = [doc.labels EXCEPT ![k] = "human"] /\ d.removed = doc.removed \ {k}
      BY <1>0, <3>1 DEF Fields
    <3>3. QED
      BY <2>1, <3>2, SaidFormed
  <2>3. QED
    BY <2>1, <2>2, PostedKeeps
<1>5. ASSUME NEW photo \in Photos, NEW p \in People, RemoveLabel(photo, p)
      PROVE  DocInv'
  <2> DEFINE k == <<photo, p>>
             d == [doc EXCEPT !.removed = @ \cup {k}, !.labels[k] = "no"]
  <2>1. /\ k \in Pairs /\ Post(d) /\ verdict' = [verdict EXCEPT ![k] = "removed"]
    BY <1>5 DEF RemoveLabel, Pairs
  <2> HIDE DEF k
  <2>2. Formed(d) /\ Marked(d, verdict')
    <3>1. d = [doc EXCEPT !.removed = @ \cup {k}, !.labels[k] = "no"]
      OBVIOUS
    <3> HIDE DEF d
    <3>2. /\ Fields(d) /\ d.faces = doc.faces /\ d.groupOf = doc.groupOf
          /\ d.members = doc.members /\ d.person = doc.person
          /\ d.labels = [doc.labels EXCEPT ![k] = "no"] /\ d.removed = doc.removed \cup {k}
      BY <1>0, <3>1 DEF Fields
    <3>3. QED
      BY <2>1, <3>2, SaidFormed
  <2>3. QED
    BY <2>1, <2>2, PostedKeeps
<1>6. ASSUME NEW p \in People, NEW chosen \in Choices, SetSelfies(p, chosen)
      PROVE  DocInv'
  <2> DEFINE d == [doc EXCEPT !.selfies[p] = chosen]
  <2>1. Post(d) /\ verdict' = verdict
    BY <1>6 DEF SetSelfies
  <2>2. Formed(d) /\ Marked(d, verdict)
    <3>1. /\ Fields(d) /\ d.faces = doc.faces /\ d.groupOf = doc.groupOf
          /\ d.members = doc.members /\ d.person = doc.person
          /\ d.labels = doc.labels /\ d.removed = doc.removed
      BY <1>0 DEF Fields
    <3> HIDE DEF d
    <3>2. GroupsOf(d) = GroupsOf(doc)
      BY <3>1 DEF GroupsOf
    <3>3. QED
      BY <3>1, <3>2 DEF DocInv, Formed, Marked
  <2>3. QED
    BY <2>1, <2>2, PostedKeeps
<1>7. QED
  BY <1>1, <1>2, <1>3, <1>4, <1>5, <1>6 DEF Review

\* A document nobody has reviewed: no group has a name, so that nothing is proposed.
LEMMA UnseenAgrees ==
    ASSUME NEW v, v = [k \in Pairs |-> "none"], NEW d, Formed(d),
           d.labels = [k \in Pairs |-> "no"], d.removed = {},
           \A g \in GroupsOf(d) : d.person[g] = Nobody
    PROVE  Marked(d, v) /\ d.labels = Recomputed(d)
<1>1. Marked(d, v)
  BY DEF Marked
<1>2. Proposed(d) = {}
  <2> SUFFICES ASSUME NEW k \in Proposed(d) PROVE FALSE
    OBVIOUS
  <2>1. k \in Pairs /\ \E g \in GroupsOf(d) : d.person[g] = k[2]
    BY DEF Proposed
  <2>2. k[2] \in People
    BY <2>1 DEF Pairs
  <2>3. QED
    BY <2>1, <2>2, AlbumAssumption
<1>3. d.labels = Recomputed(d)
  BY <1>2 DEF Recomputed
<1>4. QED
  BY <1>1, <1>3

\* Before `cluster` there is an empty document.
LEMMA NoDocFields ==
    /\ Fields(NoDoc) /\ NoDoc.faces = {} /\ NoDoc.members = <<>> /\ NoDoc.person = <<>>
    /\ NoDoc.groupOf = [f \in Detections |-> NoGroup]
    /\ NoDoc.labels = [k \in Pairs |-> "no"] /\ NoDoc.removed = {}
  BY DEF NoDoc, Fields

\* The tables agree before anything was clustered,
LEMMA InitAgrees ==
    ASSUME LabellingInit
    PROVE  DocInv
<1>1. doc = NoDoc /\ verdict = [k \in Pairs |-> "none"]
  BY DEF LabellingInit
<1>2. GroupsOf(doc) = {}
  BY <1>1, NoDocFields DEF GroupsOf
<1>3. Formed(doc)
  <2>1. doc.members = [g \in GroupsOf(doc) |->
                          [f \in Detections |-> IF doc.groupOf[f] = g THEN 1 ELSE 0]]
    BY <1>1, <1>2, NoDocFields
  <2>2. doc.person = [g \in GroupsOf(doc) |-> doc.person[g]]
    BY <1>1, <1>2, NoDocFields
  <2>3. QED
    BY <1>1, <1>2, <2>1, <2>2, NoDocFields DEF Formed
<1>4. QED
  BY <1>1, <1>2, <1>3, NoDocFields, UnseenAgrees DEF DocInv

\* with the groups that DBSCAN finds,
LEMMA CmdInitAgrees ==
    ASSUME CmdInit
    PROVE  DocInv'
<1> DEFINE faces  == {f \in Detections : Tier(Album[f], policy) > 0}
           near   == [f \in faces |-> {g \in faces : f = g \/ {f, g} \in Alike}]
           label  == Dbscan(Cardinality(Detections), near, 2)
           of     == [f \in Detections |->
                         IF f \in faces /\ label[f] # Noise THEN label[f] ELSE NoGroup]
           groups == {of[f] : f \in Detections} \ {NoGroup}
           members == [g \in groups |-> [f \in Detections |-> IF of[f] = g THEN 1 ELSE 0]]
           person == [g \in groups |-> Nobody]
<1>1. /\ doc' = [NoDoc EXCEPT !.faces = faces, !.groupOf = of, !.members = members,
                              !.person = person]
      /\ verdict' = [k \in Pairs |-> "none"]
  BY DEF CmdInit
<1>2. /\ of \in [Detections -> groups \cup {NoGroup}] /\ NoGroup \notin groups
      /\ \A f \in Detections : of[f] # NoGroup => f \in faces
      /\ faces \subseteq Detections
  OBVIOUS
<1>3. /\ DOMAIN person = groups /\ person = [g \in groups |-> person[g]]
      /\ \A g \in groups : person[g] = Nobody
      /\ members = [g \in groups |-> [f \in Detections |-> IF of[f] = g THEN 1 ELSE 0]]
  OBVIOUS
<1> HIDE DEF faces, near, label, of, groups, members, person
<1>4. /\ Fields(doc') /\ doc'.faces = faces /\ doc'.groupOf = of /\ doc'.members = members
      /\ doc'.person = person /\ doc'.labels = [k \in Pairs |-> "no"] /\ doc'.removed = {}
  BY <1>1 DEF NoDoc, Fields
<1>5. GroupsOf(doc') = groups
  BY <1>3, <1>4 DEF GroupsOf
<1>6. Formed(doc')
  BY <1>2, <1>3, <1>4, <1>5 DEF Formed
<1>7. Marked(doc', verdict') /\ doc'.labels = Recomputed(doc')
  <2>1. \A g \in GroupsOf(doc') : doc'.person[g] = Nobody
    BY <1>3, <1>4, <1>5
  <2>2. QED
    BY <1>1, <1>4, <1>6, <2>1, UnseenAgrees
<1>8. QED
  BY <1>6, <1>7 DEF DocInv, Formed, Marked, Recomputed, Proposed, GroupsOf, Fields

\* and after every step.
LEMMA StepAgrees ==
    ASSUME DocInv, [LabellingNext]_labelVars
    PROVE  DocInv'
<1>1. CASE CmdInit
  BY <1>1, CmdInitAgrees
<1>2. CASE Review
  BY <1>2, ReviewKeeps
<1>3. CASE UNCHANGED <<doc, verdict>>
  BY <1>3 DEF DocInv, Formed, Marked, Recomputed, Proposed, GroupsOf, Fields
<1>4. ASSUME \/ ExportSelfies \/ ExportFile \/ KillExport
             \/ \E p \in People : AddRealSelfies(p)
             \/ \E new \in Policies : EditPolicy(new)
             \/ UNCHANGED labelVars
      PROVE  UNCHANGED <<doc, verdict>>
  BY <1>4 DEF ExportSelfies, ExportFile, KillExport, AddRealSelfies, EditPolicy, labelVars
<1>5. QED
  BY <1>1, <1>2, <1>3, <1>4 DEF LabellingNext

\* Where the tables agree, a label is what was said last or else what the groups say.
LEMMA AgreedFollows ==
    ASSUME DocInv
    PROVE  LabelsFollowReview
<1> SUFFICES ASSUME NEW k \in Pairs
             PROVE  doc.labels[k] =
                 CASE verdict[k] = "added" -> "human"
                   [] verdict[k] = "removed" -> "no"
                   [] OTHER -> IF \E f \in doc.faces :
                                    /\ PhotoOf[f] = k[1]
                                    /\ doc.groupOf[f] # NoGroup
                                    /\ doc.person[doc.groupOf[f]] = k[2]
                               THEN "cluster" ELSE "no"
  BY DEF LabelsFollowReview
<1>1. doc.labels[k] = IF k \in doc.removed THEN "no"
                      ELSE IF doc.labels[k] = "human" THEN "human"
                      ELSE IF k \in Proposed(doc) THEN "cluster" ELSE "no"
  BY DEF DocInv, Recomputed
<1>2. /\ k \in doc.removed <=> verdict[k] = "removed"
      /\ doc.labels[k] = "human" <=> verdict[k] = "added"
  BY DEF DocInv, Marked
<1>3. k \in Proposed(doc) <=>
        \E f \in doc.faces : /\ PhotoOf[f] = k[1]
                             /\ doc.groupOf[f] # NoGroup
                             /\ doc.person[doc.groupOf[f]] = k[2]
  BY ProposedWhere DEF DocInv
<1>4. CASE verdict[k] = "added"
  BY <1>1, <1>2, <1>4
<1>5. CASE verdict[k] = "removed"
  BY <1>1, <1>2, <1>5
<1>6. CASE verdict[k] # "added" /\ verdict[k] # "removed"
  BY <1>1, <1>2, <1>3, <1>6
<1>7. QED
  BY <1>4, <1>5, <1>6

\* For any album, any gate, any groups DBSCAN may find and any number of edits, what
\* a person said of a photograph stands and everything else follows the groups.
THEOREM ReviewStands == LabellingSpec => []LabelsFollowReview
<1>1. LabellingInit => DocInv
  BY InitAgrees
<1>2. DocInv /\ [LabellingNext]_labelVars => DocInv'
  BY StepAgrees
<1>3. DocInv => LabelsFollowReview
  BY AgreedFollows
<1>4. QED
  BY <1>1, <1>2, <1>3, PTL DEF LabellingSpec

-----------------------------------------------------------------------------
(* What export writes. *)

\* Four files that load_dataset() accepts.
Sound(o) ==
    /\ o.photos # {} /\ o.selfies # {}
    /\ \A k \in o.labels : k[1] \in o.photos /\ \E r \in o.selfies : r[1] = k[2]
    /\ \A r \in o.selfies : \E k \in o.labels : k[2] = r[1]

Order == <<"photos", "labels", "selfies", "manifest">>
Remaining(n) ==
    CASE n = 0 -> Order
      [] n = 1 -> <<"labels", "selfies", "manifest">>
      [] n = 2 -> <<"selfies", "manifest">>
      [] n = 3 -> <<"manifest">>
      [] OTHER -> <<>>

\* A running export has written the first n files of a dataset that loads; only the
\* end of one makes the files whole.
ExportInv ==
    /\ DOMAIN files = FileNames /\ have \subseteq FileNames
    /\ whole => have = FileNames /\ Sound(files)
    /\ todo # <<>> =>
          /\ ~whole /\ Sound(out)
          /\ \E n \in 0..3 : /\ todo = Remaining(n)
                             /\ \A i \in 1..n : Order[i] \in have
                                                /\ files[Order[i]] = out[Order[i]]

\* The files in their order.
LEMMA Orders ==
  /\ Remaining(0) = Order
  /\ \A n \in 0..3 : /\ Remaining(n) # <<>> /\ Head(Remaining(n)) = Order[n + 1]
                     /\ Len(Remaining(n)) = 4 - n
                     /\ Tail(Remaining(n)) = Remaining(n + 1)
  /\ Remaining(4) = <<>>
  /\ FileNames = {Order[1], Order[2], Order[3], Order[4]}
  /\ \A i, j \in 1..4 : Order[i] = Order[j] => i = j
<1>1. /\ Remaining(0) = Order
      /\ Remaining(1) = <<"labels", "selfies", "manifest">>
      /\ Remaining(2) = <<"selfies", "manifest">>
      /\ Remaining(3) = <<"manifest">>
      /\ Remaining(4) = <<>>
  BY DEF Remaining, Order
<1>2. ASSUME NEW n \in 0..3
      PROVE  /\ Remaining(n) # <<>> /\ Head(Remaining(n)) = Order[n + 1]
             /\ Len(Remaining(n)) = 4 - n
             /\ Tail(Remaining(n)) = Remaining(n + 1)
  <2>0. /\ Order # <<>> /\ Head(Order) = "photos" /\ Len(Order) = 4
        /\ Tail(Order) = <<"labels", "selfies", "manifest">>
        /\ Order[1] = "photos" /\ Order[2] = "labels"
        /\ Order[3] = "selfies" /\ Order[4] = "manifest"
    BY DEF Order
  <2>1. CASE n = 0
    <3>1. Remaining(n) = Order /\ Remaining(n + 1) = Remaining(1)
      BY <1>1, <2>1
    <3>2. Order[n + 1] = "photos" /\ 4 - n = 4
      BY <2>0, <2>1
    <3>. QED BY <1>1, <2>0, <3>1, <3>2
  <2>2. CASE n = 1
    <3>1. Remaining(n) = <<"labels", "selfies", "manifest">> /\ Remaining(n + 1) = Remaining(2)
      BY <1>1, <2>2
    <3>2. Order[n + 1] = "labels" /\ 4 - n = 3
      BY <2>0, <2>2
    <3>. QED BY <1>1, <3>1, <3>2
  <2>3. CASE n = 2
    <3>1. Remaining(n) = <<"selfies", "manifest">> /\ Remaining(n + 1) = Remaining(3)
      BY <1>1, <2>3
    <3>2. Order[n + 1] = "selfies" /\ 4 - n = 2
      BY <2>0, <2>3
    <3>. QED BY <1>1, <3>1, <3>2
  <2>4. CASE n = 3
    <3>1. Remaining(n) = <<"manifest">> /\ Remaining(n + 1) = Remaining(4)
      BY <1>1, <2>4
    <3>2. Order[n + 1] = "manifest" /\ 4 - n = 1
      BY <2>0, <2>4
    <3>. QED BY <1>1, <3>1, <3>2
  <2>. QED BY <2>1, <2>2, <2>3, <2>4
<1>3. /\ FileNames = {Order[1], Order[2], Order[3], Order[4]}
      /\ \A i, j \in 1..4 : Order[i] = Order[j] => i = j
  BY DEF Order, FileNames
<1>. QED BY <1>1, <1>2, <1>3

\* Without a problem, what an export will write loads: who is named has an enrolment
\* image and a label outside the photographs held out, and nobody else is in it.
LEMMA SoundExport ==
  ASSUME NEW d, Named(d) # {}, ~Problems(d)
  PROVE  Sound(Exported(d))
<1>1. \A p \in Named(d) : /\ SelfieRows(d, p) # {}
                          /\ \E k \in LabelsLeft(d) : k[2] = p
                          /\ \A r \in SelfieRows(d, p) : r[1] = p
  BY DEF Problems, SelfieRows
<1>2. \A k \in LabelsLeft(d) : /\ k[1] \in Photos \ HeldOut(d)
                               /\ k[2] \in Named(d)
  BY DEF LabelsLeft, Named, Pairs
<1>3. /\ Exported(d).photos = Photos \ HeldOut(d)
      /\ Exported(d).labels = LabelsLeft(d)
      /\ Exported(d).selfies = UNION {SelfieRows(d, p) : p \in Named(d)}
  BY DEF Exported
<1>. QED BY <1>1, <1>2, <1>3 DEF Sound

\* A file more is written.
LEMMA FileWritten ==
  ASSUME ExportInv, ExportFile
  PROVE  ExportInv' /\ (whole' => \A f \in FileNames : files'[f] = out[f])
<1>. USE DEF ExportInv
<1>1. todo # <<>> /\ ~whole /\ Sound(out)
  BY DEF ExportFile, Idle
<1>2. PICK n \in 0..3 : /\ todo = Remaining(n)
                        /\ \A i \in 1..n : Order[i] \in have
                                           /\ files[Order[i]] = out[Order[i]]
  BY <1>1
<1>3. /\ Head(todo) = Order[n + 1] /\ Len(todo) = 4 - n
      /\ todo' = Remaining(n + 1)
  BY <1>2, Orders DEF ExportFile
<1>4. /\ files' = [files EXCEPT ![Order[n + 1]] = out[Order[n + 1]]]
      /\ have' = have \cup {Order[n + 1]}
      /\ DOMAIN files' = FileNames
      /\ have' \subseteq FileNames
  <2>1. Order[n + 1] \in FileNames
    BY Orders
  <2>. QED BY <1>3, <2>1 DEF ExportFile
<1>5. \A i \in 1..(n + 1) : Order[i] \in have' /\ files'[Order[i]] = out[Order[i]]
  <2>. SUFFICES ASSUME NEW i \in 1..(n + 1)
                PROVE  Order[i] \in have' /\ files'[Order[i]] = out[Order[i]]
    OBVIOUS
  <2>1. CASE i = n + 1
    <3>1. Order[n + 1] \in FileNames
      BY Orders
    <3>. QED BY <1>4, <2>1, <3>1
  <2>2. CASE i # n + 1
    <3>1. i \in 1..n /\ n + 1 \in 1..4 /\ i \in 1..4
      BY <2>2
    <3>2. Order[i] # Order[n + 1]
      BY <2>2, <3>1, Orders
    <3>. QED BY <1>2, <1>4, <3>1, <3>2
  <2>. QED BY <2>1, <2>2
<1>6. CASE n = 3
  <2>1. todo' = <<>>
    BY <1>3, <1>6, Orders
  <2>2. have' = FileNames
    <3>1. \A i \in 1..4 : Order[i] \in have'
      BY <1>5, <1>6
    <3>2. have' \subseteq FileNames
      BY <1>4
    <3>. QED BY <3>1, <3>2, Orders
  <2>4. \A f \in FileNames : files'[f] = out[f]
    <3>1. \A i \in 1..4 : files'[Order[i]] = out[Order[i]]
      BY <1>5, <1>6
    <3>. QED BY <3>1, Orders
  <2>3. /\ files'.photos = out.photos /\ files'.labels = out.labels
        /\ files'.selfies = out.selfies
    BY <1>5, <1>6 DEF Order
  <2>5. ExportInv'
    BY <1>1, <1>4, <2>1, <2>2, <2>3 DEF Sound
  <2>. QED BY ONLY <2>4, <2>5
<1>7. CASE n # 3
  <2>1. ~whole' /\ out' = out
    <3>1. Len(todo) # 1
      BY <1>3, <1>7
    <3>. QED BY <3>1 DEF ExportFile
  <2>2. n + 1 \in 0..3
    BY <1>7
  <2>. QED BY <1>1, <1>3, <1>4, <1>5, <2>1, <2>2
<1>. QED BY <1>6, <1>7

\* No file is left after the last one.
LEMMA LastFile == ASSUME ExportInv, ExportFile, todo' # <<>> PROVE out' = out
<1>1. PICK n \in 0..3 : todo = Remaining(n)
  BY DEF ExportInv, ExportFile, Idle
<1>2. Len(todo) = 4 - n /\ todo' = Remaining(n + 1)
  BY <1>1, Orders DEF ExportFile
<1>3. n # 3
  BY <1>2, Orders
<1>. QED BY <1>2, <1>3 DEF ExportFile

\* The review screens touch nothing but state.json.
LEMMA ReviewLeavesFiles == ASSUME Review PROVE UNCHANGED onDisk
<1>1. \A d : Post(d) => UNCHANGED onDisk
  BY DEF Post
<1>2. \A g, p : NameGroup(g, p) => UNCHANGED onDisk
  BY <1>1, Zenon DEF NameGroup
<1>3. \A g : DropGroup(g) => UNCHANGED onDisk
  BY <1>1, Zenon DEF DropGroup
<1>4. ASSUME NEW f, NEW g, MoveFace(f, g) PROVE UNCHANGED onDisk
  BY <1>4 DEF MoveFace, Post
<1>5. \A photo, p : AddLabel(photo, p) \/ RemoveLabel(photo, p) => UNCHANGED onDisk
  BY <1>1, Zenon DEF AddLabel, RemoveLabel
<1>6. \A p, chosen : SetSelfies(p, chosen) => UNCHANGED onDisk
  BY <1>1, Zenon DEF SetSelfies
<1>. QED BY <1>2, <1>3, <1>4, <1>5, <1>6, Zenon DEF Review

\* A step of the review, of an export or of the policy keeps what export writes sound.
LEMMA StepExports == ASSUME ExportInv, [LabellingNext]_labelVars PROVE ExportInv'
<1>1. CASE ExportFile
  BY <1>1, FileWritten
<1>2. CASE ExportSelfies
  <2>1. CASE Problems(doc)
    BY <1>2, <2>1 DEF ExportSelfies, ExportInv, Ready, Idle
  <2>2. CASE ~Problems(doc)
    <3>1. ~whole' /\ todo' = Order /\ out' = Exported(doc) /\ UNCHANGED <<files, have>>
      BY <1>2, <2>2 DEF ExportSelfies, Order
    <3>2. Sound(out')
      BY <1>2, <2>2, <3>1, SoundExport DEF ExportSelfies
    <3>3. todo' = Remaining(0)
      BY <3>1, Orders
    <3>4. \A i \in 1..0 : Order[i] \in have' /\ files'[Order[i]] = out'[Order[i]]
      OBVIOUS
    <3>5. 0 \in 0..3
      OBVIOUS
    <3>. QED BY <3>1, <3>2, <3>3, <3>4, <3>5 DEF ExportInv
  <2>. QED BY <2>1, <2>2
<1>3. CASE KillExport
  BY <1>3 DEF KillExport, ExportInv
<1>4. CASE UNCHANGED <<files, have, todo, out, whole>>
  BY <1>4 DEF ExportInv
<1>5. ASSUME CmdInit \/ Review PROVE UNCHANGED onDisk
  <2>2. CmdInit => UNCHANGED onDisk
    BY Zenon DEF CmdInit
  <2>3. Review => UNCHANGED onDisk
    BY ReviewLeavesFiles
  <2>. QED BY <1>5, <2>2, <2>3
<1>6. ASSUME \/ \E p \in People : AddRealSelfies(p)
             \/ \E new \in Policies : EditPolicy(new)
             \/ UNCHANGED labelVars
      PROVE  UNCHANGED <<files, have, todo, out, whole>>
  BY <1>6 DEF AddRealSelfies, EditPolicy, labelVars
<1>. QED BY <1>1, <1>2, <1>3, <1>4, <1>5, <1>6 DEF LabellingNext, onDisk

\* What export writes and calls done is a dataset that the loader accepts, for any
\* album and whatever exports before or in between ended in problems or were killed.
THEOREM ExportAlwaysLoads == LabellingSpec => []ExportLoads
<1>1. LabellingInit => ExportInv
  BY DEF LabellingInit, NoFiles, ExportInv, FileNames
<1>2. ExportInv /\ [LabellingNext]_labelVars => ExportInv'
  BY StepExports
<1>3. ExportInv => ExportLoads
  BY DEF ExportInv, ExportLoads, Loads, Sound
<1>. QED BY <1>1, <1>2, <1>3, PTL DEF LabellingSpec

-----------------------------------------------------------------------------
(* What is held out. *)


\* The enrolment images that rows of selfies.csv name show no face of these photographs.
Apart(rows, photos, cut) ==
    \A r \in rows : r[2] > 0 => cut[r] \in Detections /\ PhotoOf[cut[r]] \notin photos

Picked(d) ==
    \A p \in People : \A n \in DOMAIN d.selfies[p] :
        n \in 1..MaxSelfies /\ d.selfies[p][n] \in Detections

HoldInv ==
    /\ Picked(doc)
    /\ DOMAIN crops = People \X (1..MaxSelfies)
    /\ policy \in Policies
    /\ files.photos \subseteq Photos /\ out.photos \subseteq Photos
    /\ files.labels \subseteq Pairs /\ out.labels \subseteq Pairs
    /\ whole => Apart(files.selfies, files.photos, crops)
    /\ todo # <<>> => Apart(out.selfies, out.photos, crops)

LabInv == DocInv /\ ExportInv /\ HoldInv

\* The faces that enrol somebody are cut from photographs that are held out.
LEMMA HeldOutApart ==
  ASSUME Picked(doc), DOMAIN crops = People \X (1..MaxSelfies), NEW cut,
         cut = [k \in DOMAIN crops |->
             IF k[1] \in Named(doc) \ real /\ k[2] \in DOMAIN doc.selfies[k[1]]
             THEN doc.selfies[k[1]][k[2]] ELSE crops[k]]
  PROVE  Apart(Exported(doc).selfies, Exported(doc).photos, cut)
<1>1. /\ Exported(doc).selfies = UNION {SelfieRows(doc, p) : p \in Named(doc)}
      /\ Exported(doc).photos = Photos \ HeldOut(doc)
  BY DEF Exported
<1>. SUFFICES ASSUME NEW p \in Named(doc), NEW r \in SelfieRows(doc, p), r[2] > 0
              PROVE  cut[r] \in Detections /\ PhotoOf[cut[r]] \in HeldOut(doc)
  BY <1>1 DEF Apart
<1>2. p \in People
  BY DEF Named
<1>3. p \notin real
  BY DEF SelfieRows
<1>4. PICK n \in DOMAIN doc.selfies[p] : r = <<p, n>>
  BY <1>3 DEF SelfieRows
<1>5. n \in 1..MaxSelfies /\ doc.selfies[p][n] \in Detections
  BY <1>2 DEF Picked
<1>6. r \in DOMAIN crops /\ r[1] = p /\ r[2] = n
  BY <1>2, <1>4, <1>5
<1>7. cut[r] = doc.selfies[p][n]
  BY <1>3, <1>6
<1>8. PhotoOf[doc.selfies[p][n]] \in HeldOut(doc)
  BY <1>3 DEF HeldOut
<1>. QED BY <1>5, <1>7, <1>8

\* The review changes the picks of selfies only on their screen.
LEMMA ReviewPicks == ASSUME DocInv, Picked(doc), Review PROVE Picked(doc')
<1>0. Fields(doc)
  BY DEF DocInv, Formed
<1>1. ASSUME NEW p \in People, NEW chosen \in Choices, SetSelfies(p, chosen)
      PROVE  Picked(doc')
  <2>1. PICK n \in 0..MaxSelfies : chosen \in [1..n -> Detections]
    BY DEF Choices
  <2>2. \A i \in DOMAIN chosen : i \in 1..MaxSelfies /\ chosen[i] \in Detections
    BY <2>1, AlbumAssumption
  <2>3. doc'.selfies = [doc.selfies EXCEPT ![p] = chosen]
    BY <1>0, <1>1 DEF SetSelfies, Post, Fields
  <2>. QED BY <2>2, <2>3 DEF Picked
<1>2. ASSUME NEW g, NEW p, NameGroup(g, p) PROVE doc'.selfies = doc.selfies
  BY <1>0, <1>2 DEF NameGroup, Post, Fields
<1>3. ASSUME NEW g, DropGroup(g) PROVE doc'.selfies = doc.selfies
  BY <1>0, <1>3 DEF DropGroup, Post, Fields
<1>4. ASSUME NEW f, NEW g, MoveFace(f, g) PROVE doc'.selfies = doc.selfies
  BY <1>0, <1>4 DEF MoveFace, Post, Fields
<1>5. ASSUME NEW photo, NEW p, AddLabel(photo, p) \/ RemoveLabel(photo, p)
      PROVE  doc'.selfies = doc.selfies
  BY <1>0, <1>5 DEF AddLabel, RemoveLabel, Post, Fields
<1>6. doc'.selfies = doc.selfies => Picked(doc')
  BY DEF Picked
<1>. QED BY <1>1, <1>2, <1>3, <1>4, <1>5, <1>6 DEF Review

\* Exports, kills, selfies and edits of the policy keep the enrolment images apart.
LEMMA LabellingHolds ==
  ASSUME LabInv, [LabellingNext]_labelVars
  PROVE  LabInv'
<1>. USE DEF LabInv
<1>1. DocInv' /\ ExportInv'
  BY StepAgrees, StepExports
<1>2. CASE CmdInit
  <2>1. doc'.selfies = [p \in People |-> <<>>]
    BY <1>2 DEF CmdInit, NoDoc
  <2>2. Picked(doc')
    BY <2>1 DEF Picked
  <2>3. UNCHANGED onDisk
    BY <1>2, Zenon DEF CmdInit
  <2>. QED BY <1>1, <2>2, <2>3 DEF HoldInv, Apart, onDisk
<1>3. CASE Review
  <2>1. Picked(doc')
    BY <1>3, ReviewPicks DEF HoldInv
  <2>2. UNCHANGED onDisk
    BY <1>3, ReviewLeavesFiles
  <2>. QED BY <1>1, <2>1, <2>2 DEF HoldInv, Apart, onDisk
<1>4. CASE ExportSelfies
  <2>1. /\ UNCHANGED <<doc, files, policy>>
        /\ crops' = [k \in DOMAIN crops |->
             IF k[1] \in Named(doc) \ real /\ k[2] \in DOMAIN doc.selfies[k[1]]
             THEN doc.selfies[k[1]][k[2]] ELSE crops[k]]
        /\ todo = <<>>
    BY <1>4 DEF ExportSelfies, Ready, Idle
  <2>2. DOMAIN crops' = People \X (1..MaxSelfies) /\ Picked(doc')
    BY <2>1 DEF HoldInv, Picked
  <2>3. CASE Problems(doc)
    <3>1. whole' = (whole /\ crops' = crops) /\ UNCHANGED <<todo, out>>
      BY <1>4, <2>3 DEF ExportSelfies
    <3>. QED BY <1>1, <2>1, <2>2, <3>1 DEF HoldInv, Apart
  <2>4. CASE ~Problems(doc)
    <3>1. ~whole' /\ out' = Exported(doc)
      BY <1>4, <2>4 DEF ExportSelfies
    <3>2. Apart(Exported(doc).selfies, Exported(doc).photos, crops')
      BY <2>1, HeldOutApart DEF HoldInv
    <3>3. out'.photos \subseteq Photos /\ out'.labels \subseteq Pairs
      BY <3>1 DEF Exported, LabelsLeft
    <3>. QED BY <1>1, <2>1, <2>2, <3>1, <3>2, <3>3 DEF HoldInv, Apart
  <2>. QED BY <2>3, <2>4
<1>5. CASE ExportFile
  <2>1. UNCHANGED <<doc, crops, policy>> /\ todo # <<>>
    BY <1>5 DEF ExportFile, Idle
  <2>2. whole' => \A f \in FileNames : files'[f] = out[f]
    BY <1>5, FileWritten
  <2>3. files'.photos \subseteq Photos /\ files'.labels \subseteq Pairs
    BY <1>5 DEF ExportFile, HoldInv, ExportInv, FileNames
  <2>4. todo' # <<>> => out' = out
    BY <1>5, <2>1, LastFile
  <2>5. out'.photos \subseteq Photos /\ out'.labels \subseteq Pairs
    BY <1>5 DEF ExportFile, HoldInv, NoFiles
  <2>6. whole' => Apart(files'.selfies, files'.photos, crops')
    <3>1. whole' => files'.selfies = out.selfies /\ files'.photos = out.photos
      BY <2>2 DEF FileNames
    <3>. QED BY <2>1, <3>1 DEF HoldInv, Apart
  <2>7. todo' # <<>> => Apart(out'.selfies, out'.photos, crops')
    BY <2>1, <2>4 DEF HoldInv, Apart
  <2>. QED BY <1>1, <2>1, <2>3, <2>5, <2>6, <2>7 DEF HoldInv, Apart, Picked
<1>6. CASE KillExport
  <2>1. /\ UNCHANGED <<doc, crops, files, whole, policy>>
        /\ todo' = <<>> /\ out' = NoFiles
    BY <1>6 DEF KillExport
  <2>. QED BY <1>1, <2>1 DEF HoldInv, Apart, Picked, NoFiles
<1>7. ASSUME \/ \E p \in People : AddRealSelfies(p)
             \/ \E new \in Policies : EditPolicy(new)
             \/ UNCHANGED labelVars
      PROVE  LabInv'
  <2>1. /\ UNCHANGED <<doc, crops, files, todo, out, whole>>
        /\ policy' \in Policies
    BY <1>7 DEF AddRealSelfies, EditPolicy, labelVars, HoldInv
  <2>. QED BY <1>1, <2>1 DEF HoldInv, Apart, Picked
<1>. QED BY <1>2, <1>3, <1>4, <1>5, <1>6, <1>7 DEF LabellingNext

\* All of it holds of an album nobody has labelled yet.
LEMMA LabellingStarts == ASSUME LabellingInit PROVE LabInv
<1>1. DocInv
  BY InitAgrees
<1>2. ExportInv
  BY DEF LabellingInit, NoFiles, ExportInv, FileNames
<1>3. Picked(doc)
  BY DEF LabellingInit, NoDoc, Picked
<1>4. HoldInv
  BY <1>3, AlbumAssumption DEF LabellingInit, HoldInv, NoFiles
<1>. QED BY <1>1, <1>2, <1>4 DEF LabInv

-----------------------------------------------------------------------------
(* The index, its cache and the report. *)

Clean(index) == \A p \in index.queries : \A f \in index.made[p] : PhotoOf[f] \notin index.photos

\* What the cache and the reports hold: an index of whole files is clean, and it is
\* kept, and reported, under the policy it was made with.
Kept ==
    /\ DOMAIN cache = Keys /\ DOMAIN reports = ReportNames
    /\ \A k \in Keys : cache[k] # NoIndex =>
           cache[k].policy = k[1] /\ (cache[k].whole => Clean(cache[k]))
    /\ \A n \in ReportNames : reports[n] # NoReport /\ reports[n].says.kind = "real" =>
           /\ reports[n].index.policy = reports[n].says.policy
           /\ reports[n].index.whole => Clean(reports[n].index)

\* An index made of whole files enrols nobody with a face of its photographs.
LEMMA BuiltClean ==
  ASSUME HoldInv
  PROVE  /\ BuildIndex.policy = policy
         /\ BuildIndex.whole => Clean(BuildIndex)
<1>1. /\ BuildIndex.policy = policy /\ BuildIndex.whole = whole
      /\ BuildIndex.photos = files.photos /\ BuildIndex.queries = Enrollable
      /\ BuildIndex.made = [p \in Enrollable |-> TemplateOf(p)]
  BY DEF BuildIndex
<1>2. ASSUME whole, NEW p \in Enrollable, NEW f \in TemplateOf(p)
      PROVE  PhotoOf[f] \notin files.photos
  <2>1. PICK r \in FramesOf(p) : f \in {d.id : d \in Usable(ShownIn(r), policy)}
    BY <1>2 DEF TemplateOf
  <2>2. PICK g \in CropShows[crops[r]] : f = Album[g].id
    BY <2>1 DEF Usable, ShownIn
  <2>3. crops[r] \in Detections /\ PhotoOf[crops[r]] \notin files.photos
    BY <1>2 DEF FramesOf, HoldInv, Apart
  <2>4. g \in Detections /\ PhotoOf[g] = PhotoOf[crops[r]] /\ f = g
    BY <2>2, <2>3, AlbumAssumption
  <2>. QED BY <2>3, <2>4
<1>. QED BY <1>1, <1>2 DEF Clean

\* The cache has a place for the dataset that was exported.
LEMMA KeyKnown == ASSUME HoldInv PROVE CacheKey(policy, files.photos) \in Keys
<1>1. files.photos \subseteq Photos /\ policy \in Policies
  BY DEF HoldInv
<1>2. /\ IsFiniteSet(files.photos)
      /\ Cardinality(files.photos) <= Cardinality(Photos)
  BY <1>1, FS_Subset, ScoresAssumption
<1>3. Cardinality(files.photos) \in Nat /\ Cardinality(Photos) \in Nat
  BY <1>2, FS_CardinalityType, ScoresAssumption
<1>. QED BY <1>1, <1>2, <1>3 DEF CacheKey, Keys

\* An evaluation keeps and reports an index of the policy in force.
LEMMA RunKeeps ==
  ASSUME HoldInv, Kept, NEW useCache \in BOOLEAN,
         NEW allowUncorrected \in BOOLEAN, Run(useCache, allowUncorrected)
  PROVE  Kept'
<1> DEFINE key   == CacheKey(policy, files.photos)
           index == IF useCache /\ cache[key] # NoIndex THEN cache[key] ELSE BuildIndex
<1>1. key \in Keys /\ key[1] = policy
  BY KeyKnown DEF CacheKey
<1>2. index.policy = policy /\ (index.whole => Clean(index))
  BY <1>1, BuiltClean DEF Kept
<1>3. cache' = IF useCache THEN [cache EXCEPT ![key] = index] ELSE cache
  BY Zenon DEF Run
<1>4. \/ Writes(ReportOf("real", index, files.labels, files.manifest.human))
      \/ UNCHANGED reports
  BY Zenon DEF Run
<1>. HIDE DEF index, key
<1>5. /\ ReportOf("real", index, files.labels, files.manifest.human).index = index
      /\ ReportOf("real", index, files.labels, files.manifest.human).says.policy = policy
  BY DEF ReportOf
<1>6. /\ DOMAIN cache' = Keys
      /\ \A k \in Keys : cache'[k] # NoIndex =>
             cache'[k].policy = k[1] /\ (cache'[k].whole => Clean(cache'[k]))
  BY <1>1, <1>2, <1>3 DEF Kept
<1>7. /\ DOMAIN reports' = ReportNames
      /\ \A n \in ReportNames : reports'[n] # NoReport /\ reports'[n].says.kind = "real" =>
             /\ reports'[n].index.policy = reports'[n].says.policy
             /\ reports'[n].index.whole => Clean(reports'[n].index)
  <2>1. CASE UNCHANGED reports
    BY <2>1 DEF Kept
  <2>2. CASE Writes(ReportOf("real", index, files.labels, files.manifest.human))
    <3>1. PICK n \in ReportNames :
             reports' = [reports EXCEPT ![n] =
                 ReportOf("real", index, files.labels, files.manifest.human)]
      BY <2>2 DEF Writes
    <3>. QED BY <1>2, <1>5, <3>1 DEF Kept
  <2>. QED BY <1>4, <2>1, <2>2
<1>. QED BY <1>6, <1>7 DEF Kept, Clean

\* Whatever the album, the gates, the reviews, the exports that ended, ended in
\* problems or were killed, and the evaluations with and without the cache: a report
\* is of the gate it names, and scores no template against a photograph it was cut from.
THEOREM ReportsAlwaysHonest == EvaluationSpec => []ReportHonest
<1> DEFINE Inv == LabInv /\ Kept
<1>1. EvaluationInit => Inv
  BY LabellingStarts DEF EvaluationInit, Kept
<1>2. Inv /\ [EvaluationNext]_vars => Inv'
  <2>. SUFFICES ASSUME LabInv, Kept, [EvaluationNext]_vars PROVE LabInv' /\ Kept'
    OBVIOUS
  <2>1. CASE LabellingNext /\ UNCHANGED evalVars
    BY <2>1, LabellingHolds DEF evalVars, Kept, Clean
  <2>2. ASSUME NEW useCache \in BOOLEAN, NEW allow \in BOOLEAN, Run(useCache, allow)
        PROVE  LabInv' /\ Kept'
    <3>1. UNCHANGED labelVars
      BY <2>2, Zenon DEF Run
    <3>. QED BY <2>2, <3>1, LabellingHolds, RunKeeps DEF LabInv
  <2>3. CASE RunSynthetic
    <3>1. UNCHANGED labelVars /\ UNCHANGED cache
      BY <2>3 DEF RunSynthetic
    <3>2. PICK n \in ReportNames : reports' = [reports EXCEPT ![n] =
               ReportOf("synthetic", SynthIndex, SynthTruth, 1)]
      BY <2>3 DEF RunSynthetic, Writes
    <3>3. ReportOf("synthetic", SynthIndex, SynthTruth, 1).says.kind = "synthetic"
      BY DEF ReportOf
    <3>. QED BY <3>1, <3>2, <3>3, LabellingHolds DEF Kept, Clean
  <2>4. ASSUME \/ \E n \in ReportNames : Select(n) \/ CommitReport(n)
               \/ \E t \in Grid : HandEdit(t)
               \/ UNCHANGED vars
        PROVE  LabInv' /\ Kept'
    <3>1. UNCHANGED <<labelVars, cache, reports>>
      BY <2>4 DEF Select, CommitReport, HandEdit, vars, evalVars
    <3>. QED BY <3>1, LabellingHolds DEF Kept, Clean
  <2>. QED BY <2>1, <2>2, <2>3, <2>4 DEF EvaluationNext
<1>3. Inv => ReportHonest
  BY DEF Kept, ReportHonest, Written, Clean
<1>. QED BY <1>1, <1>2, <1>3, PTL DEF EvaluationSpec

-----------------------------------------------------------------------------
(* What a report counts. *)

\* Among finitely many integers, one is the largest and one the smallest.
LEMMA LargestIs ==
  ASSUME NEW S, IsFiniteSet(S), S # {}, S \subseteq Int
  PROVE  Largest(S) \in S /\ \A y \in S : y <= Largest(S)
<1> DEFINE above(x) == {y \in S : y > x}
           cuts == {above(x) : x \in S}
<1>0. cuts \subseteq FiniteSubsetsOf(S) /\ cuts # {}
  <2>1. \A x \in S : above(x) \in SUBSET S
    OBVIOUS
  <2>2. cuts \subseteq SUBSET S
    BY <2>1
  <2>3. PICK x \in S : TRUE
    OBVIOUS
  <2>4. above(x) \in cuts
    OBVIOUS
  <2>. QED BY <2>2, <2>4, FS_FiniteSubsetsOfFinite
<1>1. \E U \in cuts : \A V \in cuts : ~(<<V, U>> \in StrictSubsetOrdering(S))
  <2>. HIDE DEF cuts
  <2>1. IsWellFoundedOn(StrictSubsetOrdering(S), FiniteSubsetsOf(S))
    BY FS_StrictSubsetOrderingWellFounded
  <2>. QED BY <1>0, <2>1, WFMin, Zenon
<1>2. PICK x \in S : \A y \in S : ~(<<above(y), above(x)>> \in StrictSubsetOrdering(S))
  BY <1>1
<1>3. \A y \in S : y <= x
  <2>. SUFFICES ASSUME NEW y \in S, y > x PROVE FALSE
    OBVIOUS
  <2>0. x \in Int /\ y \in Int /\ \A z \in S : z \in Int /\ (z > y => z > x)
    OBVIOUS
  <2>1. above(y) \subseteq above(x) /\ above(y) # above(x)
    <3>1. above(y) \subseteq above(x)
      BY <2>0
    <3>2. y \in above(x)
      OBVIOUS
    <3>3. ~(y > y)
      BY <2>0
    <3>4. y \notin above(y)
      BY <3>3
    <3>. QED BY <3>1, <3>2, <3>4
  <2>2. <<above(y), above(x)>> \in StrictSubsetOrdering(S)
    BY <2>1 DEF StrictSubsetOrdering
  <2>. QED BY <1>2, <2>2
<1>. QED BY <1>3 DEF Largest

\* The same of the smallest.
LEMMA SmallestIs ==
  ASSUME NEW S, IsFiniteSet(S), S # {}, S \subseteq Int
  PROVE  Smallest(S) \in S /\ \A y \in S : Smallest(S) <= y
<1> DEFINE below(x) == {y \in S : y < x}
           cuts == {below(x) : x \in S}
<1>0. cuts \subseteq FiniteSubsetsOf(S) /\ cuts # {}
  <2>1. \A x \in S : below(x) \in SUBSET S
    OBVIOUS
  <2>2. cuts \subseteq SUBSET S
    BY <2>1
  <2>3. PICK x \in S : TRUE
    OBVIOUS
  <2>4. below(x) \in cuts
    OBVIOUS
  <2>. QED BY <2>2, <2>4, FS_FiniteSubsetsOfFinite
<1>1. \E U \in cuts : \A V \in cuts : ~(<<V, U>> \in StrictSubsetOrdering(S))
  <2>. HIDE DEF cuts
  <2>1. IsWellFoundedOn(StrictSubsetOrdering(S), FiniteSubsetsOf(S))
    BY FS_StrictSubsetOrderingWellFounded
  <2>. QED BY <1>0, <2>1, WFMin, Zenon
<1>2. PICK x \in S : \A y \in S : ~(<<below(y), below(x)>> \in StrictSubsetOrdering(S))
  BY <1>1
<1>3. \A y \in S : x <= y
  <2>. SUFFICES ASSUME NEW y \in S, y < x PROVE FALSE
    OBVIOUS
  <2>0. x \in Int /\ y \in Int /\ \A z \in S : z \in Int /\ (z < y => z < x)
    OBVIOUS
  <2>1. below(y) \subseteq below(x) /\ below(y) # below(x)
    <3>1. below(y) \subseteq below(x)
      BY <2>0
    <3>2. y \in below(x)
      OBVIOUS
    <3>3. ~(y < y)
      BY <2>0
    <3>4. y \notin below(y)
      BY <3>3
    <3>. QED BY <3>1, <3>2, <3>4
  <2>2. <<below(y), below(x)>> \in StrictSubsetOrdering(S)
    BY <2>1 DEF StrictSubsetOrdering
  <2>. QED BY <1>2, <2>2
<1>. QED BY <1>3 DEF Smallest

\* The score of a photograph: at least a threshold exactly where one of its faces is.
LEMMA ScoreIs ==
  ASSUME NEW index, IsIndex(index), NEW tiers \in SUBSET {1, 2},
         NEW p \in index.queries, NEW photo
  PROVE  /\ Score(index, tiers, p, photo) \in Int
         /\ \A t \in Nat : Score(index, tiers, p, photo) >= t <=>
                \E f \in DOMAIN index.tier : /\ index.photoOf[f] = photo
                                             /\ index.tier[f] \in tiers
                                             /\ index.sim[p][f] >= t
<1> DEFINE of == {f \in DOMAIN index.tier : index.photoOf[f] = photo /\ index.tier[f] \in tiers}
           sims == {index.sim[p][f] : f \in of}
<1>1. Score(index, tiers, p, photo) = IF of = {} THEN None ELSE Largest(sims)
  BY DEF Score
<1>2. CASE of = {}
  BY <1>1, <1>2 DEF None
<1>3. CASE of # {}
  <2>1. IsFiniteSet(of)
    BY FS_Subset DEF IsIndex
  <2>2. IsFiniteSet(sims)
    <3>1. [f \in of |-> index.sim[p][f]] \in Surjection(of, sims)
      BY DEF Surjection
    <3>. QED BY <2>1, <3>1, FS_Surjection
  <2>3. sims # {} /\ sims \subseteq Int
    BY <1>3 DEF IsIndex
  <2>4. Largest(sims) \in sims /\ \A y \in sims : y <= Largest(sims)
    BY <2>2, <2>3, LargestIs
  <2>5. Score(index, tiers, p, photo) = Largest(sims)
    BY <1>1, <1>3
  <2>6. ASSUME NEW t \in Nat
        PROVE  Largest(sims) >= t <=> \E f \in of : index.sim[p][f] >= t
    <3>1. PICK g \in of : Largest(sims) = index.sim[p][g]
      BY <2>4
    <3>2. \A f \in of : index.sim[p][f] \in Int /\ index.sim[p][f] <= index.sim[p][g]
      BY <2>3, <2>4, <3>1
    <3>3. index.sim[p][g] >= t <=> \E f \in of : index.sim[p][f] >= t
      <4>. HIDE DEF of
      <4>. QED BY <3>2
    <3>. QED BY <3>1, <3>3
  <2>. QED BY <2>3, <2>4, <2>5, <2>6
<1>. QED BY <1>2, <1>3

\* What a report says is the sweep of its index and its labels.
OfReport(r) ==
    /\ IsIndex(r.index) /\ IsFiniteSet(r.truth)
    /\ DOMAIN r.says.confident # {} /\ DOMAIN r.says.confident \subseteq LongGrid
    /\ r.says.confident = Sweep(r.index, r.truth, {2}, DOMAIN r.says.confident)
    /\ r.says.all = Sweep(r.index, r.truth, {1, 2}, DOMAIN r.says.confident)
    /\ r.says.unreachable = Unreachable(r.index, r.truth, {1, 2})
    /\ r.says.hidden = Unreachable(r.index, r.truth, {2})

\* A report of an index and its labels has the two sweeps of one grid.
LEMMA ReportIs ==
  ASSUME NEW kind, NEW index, NEW truth, NEW human, IsIndex(index), IsFiniteSet(truth)
  PROVE  OfReport(ReportOf(kind, index, truth, human))
<1> DEFINE near == Sweep(index, truth, {2}, Grid)
           grid == IF Reaching(near) = {} THEN LongGrid ELSE Grid
           r    == ReportOf(kind, index, truth, human)
<1>1. /\ r.index = index /\ r.truth = truth
      /\ r.says.confident = Sweep(index, truth, {2}, grid)
      /\ r.says.all = Sweep(index, truth, {1, 2}, grid)
      /\ r.says.unreachable = Unreachable(index, truth, {1, 2})
      /\ r.says.hidden = Unreachable(index, truth, {2})
  BY DEF ReportOf
<1>2. grid # {} /\ grid \subseteq LongGrid
  BY GridAssumption
<1>. HIDE DEF grid, r
<1>3. DOMAIN r.says.confident = grid
  BY <1>1 DEF Sweep
<1>. QED BY <1>1, <1>2, <1>3 DEF OfReport, r

Predicted(index, tiers, t) ==
    {k \in PairsOf(index) : Score(index, tiers, k[2], k[1]) >= t}
Appearances(index, truth) == {k \in truth : k[2] \in index.queries}

Splits(row, pred, app) ==
    /\ IsFiniteSet(pred) /\ IsFiniteSet(app)
    /\ row.tp = Cardinality(pred \cap app) /\ row.fp = Cardinality(pred \ app)
    /\ row.fn = Cardinality(app \ pred)
    /\ row.tp \in Nat /\ row.fp \in Nat /\ row.fn \in Nat
    /\ row.tp + row.fn = Cardinality(app) /\ row.tp + row.fp = Cardinality(pred)

\* A row splits the appearances, and it splits what is predicted.
LEMMA RowIs ==
  ASSUME NEW index, IsIndex(index), NEW truth, IsFiniteSet(truth), NEW tiers, NEW t
  PROVE  Splits(Row(index, truth, tiers, t), Predicted(index, tiers, t),
                Appearances(index, truth))
<1> DEFINE row  == Row(index, truth, tiers, t)
           pred == Predicted(index, tiers, t)
           app  == Appearances(index, truth)
<1>1. IsFiniteSet(pred)
  <2>1. IsFiniteSet(PairsOf(index))
    BY FS_Product DEF IsIndex, PairsOf
  <2>2. pred \in SUBSET PairsOf(index)
    BY DEF Predicted
  <2>. HIDE DEF pred
  <2>. QED BY <2>1, <2>2, FS_Subset
<1>2. IsFiniteSet(app)
  <2>1. app \in SUBSET truth
    BY DEF Appearances
  <2>. HIDE DEF app
  <2>. QED BY <2>1, FS_Subset
<1>3. /\ row.tp = Cardinality(pred \cap app) /\ row.fp = Cardinality(pred \ app)
      /\ row.fn = Cardinality(app \ pred)
  BY DEF Row, Predicted, Appearances
<1>. HIDE DEF row, pred, app
<1>4. /\ IsFiniteSet(pred \cap app) /\ IsFiniteSet(pred \ app) /\ IsFiniteSet(app \ pred)
      /\ Cardinality(pred \ app) = Cardinality(pred) - Cardinality(pred \cap app)
      /\ Cardinality(app \ pred) = Cardinality(app) - Cardinality(app \cap pred)
  BY <1>1, <1>2, FS_Intersection, FS_Difference
<1>5. app \cap pred = pred \cap app
  OBVIOUS
<1>6. /\ Cardinality(pred \cap app) \in Nat /\ Cardinality(pred \ app) \in Nat
      /\ Cardinality(app \ pred) \in Nat
      /\ Cardinality(pred) \in Nat /\ Cardinality(app) \in Nat
  BY <1>1, <1>2, <1>4, FS_CardinalityType
<1>7. row.tp + row.fn = Cardinality(app) /\ row.tp + row.fp = Cardinality(pred)
  <2> DEFINE a == Cardinality(pred \cap app)
             b == Cardinality(pred \ app)
             c == Cardinality(app \ pred)
             d == Cardinality(pred)
             e == Cardinality(app)
  <2>1. /\ a \in Nat /\ b \in Nat /\ c \in Nat /\ d \in Nat /\ e \in Nat
        /\ b = d - a
        /\ row.tp = a /\ row.fp = b /\ row.fn = c
    BY <1>3, <1>4, <1>6
  <2>2. c = e - a
    BY <1>4, <1>5
  <2>. HIDE DEF a, b, c, d, e
  <2>3. row.tp + row.fn = e /\ row.tp + row.fp = d
    BY <2>1, <2>2
  <2>. QED BY <2>3 DEF d, e
<1>8. Splits(row, pred, app)
  BY <1>1, <1>2, <1>3, <1>6, <1>7 DEF Splits
<1>. QED BY <1>8 DEF row, pred, app

\* What tier 2 finds, every tier finds.
LEMMA SureIsFound ==
  ASSUME NEW index, IsIndex(index), NEW t \in Nat
  PROVE  Predicted(index, {2}, t) \subseteq Predicted(index, {1, 2}, t)
<1>. SUFFICES ASSUME NEW k \in PairsOf(index), Score(index, {2}, k[2], k[1]) >= t
              PROVE  Score(index, {1, 2}, k[2], k[1]) >= t
  BY DEF Predicted
<1>1. k[2] \in index.queries
  BY DEF PairsOf
<1>2. \E f \in DOMAIN index.tier : /\ index.photoOf[f] = k[1] /\ index.tier[f] \in {2}
                                   /\ index.sim[k[2]][f] >= t
  BY <1>1, ScoreIs
<1>3. \E f \in DOMAIN index.tier : /\ index.photoOf[f] = k[1] /\ index.tier[f] \in {1, 2}
                                   /\ index.sim[k[2]][f] >= t
  BY <1>2
<1>. QED BY <1>1, <1>3, ScoreIs

\* What is below the floor is a miss in each row of a threshold from the floor up.
LEMMA HiddenIsMissed ==
  ASSUME NEW index, IsIndex(index), NEW truth, IsFiniteSet(truth),
         NEW tiers \in SUBSET {1, 2}, NEW t \in LongGrid, t >= Floor
  PROVE  Row(index, truth, tiers, t).fn >= Unreachable(index, truth, tiers)
<1> DEFINE lost == {k \in truth : k[2] \in index.queries
                                  /\ Score(index, tiers, k[2], k[1]) < Floor}
           pred == Predicted(index, tiers, t)
           app  == Appearances(index, truth)
<1>1. lost \subseteq app \ pred
  <2>. SUFFICES ASSUME NEW k \in lost PROVE k \in app /\ k \notin pred
    OBVIOUS
  <2>1. k \in app
    BY DEF Appearances
  <2>2. Score(index, tiers, k[2], k[1]) \in Int
    BY ScoreIs
  <2>3. Floor \in Nat /\ t \in Nat /\ Floor <= t
    BY GridAssumption
  <2>4. ~(Score(index, tiers, k[2], k[1]) >= t)
    BY <2>2, <2>3
  <2>. QED BY <2>1, <2>4 DEF Predicted
<1>2. Unreachable(index, truth, tiers) = Cardinality(lost)
  BY DEF Unreachable
<1>3. /\ IsFiniteSet(app) /\ Row(index, truth, tiers, t).fn = Cardinality(app \ pred)
  <2>1. Splits(Row(index, truth, tiers, t), pred, app)
    BY RowIs, Zenon
  <2>. QED BY <2>1 DEF Splits
<1>. HIDE DEF lost, pred, app
<1>4. IsFiniteSet(app \ pred)
  BY <1>3, FS_Difference
<1>5. Cardinality(lost) <= Cardinality(app \ pred) /\ IsFiniteSet(lost)
  BY <1>1, <1>4, FS_Subset
<1>6. Cardinality(lost) \in Nat /\ Cardinality(app \ pred) \in Nat
  BY <1>4, <1>5, FS_CardinalityType
<1>. QED BY <1>2, <1>3, <1>5, <1>6

\* What an index is made of: the scores of people to faces of known tier.
LEMMA BuiltIndex == ASSUME HoldInv PROVE IsIndex(BuildIndex)
<1> DEFINE faces == {f \in Detections : PhotoOf[f] \in files.photos /\ Tier(Album[f], policy) > 0}
<1>1. /\ BuildIndex.photos = files.photos /\ BuildIndex.queries = Enrollable
      /\ BuildIndex.tier = [f \in faces |-> Tier(Album[f], policy)]
      /\ BuildIndex.sim = [p \in Enrollable |-> [f \in faces |->
                              IF f \in TemplateOf(p) THEN Same ELSE Likeness[p][f]]]
  BY DEF BuildIndex
<1>2. IsFiniteSet(files.photos)
  BY FS_Subset, ScoresAssumption DEF HoldInv
<1>3. Enrollable \subseteq People /\ IsFiniteSet(Enrollable)
  <2>1. Enrollable \in SUBSET People
    BY DEF Enrollable
  <2>. QED BY <2>1, FS_Subset, ScoresAssumption
<1>4. faces \in SUBSET Detections /\ IsFiniteSet(faces)
  <2>1. faces \in SUBSET Detections
    OBVIOUS
  <2>. HIDE DEF faces
  <2>. QED BY <2>1, FS_Subset, AlbumAssumption
<1>5. \A f \in faces : Tier(Album[f], policy) \in {1, 2}
  BY DEF Tier
<1>6. \A p \in Enrollable, f \in faces :
          (IF f \in TemplateOf(p) THEN Same ELSE Likeness[p][f]) \in Int
  BY <1>3, <1>4, ScoresAssumption
<1>. HIDE DEF faces
<1>. QED BY <1>1, <1>2, <1>3, <1>4, <1>5, <1>6 DEF IsIndex

\* What the cache, the reports and thresholds.toml hold.
Swept ==
    /\ DOMAIN cache = Keys /\ DOMAIN reports = ReportNames /\ DOMAIN beside = ReportNames
    /\ \A k \in Keys : cache[k] # NoIndex => IsIndex(cache[k])
    /\ \A n \in ReportNames : reports[n] # NoReport => OfReport(reports[n])
    /\ \A n \in ReportNames : beside[n] # NoReport => OfReport(beside[n])
    /\ tuned # Untuned =>
           /\ tuned.report \in ReportNames
           /\ ~edited => /\ tuned.digest.human > 0
                         /\ tuned.kind = tuned.digest.kind /\ tuned.digest.kind = "real"
                         /\ Reaching(tuned.digest.confident) # {}
                         /\ tuned.high = PickHigh(tuned.digest.confident)
                         /\ tuned.low = PickLow(tuned.digest.all, tuned.high)
                         /\ tuned.at = tuned.digest.confident[tuned.high]

\* A report that is written is one of an index and labels,
LEMMA ReportWritten ==
  ASSUME DOMAIN reports = ReportNames,
         \A n \in ReportNames : reports[n] # NoReport => OfReport(reports[n]),
         NEW r, OfReport(r), Writes(r)
  PROVE  /\ DOMAIN reports' = ReportNames
         /\ \A n \in ReportNames : reports'[n] # NoReport => OfReport(reports'[n])
<1>1. PICK m \in ReportNames : reports' = [reports EXCEPT ![m] = r]
  BY DEF Writes
<1>. QED BY <1>1

\* also when the index comes out of the cache.
LEMMA RunSweeps ==
  ASSUME HoldInv, Swept, NEW useCache \in BOOLEAN,
         NEW allowUncorrected \in BOOLEAN, Run(useCache, allowUncorrected)
  PROVE  Swept'
<1> DEFINE key   == CacheKey(policy, files.photos)
           index == IF useCache /\ cache[key] # NoIndex THEN cache[key] ELSE BuildIndex
           r     == ReportOf("real", index, files.labels, files.manifest.human)
<1>1. key \in Keys
  BY KeyKnown
<1>2. IsIndex(index)
  BY <1>1, BuiltIndex DEF Swept
<1>3. cache' = IF useCache THEN [cache EXCEPT ![key] = index] ELSE cache
  BY Zenon DEF Run
<1>4. Writes(r) \/ UNCHANGED reports
  BY Zenon DEF Run
<1>5. UNCHANGED <<tuned, edited, beside>>
  BY DEF Run
<1>6. OfReport(r)
  <2>1. IsFiniteSet(files.labels)
    <3>1. IsFiniteSet(Pairs)
      BY FS_Product, ScoresAssumption DEF Pairs
    <3>. QED BY <3>1, FS_Subset DEF HoldInv
  <2>. HIDE DEF index
  <2>. QED BY <1>2, <2>1, ReportIs
<1>. HIDE DEF key, index, r
<1>7. /\ DOMAIN cache' = Keys
      /\ \A k \in Keys : cache'[k] # NoIndex => IsIndex(cache'[k])
  BY <1>1, <1>2, <1>3 DEF Swept
<1>8. /\ DOMAIN reports' = ReportNames
      /\ \A n \in ReportNames : reports'[n] # NoReport => OfReport(reports'[n])
  <2>1. CASE UNCHANGED reports
    BY <2>1 DEF Swept
  <2>2. CASE Writes(r)
    BY <1>6, <2>2, ReportWritten DEF Swept
  <2>. QED BY <1>4, <2>1, <2>2
<1>. QED BY <1>5, <1>7, <1>8 DEF Swept

\* Every report, and every choice of thresholds, stays one, step by step,
LEMMA StepSweeps ==
  ASSUME LabInv, Swept, [EvaluationNext]_vars
  PROVE  LabInv' /\ Swept'
<1>1. CASE LabellingNext /\ UNCHANGED evalVars
  BY <1>1, LabellingHolds DEF evalVars, Swept
<1>2. ASSUME NEW useCache \in BOOLEAN, NEW allow \in BOOLEAN, Run(useCache, allow)
      PROVE  LabInv' /\ Swept'
  <2>1. UNCHANGED labelVars
    BY <1>2, Zenon DEF Run
  <2>. QED BY <1>2, <2>1, LabellingHolds, RunSweeps DEF LabInv
<1>3. CASE RunSynthetic
  <2>1. UNCHANGED <<labelVars, cache, beside, tuned, edited>>
    BY <1>3 DEF RunSynthetic
  <2>2. Writes(ReportOf("synthetic", SynthIndex, SynthTruth, 1))
    BY <1>3 DEF RunSynthetic
  <2>3. OfReport(ReportOf("synthetic", SynthIndex, SynthTruth, 1))
    BY ReportIs, ScoresAssumption
  <2>4. /\ DOMAIN reports' = ReportNames
        /\ \A n \in ReportNames : reports'[n] # NoReport => OfReport(reports'[n])
    BY <2>2, <2>3, ReportWritten DEF Swept
  <2>. QED BY <2>1, <2>4, LabellingHolds DEF Swept
<1>4. ASSUME NEW n \in ReportNames, Select(n)
      PROVE  LabInv' /\ Swept'
  <2>1. UNCHANGED <<labelVars, cache, reports, beside>> /\ ~edited'
    BY <1>4 DEF Select
  <2>2. /\ tuned'.report = n /\ tuned'.digest = reports[n].says
        /\ tuned'.high = PickHigh(reports[n].says.confident)
        /\ tuned'.low = PickLow(reports[n].says.all, tuned'.high)
        /\ tuned'.at = reports[n].says.confident[tuned'.high]
        /\ tuned'.kind = reports[n].says.kind
        /\ reports[n].says.human > 0 /\ reports[n].says.kind = "real"
        /\ Reaching(reports[n].says.confident) # {}
    BY <1>4 DEF Select
  <2>. QED BY <2>1, <2>2, LabellingHolds DEF Swept
<1>5. ASSUME NEW t \in Grid, HandEdit(t)
      PROVE  LabInv' /\ Swept'
  <2>1. UNCHANGED <<labelVars, cache, reports, beside>> /\ edited'
    BY <1>5 DEF HandEdit
  <2>2. tuned # Untuned /\ tuned' = [tuned EXCEPT !.high = t]
    BY <1>5 DEF HandEdit
  <2>3. tuned'.report = tuned.report
    BY <2>2
  <2>. QED BY <2>1, <2>2, <2>3, LabellingHolds DEF Swept
<1>6. ASSUME NEW n \in ReportNames, CommitReport(n)
      PROVE  LabInv' /\ Swept'
  <2>1. UNCHANGED <<labelVars, cache, reports, tuned, edited>>
    BY <1>6 DEF CommitReport
  <2>2. beside' = [beside EXCEPT ![n] = reports[n]]
    BY <1>6 DEF CommitReport
  <2>3. /\ DOMAIN beside' = ReportNames
        /\ \A m \in ReportNames : beside'[m] # NoReport => OfReport(beside'[m])
    BY <2>2 DEF Swept
  <2>. QED BY <2>1, <2>3, LabellingHolds DEF Swept
<1>7. CASE UNCHANGED vars
  BY <1>7, LabellingHolds DEF vars, evalVars, Swept
<1>. QED BY <1>1, <1>2, <1>3, <1>4, <1>5, <1>6, <1>7 DEF EvaluationNext

\* from the start, when there is neither.
LEMMA InitSweeps == ASSUME EvaluationInit PROVE LabInv /\ Swept
  BY LabellingStarts DEF EvaluationInit, Swept

\* Every row of such a report counts the same appearances, and misses the hidden ones.
LEMMA SweptCounts == ASSUME Swept PROVE MissesCount
<1>. SUFFICES ASSUME NEW r \in Written, NEW t \in DOMAIN r.says.all
              PROVE  LET sure == r.says.confident[t]
                         any  == r.says.all[t]
                         appearances == Cardinality({k \in r.truth : k[2] \in r.index.queries})
                     IN /\ sure.tp + sure.fn = appearances
                        /\ any.tp + any.fn = appearances
                        /\ sure.tp <= any.tp /\ sure.fp <= any.fp
                        /\ t >= Floor => any.fn >= r.says.unreachable /\ sure.fn >= r.says.hidden
  BY DEF MissesCount
<1> DEFINE sure == Row(r.index, r.truth, {2}, t)
           any  == Row(r.index, r.truth, {1, 2}, t)
           app  == Appearances(r.index, r.truth)
           few  == Predicted(r.index, {2}, t)
           many == Predicted(r.index, {1, 2}, t)
<1>1. OfReport(r)
  BY DEF Swept, Written
<1>2. t \in DOMAIN r.says.confident /\ t \in LongGrid /\ t \in Nat
  BY <1>1, GridAssumption DEF OfReport, Sweep
<1>3. r.says.confident[t] = sure /\ r.says.all[t] = any
  BY <1>1, <1>2 DEF OfReport, Sweep
<1>4. IsIndex(r.index) /\ IsFiniteSet(r.truth)
  BY <1>1 DEF OfReport
<1>5. Splits(sure, few, app) /\ Splits(any, many, app)
  BY <1>4, RowIs, Zenon
<1>6. ASSUME t >= Floor PROVE sure.fn >= r.says.hidden /\ any.fn >= r.says.unreachable
  <2>1. {2} \in SUBSET {1, 2} /\ {1, 2} \in SUBSET {1, 2}
    OBVIOUS
  <2>2. /\ sure.fn >= Unreachable(r.index, r.truth, {2})
        /\ any.fn >= Unreachable(r.index, r.truth, {1, 2})
    BY <1>2, <1>4, <1>6, <2>1, HiddenIsMissed
  <2>. QED BY <1>1, <2>2 DEF OfReport
<1>7. few \subseteq many
  BY <1>2, <1>4, SureIsFound
<1>8. Cardinality({k \in r.truth : k[2] \in r.index.queries}) = Cardinality(app)
  BY DEF Appearances
<1>. HIDE DEF sure, any, app, few, many
<1>9. sure.tp <= any.tp /\ sure.fp <= any.fp
  <2>1. /\ few \cap app \subseteq many \cap app /\ few \ app \subseteq many \ app
    BY <1>7
  <2>2. IsFiniteSet(many \cap app) /\ IsFiniteSet(many \ app)
    BY <1>5, FS_Intersection, FS_Difference DEF Splits
  <2>3. /\ Cardinality(few \cap app) <= Cardinality(many \cap app)
        /\ Cardinality(few \ app) <= Cardinality(many \ app)
    BY <2>1, <2>2, FS_Subset
  <2>. QED BY <1>5, <2>3 DEF Splits
<1>10. /\ sure.tp + sure.fn = Cardinality(app) /\ any.tp + any.fn = Cardinality(app)
  BY <1>5 DEF Splits
<1>. QED BY <1>3, <1>6, <1>8, <1>9, <1>10

\* "Recall is conditioned on nothing", for any album, any photographs, any scores and
\* any sweep: a person's appearance stays in every row, found or missed.
THEOREM MissesAlwaysCount == EvaluationSpec => []MissesCount
<1>1. EvaluationInit => LabInv /\ Swept
  BY InitSweeps
<1>2. (LabInv /\ Swept) /\ [EvaluationNext]_vars => (LabInv /\ Swept)'
  BY StepSweeps
<1>3. LabInv /\ Swept => MissesCount
  BY SweptCounts
<1>. QED BY <1>1, <1>2, <1>3, PTL DEF EvaluationSpec

\* What the search would deliver at a threshold the row of tier 2 has predicted.
LEMMA SentIsPredicted ==
  ASSUME NEW index, IsIndex(index), tuned.high \in Nat
  PROVE  Delivered(index) \subseteq Predicted(index, {2}, tuned.high)
<1>1. SUFFICES ASSUME NEW k \in Delivered(index)
               PROVE  k \in PairsOf(index) /\ Score(index, {2}, k[2], k[1]) >= tuned.high
  BY DEF Predicted
<1>2. k \in PairsOf(index)
  BY DEF Delivered
<1>3. PICK f \in DOMAIN index.tier :
          /\ index.photoOf[f] = k[1]
          /\ Bucket(index.sim[k[2]][f], index.tier[f]) = "confident"
  BY DEF Delivered
<1>4. index.tier[f] \in {2} /\ index.sim[k[2]][f] >= tuned.high
  <2>1. index.tier[f] \in {1, 2}
    BY DEF IsIndex
  <2>. QED BY <1>3, <2>1 DEF Bucket
<1>5. \A t \in Nat : Score(index, {2}, k[2], k[1]) >= t <=>
                \E g \in DOMAIN index.tier : /\ index.photoOf[g] = k[1]
                                             /\ index.tier[g] \in {2}
                                             /\ index.sim[k[2]][g] >= t
  <2>1. k[2] \in index.queries /\ {2} \in SUBSET {1, 2}
    BY <1>2 DEF PairsOf
  <2>. QED BY <2>1, ScoreIs
<1>. QED BY <1>2, <1>3, <1>4, <1>5

\* The chosen threshold is the lowest that reaches the target.
LEMMA HighIs ==
  ASSUME NEW rows, DOMAIN rows \subseteq LongGrid, Reaching(rows) # {}
  PROVE  PickHigh(rows) \in Reaching(rows) /\ \A t \in Reaching(rows) : PickHigh(rows) <= t
<1>1. Reaching(rows) \in SUBSET LongGrid
  BY DEF Reaching
<1>2. IsFiniteSet(Reaching(rows))
  BY <1>1, FS_Subset, ScoresAssumption
<1>3. Reaching(rows) \subseteq Int
  <2>1. LongGrid \subseteq Int
    BY GridAssumption
  <2>. QED BY <1>1, <2>1
<1>. QED BY <1>2, <1>3, SmallestIs DEF PickHigh

\* So thresholds that load and were not edited are earned.
LEMMA SweptEarned == ASSUME Swept PROVE TunedIsEarned
<1>. SUFFICES ASSUME Accepted, ~edited PROVE TunedIsEarned
  BY DEF TunedIsEarned
<1> DEFINE r    == beside[tuned.report]
           rows == r.says.confident
           few  == Predicted(r.index, {2}, tuned.high)
           app  == Appearances(r.index, r.truth)
           sent == Delivered(r.index)
<1>1. /\ tuned.report \in ReportNames /\ r # NoReport /\ r.says = tuned.digest
      /\ r.says.human > 0 /\ r.says.kind = "real"
      /\ Reaching(rows) # {} /\ tuned.high = PickHigh(rows)
  BY DEF Accepted, Swept
<1>2. OfReport(r)
  BY <1>1 DEF Swept
<1>3. tuned.high \in Reaching(rows) /\ \A t \in Reaching(rows) : tuned.high <= t
  <2>1. DOMAIN rows \subseteq LongGrid
    BY <1>2 DEF OfReport
  <2>. HIDE DEF rows
  <2>. QED BY <1>1, <2>1, HighIs
<1>4. tuned.high \in DOMAIN rows /\ tuned.high \in Nat /\ DOMAIN rows \subseteq Nat
  BY <1>2, <1>3, GridAssumption DEF Reaching, OfReport
<1>5. \A t \in DOMAIN rows : t < tuned.high => ~Precise(rows[t])
  <2>. SUFFICES ASSUME NEW t \in DOMAIN rows, t < tuned.high, Precise(rows[t]) PROVE FALSE
    OBVIOUS
  <2>1. t \in Reaching(rows)
    BY DEF Reaching
  <2>. QED BY <1>3, <1>4, <2>1
<1>6. rows[tuned.high] = Row(r.index, r.truth, {2}, tuned.high)
  BY <1>2, <1>4 DEF OfReport, Sweep
<1>7. Splits(rows[tuned.high], few, app)
  <2>1. IsIndex(r.index) /\ IsFiniteSet(r.truth)
    BY <1>2 DEF OfReport
  <2>2. Splits(Row(r.index, r.truth, {2}, tuned.high), few, app)
    BY <2>1, RowIs, Zenon
  <2>. QED BY <1>6, <2>2
<1>8. sent \subseteq few
  BY <1>2, <1>4, SentIsPredicted DEF OfReport
<1>9. Cardinality(sent \ r.truth) <= rows[tuned.high].fp
  <2>1. sent \ r.truth \subseteq few \ app
    BY <1>8 DEF Appearances
  <2>2. IsFiniteSet(few \ app) /\ rows[tuned.high].fp = Cardinality(few \ app)
    BY <1>7, FS_Difference DEF Splits
  <2>. HIDE DEF few, app, sent, rows, r
  <2>. QED BY <2>1, <2>2, FS_Subset
<1>10. \A k \in sent : Score(r.index, {2}, k[2], k[1]) >= tuned.high
  BY <1>8 DEF Predicted
<1>11. Precise(rows[tuned.high])
  BY <1>3 DEF Reaching
<1>. HIDE DEF few, app, sent
<1>. QED BY <1>1, <1>5, <1>9, <1>10, <1>11 DEF TunedIsEarned, sent

\* Thresholds that load and were not edited are those of a report of real, reviewed
\* photographs, precise enough, and the lowest of the sweep that are, and rank() would
\* deliver of the same photographs nothing but what that row counts: for any album, any
\* scores, any sequence of reports and of select_thresholds, reports overwritten or not.
THEOREM ThresholdsAlwaysEarned == EvaluationSpec => []TunedIsEarned
<1>1. EvaluationInit => LabInv /\ Swept
  BY InitSweeps
<1>2. (LabInv /\ Swept) /\ [EvaluationNext]_vars => (LabInv /\ Swept)'
  BY StepSweeps
<1>3. LabInv /\ Swept => TunedIsEarned
  BY SweptEarned
<1>. QED BY <1>1, <1>2, <1>3, PTL DEF EvaluationSpec

-----------------------------------------------------------------------------
(* What is proposed. *)

\* What the gate lets through of an album, and who of it is near whom.
Passing == {f \in Detections : Tier(Album[f], policy) > 0}
NearIn(faces) == [f \in faces |-> {g \in faces : f = g \/ {f, g} \in Alike}]

\* The neighbourhoods that `init` hands to DBSCAN are some.
LEMMA AlbumNear ==
  ASSUME NEW faces \in SUBSET Detections
  PROVE  /\ IsNear(NearIn(faces)) /\ DOMAIN NearIn(faces) = faces
         /\ DOMAIN NearIn(faces) \subseteq 1..Cardinality(Detections)
         /\ Cardinality(Detections) \in Nat
<1>1. Cardinality(Detections) \in Nat /\ Detections = 1..Cardinality(Detections)
  BY AlbumAssumption, FS_CardinalityType
<1>2. IsFiniteSet(faces)
  BY FS_Subset, AlbumAssumption
<1>3. DOMAIN NearIn(faces) = faces
  BY DEF NearIn
<1>4. \A p, q \in faces : {p, q} = {q, p}
  OBVIOUS
<1>5. \A p \in faces : p \in NearIn(faces)[p] /\ NearIn(faces)[p] \subseteq faces
  BY Zenon DEF NearIn
<1>6. \A p, q \in faces : q \in NearIn(faces)[p] => p \in NearIn(faces)[q]
  BY <1>4 DEF NearIn
<1>7. IsNear(NearIn(faces))
  BY <1>2, <1>3, <1>5, <1>6 DEF IsNear
<1>8. DOMAIN NearIn(faces) \subseteq 1..Cardinality(Detections)
  BY <1>1, <1>3
<1>. QED BY <1>1, <1>3, <1>7, <1>8

\* The groups that `init` proposes are the chains of the album: two faces that pass the
\* gate are one person, for now, exactly if faces that pass, each like the next, connect them.
LEMMA InitLinks ==
  ASSUME CmdInit
  PROVE  /\ doc'.faces = Passing
         /\ \A f, g \in Passing : f # g =>
                (doc'.groupOf[f] = doc'.groupOf[g] /\ doc'.groupOf[f] # NoGroup
                     <=> Linked(NearIn(Passing), f, g))
<1> DEFINE n      == Cardinality(Detections)
           faces  == Passing
           label  == Dbscan(n, NearIn(faces), 2)
           of     == [f \in Detections |->
                         IF f \in faces /\ label[f] # Noise THEN label[f] ELSE NoGroup]
           groups == {of[f] : f \in Detections} \ {NoGroup}
<1>1. doc'.faces = faces /\ doc'.groupOf = of
  <2>1. doc' = [NoDoc EXCEPT
                 !.faces   = faces,
                 !.groupOf = of,
                 !.members = [g \in groups |-> [f \in Detections |-> IF of[f] = g THEN 1 ELSE 0]],
                 !.person  = [g \in groups |-> Nobody]]
    BY Zenon DEF CmdInit, Passing, NearIn
  <2>. HIDE DEF faces, label, of, groups
  <2>. QED BY <2>1 DEF NoDoc
<1>2. faces \in SUBSET Detections
  BY DEF Passing
<1>3. IsNear(NearIn(faces)) /\ DOMAIN NearIn(faces) = faces /\ DOMAIN NearIn(faces) \subseteq 1..n
      /\ n \in Nat
  BY <1>2, AlbumNear
<1>4. IsDbscan(NearIn(faces), 2, label) /\ label \in [faces -> {Noise} \cup 0..(n - 1)]
  BY <1>3, DbscanCorrect, DbscanType
<1>. HIDE DEF label, n
<1>5. ASSUME NEW f \in faces, NEW g \in faces, f # g
      PROVE  of[f] = of[g] /\ of[f] # NoGroup <=> Linked(NearIn(faces), f, g)
  <2>1. label[f] = label[g] /\ label[f] # Noise <=> Linked(NearIn(faces), f, g)
    BY <1>3, <1>4, <1>5, PairsLink
  <2>2. label[f] # NoGroup /\ label[g] # NoGroup
    BY <1>3, <1>4, AlbumAssumption DEF Noise
  <2>. QED BY <1>2, <2>1, <2>2
<1>. QED BY <1>1, <1>5

\* So a reviewer who finds two people in one group is looking at a chain of look-alikes,
\* and nobody whom a chain connects is left for another group.
THEOREM GroupsAreChains ==
    LabellingSpec =>
        [][CmdInit => \A f, g \in doc'.faces : f # g =>
               (doc'.groupOf[f] = doc'.groupOf[g] /\ doc'.groupOf[f] # NoGroup
                    <=> Linked(NearIn(doc'.faces), f, g))]_labelVars
<1>1. CmdInit => \A f, g \in doc'.faces : f # g =>
               (doc'.groupOf[f] = doc'.groupOf[g] /\ doc'.groupOf[f] # NoGroup
                    <=> Linked(NearIn(doc'.faces), f, g))
  BY InitLinks
<1>. QED BY <1>1, PTL DEF LabellingSpec

-----------------------------------------------------------------------------
(* Types. *)

\* What LabInv says nothing of.
LabTyped ==
    /\ GroupsOf(doc) \subseteq Groups
    /\ doc.person \in [GroupsOf(doc) -> People \cup {Nobody, Dropped}]
    /\ doc.selfies \in [People -> Seq(Detections)]
    /\ real \subseteq People
    /\ crops \in [People \X (1..MaxSelfies) -> Detections \cup {0}]
    /\ files \in FilesType /\ out \in FilesType
    /\ whole \in BOOLEAN

\* The groups that DBSCAN finds are numbered from 0, less than one for every face.
LEMMA CmdInitTypes ==
  ASSUME CmdInit, LabTyped
  PROVE  LabTyped'
<1> DEFINE n      == Cardinality(Detections)
           faces  == {f \in Detections : Tier(Album[f], policy) > 0}
           near   == [f \in faces |-> {g \in faces : f = g \/ {f, g} \in Alike}]
           label  == Dbscan(n, near, 2)
           of     == [f \in Detections |->
                         IF f \in faces /\ label[f] # Noise THEN label[f] ELSE NoGroup]
           groups == {of[f] : f \in Detections} \ {NoGroup}
           person == [g \in groups |-> Nobody]
<1>1. /\ doc'.person = person /\ doc'.selfies = [p \in People |-> <<>>]
      /\ UNCHANGED onDisk
  <2>1. /\ doc' = [NoDoc EXCEPT
                 !.faces   = faces,
                 !.groupOf = of,
                 !.members = [g \in groups |-> [f \in Detections |-> IF of[f] = g THEN 1 ELSE 0]],
                 !.person  = [g \in groups |-> Nobody]]
        /\ UNCHANGED onDisk
    BY Zenon DEF CmdInit
  <2>. HIDE DEF faces, near, label, of, groups
  <2>. QED BY <2>1 DEF NoDoc
<1>2. label \in [faces -> {Noise} \cup 0..(n - 1)]
  <2>1. faces \in SUBSET Detections /\ near = NearIn(faces)
    BY DEF NearIn
  <2>. HIDE DEF near, faces
  <2>. QED BY <2>1, AlbumNear, DbscanType
<1>3. groups \subseteq 0..(n - 1)
  <2>. HIDE DEF label, n, faces
  <2>. QED BY <1>2
<1>4. GroupsOf(doc') = groups /\ doc'.person \in [groups -> People \cup {Nobody, Dropped}]
  <2>. HIDE DEF groups
  <2>. QED BY <1>1 DEF GroupsOf
<1>5. doc'.selfies \in [People -> Seq(Detections)]
  BY <1>1
<1>. HIDE DEF groups, n, person
<1>6. n = Cardinality(Detections)
  BY DEF n
<1>. QED BY <1>1, <1>3, <1>4, <1>5, <1>6 DEF LabTyped, onDisk, Groups

\* The review screens name groups with people and pick faces for selfies.
LEMMA ReviewTypes ==
  ASSUME DocInv, LabTyped, Review
  PROVE  /\ GroupsOf(doc') = GroupsOf(doc)
         /\ doc'.person \in [GroupsOf(doc) -> People \cup {Nobody, Dropped}]
         /\ doc'.selfies \in [People -> Seq(Detections)]
<1>0. Fields(doc)
  BY DEF DocInv, Formed
<1>1. ASSUME NEW p \in People, NEW chosen \in Choices, SetSelfies(p, chosen)
      PROVE  doc'.person = doc.person /\ doc'.selfies \in [People -> Seq(Detections)]
  <2>1. chosen \in Seq(Detections)
    <3>1. PICK n \in 0..MaxSelfies : chosen \in [1..n -> Detections]
      BY <1>1 DEF Choices
    <3>. QED BY <3>1, AlbumAssumption
  <2>2. doc'.selfies = [doc.selfies EXCEPT ![p] = chosen] /\ doc'.person = doc.person
    BY <1>0, <1>1 DEF SetSelfies, Post, Fields
  <2>. QED BY <2>1, <2>2 DEF LabTyped
<1>2. ASSUME NEW g, NEW p \in People \cup {Nobody}, NameGroup(g, p)
      PROVE  /\ doc'.person = [doc.person EXCEPT ![g] = p]
             /\ g \in GroupsOf(doc) /\ doc'.selfies = doc.selfies
  BY <1>0, <1>2 DEF NameGroup, Post, Fields
<1>3. ASSUME NEW g, DropGroup(g)
      PROVE  /\ doc'.person =
                   [doc.person EXCEPT ![g] = IF @ = Dropped THEN Nobody ELSE Dropped]
             /\ g \in GroupsOf(doc) /\ doc'.selfies = doc.selfies
  BY <1>0, <1>3 DEF DropGroup, Post, Fields
<1>4. ASSUME NEW f, NEW g, MoveFace(f, g)
      PROVE  doc'.person = doc.person /\ doc'.selfies = doc.selfies
  BY <1>0, <1>4 DEF MoveFace, Post, Fields
<1>5. ASSUME NEW photo, NEW p, AddLabel(photo, p) \/ RemoveLabel(photo, p)
      PROVE  doc'.person = doc.person /\ doc'.selfies = doc.selfies
  BY <1>0, <1>5 DEF AddLabel, RemoveLabel, Post, Fields
<1>6. doc'.selfies \in [People -> Seq(Detections)]
  BY <1>1, <1>2, <1>3, <1>4, <1>5 DEF Review, LabTyped
<1>7. doc'.person \in [GroupsOf(doc) -> People \cup {Nobody, Dropped}]
  <2>1. doc.person \in [GroupsOf(doc) -> People \cup {Nobody, Dropped}]
    BY DEF LabTyped
  <2>2. ASSUME NEW g, NEW p \in People \cup {Nobody}, NameGroup(g, p)
        PROVE  doc'.person \in [GroupsOf(doc) -> People \cup {Nobody, Dropped}]
    <3>1. doc'.person = [doc.person EXCEPT ![g] = p]
      BY <1>2, <2>2, Zenon
    <3>. QED BY <2>1, <3>1
  <2>3. ASSUME NEW g, DropGroup(g)
        PROVE  doc'.person \in [GroupsOf(doc) -> People \cup {Nobody, Dropped}]
    BY <1>3, <2>1, <2>3
  <2>. QED BY <1>1, <1>4, <1>5, <2>1, <2>2, <2>3 DEF Review
<1>8. GroupsOf(doc') = GroupsOf(doc)
  <2>1. DOMAIN doc'.person = DOMAIN doc.person
    BY <1>7 DEF LabTyped, GroupsOf
  <2>. QED BY <2>1 DEF GroupsOf
<1>. QED BY <1>6, <1>7, <1>8

\* What an export writes has the types of the files.
LEMMA ExportTypes ==
  ASSUME LabTyped
  PROVE  Exported(doc) \in FilesType
<1>1. IsFiniteSet(Photos) /\ IsFiniteSet(People)
  BY ScoresAssumption
<1>2. IsFiniteSet(Pairs)
  BY <1>1, FS_Product DEF Pairs
<1>3. LabelsLeft(doc) \in SUBSET Pairs /\ Named(doc) \subseteq People
  BY DEF LabelsLeft, Named
<1>4. HeldOut(doc) \in SUBSET Photos
  <2>1. \A p \in People : \A n \in DOMAIN doc.selfies[p] : doc.selfies[p][n] \in Detections
    BY DEF LabTyped
  <2>. QED BY <1>3, <2>1, AlbumAssumption DEF HeldOut
<1>5. IsFiniteSet(HeldOut(doc)) /\ Cardinality(HeldOut(doc)) \in Nat
  BY <1>1, <1>4, FS_Subset, FS_CardinalityType
<1>6. Cardinality({k \in LabelsLeft(doc) : doc.labels[k] = "human"}) \in Nat
  <2> DEFINE S == {k \in LabelsLeft(doc) : doc.labels[k] = "human"}
  <2>1. S \in SUBSET Pairs
    BY <1>3
  <2>. HIDE DEF S
  <2>2. Cardinality(S) \in Nat
    BY <1>2, <2>1, FS_Subset, FS_CardinalityType
  <2>. QED BY <2>2 DEF S
<1>7. ASSUME NEW p \in Named(doc) PROVE SelfieRows(doc, p) \subseteq People \X Nat
  <2>1. p \in People /\ doc.selfies[p] \in Seq(Detections)
    BY <1>3 DEF LabTyped
  <2>2. DOMAIN doc.selfies[p] \subseteq Nat
    BY <2>1
  <2>. QED BY <2>1, <2>2 DEF SelfieRows
<1>. QED BY <1>3, <1>4, <1>5, <1>6, <1>7 DEF Exported, FilesType

\* Before the first export there are no files, of the type of files.
LEMMA NoFilesType == NoFiles \in FilesType
  BY DEF NoFiles, FilesType

\* Every step of eval.label keeps the types.
LEMMA LabellingTypes ==
  ASSUME LabInv, LabTyped, [LabellingNext]_labelVars
  PROVE  LabTyped'
<1>1. CASE CmdInit
  BY <1>1, CmdInitTypes
<1>2. CASE Review
  <2>1. UNCHANGED onDisk
    BY <1>2, ReviewLeavesFiles
  <2>2. /\ GroupsOf(doc') = GroupsOf(doc)
        /\ doc'.person \in [GroupsOf(doc) -> People \cup {Nobody, Dropped}]
        /\ doc'.selfies \in [People -> Seq(Detections)]
    BY <1>2, ReviewTypes DEF LabInv
  <2>. QED BY <2>1, <2>2 DEF LabTyped, onDisk
<1>3. CASE ExportSelfies
  <2>1. /\ UNCHANGED <<doc, real, files>>
        /\ crops' = [k \in DOMAIN crops |->
             IF k[1] \in Named(doc) \ real /\ k[2] \in DOMAIN doc.selfies[k[1]]
             THEN doc.selfies[k[1]][k[2]] ELSE crops[k]]
        /\ whole' \in BOOLEAN
        /\ out' = out \/ out' = Exported(doc)
    BY <1>3 DEF ExportSelfies
  <2>2. \A p \in Named(doc) : \A n \in DOMAIN doc.selfies[p] : doc.selfies[p][n] \in Detections
    BY DEF LabTyped, Named
  <2>3. crops' \in [People \X (1..MaxSelfies) -> Detections \cup {0}]
    <3>1. DOMAIN crops = People \X (1..MaxSelfies)
      BY DEF LabTyped
    <3>2. \A k \in DOMAIN crops : crops[k] \in Detections \cup {0}
      BY DEF LabTyped
    <3>. QED BY <2>1, <2>2, <3>1, <3>2
  <2>4. out' \in FilesType
    BY <2>1, ExportTypes DEF LabTyped
  <2>. QED BY <2>1, <2>3, <2>4 DEF LabTyped
<1>4. CASE ExportFile
  <2>1. UNCHANGED <<doc, real, crops>> /\ whole' \in BOOLEAN /\ out' \in {out, NoFiles}
    BY <1>4 DEF ExportFile
  <2>2. files' \in FilesType
    <3>1. PICK n \in 0..3 : todo = Remaining(n)
      BY <1>4 DEF LabInv, ExportInv, ExportFile, Idle
    <3>2. Head(todo) = Order[n + 1]
      BY <3>1, Orders
    <3>3. Order[n + 1] \in {"photos", "labels", "selfies", "manifest"}
      <4>1. n + 1 \in 1..4
        OBVIOUS
      <4>2. Order[n + 1] \in FileNames
        BY <4>1, Orders
      <4>. QED BY <4>2 DEF FileNames
    <3>4. files' = [files EXCEPT ![Order[n + 1]] = out[Order[n + 1]]]
      BY <1>4, <3>2 DEF ExportFile
    <3>5. files \in FilesType /\ out \in FilesType
      BY DEF LabTyped
    <3>. HIDE DEF Order
    <3>. QED BY <3>3, <3>4, <3>5 DEF FilesType
  <2>3. out' \in FilesType
    BY <2>1, NoFilesType DEF LabTyped
  <2>. QED BY <2>1, <2>2, <2>3 DEF LabTyped
<1>5. CASE KillExport
  BY <1>5, NoFilesType DEF KillExport, LabTyped
<1>6. ASSUME \/ \E p \in People : AddRealSelfies(p)
             \/ \E new \in Policies : EditPolicy(new)
             \/ UNCHANGED labelVars
      PROVE  LabTyped'
  <2>1. UNCHANGED <<doc, crops, files, out, whole>> /\ real' \subseteq People
    BY <1>6 DEF AddRealSelfies, EditPolicy, labelVars, LabTyped
  <2>. QED BY <2>1 DEF LabTyped
<1>. QED BY <1>1, <1>2, <1>3, <1>4, <1>5, <1>6 DEF LabellingNext

\* The types hold of an album nobody has labelled yet.
LEMMA LabellingTypeStarts == ASSUME LabellingInit PROVE LabTyped
<1>1. doc = NoDoc
  BY DEF LabellingInit
<1>2. GroupsOf(doc) = {} /\ doc.person \in [{} -> People \cup {Nobody, Dropped}]
  BY <1>1, NoDocFields DEF GroupsOf
<1>3. doc.selfies \in [People -> Seq(Detections)]
  BY <1>1 DEF NoDoc
<1>. QED BY <1>2, <1>3, NoFilesType DEF LabellingInit, LabTyped

\* They are the type invariant of the labelling.
LEMMA LabellingTyped == ASSUME LabInv, LabTyped PROVE LabellingTypeOK
<1>1. DocTypeOK(doc)
  BY DEF LabInv, LabTyped, DocTypeOK, DocInv, Formed, Marked
<1>2. todo \in Seq(FileNames)
  <2>1. CASE todo = <<>>
    BY <2>1
  <2>2. CASE todo # <<>>
    <3>1. PICK n \in 0..3 : todo = Remaining(n)
      BY <2>2 DEF LabInv, ExportInv
    <3>2. /\ Remaining(0) = Order
          /\ Remaining(1) = <<"labels", "selfies", "manifest">>
          /\ Remaining(2) = <<"selfies", "manifest">>
          /\ Remaining(3) = <<"manifest">>
      BY DEF Remaining
    <3>3. /\ Order \in Seq(FileNames)
          /\ <<"labels", "selfies", "manifest">> \in Seq(FileNames)
          /\ <<"selfies", "manifest">> \in Seq(FileNames)
          /\ <<"manifest">> \in Seq(FileNames)
      BY DEF FileNames, Order
    <3>4. n = 0 \/ n = 1 \/ n = 2 \/ n = 3
      OBVIOUS
    <3>. QED BY <3>1, <3>2, <3>3, <3>4
  <2>. QED BY <2>1, <2>2
<1>. QED BY <1>1, <1>2 DEF LabInv, LabTyped, LabellingTypeOK, DocInv, Marked, HoldInv, ExportInv

\* What a cached index, a report and thresholds.toml hold.
IndexTyped(i) ==
    /\ i.photos \subseteq Photos /\ i.queries \subseteq People
    /\ DOMAIN i.tier \subseteq Detections /\ \A f \in DOMAIN i.tier : i.tier[f] \in {1, 2}
    /\ i.gate \in [0..2 -> Nat]

StoreTyped ==
    /\ \A k \in Keys : cache[k] # NoIndex => IndexTyped(cache[k])
    /\ \A n \in ReportNames : reports[n] # NoReport =>
           DOMAIN reports[n].says.confident \in {Grid, LongGrid}
    /\ tuned # Untuned =>
           tuned.low \in LongGrid /\ tuned.high \in LongGrid /\ "high" \in DOMAIN tuned

\* The gate counts detections by tier.
LEMMA GradedType ==
  ASSUME NEW D, IsFiniteSet(D), NEW pol
  PROVE  Graded(D, pol) \in [0..2 -> Nat]
<1>1. ASSUME NEW t \in 0..2 PROVE Cardinality({d \in D : Tier(d, pol) = t}) \in Nat
  <2> DEFINE S == {d \in D : Tier(d, pol) = t}
  <2>1. S \in SUBSET D
    OBVIOUS
  <2>. HIDE DEF S
  <2>2. Cardinality(S) \in Nat
    BY <2>1, FS_Subset, FS_CardinalityType
  <2>. QED BY <2>2 DEF S
<1>. QED BY <1>1 DEF Graded

\* An index that build_index makes has the type of an index.
LEMMA BuiltTyped ==
  ASSUME HoldInv
  PROVE  IndexTyped(BuildIndex)
<1> DEFINE shown == {g \in Detections : PhotoOf[g] \in files.photos}
           graded == {Album[f] : f \in shown}
<1>1. /\ BuildIndex.photos = files.photos /\ BuildIndex.queries = Enrollable
      /\ DOMAIN BuildIndex.tier \subseteq Detections
      /\ BuildIndex.gate = Graded(graded, policy)
  BY DEF BuildIndex
<1>2. \A f \in DOMAIN BuildIndex.tier : BuildIndex.tier[f] \in {1, 2}
  BY BuiltIndex DEF IsIndex
<1>3. Enrollable \subseteq People /\ files.photos \subseteq Photos
  BY DEF Enrollable, HoldInv
<1>4. IsFiniteSet(graded)
  <2>1. shown \in SUBSET Detections
    OBVIOUS
  <2>2. IsFiniteSet(shown)
    <3>. HIDE DEF shown
    <3>. QED BY <2>1, FS_Subset, AlbumAssumption
  <2> DEFINE seen == [f \in shown |-> Album[f]]
  <2>. HIDE DEF shown
  <2>3. seen \in Surjection(shown, graded)
    BY DEF Surjection
  <2>. QED BY <2>2, <2>3, FS_Surjection
<1>. HIDE DEF graded
<1>5. BuildIndex.gate \in [0..2 -> Nat]
  BY <1>1, <1>4, GradedType
<1>. QED BY <1>1, <1>2, <1>3, <1>5 DEF IndexTyped

\* A report sweeps one of the two grids,
LEMMA ReportGrid ==
  ASSUME NEW kind, NEW index, NEW truth, NEW human
  PROVE  DOMAIN ReportOf(kind, index, truth, human).says.confident \in {Grid, LongGrid}
  BY DEF ReportOf, Sweep

\* and stays a report of one of them wherever it is written.
LEMMA GridWritten ==
  ASSUME StoreTyped, DOMAIN reports = ReportNames,
         NEW kind, NEW index, NEW truth, NEW human,
         Writes(ReportOf(kind, index, truth, human))
  PROVE  \A n \in ReportNames : reports'[n] # NoReport =>
             DOMAIN reports'[n].says.confident \in {Grid, LongGrid}
<1> DEFINE r == ReportOf(kind, index, truth, human)
<1>1. PICK m \in ReportNames : reports' = [reports EXCEPT ![m] = r]
  BY DEF Writes
<1>2. DOMAIN r.says.confident \in {Grid, LongGrid}
  BY ReportGrid
<1>. HIDE DEF r
<1>. QED BY <1>1, <1>2 DEF StoreTyped

\* What select_thresholds chooses it chooses among the thresholds swept, the lower one
\* not above the higher.
LEMMA Chosen ==
  ASSUME NEW r, OfReport(r), Reaching(r.says.confident) # {}
  PROVE  LET high == PickHigh(r.says.confident)
             low  == PickLow(r.says.all, high)
         IN /\ high \in LongGrid /\ low \in LongGrid /\ low <= high
            /\ Precise(r.says.confident[high])
<1> DEFINE rows == r.says.confident
           high == PickHigh(rows)
           low  == PickLow(r.says.all, high)
           eligible == {t \in DOMAIN r.says.all : Recalls(r.says.all[t]) /\ t <= high}
<1>1. /\ DOMAIN rows # {} /\ DOMAIN rows \subseteq LongGrid
      /\ DOMAIN r.says.all = DOMAIN rows
  BY DEF OfReport, Sweep
<1>2. high \in Reaching(rows)
  BY <1>1, HighIs
<1>3. high \in DOMAIN rows /\ Precise(rows[high])
  BY <1>2 DEF Reaching
<1>4. DOMAIN rows \subseteq Int /\ IsFiniteSet(DOMAIN rows)
  <2>1. LongGrid \subseteq Int
    BY GridAssumption
  <2>. QED BY <1>1, <2>1, FS_Subset, ScoresAssumption
<1>5. eligible \in SUBSET DOMAIN rows /\ \A t \in eligible : t <= high
  BY <1>1
<1>6. low = IF eligible = {} THEN Smallest(DOMAIN rows) ELSE Largest(eligible)
  BY <1>1 DEF PickLow
<1>. HIDE DEF rows, high, low, eligible
<1>7. CASE eligible = {}
  <2>1. Smallest(DOMAIN rows) \in DOMAIN rows /\ \A y \in DOMAIN rows : Smallest(DOMAIN rows) <= y
    BY <1>1, <1>4, SmallestIs
  <2>2. low \in DOMAIN rows /\ low <= high
    BY <1>3, <1>6, <1>7, <2>1
  <2>. QED BY <1>1, <1>3, <2>2 DEF rows, high, low
<1>8. CASE eligible # {}
  <2>1. IsFiniteSet(eligible) /\ eligible \subseteq Int
    BY <1>4, <1>5, FS_Subset
  <2>2. Largest(eligible) \in eligible
    BY <1>8, <2>1, LargestIs
  <2>3. low \in DOMAIN rows /\ low <= high
    BY <1>5, <1>6, <1>8, <2>2
  <2>. QED BY <1>1, <1>3, <2>3 DEF rows, high, low
<1>. QED BY <1>7, <1>8

\* No evaluation, no choice of thresholds and no edit breaks the types.
LEMMA StoreTypes ==
  ASSUME LabInv, Swept, StoreTyped, [EvaluationNext]_vars
  PROVE  StoreTyped'
<1>0. DOMAIN cache = Keys /\ DOMAIN reports = ReportNames
  BY DEF Swept
<1>1. ASSUME NEW useCache \in BOOLEAN, NEW allow \in BOOLEAN, Run(useCache, allow)
      PROVE  StoreTyped'
  <2> DEFINE key   == CacheKey(policy, files.photos)
             index == IF useCache /\ cache[key] # NoIndex THEN cache[key] ELSE BuildIndex
  <2>1. /\ cache' = IF useCache THEN [cache EXCEPT ![key] = index] ELSE cache
        /\ \/ Writes(ReportOf("real", index, files.labels, files.manifest.human))
           \/ UNCHANGED reports
    BY <1>1, Zenon DEF Run
  <2>2. key \in Keys
    BY KeyKnown DEF LabInv
  <2>3. IndexTyped(index)
    BY <2>2, BuiltTyped DEF StoreTyped, LabInv
  <2>. HIDE DEF key, index
  <2>4. \A k \in Keys : cache'[k] # NoIndex => IndexTyped(cache'[k])
    BY <1>0, <2>1, <2>2, <2>3 DEF StoreTyped
  <2>5. \A n \in ReportNames : reports'[n] # NoReport =>
            DOMAIN reports'[n].says.confident \in {Grid, LongGrid}
    <3>1. CASE Writes(ReportOf("real", index, files.labels, files.manifest.human))
      BY <1>0, <3>1, GridWritten
    <3>2. CASE UNCHANGED reports
      BY <3>2 DEF StoreTyped
    <3>. QED BY <2>1, <3>1, <3>2
  <2>6. UNCHANGED tuned
    BY <1>1, Zenon DEF Run
  <2>. QED BY <2>4, <2>5, <2>6 DEF StoreTyped, IndexTyped
<1>2. CASE RunSynthetic
  <2>1. UNCHANGED <<cache, tuned>> /\ Writes(ReportOf("synthetic", SynthIndex, SynthTruth, 1))
    BY <1>2 DEF RunSynthetic
  <2>2. \A n \in ReportNames : reports'[n] # NoReport =>
            DOMAIN reports'[n].says.confident \in {Grid, LongGrid}
    BY <1>0, <2>1, GridWritten
  <2>. QED BY <2>1, <2>2 DEF StoreTyped, IndexTyped
<1>3. ASSUME NEW n \in ReportNames, Select(n) PROVE StoreTyped'
  <2> DEFINE says == reports[n].says
             high == PickHigh(says.confident)
             low  == PickLow(says.all, high)
  <2>1. /\ reports[n] # NoReport /\ Reaching(says.confident) # {}
        /\ tuned' = [high |-> high, low |-> low, at |-> says.confident[high],
                     kind |-> says.kind, report |-> n, digest |-> says]
        /\ UNCHANGED <<cache, reports>>
    BY <1>3 DEF Select
  <2>2. OfReport(reports[n])
    BY <2>1 DEF Swept
  <2>3. high \in LongGrid /\ low \in LongGrid
    BY <2>1, <2>2, Chosen
  <2>. HIDE DEF says, high, low
  <2>4. tuned'.low \in LongGrid /\ tuned'.high \in LongGrid /\ "high" \in DOMAIN tuned'
    BY <2>1, <2>3
  <2>. QED BY <2>1, <2>4 DEF StoreTyped, IndexTyped
<1>4. ASSUME NEW t \in Grid, HandEdit(t) PROVE StoreTyped'
  <2>1. tuned # Untuned /\ tuned' = [tuned EXCEPT !.high = t] /\ UNCHANGED <<cache, reports>>
    BY <1>4 DEF HandEdit
  <2>2. tuned'.low = tuned.low /\ tuned'.high = t /\ "high" \in DOMAIN tuned'
    BY <2>1 DEF StoreTyped
  <2>3. t \in LongGrid
    BY GridAssumption
  <2>. QED BY <2>1, <2>2, <2>3 DEF StoreTyped, IndexTyped
<1>5. ASSUME NEW n \in ReportNames, CommitReport(n) PROVE StoreTyped'
  BY <1>5 DEF CommitReport, StoreTyped, IndexTyped
<1>6. CASE UNCHANGED evalVars
  BY <1>6 DEF evalVars, StoreTyped, IndexTyped
<1>. QED BY <1>1, <1>2, <1>3, <1>4, <1>5, <1>6 DEF EvaluationNext, vars

\* No evaluation, choice of thresholds or edit touches the labelling.
LEMMA EvaluationLeavesLabels ==
  ASSUME [EvaluationNext]_vars
  PROVE  [LabellingNext]_labelVars
<1>1. ASSUME NEW a \in BOOLEAN, NEW b \in BOOLEAN, Run(a, b) PROVE UNCHANGED labelVars
  BY <1>1, Zenon DEF Run
<1>. QED BY <1>1 DEF EvaluationNext, RunSynthetic, Select, CommitReport, HandEdit, vars

\* Every count of state.json and of a report stays a count, for any album and whatever
\* is reviewed, exported, evaluated and chosen: the groups of an album have numbers below
\* that of its faces, moving a face leaves no group with fewer than none of it, and
\* thresholds that are chosen were swept.
THEOREM EvaluationTypeCorrect == EvaluationSpec => []TypeOK
<1> DEFINE Inv == LabInv /\ Swept /\ LabTyped /\ StoreTyped
<1>1. EvaluationInit => Inv
  BY InitSweeps, LabellingTypeStarts DEF EvaluationInit, StoreTyped
<1>2. Inv /\ [EvaluationNext]_vars => Inv'
  <2>. SUFFICES ASSUME Inv, [EvaluationNext]_vars PROVE Inv'
    OBVIOUS
  <2>1. [LabellingNext]_labelVars
    BY EvaluationLeavesLabels
  <2>. QED BY <2>1, StepSweeps, LabellingTypes, StoreTypes
<1>3. Inv => TypeOK
  <2>. SUFFICES ASSUME Inv PROVE TypeOK
    OBVIOUS
  <2>1. LabellingTypeOK
    BY LabellingTyped
  <2>2. \A i \in Indexes : IndexTyped(i)
    BY DEF StoreTyped, Indexes
  <2>3. ASSUME NEW r \in Written
        PROVE  /\ DOMAIN r.says.confident \in {Grid, LongGrid}
               /\ DOMAIN r.says.all = DOMAIN r.says.confident
               /\ \A t \in DOMAIN r.says.all :
                      r.says.all[t] \in RowType /\ r.says.confident[t] \in RowType
    <3>1. OfReport(r) /\ DOMAIN r.says.confident \in {Grid, LongGrid}
      BY DEF Swept, StoreTyped, Written
    <3>2. /\ DOMAIN r.says.all = DOMAIN r.says.confident
          /\ \A t \in DOMAIN r.says.all :
                /\ r.says.all[t] = Row(r.index, r.truth, {1, 2}, t)
                /\ r.says.confident[t] = Row(r.index, r.truth, {2}, t)
      BY <3>1 DEF OfReport, Sweep
    <3>3. ASSUME NEW tiers, NEW t PROVE Row(r.index, r.truth, tiers, t) \in RowType
      <4>1. IsIndex(r.index) /\ IsFiniteSet(r.truth)
        BY <3>1 DEF OfReport
      <4>2. Splits(Row(r.index, r.truth, tiers, t), Predicted(r.index, tiers, t),
                   Appearances(r.index, r.truth))
        BY <4>1, RowIs, Zenon
      <4>. QED BY <4>2 DEF Splits, Row, RowType
    <3>. QED BY <3>1, <3>2, <3>3
  <2>. QED BY <2>1, <2>2, <2>3 DEF TypeOK, IndexTyped, StoreTyped
<1>. QED BY <1>1, <1>2, <1>3, PTL DEF EvaluationSpec

-----------------------------------------------------------------------------
(* What select_thresholds writes. *)

\* select_thresholds --write leaves a file that load_thresholds takes: from any report
\* it does not refuse, the two thresholds it picks are positive and in order, and the
\* report it names is precise enough at the higher one.
LEMMA SelectLoads ==
  ASSUME Swept, tuned # Untuned, ~edited,
         beside[tuned.report] # NoReport, beside[tuned.report].says = tuned.digest
  PROVE  Accepted
<1> DEFINE r    == beside[tuned.report]
           high == PickHigh(r.says.confident)
           low  == PickLow(r.says.all, high)
<1>1. /\ r.says.kind = "real" /\ Reaching(r.says.confident) # {}
      /\ tuned.high = high /\ tuned.low = low
      /\ tuned.kind = "real" /\ tuned.at = r.says.confident[high]
  BY DEF Swept
<1>2. OfReport(r)
  BY DEF Swept
<1>3. low \in LongGrid /\ low <= high /\ Precise(r.says.confident[high])
  BY <1>1, <1>2, Chosen
<1>. HIDE DEF r, high, low
<1>4. 0 < low
  BY <1>3, GridAssumption
<1>. QED BY <1>1, <1>3, <1>4 DEF Accepted

\* The search starts with whatever select_thresholds has written, once the report it was
\* written from is committed alongside: the chooser and the loader, two programs, agree
\* on what thresholds.toml may say, whatever was reported or overwritten in between.
THEOREM SelectedAlwaysLoads ==
    EvaluationSpec =>
        [](/\ tuned # Untuned /\ ~edited
           /\ beside[tuned.report] # NoReport /\ beside[tuned.report].says = tuned.digest
           => Accepted)
<1>1. EvaluationInit => LabInv /\ Swept
  BY InitSweeps
<1>2. (LabInv /\ Swept) /\ [EvaluationNext]_vars => (LabInv /\ Swept)'
  BY StepSweeps
<1>3. LabInv /\ Swept =>
          (/\ tuned # Untuned /\ ~edited
           /\ beside[tuned.report] # NoReport /\ beside[tuned.report].says = tuned.digest
           => Accepted)
  BY SelectLoads
<1>. QED BY <1>1, <1>2, <1>3, PTL DEF EvaluationSpec

\* What eval.run and select_thresholds do is, to the labelling, nothing: the whole chain
\* implements the labelling alone, and what is proved of it holds of the chain.
THEOREM EvaluationImplementsLabelling == EvaluationSpec => LabellingSpec
<1>1. EvaluationInit => LabellingInit
  BY DEF EvaluationInit
<1>2. [EvaluationNext]_vars => [LabellingNext]_labelVars
  BY EvaluationLeavesLabels
<1>. QED BY <1>1, <1>2, PTL DEF EvaluationSpec, LabellingSpec
=============================================================================
