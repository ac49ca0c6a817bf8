----------------------------- MODULE Labelling -----------------------------
(***************************************************************************)
(* eval.label: the state.json that `init` makes of an album and the review *)
(* screens change one request at a time, and the dataset files `export`    *)
(* writes from it, one after the other.  One person works on one dataset,  *)
(* one command at a time; a command may be killed between two writes.      *)
(*                                                                         *)
(* A detection is a number, in the order of detection; Album gives what    *)
(* FaceGate grades.  state.json is the record doc, loaded and saved whole  *)
(* by every request.  A group's person is Dropped instead of being None    *)
(* beside a flag: dropping clears the person and naming clears the flag.   *)
(***************************************************************************)
EXTENDS FaceGate, Dbscan, Sequences

CONSTANTS
    Photos, People,
    Detections,   \* 1..n
    PhotoOf,      \* detection -> photo
    Album,        \* detection -> what the gate sees of it, and its id
    CropShows,    \* detection -> the detections in an enrolment image cut from it
    Alike,        \* pairs of detections within the provisional eps
    Policies,     \* versions of quality.toml
    Shipped,      \* the one in the repository
    Nobody, Dropped, NoGroup,
    StalePages,   \* a page in the browser may be older than state.json
    MaxSelfies,   \* bound: faces picked per person
    MaxEdits, MaxExports, MaxInits, MaxPolicyEdits

ASSUME AlbumAssumption ==
    /\ IsFiniteSet(Detections) /\ Detections = 1..Cardinality(Detections)
    /\ PhotoOf \in [Detections -> Photos]
    /\ \A f \in Detections : Album[f].id = f
    /\ \A f \in Detections : \A g \in CropShows[f] :
           g \in Detections /\ PhotoOf[g] = PhotoOf[f]
    /\ Shipped \in Policies /\ StalePages \in BOOLEAN /\ MaxSelfies \in Nat
    /\ Nobody \notin People /\ Dropped \notin People /\ NoGroup \notin Int

VARIABLES
    doc,     \* state.json
    verdict, \* (photo, person) -> what the person reviewing last said of it
    real,    \* the people with selfies of their own in selfies/<person>/
    crops,   \* (person, number) -> the face that selfies/<person>-<number>.jpg shows
    files,   \* photos.csv, labels.csv, selfies.csv and dataset.toml
    have,    \* which of them exist
    todo,    \* the files the running export has still to write
    out,     \* and what it will write
    whole,   \* files and crops are those of one export that came to its end
    policy,  \* quality.toml
    budget   \* how many more inits, edits, exports and policy edits to come

labelVars == <<doc, verdict, real, crops, files, have, todo, out, whole, policy, budget>>

Pairs == Photos \X People
Groups == 0..(Cardinality(Detections) - 1)
FileNames == {"photos", "labels", "selfies", "manifest"}
GroupsOf(d) == DOMAIN d.person
Idle == todo = <<>>
Ready == doc.faces # {} /\ Idle

Spend(what) ==
    /\ budget[what] > 0
    /\ budget' = [budget EXCEPT ![what] = @ - 1]

NoDoc == [faces |-> {}, groupOf |-> [f \in Detections |-> NoGroup],
          members |-> <<>>, person |-> <<>>, labels |-> [k \in Pairs |-> "no"],
          removed |-> {}, selfies |-> [p \in People |-> <<>>]]
NoFiles == [photos |-> {}, labels |-> {}, selfies |-> {}, manifest |-> [human |-> 0, held |-> 0]]

DocTypeOK(d) ==
    /\ d.faces \subseteq Detections /\ GroupsOf(d) \subseteq Groups
    /\ d.groupOf \in [Detections -> GroupsOf(d) \cup {NoGroup}]
    /\ d.members \in [GroupsOf(d) -> [Detections -> Nat]]
    /\ d.person \in [GroupsOf(d) -> People \cup {Nobody, Dropped}]
    /\ d.labels \in [Pairs -> {"no", "cluster", "human"}]
    /\ d.removed \subseteq Pairs
    /\ d.selfies \in [People -> Seq(Detections)]
FilesType ==
    [photos : SUBSET Photos, labels : SUBSET Pairs, selfies : SUBSET (People \X Nat),
     manifest : [human : Nat, held : Nat]]

LabellingTypeOK ==
    /\ DocTypeOK(doc)
    /\ verdict \in [Pairs -> {"none", "added", "removed"}]
    /\ real \subseteq People
    /\ crops \in [People \X (1..MaxSelfies) -> Detections \cup {0}]
    /\ files \in FilesType /\ out \in FilesType
    /\ have \subseteq FileNames
    /\ todo \in Seq(FileNames)
    /\ whole \in BOOLEAN
    /\ policy \in Policies

LabellingInit ==
    /\ doc = NoDoc
    /\ verdict = [k \in Pairs |-> "none"]
    /\ real = {}
    /\ crops = [k \in People \X (1..MaxSelfies) |-> 0]
    /\ files = NoFiles
    /\ have = {}
    /\ todo = <<>>
    /\ out = NoFiles
    /\ whole = FALSE
    /\ policy = Shipped
    /\ budget = [inits |-> MaxInits, edits |-> MaxEdits, exports |-> MaxExports,
                 policies |-> MaxPolicyEdits]

onDisk == <<real, crops, files, have, todo, out, whole, policy>>

-----------------------------------------------------------------------------
(* init *)

\* A face that passes the gate gets a group when DBSCAN finds one.  --force throws
\* an earlier state.json away; what was exported stays.
CmdInit ==
    /\ Spend("inits")
    /\ Idle
    /\ LET faces  == {f \in Detections : Tier(Album[f], policy) > 0}
           near   == [f \in faces |-> {g \in faces : f = g \/ {f, g} \in Alike}]
           label  == Dbscan(Cardinality(Detections), near, 2)
           of     == [f \in Detections |->
                         IF f \in faces /\ label[f] # Noise THEN label[f] ELSE NoGroup]
           groups == {of[f] : f \in Detections} \ {NoGroup}
       IN /\ faces # {}
          /\ doc' = [NoDoc EXCEPT
                 !.faces   = faces,
                 !.groupOf = of,
                 !.members = [g \in groups |-> [f \in Detections |-> IF of[f] = g THEN 1 ELSE 0]],
                 !.person  = [g \in groups |-> Nobody]]
    /\ verdict' = [k \in Pairs |-> "none"]
    /\ UNCHANGED onDisk

-----------------------------------------------------------------------------
(* review *)

Proposed(d) ==
    {k \in Pairs : \E g \in GroupsOf(d), f \in Detections :
        d.members[g][f] > 0 /\ PhotoOf[f] = k[1] /\ d.person[g] = k[2]}

\* A faulty variant of Recomputed: the proposals overwrite what a human added.
RecomputedAnew(d) ==
    [k \in Pairs |->
        IF k \in d.removed THEN "no"
        ELSE IF k \in Proposed(d) THEN "cluster"
        ELSE d.labels[k]]

\* _recompute_cluster_labels(): proposals anew, human additions on top of them,
\* removals last.
Recomputed(d) ==
    [k \in Pairs |->
        IF k \in d.removed THEN "no"
        ELSE IF d.labels[k] = "human" THEN "human"
        ELSE IF k \in Proposed(d) THEN "cluster"
        ELSE "no"]

\* One POST: apply, recompute, save.
Post(d) ==
    /\ Ready
    /\ Spend("edits")
    /\ doc' = [d EXCEPT !.labels = Recomputed(d)]
    /\ UNCHANGED onDisk

NameGroup(g, p) ==
    /\ g \in GroupsOf(doc)
    /\ Post([doc EXCEPT !.person[g] = p])
    /\ UNCHANGED verdict

\* Drop and undrop; a group that was not dropped keeps its person when undropped.
DropGroup(g) ==
    /\ g \in GroupsOf(doc)
    /\ Post([doc EXCEPT !.person[g] = IF @ = Dropped THEN Nobody ELSE Dropped])
    /\ UNCHANGED verdict

\* A faulty variant of MoveFace: the face stays in its old group's list.
MoveFaceCopies(f, target) ==
    /\ f \in doc.faces
    /\ target \in GroupsOf(doc) \cup {NoGroup}
    /\ Post([doc EXCEPT
           !.members = IF target = NoGroup THEN @ ELSE [@ EXCEPT ![target][f] = @ + 1],
           !.groupOf[f] = target])
    /\ UNCHANGED verdict

\* append to the target's list, then remove one occurrence from the source's
MoveFace(f, target) ==
    LET source == doc.groupOf[f]
        joined == IF target = NoGroup THEN doc.members
                  ELSE [doc.members EXCEPT ![target][f] = @ + 1]
    IN /\ f \in doc.faces
       /\ target \in GroupsOf(doc) \cup {NoGroup}
       /\ source # NoGroup => joined[source][f] > 0
       /\ Post([doc EXCEPT
              !.members = IF source = NoGroup THEN joined
                          ELSE [joined EXCEPT ![source][f] = @ - 1],
              !.groupOf[f] = target])
       /\ UNCHANGED verdict

\* Handlers ask nothing of what they are sent.  What there is to send, the pages say:
\* the misses screen offers photographs to a person some face is assigned to: the
\* nearest and a random sample, which in a small album is every one without the
\* label, photographs without a face and those the label was removed from included.
Candidates(d, p) ==
    IF \E f \in d.faces : d.groupOf[f] # NoGroup /\ d.person[d.groupOf[f]] = p
    THEN {photo \in Photos : d.labels[<<photo, p>>] = "no"}
    ELSE {}

AddLabel(photo, p) ==
    /\ StalePages \/ photo \in Candidates(doc, p)
    /\ Post([doc EXCEPT !.labels[<<photo, p>>] = "human",
                        !.removed = @ \ {<<photo, p>>}])
    /\ verdict' = [verdict EXCEPT ![<<photo, p>>] = "added"]

RemoveLabel(photo, p) ==
    /\ StalePages \/ doc.labels[<<photo, p>>] # "no"
    /\ Post([doc EXCEPT !.removed = @ \cup {<<photo, p>>},
                        !.labels[<<photo, p>>] = "no"])
    /\ verdict' = [verdict EXCEPT ![<<photo, p>>] = "removed"]

\* The selfies screen offers the faces in a group of that person.
SetSelfies(p, chosen) ==
    /\ \A i \in DOMAIN chosen :
           LET g == doc.groupOf[chosen[i]]
           IN /\ chosen[i] \in doc.faces
              /\ StalePages \/ (g # NoGroup /\ doc.person[g] = p)
    /\ Post([doc EXCEPT !.selfies[p] = chosen])
    /\ UNCHANGED verdict

Choices == UNION {[1..n -> Detections] : n \in 0..MaxSelfies}

Review ==
    \/ \E g \in Groups, p \in People \cup {Nobody} : NameGroup(g, p)
    \/ \E g \in Groups : DropGroup(g)
    \/ \E f \in Detections, g \in Groups \cup {NoGroup} : MoveFace(f, g)
    \/ \E photo \in Photos, p \in People : AddLabel(photo, p)
    \/ \E photo \in Photos, p \in People : RemoveLabel(photo, p)
    \/ \E p \in People, chosen \in Choices : SetSelfies(p, chosen)

-----------------------------------------------------------------------------
(* export *)

Named(d) ==
    {p \in People : \/ \E g \in GroupsOf(d) : d.person[g] = p
                    \/ \E photo \in Photos : d.labels[<<photo, p>>] # "no"}

\* _write_selfies(): selfies of their own are preferred, and hold nothing out.
SelfieRows(d, p) ==
    IF p \in real THEN {<<p, 0>>} ELSE {<<p, n>> : n \in DOMAIN d.selfies[p]}
HeldOut(d) ==
    UNION {{PhotoOf[d.selfies[p][n]] : n \in DOMAIN d.selfies[p]} : p \in Named(d) \ real}

LabelsLeft(d) == {k \in Pairs : d.labels[k] # "no" /\ k[1] \notin HeldOut(d)}

\* A faulty variant of Problems: labels are looked for before the holdout.
ProblemsEarly(d) ==
    \E p \in Named(d) : \/ SelfieRows(d, p) = {}
                        \/ \A photo \in Photos : d.labels[<<photo, p>>] = "no"

Problems(d) ==
    \E p \in Named(d) : \/ SelfieRows(d, p) = {}
                        \/ \A k \in LabelsLeft(d) : k[2] # p

\* A faulty variant of Exported: held-out photographs are taken off the count.
ExportedMiscounted(d) ==
    [photos   |-> Photos \ HeldOut(d),
     labels   |-> LabelsLeft(d),
     selfies  |-> UNION {SelfieRows(d, p) : p \in Named(d)},
     manifest |-> [human |-> Cardinality({k \in Pairs : d.labels[k] = "human"})
                             - Cardinality(HeldOut(d)),
                   held  |-> Cardinality(HeldOut(d))]]

Exported(d) ==
    [photos   |-> Photos \ HeldOut(d),
     labels   |-> LabelsLeft(d),
     selfies  |-> UNION {SelfieRows(d, p) : p \in Named(d)},
     manifest |-> [human |-> Cardinality({k \in LabelsLeft(d) : d.labels[k] = "human"}),
                   held  |-> Cardinality(HeldOut(d))]]

\* The enrolment images are cut first, over those of an earlier export; with a
\* problem export ends there.
ExportSelfies ==
    /\ Ready
    /\ Named(doc) # {}
    /\ Spend("exports")
    /\ crops' = [k \in DOMAIN crops |->
           IF k[1] \in Named(doc) \ real /\ k[2] \in DOMAIN doc.selfies[k[1]]
           THEN doc.selfies[k[1]][k[2]] ELSE crops[k]]
    /\ IF Problems(doc)
       THEN /\ whole' = (whole /\ crops' = crops)
            /\ UNCHANGED <<todo, out>>
       ELSE /\ whole' = FALSE
            /\ todo' = <<"photos", "labels", "selfies", "manifest">>
            /\ out' = Exported(doc)
    /\ UNCHANGED <<doc, verdict, real, files, have, policy>>

\* photos.csv, labels.csv, selfies.csv, dataset.toml
ExportFile ==
    /\ ~Idle
    /\ LET f == Head(todo)
       IN /\ files' = [files EXCEPT ![f] = out[f]]
          /\ have' = have \cup {f}
    /\ todo' = Tail(todo)
    /\ whole' = (Len(todo) = 1)
    /\ out' = IF Len(todo) = 1 THEN NoFiles ELSE out
    /\ UNCHANGED <<doc, verdict, real, crops, policy, budget>>

KillExport ==
    /\ ~Idle
    /\ todo' = <<>>
    /\ out' = NoFiles
    /\ UNCHANGED <<doc, verdict, real, crops, files, have, whole, policy, budget>>

\* Somebody drops real selfies into selfies/<person>/.
AddRealSelfies(p) ==
    /\ Ready /\ p \notin real
    /\ Spend("edits")
    /\ real' = real \cup {p}
    /\ UNCHANGED <<doc, verdict, crops, files, have, todo, out, whole, policy>>

\* Somebody edits quality.toml.
EditPolicy(new) ==
    /\ Idle /\ new # policy
    /\ Spend("policies")
    /\ policy' = new
    /\ UNCHANGED <<doc, verdict, real, crops, files, have, todo, out, whole>>

LabellingNext ==
    \/ CmdInit
    \/ Review
    \/ ExportSelfies
    \/ ExportFile
    \/ KillExport
    \/ \E p \in People : AddRealSelfies(p)
    \/ \E new \in Policies : EditPolicy(new)

LabellingSpec == LabellingInit /\ [][LabellingNext]_labelVars

-----------------------------------------------------------------------------

\* load_dataset() accepts the four files.
Loads ==
    /\ have = FileNames
    /\ files.photos # {}
    /\ files.selfies # {}
    /\ \A k \in files.labels : k[1] \in files.photos /\ \E r \in files.selfies : r[1] = k[2]
    /\ \A r \in files.selfies : \E k \in files.labels : k[2] = r[1]

\* What a person said of a photograph stands, whatever groups are named, dropped
\* or pulled apart before or after; everything else is labelled exactly where a
\* face of a group with that name is.
LabelsFollowReview ==
    \A k \in Pairs : doc.labels[k] =
        CASE verdict[k] = "added" -> "human"
          [] verdict[k] = "removed" -> "no"
          [] OTHER -> IF \E f \in doc.faces :
                           /\ PhotoOf[f] = k[1]
                           /\ doc.groupOf[f] # NoGroup
                           /\ doc.person[doc.groupOf[f]] = k[2]
                      THEN "cluster" ELSE "no"

\* What export writes and calls done is a dataset that the loader accepts: nobody
\* without an enrolment image, without a label or labelled in a held-out photograph.
ExportLoads == whole => Loads
=============================================================================
