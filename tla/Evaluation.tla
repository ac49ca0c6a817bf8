----------------------------- MODULE Evaluation -----------------------------
(***************************************************************************)
(* eval.run over the files that eval.label exports, through the index      *)
(* cache, to a report; eval.select_thresholds from a report to             *)
(* config/thresholds.toml; and the loader that accepts that file.  Files   *)
(* put together by hand, which say nothing of any labelling, and a         *)
(* --target-precision above the shipped one are left out; a precision is   *)
(* compared before its report rounds it to six places.                     *)
(*                                                                         *)
(* A report is what its JSON says, and, for the properties, the index and  *)
(* the labels behind it.  Its digest is what it says.                      *)
(***************************************************************************)
EXTENDS Labelling, Metrics

CONSTANTS
    Grid,         \* the thresholds swept, and
    LongGrid,     \* those swept when none of them is precise enough
    Likeness,     \* person -> detection -> similarity to the person
    Same,         \* similarity of a face to a template made of it
    SynthIndex, SynthTruth,  \* what eval.synth generates
    ReportNames,
    NoIndex, NoReport, Untuned,
    MaxRuns, MaxTunings

ASSUME GridAssumption ==
    /\ Grid # {} /\ Grid \subseteq LongGrid /\ LongGrid \subseteq Nat \ {0}
    /\ Floor \in Nat

ASSUME ScoresAssumption ==
    /\ IsFiniteSet(Photos) /\ IsFiniteSet(People) /\ IsFiniteSet(LongGrid)
    /\ Likeness \in [People -> [Detections -> Int]] /\ Same \in Int
    /\ IsIndex(SynthIndex) /\ IsFiniteSet(SynthTruth)

VARIABLES
    cache,   \* cache key -> index
    reports, \* name -> report, in eval/reports
    beside,  \* name -> report, committed alongside thresholds.toml
    tuned,   \* thresholds.toml
    edited,  \* somebody changed a number in it by hand
    runs,    \* how many more evaluations
    tunings  \* and changes of thresholds.toml

evalVars == <<cache, reports, beside, tuned, edited, runs, tunings>>
vars == <<labelVars, evalVars>>

\* A faulty variant of CacheKey: the policy is not in it.
CacheKeyOfDataset(pol, photos) == <<CHOOSE v \in Policies : TRUE, Cardinality(photos)>>

\* cache_key(): of the dataset only its name and how many photos it has.
CacheKey(pol, photos) == <<pol, Cardinality(photos)>>

Keys == Policies \X (0..Cardinality(Photos))

-----------------------------------------------------------------------------
(* eval.run *)

\* The faces that enrol a person: of each image of theirs the one usable face it
\* shows.  Selfies of their own show them, and no face of the album.
FramesOf(p) == {r \in files.selfies : r[1] = p /\ r[2] > 0}
ShownIn(r) == {Album[f] : f \in CropShows[crops[r]]}
TemplateOf(p) ==
    UNION {{d.id : d \in Usable(ShownIn(r), policy)} :
               r \in {q \in FramesOf(p) : EnrolsFrom(ShownIn(q), policy)}}
Enrollable == {p \in People : <<p, 0>> \in files.selfies \/ TemplateOf(p) # {}}

\* build_index()
BuildIndex ==
    LET faces == {f \in Detections : PhotoOf[f] \in files.photos /\ Tier(Album[f], policy) > 0}
    IN [photos  |-> files.photos,
        tier    |-> [f \in faces |-> Tier(Album[f], policy)],
        photoOf |-> [f \in faces |-> PhotoOf[f]],
        queries |-> Enrollable,
        sim     |-> [p \in Enrollable |-> [f \in faces |->
                        IF f \in TemplateOf(p) THEN Same ELSE Likeness[p][f]]],
        gate    |-> Graded({Album[f] : f \in {g \in Detections : PhotoOf[g] \in files.photos}},
                           policy),
        policy  |-> policy,
        made    |-> [p \in Enrollable |-> TemplateOf(p)],
        whole   |-> whole]

\* The report of an index and labels: the confident set is swept over tier 2 only,
\* further up when that does not get precise; the other over every face.
ReportOf(kind, index, truth, human) ==
    LET near == Sweep(index, truth, {2}, Grid)
        grid == IF Reaching(near) = {} THEN LongGrid ELSE Grid
    IN [says  |-> [kind        |-> kind,
                   human       |-> human,
                   policy      |-> policy,
                   gate        |-> index.gate,
                   confident   |-> Sweep(index, truth, {2}, grid),
                   all         |-> Sweep(index, truth, {1, 2}, grid),
                   unreachable |-> Unreachable(index, truth, {1, 2}),
                   hidden      |-> Unreachable(index, truth, {2})],
        index |-> index,
        truth |-> truth]

Writes(r) == \E n \in ReportNames : reports' = [reports EXCEPT ![n] = r]

\* main() over the exported files.  Without a human label it needs a flag; without
\* anybody enrolled it ends; a label on a photograph that a cached index does not
\* know ends it too, before any report.
Run(useCache, allowUncorrected) ==
    LET key   == CacheKey(policy, files.photos)
        hit   == useCache /\ cache[key] # NoIndex
        index == IF hit THEN cache[key] ELSE BuildIndex
    IN /\ Idle /\ Loads
       /\ files.manifest.human > 0 \/ allowUncorrected
       /\ runs > 0 /\ runs' = runs - 1
       /\ index.queries # {}
       /\ cache' = IF useCache THEN [cache EXCEPT ![key] = index] ELSE cache
       /\ IF \A k \in files.labels : k[2] \in index.queries => k[1] \in index.photos
          THEN Writes(ReportOf("real", index, files.labels, files.manifest.human))
          ELSE UNCHANGED reports
       /\ UNCHANGED <<labelVars, beside, tuned, edited, tunings>>

\* main() --synthetic: no dataset, no labelling, no cache.
RunSynthetic ==
    /\ runs > 0 /\ runs' = runs - 1
    /\ Writes(ReportOf("synthetic", SynthIndex, SynthTruth, 1))
    /\ UNCHANGED <<labelVars, cache, beside, tuned, edited, tunings>>

-----------------------------------------------------------------------------
(* thresholds.toml *)

\* select_thresholds --write
Select(n) ==
    /\ tunings > 0 /\ tunings' = tunings - 1
    /\ reports[n] # NoReport
    /\ LET says == reports[n].says
           high == PickHigh(says.confident)
       IN /\ says.human > 0
          /\ says.kind = "real"
          /\ Reaching(says.confident) # {}
          /\ tuned' = [high |-> high, low |-> PickLow(says.all, high),
                       at |-> says.confident[high], kind |-> says.kind,
                       report |-> n, digest |-> says]
    /\ edited' = FALSE
    /\ UNCHANGED <<labelVars, cache, reports, beside, runs>>

\* "Commit the report alongside it": whoever tunes puts there, or does not, what now
\* has the name that the thresholds were written with.
CommitReport(n) ==
    /\ tuned # Untuned /\ tuned.report = n
    /\ beside[n] # reports[n]
    /\ beside' = [beside EXCEPT ![n] = reports[n]]
    /\ UNCHANGED <<labelVars, cache, reports, tuned, edited, runs, tunings>>

\* "GENERATED FILE - do not edit by hand."
HandEdit(t) ==
    /\ tunings > 0 /\ tunings' = tunings - 1
    /\ tuned # Untuned /\ tuned.high # t
    /\ tuned' = [tuned EXCEPT !.high = t]
    /\ edited' = TRUE
    /\ UNCHANGED <<labelVars, cache, reports, beside, runs>>

\* A faulty variant of Accepted: the digest is not compared.
AcceptedUnchecked ==
    /\ tuned # Untuned
    /\ 0 < tuned.low /\ tuned.low <= tuned.high
    /\ tuned.kind = "real"
    /\ Precise(tuned.at)
    /\ beside[tuned.report] # NoReport

\* load_thresholds() returns, and the search path may run.  The report is looked for
\* by its bare name: beside thresholds.toml, not where eval.run has written it.
Accepted ==
    /\ tuned # Untuned
    /\ 0 < tuned.low /\ tuned.low <= tuned.high
    /\ tuned.kind = "real"
    /\ Precise(tuned.at)
    /\ beside[tuned.report] # NoReport
    /\ beside[tuned.report].says = tuned.digest

\* Thresholds.bucket()
Bucket(similarity, tier) ==
    IF similarity >= tuned.high /\ tier >= 2 THEN "confident"
    ELSE IF similarity >= tuned.low THEN "maybe" ELSE "reject"

\* rank(): a photograph is shown by the closest of its faces that are not rejected, of
\* whichever tier, and by any of the equally close; that face's bucket is its own.
Delivered(index) ==
    {k \in PairsOf(index) :
        LET Nearness(f) == index.sim[k[2]][f]
            shown == {f \in DOMAIN index.tier : index.photoOf[f] = k[1]
                                               /\ Bucket(Nearness(f), index.tier[f]) # "reject"}
        IN \E f \in shown : /\ \A g \in shown : Nearness(g) <= Nearness(f)
                            /\ Bucket(Nearness(f), index.tier[f]) = "confident"}

EvaluationInit ==
    /\ LabellingInit
    /\ cache = [k \in Keys |-> NoIndex]
    /\ reports = [n \in ReportNames |-> NoReport]
    /\ beside = [n \in ReportNames |-> NoReport]
    /\ tuned = Untuned
    /\ edited = FALSE
    /\ runs = MaxRuns
    /\ tunings = MaxTunings

EvaluationNext ==
    \/ LabellingNext /\ UNCHANGED evalVars
    \/ \E useCache, allowUncorrected \in BOOLEAN : Run(useCache, allowUncorrected)
    \/ RunSynthetic
    \/ \E n \in ReportNames : Select(n) \/ CommitReport(n)
    \/ \E t \in Grid : HandEdit(t)

EvaluationSpec == EvaluationInit /\ [][EvaluationNext]_vars

-----------------------------------------------------------------------------

RowType == [tp : Nat, fp : Nat, fn : Nat]
Indexes == {cache[k] : k \in Keys} \ {NoIndex}
Written == {reports[n] : n \in ReportNames} \ {NoReport}

\* Every count of state.json and of a report stays a count.
TypeOK ==
    /\ LabellingTypeOK
    /\ \A i \in Indexes :
           /\ i.photos \subseteq Photos /\ i.queries \subseteq People
           /\ DOMAIN i.tier \subseteq Detections /\ \A f \in DOMAIN i.tier : i.tier[f] \in {1, 2}
           /\ i.gate \in [0..2 -> Nat]
    /\ \A r \in Written :
           /\ DOMAIN r.says.confident \in {Grid, LongGrid}
           /\ DOMAIN r.says.all = DOMAIN r.says.confident
           /\ \A t \in DOMAIN r.says.all :
                  r.says.all[t] \in RowType /\ r.says.confident[t] \in RowType
    /\ tuned # Untuned => tuned.low \in LongGrid /\ tuned.high \in LongGrid

\* A report is of the gate it names, cached index or not; and where the files were
\* those of an export that came to its end, no template is scored against the
\* photograph that it was cut from.
ReportHonest ==
    \A r \in Written : r.says.kind = "real" =>
        /\ r.index.policy = r.says.policy
        /\ r.index.whole => \A p \in r.index.queries : \A f \in r.index.made[p] :
                                PhotoOf[f] \notin r.index.photos

\* "Recall is conditioned on nothing": an appearance whose face was never indexed
\* stays a miss at every threshold from the floor up, what tier 2 finds is found with
\* every tier, and every row counts the same appearances.
MissesCount ==
    \A r \in Written :
        LET appearances == Cardinality({k \in r.truth : k[2] \in r.index.queries})
        IN \A t \in DOMAIN r.says.all :
               LET sure == r.says.confident[t]
                   any  == r.says.all[t]
               IN /\ sure.tp + sure.fn = appearances
                  /\ any.tp + any.fn = appearances
                  /\ sure.tp <= any.tp /\ sure.fp <= any.fp
                  /\ t >= Floor => any.fn >= r.says.unreachable /\ sure.fn >= r.says.hidden

\* Thresholds that load, and that nobody edited, are those of a report of real
\* photographs with human labels: in it the chosen row is precise enough and no lower
\* one is, and what the search would deliver unseen of the same photographs is
\* nothing that row has not counted, and no more of it wrong than the row says.
TunedIsEarned ==
    Accepted /\ ~edited =>
        LET r    == beside[tuned.report]
            sent == Delivered(r.index)
        IN /\ r.says.human > 0 /\ r.says.kind = "real"
           /\ Precise(r.says.confident[tuned.high])
           /\ \A t \in DOMAIN r.says.confident :
                  t < tuned.high => ~Precise(r.says.confident[t])
           /\ \A k \in sent : Score(r.index, {2}, k[2], k[1]) >= tuned.high
           /\ Cardinality(sent \ r.truth) <= r.says.confident[tuned.high].fp

\* "Editing a number here without re-running the evaluation will fail
\* `load_thresholds()`", says the file that write_thresholds() writes.
EditsCaught == edited => ~Accepted
=============================================================================
