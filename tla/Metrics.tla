------------------------------ MODULE Metrics ------------------------------
(***************************************************************************)
(* The arithmetic of ml/eval/metrics.py, with thresholds and similarities  *)
(* in whole steps of the grid and ratios compared crosswise.               *)
(*                                                                         *)
(* An index is [photos, faces, queries]: faces of known tier in photos,    *)
(* and the people who could be enrolled; sim[p][f] is the similarity of    *)
(* face f to the template of person p.                                     *)
(***************************************************************************)
EXTENDS Integers, FiniteSets

CONSTANTS
    TargetPrecision, TargetRecall,  \* <<numerator, denominator>>
    Floor                           \* REACHABILITY_FLOOR

None == -1  \* minus infinity, where a photo has no qualifying face

AtLeast(part, whole, target) == part * target[2] >= target[1] * whole

Largest(S) == CHOOSE x \in S : \A y \in S : y <= x
Smallest(S) == CHOOSE x \in S : \A y \in S : x <= y

\* What there is to score.
IsIndex(index) ==
    /\ IsFiniteSet(index.photos) /\ IsFiniteSet(index.queries)
    /\ IsFiniteSet(DOMAIN index.tier)
    /\ \A f \in DOMAIN index.tier : index.tier[f] \in {1, 2}
    /\ \A p \in index.queries, f \in DOMAIN index.tier : index.sim[p][f] \in Int

\* score_pairs(): the best face of a photograph speaks for it.
Score(index, tiers, p, photo) ==
    LET of == {f \in DOMAIN index.tier : index.photoOf[f] = photo /\ index.tier[f] \in tiers}
    IN IF of = {} THEN None ELSE Largest({index.sim[p][f] : f \in of})

PairsOf(index) == index.photos \X index.queries

\* A faulty variant of Row: appearances whose face was never indexed are not counted.
RowOfScored(index, truth, tiers, t) ==
    LET predicted == {k \in PairsOf(index) : Score(index, tiers, k[2], k[1]) >= t}
        positive  == {k \in truth : k[2] \in index.queries
                                    /\ Score(index, tiers, k[2], k[1]) # None}
    IN [tp |-> Cardinality(predicted \cap positive),
        fp |-> Cardinality(predicted \ positive),
        fn |-> Cardinality(positive \ predicted)]

\* sweep(): the row of threshold t
Row(index, truth, tiers, t) ==
    LET predicted == {k \in PairsOf(index) : Score(index, tiers, k[2], k[1]) >= t}
        positive  == {k \in truth : k[2] \in index.queries}
    IN [tp |-> Cardinality(predicted \cap positive),
        fp |-> Cardinality(predicted \ positive),
        fn |-> Cardinality(positive \ predicted)]

Sweep(index, truth, tiers, grid) == [t \in grid |-> Row(index, truth, tiers, t)]

\* unreachable_rate(), as a count
Unreachable(index, truth, tiers) ==
    Cardinality({k \in truth : k[2] \in index.queries
                               /\ Score(index, tiers, k[2], k[1]) < Floor})

\* Precision is 1 where nothing is predicted; recall is 0 where nothing is true.
Precise(row) == AtLeast(row.tp, row.tp + row.fp, TargetPrecision)
Recalls(row) == row.tp > 0 /\ AtLeast(row.tp, row.tp + row.fn, TargetRecall)

Reaching(rows) == {t \in DOMAIN rows : Precise(rows[t])}

\* pick_t_high(): raises ThresholdNotReachable where Reaching(rows) is empty.
PickHigh(rows) == Smallest(Reaching(rows))

\* pick_t_low(): the lowest threshold of the sweep where recall is out of reach
PickLow(rows, ceiling) ==
    LET eligible == {t \in DOMAIN rows : Recalls(rows[t]) /\ t <= ceiling}
    IN IF eligible = {} THEN Smallest(DOMAIN rows) ELSE Largest(eligible)

=============================================================================
