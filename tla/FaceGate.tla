------------------------------ MODULE FaceGate ------------------------------
(***************************************************************************)
(* The quality gate of faceapp_ml as operators: what tier a detection gets *)
(* under a policy, what a photograph contributes to an index and which     *)
(* frames enrol a person.                                                  *)
(*                                                                         *)
(* A detection is a record [id, px, score, yaw, blur] of small numbers; yaw is *)
(* NoPose where the engine and the landmarks give none.  A policy has the  *)
(* fields of QualityPolicy.  Templates are not modelled as vectors: what a *)
(* template came from is enough.                                           *)
(***************************************************************************)
EXTENDS Naturals, FiniteSets

NoPose == 1000

Rejected(d, policy) == d.px < policy.minPx \/ d.score < policy.minScore

\* A boundary value belongs to the weaker tier; a missing pose demotes nobody.
Weak(d, policy) ==
    \/ d.px <= policy.goodPx
    \/ d.score <= policy.goodScore
    \/ d.yaw # NoPose /\ d.yaw >= policy.maxYaw
    \/ d.blur < policy.minBlur

\* assess(): tier 0 is never embedded, only tier 2 may be shown as confident.
Tier(d, policy) ==
    IF Rejected(d, policy) THEN 0 ELSE IF Weak(d, policy) THEN 1 ELSE 2

\* detect_and_embed(): of the detections of an image those that are indexed.  Its
\* first pass has neither pose nor blur and rejects what the second would.
Usable(detections, policy) == {d \in detections : Tier(d, policy) > 0}

\* GateStats.of() and merged()
Graded(detections, policy) ==
    [t \in 0..2 |-> Cardinality({d \in detections : Tier(d, policy) = t})]

\* A frame enrols only the one face it shows.
EnrolsFrom(detections, policy) == Cardinality(Usable(detections, policy)) = 1
=============================================================================
