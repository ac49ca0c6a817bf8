---------------------------- MODULE MCEvaluation ----------------------------
(* Instances of Evaluation for TLC. *)
EXTENDS Evaluation

CONSTANTS p1, p2, p3, a, n1, n2

\* Two faces of one person, the second seen from the side with a bystander behind,
\* and in a third photograph somebody who looks much like the person.
AlbumFaces == 1..4
AlbumPhotoOf == <<p1, p2, p3, p2>>
AlbumQuality ==
    <<[id |-> 1, px |-> 9, score |-> 9, yaw |-> NoPose, blur |-> 9],
      [id |-> 2, px |-> 9, score |-> 9, yaw |-> 3, blur |-> 9],
      [id |-> 3, px |-> 9, score |-> 9, yaw |-> 0, blur |-> 5],
      [id |-> 4, px |-> 4, score |-> 9, yaw |-> 0, blur |-> 9]>>
AlbumCrops == <<{1}, {2, 4}, {3}, {2, 4}>>
AlbumAlike == {{1, 2}}
AlbumLikeness == [p \in {a} |-> <<6, 3, 5, 5>>]

\* The second face is good enough for neither; the look-alike passes for a good face,
\* and the bystander for a face, under the lenient policy only.
Strict == [minPx |-> 5, goodPx |-> 6, minScore |-> 5, goodScore |-> 6, maxYaw |-> 4, minBlur |-> 6]
Lenient == [minPx |-> 3, goodPx |-> 6, minScore |-> 5, goodScore |-> 6, maxYaw |-> 4, minBlur |-> 4]
AllPolicies == {Strict, Lenient}

SynthIdx ==
    [photos |-> {p1, p2}, tier |-> <<2, 2>>, photoOf |-> <<p1, p2>>, queries |-> {a},
     sim |-> [p \in {a} |-> <<6, 1>>], gate |-> [t \in 0..2 |-> IF t = 2 THEN 2 ELSE 0],
     policy |-> Strict, made |-> [p \in {a} |-> {}], whole |-> FALSE]
SynthLabels == {<<p1, a>>}
Precision == <<99, 100>>
Recall == <<95, 100>>
=============================================================================
