------------------------------- MODULE Dbscan -------------------------------
(***************************************************************************)
(* dbscan_cosine() of faceapp_ml/clustering.py, as it goes: start points   *)
(* in order, a work list per cluster.  The points are the domain of near,  *)
(* some of 1..n; near[i] is the set of points whose similarity to i is at  *)
(* least 1 - eps, i among them.  The work list is a set here: a cluster is *)
(* finished before the next is begun, so that the order within one shows   *)
(* nowhere.                                                                *)
(***************************************************************************)
EXTENDS Integers, FiniteSets

Noise == -1

\* One turn of the while loop: s has the labels, the points visited and the work list.
Turn(near, minSamples, cluster, s) ==
    IF s.queue = {} THEN s
    ELSE LET point == CHOOSE q \in s.queue : TRUE
             open  == {q \in near[point] : s.labels[q] = Noise}
             grown == point \notin s.visited /\ Cardinality(near[point]) >= minSamples
         IN [labels  |-> [s.labels EXCEPT ![point] = IF @ = Noise THEN cluster ELSE @],
             visited |-> s.visited \cup {point},
             queue   |-> (s.queue \ {point}) \cup (IF grown THEN open \ {point} ELSE {})]

\* The while loop.  A point that was taken off the list has a label, and only noise is
\* put on it: it ends within as many turns as there are points.
Absorb(near, minSamples, cluster, s0) ==
    LET after[k \in 0..Cardinality(DOMAIN near)] ==
            IF k = 0 THEN s0 ELSE Turn(near, minSamples, cluster, after[k - 1])
    IN after[Cardinality(DOMAIN near)]

\* One turn of the for loop: a new start point.  With too few neighbours it is noise
\* for now, and may be absorbed later.
StartAt(near, minSamples, i, s) ==
    IF i \notin DOMAIN near \/ i \in s.visited THEN s
    ELSE IF Cardinality(near[i]) < minSamples THEN [s EXCEPT !.visited = @ \cup {i}]
    ELSE LET t == Absorb(near, minSamples, s.cluster,
                         [labels  |-> [s.labels EXCEPT ![i] = s.cluster],
                          visited |-> s.visited \cup {i},
                          queue   |-> near[i] \ {i}])
         IN [labels |-> t.labels, visited |-> t.visited, cluster |-> s.cluster + 1]

Untouched(near) == [labels |-> [p \in DOMAIN near |-> Noise], visited |-> {}, cluster |-> 0]

Dbscan(n, near, minSamples) ==
    LET upTo[i \in 0..n] ==
            IF i = 0 THEN Untouched(near) ELSE StartAt(near, minSamples, i, upTo[i - 1])
    IN upTo[n].labels

-----------------------------------------------------------------------------
(* What it should compute. *)

Core(near, minSamples, p) == Cardinality(near[p]) >= minSamples

\* p and q are in every set that holds p and, with a core point, its neighbours.
Reaches(near, minSamples, p, q) ==
    \A S \in SUBSET DOMAIN near :
        /\ p \in S
        /\ \A r \in S : Core(near, minSamples, r) => near[r] \subseteq S
        => q \in S

\* Core points are together exactly when core points connect them; a border point
\* is with one of its core neighbours; everything else is noise.
IsDbscan(near, minSamples, labels) ==
    LET cores == {p \in DOMAIN near : Core(near, minSamples, p)}
    IN /\ \A p, q \in cores :
              (labels[p] = labels[q]) <=> Reaches(near, minSamples, p, q)
       /\ \A p \in DOMAIN near :
              IF near[p] \cap cores = {} THEN labels[p] = Noise
              ELSE labels[p] # Noise
                   /\ \E q \in near[p] \cap cores : labels[p] = labels[q]
=============================================================================
