---------------------------- MODULE DbscanProofs ----------------------------
(***************************************************************************)
(* dbscan_cosine() computes DBSCAN, for any number of points, any          *)
(* neighbourhoods and any min_samples.                                     *)
(*                                                                         *)
(* Both loops are recursive functions over a number of turns.  That there  *)
(* is a function that satisfies the recursion, and what holds after every  *)
(* turn, are inductions over the natural numbers: NatSetInduction states   *)
(* that induction of a set, where it has no operator for a parameter.      *)
(* Grouping is the invariant of the for loop, Growing that of the while    *)
(* loop, whose list is empty after as many turns as there are points       *)
(* because every turn takes a point for good out of what is on the list or *)
(* noise (TurnShrinks).                                                    *)
(***************************************************************************)
EXTENDS Dbscan, FiniteSetTheorems, WellFoundedInduction, TLAPS

\* Induction over the natural numbers, stated of a set.
LEMMA NatSetInduction ==
  ASSUME NEW T, 0 \in T, \A k \in Nat : k \in T => k + 1 \in T
  PROVE  Nat \subseteq T
<1>1. IsWellFoundedOn(OpToRel(<, Nat), Nat)
  BY NatLessThanWellFounded
<1>2. SUFFICES ASSUME Nat \ T # {} PROVE FALSE
  OBVIOUS
<1>3. PICK k \in Nat \ T : \A j \in Nat \ T : ~ (<<j, k>> \in OpToRel(<, Nat))
  BY <1>1, <1>2, WFMin, Zenon
<1>4. \A j \in Nat \ T : ~ (j < k)
  BY <1>3 DEF OpToRel
<1>5. k # 0 /\ k - 1 \in Nat /\ k - 1 < k
  OBVIOUS
<1>. QED BY <1>4, <1>5

\* g has the states of n turns of the while loop.
Turns(near, minSamples, cluster, s0, n, g) ==
    /\ g = [k \in 0..n |-> g[k]]
    /\ \A k \in 0..n :
          g[k] = IF k = 0 THEN s0 ELSE Turn(near, minSamples, cluster, g[k - 1])

\* There is such a sequence of states for any number of turns.
LEMMA TurnsExist ==
  ASSUME NEW near, NEW minSamples, NEW cluster, NEW s0
  PROVE  \A n \in Nat : \E g : Turns(near, minSamples, cluster, s0, n, g)
<1> DEFINE T == {n \in Nat : \E g : Turns(near, minSamples, cluster, s0, n, g)}
<1>1. 0 \in T
  <2>1. Turns(near, minSamples, cluster, s0, 0, [k \in 0..0 |-> s0])
    BY DEF Turns
  <2>. QED BY <2>1
<1>2. ASSUME NEW n \in Nat, n \in T PROVE n + 1 \in T
  <2>1. PICK g : Turns(near, minSamples, cluster, s0, n, g)
    BY <1>2
  <2> DEFINE h == [k \in 0..(n + 1) |->
                     IF k = n + 1 THEN Turn(near, minSamples, cluster, g[n]) ELSE g[k]]
  <2>2. ASSUME NEW k \in 0..(n + 1)
        PROVE  h[k] = IF k = 0 THEN s0 ELSE Turn(near, minSamples, cluster, h[k - 1])
    <3>1. CASE k = n + 1
      BY <3>1
    <3>2. CASE k # n + 1
      <4>1. k \in 0..n /\ k \in 0..(n + 1) /\ (k # 0 => k - 1 \in 0..n /\ k - 1 \in 0..(n + 1))
        BY <3>2
      <4>2. h[k] = g[k] /\ (k # 0 => h[k - 1] = g[k - 1])
        BY <4>1
      <4>3. g[k] = IF k = 0 THEN s0 ELSE Turn(near, minSamples, cluster, g[k - 1])
        BY <2>1, <4>1 DEF Turns
      <4> HIDE DEF h
      <4>. QED BY <4>2, <4>3
    <3>. QED BY <3>1, <3>2
  <2>3. h = [k \in 0..(n + 1) |-> h[k]]
    OBVIOUS
  <2> HIDE DEF h
  <2>4. Turns(near, minSamples, cluster, s0, n + 1, h)
    BY <2>2, <2>3 DEF Turns
  <2>. QED BY <2>4
<1> HIDE DEF T
<1>3. Nat \subseteq T
  BY <1>1, <1>2, NatSetInduction
<1>. QED BY <1>3 DEF T

\* So the while loop has such a sequence, and Absorb() is its last state.
LEMMA AbsorbRuns ==
  ASSUME NEW near, NEW minSamples, NEW cluster, NEW s0, Cardinality(DOMAIN near) \in Nat
  PROVE  \E g : /\ Turns(near, minSamples, cluster, s0, Cardinality(DOMAIN near), g)
                /\ Absorb(near, minSamples, cluster, s0) = g[Cardinality(DOMAIN near)]
<1> DEFINE N == Cardinality(DOMAIN near)
           Is(g) == g = [k \in 0..N |->
                           IF k = 0 THEN s0 ELSE Turn(near, minSamples, cluster, g[k - 1])]
           after == CHOOSE g : Is(g)
<1>1. Is(after)
  <2>1. PICK g : Turns(near, minSamples, cluster, s0, N, g)
    BY TurnsExist
  <2>2. Is(g)
    BY <2>1 DEF Turns
  <2>. QED BY <2>2, Zenon
<1>2. Absorb(near, minSamples, cluster, s0) = after[N]
  BY DEF Absorb
<1> HIDE DEF after
<1>3. Turns(near, minSamples, cluster, s0, N, after)
  BY <1>1 DEF Turns
<1>. QED BY <1>2, <1>3

-----------------------------------------------------------------------------
(* One cluster. *)

\* The neighbourhoods of finitely many points: everybody is near itself, and near is
\* mutual.
IsNear(near) ==
    /\ IsFiniteSet(DOMAIN near)
    /\ \A p \in DOMAIN near : p \in near[p] /\ near[p] \subseteq DOMAIN near
    /\ \A p, q \in DOMAIN near : q \in near[p] => p \in near[q]

\* What holds between two turns of the for loop: who has a label has been visited and
\* has a core neighbour in its cluster, or is one; a core point that was visited has a
\* label, and shares it with the core points near it; a cluster is connected.
Grouping(near, minSamples, s) ==
    /\ s = [labels |-> s.labels, visited |-> s.visited, cluster |-> s.cluster]
    /\ s.labels \in [DOMAIN near -> Int] /\ s.cluster \in Nat
    /\ \A p \in DOMAIN near : s.labels[p] # Noise =>
          /\ s.labels[p] \in 0..(s.cluster - 1)
          /\ p \in s.visited
          /\ \E q \in near[p] : Core(near, minSamples, q) /\ s.labels[q] = s.labels[p]
    /\ \A p \in DOMAIN near : Core(near, minSamples, p) =>
          /\ p \in s.visited => s.labels[p] # Noise
          /\ s.labels[p] # Noise => \A q \in near[p] :
                /\ s.labels[q] # Noise
                /\ Core(near, minSamples, q) => s.labels[q] = s.labels[p]
    /\ \A p, q \in DOMAIN near :
          /\ Core(near, minSamples, p) /\ Core(near, minSamples, q)
          /\ s.labels[p] # Noise /\ s.labels[p] = s.labels[q]
          => Reaches(near, minSamples, p, q)

\* What holds between two turns of the while loop that grows the cluster of seed, where
\* the for loop has got to s: new labels are this cluster's and given to noise only; a
\* core point in it has its neighbours labelled or on the list, and is reached from
\* the seed; and whoever is in it, or on the list, is near such a core point.
Growing(near, minSamples, s, seed, t) ==
    /\ t.labels \in [DOMAIN near -> Int] /\ t.queue \subseteq DOMAIN near
    /\ t.labels[seed] = s.cluster /\ s.visited \subseteq t.visited
    /\ \A p \in DOMAIN near :
          /\ t.labels[p] # s.labels[p] => s.labels[p] = Noise /\ t.labels[p] = s.cluster
          /\ t.labels[p] # Noise => p \in t.visited
          /\ p \in t.queue \/ t.labels[p] = s.cluster =>
                \E q \in near[p] : Core(near, minSamples, q) /\ t.labels[q] = s.cluster
    /\ \A p \in DOMAIN near : Core(near, minSamples, p) =>
          /\ p \in t.visited => t.labels[p] # Noise
          /\ t.labels[p] = s.cluster =>
                /\ \A q \in near[p] : t.labels[q] # Noise \/ q \in t.queue
                /\ Reaches(near, minSamples, seed, p)

\* Core points that are near each other reach each other.
LEMMA ReachesNear ==
  ASSUME NEW near, NEW minSamples, IsNear(near), NEW p \in DOMAIN near, NEW q \in DOMAIN near,
         NEW r \in DOMAIN near, Reaches(near, minSamples, p, q), Core(near, minSamples, q),
         r \in near[q]
  PROVE  Reaches(near, minSamples, p, r)
BY DEF Reaches, IsNear

\* What is reached through a point is reached.
LEMMA ReachesTransitive ==
  ASSUME NEW near, NEW minSamples, NEW p, NEW q, NEW r,
         Reaches(near, minSamples, p, q), Reaches(near, minSamples, q, r)
  PROVE  Reaches(near, minSamples, p, r)
BY DEF Reaches

\* Between core points it is mutual: what lies outside a set that is closed, with the
\* points in it that are not core, is closed too.
LEMMA ReachesSymmetric ==
  ASSUME NEW near, NEW minSamples, IsNear(near), NEW p \in DOMAIN near, NEW q \in DOMAIN near,
         Core(near, minSamples, p), Core(near, minSamples, q), Reaches(near, minSamples, p, q)
  PROVE  Reaches(near, minSamples, q, p)
<1> SUFFICES ASSUME NEW S \in SUBSET DOMAIN near, q \in S,
                    \A r \in S : Core(near, minSamples, r) => near[r] \subseteq S,
                    p \notin S
             PROVE  FALSE
  BY DEF Reaches
<1> DEFINE T == {r \in DOMAIN near : Core(near, minSamples, r) => r \notin S}
<1>1. T \in SUBSET DOMAIN near /\ p \in T /\ q \notin T
  OBVIOUS
<1>2. ASSUME NEW r \in T, Core(near, minSamples, r), NEW x \in near[r] PROVE x \in T
  <2>1. x \in DOMAIN near /\ r \in DOMAIN near /\ r \in near[x] /\ r \notin S
    BY <1>2 DEF IsNear
  <2>. QED BY <2>1
<1> HIDE DEF T
<1>. QED BY <1>1, <1>2 DEF Reaches

\* The state after point was taken off the list.
Popped(near, minSamples, cluster, t, point) ==
    [labels  |-> [t.labels EXCEPT ![point] = IF @ = Noise THEN cluster ELSE @],
     visited |-> t.visited \cup {point},
     queue   |-> (t.queue \ {point}) \cup
                 (IF point \notin t.visited /\ Core(near, minSamples, point)
                  THEN {q \in near[point] : t.labels[q] = Noise} \ {point} ELSE {})]

\* A turn takes a point off the list.
LEMMA TurnTakes ==
  ASSUME NEW near, NEW minSamples, NEW cluster, NEW t, t.queue # {}
  PROVE  \E point \in t.queue :
           Turn(near, minSamples, cluster, t) = Popped(near, minSamples, cluster, t, point)
BY DEF Turn, Core, Popped

\* It keeps what the while loop keeps.
LEMMA TurnGrows ==
  ASSUME NEW near, NEW minSamples, NEW s, NEW seed \in DOMAIN near, NEW t,
         IsNear(near), Grouping(near, minSamples, s), Growing(near, minSamples, s, seed, t)
  PROVE  Growing(near, minSamples, s, seed, Turn(near, minSamples, s.cluster, t))
<1> DEFINE u == Turn(near, minSamples, s.cluster, t)
<1>1. CASE t.queue = {}
  BY <1>1 DEF Turn
<1>2. CASE t.queue # {}
  <2>1. PICK point \in t.queue :
           u = Popped(near, minSamples, s.cluster, t, point)
    BY <1>2, TurnTakes
  <2> HIDE DEF u
  <2>2. /\ s.cluster \in Nat /\ s.cluster # Noise /\ Noise \in Int
        /\ t.labels \in [DOMAIN near -> Int] /\ t.queue \subseteq DOMAIN near
        /\ point \in DOMAIN near /\ near[point] \subseteq DOMAIN near
    BY DEF Grouping, Growing, IsNear, Noise
  <2>3. /\ u.labels \in [DOMAIN near -> Int] /\ u.queue \subseteq DOMAIN near
        /\ u.labels[point] = IF t.labels[point] = Noise THEN s.cluster ELSE t.labels[point]
        /\ \A p \in DOMAIN near \ {point} : u.labels[p] = t.labels[p]
        /\ u.visited = t.visited \cup {point}
        /\ t.queue \ {point} \subseteq u.queue
    BY <2>1, <2>2 DEF Popped
  <2>4. /\ \A p \in DOMAIN near : t.labels[p] = s.cluster => u.labels[p] = s.cluster
        /\ \A p \in DOMAIN near : t.labels[p] # Noise => u.labels[p] = t.labels[p]
        /\ u.labels[point] # Noise
    BY <2>2, <2>3
  <2>5. PICK base \in near[point] : Core(near, minSamples, base) /\ t.labels[base] = s.cluster
    BY DEF Growing, IsNear
  <2>6. u.labels[seed] = s.cluster /\ s.visited \subseteq u.visited
    BY <2>3, <2>4 DEF Growing
  <2>7. \A p \in DOMAIN near :
          /\ u.labels[p] # s.labels[p] => s.labels[p] = Noise /\ u.labels[p] = s.cluster
          /\ u.labels[p] # Noise => p \in u.visited
    BY <2>3 DEF Growing
  <2>8. ASSUME NEW p \in DOMAIN near, Core(near, minSamples, p), p \in u.visited
        PROVE  u.labels[p] # Noise
    BY <2>8, <2>3, <2>4 DEF Growing
  <2>9. ASSUME NEW p \in DOMAIN near, Core(near, minSamples, p), u.labels[p] = s.cluster
        PROVE  /\ \A q \in near[p] : u.labels[q] # Noise \/ q \in u.queue
               /\ Reaches(near, minSamples, seed, p)
    <3>1. CASE t.labels[p] = s.cluster
      <4>1. \A q \in near[p] : q \in DOMAIN near
        BY DEF IsNear
      <4>. QED BY <2>9, <3>1, <2>3, <2>4, <4>1 DEF Growing
    <3>2. CASE t.labels[p] # s.cluster
      <4>1. p = point /\ t.labels[point] = Noise
        BY <2>9, <3>2, <2>3
      <4>2. point \notin t.visited
        BY <2>9, <4>1 DEF Growing
      <4>3. ASSUME NEW q \in near[p] PROVE u.labels[q] # Noise \/ q \in u.queue
        <5>1. q \in DOMAIN near
          BY <2>2, <4>1
        <5>2. u.queue = (t.queue \ {point}) \cup ({x \in near[point] : t.labels[x] = Noise} \ {point})
          BY <2>1, <2>9, <4>1, <4>2 DEF Popped
        <5>. QED BY <4>1, <5>1, <5>2, <2>4
      <4>4. base \in DOMAIN near /\ point \in near[base]
        BY <2>2, <2>5 DEF IsNear
      <4>5. Reaches(near, minSamples, seed, base)
        BY <2>5, <4>4 DEF Growing
      <4>. QED BY <4>1, <4>3, <4>4, <4>5, <2>5, ReachesNear
    <3>. QED BY <3>1, <3>2
  <2>10. ASSUME NEW p \in DOMAIN near, p \in u.queue \/ u.labels[p] = s.cluster
         PROVE  \E q \in near[p] : Core(near, minSamples, q) /\ u.labels[q] = s.cluster
    <3>1. CASE p \in t.queue \/ t.labels[p] = s.cluster
      <4>1. PICK q \in near[p] : Core(near, minSamples, q) /\ t.labels[q] = s.cluster
        BY <3>1 DEF Growing
      <4>2. q \in DOMAIN near
        BY DEF IsNear
      <4>. QED BY <4>1, <4>2, <2>4
    <3>2. CASE ~ (p \in t.queue \/ t.labels[p] = s.cluster)
      <4>1. p # point
        BY <3>2
      <4>2. p \in u.queue
        BY <2>3, <2>10, <3>2, <4>1
      <4>3. point \notin t.visited /\ Core(near, minSamples, point) /\ p \in near[point]
        BY <2>1, <3>2, <4>2 DEF Popped
      <4>4. point \in near[p]
        BY <2>2, <4>3 DEF IsNear
      <4>5. t.labels[point] = Noise
        BY <2>2, <4>3 DEF Growing
      <4>. QED BY <2>3, <4>3, <4>4, <4>5
    <3>. QED BY <3>1, <3>2
  <2>11. Growing(near, minSamples, s, seed, u)
    BY <2>3, <2>6, <2>7, <2>8, <2>9, <2>10 DEF Growing
  <2>. QED BY <2>11 DEF u
<1>. QED BY <1>1, <1>2

\* What a turn may still have to do with.
Left(near, t) == t.queue \cup {p \in DOMAIN near : t.labels[p] = Noise}

\* A turn brings the end of the loop nearer: there is less on the list, or noise.
LEMMA TurnShrinks ==
  ASSUME NEW near, NEW minSamples, NEW cluster \in Nat, NEW t, IsNear(near),
         t.labels \in [DOMAIN near -> Int], t.queue \subseteq DOMAIN near, t.queue # {}
  PROVE  \E point \in Left(near, t) :
            Left(near, Turn(near, minSamples, cluster, t)) \subseteq Left(near, t) \ {point}
<1> DEFINE u == Turn(near, minSamples, cluster, t)
<1>1. PICK point \in t.queue :
           u = Popped(near, minSamples, cluster, t, point)
  BY TurnTakes
<1> HIDE DEF u
<1>2. point \in DOMAIN near /\ near[point] \subseteq DOMAIN near /\ cluster # Noise
  BY DEF IsNear, Noise
<1>3. /\ u.labels[point] # Noise
      /\ \A p \in DOMAIN near \ {point} : u.labels[p] = t.labels[p]
  BY <1>1, <1>2 DEF Popped
<1>4. u.queue \subseteq Left(near, t) \ {point}
  BY <1>1, <1>2 DEF Left, Popped
<1>5. Left(near, u) \subseteq Left(near, t) \ {point}
  BY <1>3, <1>4 DEF Left
<1>. QED BY <1>5 DEF Left, u

\* The state the while loop starts from.
Seeded(near, s, i) ==
    [labels  |-> [s.labels EXCEPT ![i] = s.cluster],
     visited |-> s.visited \cup {i},
     queue   |-> near[i] \ {i}]

\* It keeps what the while loop keeps.
LEMMA SeedGrows ==
  ASSUME NEW near, NEW minSamples, NEW s, NEW i \in DOMAIN near,
         IsNear(near), Grouping(near, minSamples, s),
         i \notin s.visited, Core(near, minSamples, i)
  PROVE  Growing(near, minSamples, s, i, Seeded(near, s, i))
<1> DEFINE t == Seeded(near, s, i)
<1>1. /\ s.labels \in [DOMAIN near -> Int] /\ s.cluster \in Nat /\ s.labels[i] = Noise
      /\ Noise \notin Nat /\ near[i] \subseteq DOMAIN near
      /\ \A p \in DOMAIN near : s.labels[p] # s.cluster
  BY DEF Grouping, Noise, IsNear
<1>2. /\ t.labels \in [DOMAIN near -> Int] /\ t.queue = near[i] \ {i}
      /\ t.labels[i] = s.cluster /\ t.visited = s.visited \cup {i}
      /\ \A p \in DOMAIN near \ {i} : t.labels[p] = s.labels[p]
  BY <1>1 DEF Seeded
<1> HIDE DEF t
<1>3. ASSUME NEW p \in DOMAIN near
      PROVE  /\ t.labels[p] # s.labels[p] => s.labels[p] = Noise /\ t.labels[p] = s.cluster
             /\ t.labels[p] # Noise => p \in t.visited
  BY <1>1, <1>2 DEF Grouping
<1>4. ASSUME NEW p \in DOMAIN near, p \in t.queue \/ t.labels[p] = s.cluster
      PROVE  \E q \in near[p] : Core(near, minSamples, q) /\ t.labels[q] = s.cluster
  <2>1. p \in near[i]
    BY <1>1, <1>2, <1>4 DEF IsNear
  <2>2. i \in near[p]
    BY <2>1 DEF IsNear
  <2>. QED BY <2>2, <1>2
<1>5. ASSUME NEW p \in DOMAIN near, Core(near, minSamples, p)
      PROVE  p \in t.visited => t.labels[p] # Noise
  BY <1>1, <1>2, <1>5 DEF Grouping
<1>6. ASSUME NEW p \in DOMAIN near, t.labels[p] = s.cluster
      PROVE  /\ \A q \in near[p] : t.labels[q] # Noise \/ q \in t.queue
             /\ Reaches(near, minSamples, i, p)
  <2>1. p = i
    BY <1>1, <1>2, <1>6
  <2>2. Reaches(near, minSamples, i, i)
    BY DEF Reaches
  <2>. QED BY <1>1, <1>2, <2>1, <2>2
<1>7. t.queue \subseteq DOMAIN near /\ s.visited \subseteq t.visited
  BY <1>1, <1>2
<1>8. Growing(near, minSamples, s, i, t)
  BY <1>2, <1>3, <1>4, <1>5, <1>6, <1>7 DEF Growing
<1>. QED BY <1>8 DEF t

\* The while loop ends with an empty list, and with what its turns keep.
LEMMA AbsorbGrows ==
  ASSUME NEW near, NEW minSamples, NEW s, NEW i \in DOMAIN near,
         IsNear(near), Grouping(near, minSamples, s),
         i \notin s.visited, Core(near, minSamples, i)
  PROVE  LET t == Absorb(near, minSamples, s.cluster, Seeded(near, s, i))
         IN  Growing(near, minSamples, s, i, t) /\ t.queue = {}
<1> DEFINE N == Cardinality(DOMAIN near)
<1>1. N \in Nat
  BY FS_CardinalityType DEF IsNear
<1>2. PICK g : /\ Turns(near, minSamples, s.cluster, Seeded(near, s, i), N, g)
               /\ Absorb(near, minSamples, s.cluster, Seeded(near, s, i)) = g[N]
  BY <1>1, AbsorbRuns
<1> DEFINE T == {k \in Nat : k <= N =>
                    /\ Growing(near, minSamples, s, i, g[k])
                    /\ g[k].queue = {} \/ Cardinality(Left(near, g[k])) + k <= N}
<1>3. ASSUME NEW t, Growing(near, minSamples, s, i, t)
      PROVE  /\ Left(near, t) \subseteq DOMAIN near /\ IsFiniteSet(Left(near, t))
             /\ Cardinality(Left(near, t)) \in Nat /\ Cardinality(Left(near, t)) <= N
  <2>1. Left(near, t) \subseteq DOMAIN near /\ IsFiniteSet(DOMAIN near)
    BY <1>3 DEF Left, Growing, IsNear
  <2>. QED BY <2>1, FS_Subset, FS_CardinalityType
<1>4. 0 \in T
  <2>1. g[0] = Seeded(near, s, i)
    <3>1. 0 \in 0..N
      BY <1>1
    <3>. QED BY <1>2, <3>1 DEF Turns
  <2>2. Growing(near, minSamples, s, i, g[0])
    BY <2>1, SeedGrows
  <2>. QED BY <1>1, <1>3, <2>2
<1>5. ASSUME NEW k \in Nat, k \in T PROVE k + 1 \in T
  <2> SUFFICES ASSUME k + 1 <= N PROVE k + 1 \in T
    OBVIOUS
  <2> DEFINE t == g[k]
             u == g[k + 1]
  <2>1. u = Turn(near, minSamples, s.cluster, t)
    <3>1. k + 1 \in 0..N /\ k + 1 # 0 /\ (k + 1) - 1 = k
      BY <1>1
    <3>. QED BY <1>2, <3>1 DEF Turns
  <2>2. /\ Growing(near, minSamples, s, i, t)
        /\ t.queue = {} \/ Cardinality(Left(near, t)) + k <= N
    BY <1>1, <1>5
  <2> HIDE DEF t, u
  <2>3. Growing(near, minSamples, s, i, u)
    BY <2>1, <2>2, TurnGrows
  <2>4. u.queue = {} \/ Cardinality(Left(near, u)) + (k + 1) <= N
    <3>1. CASE t.queue = {}
      BY <3>1, <2>1 DEF Turn
    <3>2. CASE t.queue # {}
      <4>1. /\ t.labels \in [DOMAIN near -> Int] /\ t.queue \subseteq DOMAIN near
            /\ s.cluster \in Nat
        BY <2>2 DEF Growing, Grouping
      <4>2. PICK point \in Left(near, t) : Left(near, u) \subseteq Left(near, t) \ {point}
        BY <2>1, <3>2, <4>1, TurnShrinks
      <4>3. /\ IsFiniteSet(Left(near, t) \ {point})
            /\ Cardinality(Left(near, t) \ {point}) = Cardinality(Left(near, t)) - 1
        BY <1>3, <2>2, FS_RemoveElement
      <4>4. Cardinality(Left(near, u)) <= Cardinality(Left(near, t)) - 1
        BY <4>2, <4>3, FS_Subset
      <4>. QED BY <1>1, <1>3, <2>2, <2>3, <3>2, <4>4
    <3>. QED BY <3>1, <3>2
  <2>. QED BY <2>3, <2>4 DEF u
<1> HIDE DEF T
<1>6. Nat \subseteq T
  BY <1>4, <1>5, NatSetInduction
<1>7. /\ Growing(near, minSamples, s, i, g[N])
      /\ g[N].queue = {} \/ Cardinality(Left(near, g[N])) + N <= N
  BY <1>1, <1>6 DEF T
<1>8. g[N].queue = {}
  <2>1. SUFFICES ASSUME Cardinality(Left(near, g[N])) + N <= N PROVE g[N].queue = {}
    BY <1>7
  <2>2. Cardinality(Left(near, g[N])) = 0
    BY <1>1, <1>3, <1>7, <2>1
  <2>3. Left(near, g[N]) = {}
    BY <1>3, <1>7, <2>2, FS_EmptySet
  <2>. QED BY <2>3 DEF Left
<1>. QED BY <1>2, <1>7, <1>8

\* What the while loop leaves is what the for loop keeps, with one cluster more.
LEMMA GrownGroups ==
  ASSUME NEW near, NEW minSamples, NEW s, NEW i \in DOMAIN near, NEW t,
         IsNear(near), Grouping(near, minSamples, s), Core(near, minSamples, i),
         Growing(near, minSamples, s, i, t), t.queue = {}
  PROVE  Grouping(near, minSamples,
                  [labels |-> t.labels, visited |-> t.visited, cluster |-> s.cluster + 1])
<1> DEFINE u == [labels |-> t.labels, visited |-> t.visited, cluster |-> s.cluster + 1]
<1>0. u = [labels |-> u.labels, visited |-> u.visited, cluster |-> u.cluster]
  OBVIOUS
<1>1. /\ u.labels = t.labels /\ u.visited = t.visited /\ u.cluster = s.cluster + 1
      /\ u.labels \in [DOMAIN near -> Int] /\ u.cluster \in Nat /\ s.cluster \in Nat
      /\ s.labels \in [DOMAIN near -> Int] /\ Noise \notin Nat
      /\ \A p \in DOMAIN near : near[p] \subseteq DOMAIN near
  BY DEF Grouping, Growing, Noise, IsNear
<1> HIDE DEF u
<1>2. ASSUME NEW p \in DOMAIN near
      PROVE  /\ t.labels[p] # s.cluster => t.labels[p] = s.labels[p]
             /\ s.labels[p] # Noise =>
                  /\ t.labels[p] = s.labels[p] /\ s.labels[p] \in 0..(s.cluster - 1)
                  /\ t.labels[p] # s.cluster
  BY <1>1 DEF Grouping, Growing
<1>3. ASSUME NEW p \in DOMAIN near, t.labels[p] # Noise
      PROVE  /\ t.labels[p] \in 0..(u.cluster - 1) /\ p \in t.visited
             /\ \E q \in near[p] : Core(near, minSamples, q) /\ t.labels[q] = t.labels[p]
  <2>1. p \in t.visited
    BY <1>3 DEF Growing
  <2>2. CASE t.labels[p] = s.cluster
    BY <1>1, <2>1, <2>2 DEF Growing
  <2>3. CASE t.labels[p] # s.cluster
    <3>1. s.labels[p] = t.labels[p] /\ s.labels[p] # Noise
      BY <1>2, <1>3, <2>3
    <3>2. PICK q \in near[p] : Core(near, minSamples, q) /\ s.labels[q] = s.labels[p]
      BY <3>1 DEF Grouping
    <3>3. q \in DOMAIN near
      BY <1>1
    <3>4. t.labels[q] = s.labels[q]
      BY <1>2, <3>1, <3>2, <3>3
    <3>5. t.labels[p] \in 0..(u.cluster - 1)
      BY <1>1, <1>2, <3>1
    <3>. QED BY <2>1, <3>1, <3>2, <3>4, <3>5
  <2>. QED BY <2>2, <2>3
<1>4. ASSUME NEW p \in DOMAIN near, Core(near, minSamples, p)
      PROVE  p \in t.visited => t.labels[p] # Noise
  BY <1>4 DEF Growing
<1>5. ASSUME NEW p \in DOMAIN near, Core(near, minSamples, p), t.labels[p] # Noise,
             NEW q \in near[p]
      PROVE  /\ t.labels[q] # Noise
             /\ Core(near, minSamples, q) => t.labels[q] = t.labels[p]
  <2>1. q \in DOMAIN near /\ p \in near[q]
    BY <1>1 DEF IsNear
  <2>2. CASE t.labels[p] = s.cluster
    <3>1. t.labels[q] # Noise
      BY <1>5, <2>2 DEF Growing
    <3>2. ASSUME Core(near, minSamples, q), t.labels[q] # s.cluster PROVE FALSE
      <4>1. s.labels[q] # Noise
        BY <1>2, <2>1, <3>1, <3>2
      <4>2. s.labels[p] # Noise
        BY <4>1, <3>2, <2>1 DEF Grouping
      <4>. QED BY <4>2, <1>2, <2>2
    <3>. QED BY <3>1, <3>2, <2>2
  <2>3. CASE t.labels[p] # s.cluster
    <3>1. s.labels[p] = t.labels[p] /\ s.labels[p] # Noise
      BY <1>2, <1>5, <2>3
    <3>2. s.labels[q] # Noise /\ (Core(near, minSamples, q) => s.labels[q] = s.labels[p])
      BY <1>5, <3>1 DEF Grouping
    <3>3. t.labels[q] = s.labels[q]
      BY <1>2, <2>1, <3>2
    <3>. QED BY <3>1, <3>2, <3>3
  <2>. QED BY <2>2, <2>3
<1>6. ASSUME NEW p \in DOMAIN near, NEW q \in DOMAIN near,
             Core(near, minSamples, p), Core(near, minSamples, q),
             t.labels[p] # Noise, t.labels[p] = t.labels[q]
      PROVE  Reaches(near, minSamples, p, q)
  <2>1. CASE t.labels[p] = s.cluster
    <3>1. Reaches(near, minSamples, i, p) /\ Reaches(near, minSamples, i, q)
      BY <1>6, <2>1 DEF Growing
    <3>2. Reaches(near, minSamples, p, i)
      BY <3>1, <1>6, ReachesSymmetric
    <3>. QED BY <3>1, <3>2, ReachesTransitive
  <2>2. CASE t.labels[p] # s.cluster
    <3>1. s.labels[p] = t.labels[p] /\ s.labels[q] = t.labels[q]
      BY <1>2, <1>6, <2>2
    <3>. QED BY <1>6, <3>1 DEF Grouping
  <2>. QED BY <2>1, <2>2
<1>7. Grouping(near, minSamples, u)
  BY <1>0, <1>1, <1>3, <1>4, <1>5, <1>6 DEF Grouping
<1>. QED BY <1>7 DEF u

-----------------------------------------------------------------------------
(* All clusters. *)

\* A turn of the for loop keeps the grouping, and visits its start point.
LEMMA StartGroups ==
  ASSUME NEW near, NEW minSamples \in Int, NEW s, NEW i,
         IsNear(near), Grouping(near, minSamples, s)
  PROVE  LET t == StartAt(near, minSamples, i, s)
         IN  /\ Grouping(near, minSamples, t)
             /\ s.visited \subseteq t.visited /\ (i \in DOMAIN near => i \in t.visited)
             /\ t.cluster <= s.cluster + 1
<1> DEFINE t == StartAt(near, minSamples, i, s)
<1>0. s.cluster \in Nat
  BY DEF Grouping
<1>1. CASE i \notin DOMAIN near \/ i \in s.visited
  BY <1>0, <1>1 DEF StartAt
<1>2. CASE i \in DOMAIN near /\ i \notin s.visited /\ ~ Core(near, minSamples, i)
  <2>1. Cardinality(near[i]) \in Nat
    BY <1>2, FS_Subset, FS_CardinalityType DEF IsNear
  <2>2. t = [s EXCEPT !.visited = @ \cup {i}]
    BY <1>2, <2>1 DEF StartAt, Core
  <2> HIDE DEF t
  <2>3. /\ t = [labels |-> t.labels, visited |-> t.visited, cluster |-> t.cluster]
        /\ t.labels = s.labels /\ t.cluster = s.cluster /\ t.visited = s.visited \cup {i}
    <3>1. s = [labels |-> s.labels, visited |-> s.visited, cluster |-> s.cluster]
      BY DEF Grouping
    <3>2. t = [labels |-> s.labels, visited |-> s.visited \cup {i}, cluster |-> s.cluster]
      BY <2>2, <3>1
    <3>. QED BY <3>2
  <2>4. \A p \in DOMAIN near : Core(near, minSamples, p) /\ p \in t.visited => p \in s.visited
    BY <1>2, <2>3
  <2>5. Grouping(near, minSamples, t)
    BY <2>3, <2>4 DEF Grouping
  <2>. QED BY <1>0, <2>3, <2>5 DEF t
<1>3. CASE i \in DOMAIN near /\ i \notin s.visited /\ Core(near, minSamples, i)
  <2> DEFINE u == Absorb(near, minSamples, s.cluster, Seeded(near, s, i))
  <2>1. Cardinality(near[i]) \in Nat
    BY <1>3, FS_Subset, FS_CardinalityType DEF IsNear
  <2>2. t = [labels |-> u.labels, visited |-> u.visited, cluster |-> s.cluster + 1]
    BY <1>3, <2>1 DEF StartAt, Core, Seeded
  <2>3. Growing(near, minSamples, s, i, u) /\ u.queue = {}
    BY <1>3, AbsorbGrows
  <2> HIDE DEF u, t
  <2>4. Grouping(near, minSamples, t)
    BY <1>3, <2>2, <2>3, GrownGroups
  <2>5. i \in t.visited /\ s.visited \subseteq t.visited
    <3>1. u.labels[i] # Noise
      BY <1>0, <2>3 DEF Growing, Noise
    <3>. QED BY <1>3, <2>2, <2>3, <3>1 DEF Growing
  <2>. QED BY <1>0, <2>2, <2>4, <2>5 DEF t
<1>. QED BY <1>1, <1>2, <1>3

\* g has the states of n turns of the for loop.
Starts(near, minSamples, n, g) ==
    /\ g = [i \in 0..n |-> g[i]]
    /\ \A i \in 0..n :
          g[i] = IF i = 0 THEN Untouched(near) ELSE StartAt(near, minSamples, i, g[i - 1])

\* There is such a sequence of states for any number of turns.
LEMMA StartsExist ==
  ASSUME NEW near, NEW minSamples
  PROVE  \A n \in Nat : \E g : Starts(near, minSamples, n, g)
<1> DEFINE T == {n \in Nat : \E g : Starts(near, minSamples, n, g)}
<1>1. 0 \in T
  <2>1. Starts(near, minSamples, 0, [i \in 0..0 |-> Untouched(near)])
    BY DEF Starts
  <2>. QED BY <2>1
<1>2. ASSUME NEW n \in Nat, n \in T PROVE n + 1 \in T
  <2>1. PICK g : Starts(near, minSamples, n, g)
    BY <1>2
  <2> DEFINE h == [i \in 0..(n + 1) |->
                     IF i = n + 1 THEN StartAt(near, minSamples, n + 1, g[n]) ELSE g[i]]
  <2>2. ASSUME NEW i \in 0..(n + 1)
        PROVE  h[i] = IF i = 0 THEN Untouched(near)
                               ELSE StartAt(near, minSamples, i, h[i - 1])
    <3>1. CASE i = n + 1
      BY <3>1
    <3>2. CASE i # n + 1
      <4>1. i \in 0..n /\ (i # 0 => i - 1 \in 0..n /\ i - 1 \in 0..(n + 1))
        BY <3>2
      <4>2. h[i] = g[i] /\ (i # 0 => h[i - 1] = g[i - 1])
        BY <4>1
      <4>3. g[i] = IF i = 0 THEN Untouched(near) ELSE StartAt(near, minSamples, i, g[i - 1])
        BY <2>1, <4>1 DEF Starts
      <4> HIDE DEF h
      <4>. QED BY <4>2, <4>3
    <3>. QED BY <3>1, <3>2
  <2>3. h = [i \in 0..(n + 1) |-> h[i]]
    OBVIOUS
  <2> HIDE DEF h
  <2>4. Starts(near, minSamples, n + 1, h)
    BY <2>2, <2>3 DEF Starts
  <2>. QED BY <2>4
<1> HIDE DEF T
<1>3. Nat \subseteq T
  BY <1>1, <1>2, NatSetInduction
<1>. QED BY <1>3 DEF T

\* So the for loop has one, and Dbscan() has the labels of its last state.
LEMMA DbscanRuns ==
  ASSUME NEW near, NEW minSamples, NEW n \in Nat
  PROVE  \E g : Starts(near, minSamples, n, g) /\ Dbscan(n, near, minSamples) = g[n].labels
<1> DEFINE Is(g) == g = [i \in 0..n |->
                           IF i = 0 THEN Untouched(near)
                           ELSE StartAt(near, minSamples, i, g[i - 1])]
           upTo == CHOOSE g : Is(g)
<1>1. Is(upTo)
  <2>1. PICK g : Starts(near, minSamples, n, g)
    BY StartsExist
  <2>2. Is(g)
    BY <2>1 DEF Starts
  <2>. QED BY <2>2, Zenon
<1>2. Dbscan(n, near, minSamples) = upTo[n].labels
  BY DEF Dbscan
<1> HIDE DEF upTo
<1>3. Starts(near, minSamples, n, upTo)
  BY <1>1 DEF Starts
<1>. QED BY <1>2, <1>3

\* After the for loop every point is visited, and there is at most a cluster a turn.
LEMMA DbscanGroups ==
  ASSUME NEW near, NEW minSamples \in Int, NEW n \in Nat,
         IsNear(near), DOMAIN near \subseteq 1..n
  PROVE  \E s : /\ Grouping(near, minSamples, s) /\ DOMAIN near \subseteq s.visited
                /\ s.cluster <= n /\ Dbscan(n, near, minSamples) = s.labels
<1>1. PICK g : Starts(near, minSamples, n, g) /\ Dbscan(n, near, minSamples) = g[n].labels
  BY DbscanRuns
<1> DEFINE T == {i \in Nat : i <= n =>
                    /\ Grouping(near, minSamples, g[i]) /\ g[i].cluster <= i
                    /\ \A p \in DOMAIN near : p <= i => p \in g[i].visited}
<1>2. 0 \in T
  <2>1. g[0] = Untouched(near)
    <3>1. 0 \in 0..n
      OBVIOUS
    <3>. QED BY <1>1, <3>1 DEF Starts
  <2>2. Grouping(near, minSamples, Untouched(near)) /\ Untouched(near).cluster = 0
    BY DEF Grouping, Untouched, Noise
  <2>. QED BY <2>1, <2>2
<1>3. ASSUME NEW i \in Nat, i \in T PROVE i + 1 \in T
  <2> SUFFICES ASSUME i + 1 <= n PROVE i + 1 \in T
    OBVIOUS
  <2>1. g[i + 1] = StartAt(near, minSamples, i + 1, g[i])
    <3>1. i + 1 \in 0..n /\ i + 1 # 0 /\ (i + 1) - 1 = i
      OBVIOUS
    <3>. QED BY <1>1, <3>1 DEF Starts
  <2>2. /\ Grouping(near, minSamples, g[i]) /\ g[i].cluster <= i
        /\ \A p \in DOMAIN near : p <= i => p \in g[i].visited
    BY <1>3
  <2>3. /\ Grouping(near, minSamples, g[i + 1])
        /\ g[i].visited \subseteq g[i + 1].visited
        /\ i + 1 \in DOMAIN near => i + 1 \in g[i + 1].visited
        /\ g[i + 1].cluster <= g[i].cluster + 1
    BY <2>1, <2>2, StartGroups
  <2>4. g[i].cluster \in Nat /\ g[i + 1].cluster \in Nat
    BY <2>2, <2>3 DEF Grouping
  <2>5. ASSUME NEW p \in DOMAIN near, p <= i + 1 PROVE p \in g[i + 1].visited
    <3>1. p \in Int /\ (p <= i \/ p = i + 1)
      BY <2>5
    <3>. QED BY <3>1, <2>2, <2>3
  <2>. QED BY <2>2, <2>3, <2>4, <2>5
<1> HIDE DEF T
<1>4. Nat \subseteq T
  BY <1>2, <1>3, NatSetInduction
<1>5. /\ Grouping(near, minSamples, g[n]) /\ g[n].cluster <= n
      /\ \A p \in DOMAIN near : p <= n => p \in g[n].visited
  BY <1>4 DEF T
<1>6. DOMAIN near \subseteq g[n].visited
  BY <1>5
<1>. QED BY <1>1, <1>5, <1>6

\* The function computes DBSCAN: core points are together exactly when core points connect
\* them, a border point is with one of its core neighbours, everything else is noise.
THEOREM DbscanCorrect ==
  ASSUME NEW near, NEW minSamples \in Int, NEW n \in Nat,
         IsNear(near), DOMAIN near \subseteq 1..n
  PROVE  IsDbscan(near, minSamples, Dbscan(n, near, minSamples))
<1>1. PICK s : /\ Grouping(near, minSamples, s) /\ DOMAIN near \subseteq s.visited
               /\ Dbscan(n, near, minSamples) = s.labels
  BY DbscanGroups
<1> DEFINE cores == {p \in DOMAIN near : Core(near, minSamples, p)}
<1>2. \A p \in cores : s.labels[p] # Noise
  BY <1>1 DEF Grouping
<1>3. ASSUME NEW p \in cores, NEW q \in cores
      PROVE  (s.labels[p] = s.labels[q]) <=> Reaches(near, minSamples, p, q)
  <2>1. ASSUME s.labels[p] = s.labels[q] PROVE Reaches(near, minSamples, p, q)
    BY <1>1, <1>2, <2>1 DEF Grouping
  <2>2. ASSUME Reaches(near, minSamples, p, q) PROVE s.labels[p] = s.labels[q]
    <3> DEFINE S == {r \in DOMAIN near :
                        \E c \in near[r] : Core(near, minSamples, c) /\ s.labels[c] = s.labels[p]}
    <3>1. \A r \in DOMAIN near : near[r] \subseteq DOMAIN near /\ r \in near[r]
      BY DEF IsNear
    <3>2. S \in SUBSET DOMAIN near /\ p \in S
      BY <3>1
    <3>3. ASSUME NEW r \in S, Core(near, minSamples, r)
          PROVE  s.labels[r] = s.labels[p] /\ near[r] \subseteq S
      <4>1. PICK c \in near[r] : Core(near, minSamples, c) /\ s.labels[c] = s.labels[p]
        OBVIOUS
      <4>2. c \in DOMAIN near /\ c \in cores /\ r \in near[c]
        BY <4>1, <3>1 DEF IsNear
      <4>3. s.labels[r] = s.labels[p]
        BY <1>1, <1>2, <3>3, <4>1, <4>2 DEF Grouping
      <4>4. \A x \in near[r] : x \in DOMAIN near /\ r \in near[x]
        BY <3>1 DEF IsNear
      <4>. QED BY <3>3, <4>3, <4>4
    <3> HIDE DEF S
    <3>4. q \in S
      BY <2>2, <3>2, <3>3 DEF Reaches
    <3>. QED BY <3>3, <3>4
  <2>. QED BY <2>1, <2>2
<1>4. ASSUME NEW p \in DOMAIN near
      PROVE  IF near[p] \cap cores = {} THEN s.labels[p] = Noise
             ELSE /\ s.labels[p] # Noise
                  /\ \E q \in near[p] \cap cores : s.labels[p] = s.labels[q]
  <2>1. near[p] \subseteq DOMAIN near
    BY DEF IsNear
  <2>2. s.labels[p] # Noise => \E q \in near[p] \cap cores : s.labels[p] = s.labels[q]
    BY <1>1, <2>1 DEF Grouping
  <2>3. ASSUME NEW q \in near[p] \cap cores PROVE s.labels[p] # Noise
    <3>1. p \in near[q]
      BY DEF IsNear
    <3>. QED BY <1>1, <1>2, <3>1 DEF Grouping
  <2>. QED BY <2>2, <2>3
<1>. QED BY <1>1, <1>3, <1>4 DEF IsDbscan

\* A label is noise's, or the number of a cluster: there are at most n of those.
LEMMA DbscanType ==
  ASSUME NEW near, NEW minSamples \in Int, NEW n \in Nat,
         IsNear(near), DOMAIN near \subseteq 1..n
  PROVE  Dbscan(n, near, minSamples) \in [DOMAIN near -> {Noise} \cup 0..(n - 1)]
<1>1. PICK s : /\ Grouping(near, minSamples, s) /\ s.cluster <= n
               /\ Dbscan(n, near, minSamples) = s.labels
  BY DbscanGroups
<1>2. s.labels \in [DOMAIN near -> Int] /\ s.cluster \in Nat
  BY <1>1 DEF Grouping
<1>3. ASSUME NEW p \in DOMAIN near PROVE s.labels[p] \in {Noise} \cup 0..(n - 1)
  BY <1>1, <1>2 DEF Grouping
<1>. QED BY <1>1, <1>2, <1>3

\* Three different points are three.
LEMMA ThreePoints ==
  ASSUME NEW x, NEW y, NEW z, x # y, y # z, x # z
  PROVE  Cardinality({x, y, z}) = 3
<1>1. IsFiniteSet({x}) /\ Cardinality({x}) = 1
  BY FS_Singleton
<1>2. IsFiniteSet({x} \cup {y}) /\ Cardinality({x} \cup {y}) = 2
  <2>1. y \notin {x}
    OBVIOUS
  <2>2. Cardinality({x} \cup {y}) = Cardinality({x}) + 1 /\ IsFiniteSet({x} \cup {y})
    BY <1>1, <2>1, FS_AddElement, Zenon
  <2>. QED BY <1>1, <2>2
<1>3. z \notin {x} \cup {y}
  OBVIOUS
<1>4. Cardinality(({x} \cup {y}) \cup {z}) = Cardinality({x} \cup {y}) + 1
  BY <1>2, <1>3, FS_AddElement, Zenon
<1>5. ({x} \cup {y}) \cup {z} = {x, y, z}
  OBVIOUS
<1>. QED BY <1>2, <1>4, <1>5

\* A group has min_samples members at least, as long as that is 3 or less: the
\* neighbours of a core point are in its group, because one that is not a core point
\* itself has no other core point near it.  From 4 on it is false: a border point with
\* two core points near it may go to the group of either, and be missed by the other.
THEOREM GroupSizes ==
  ASSUME NEW near, NEW minSamples \in 0..3, NEW labels,
         IsNear(near), IsDbscan(near, minSamples, labels),
         NEW p \in DOMAIN near, labels[p] # Noise
  PROVE  Cardinality({q \in DOMAIN near : labels[q] = labels[p]}) >= minSamples
<1> DEFINE cores == {x \in DOMAIN near : Core(near, minSamples, x)}
           group == {q \in DOMAIN near : labels[q] = labels[p]}
<1>1. \A x \in DOMAIN near : near[x] \subseteq DOMAIN near /\ x \in near[x]
  BY DEF IsNear
<1>2. \A x \in DOMAIN near :
          IF near[x] \cap cores = {} THEN labels[x] = Noise
          ELSE /\ labels[x] # Noise
               /\ \E y \in near[x] \cap cores : labels[x] = labels[y]
  BY DEF IsDbscan
<1>3. PICK c \in near[p] \cap cores : labels[p] = labels[c]
  BY <1>2
<1>4. ASSUME NEW q \in near[c] PROVE labels[q] = labels[c]
  <2>1. q \in DOMAIN near /\ c \in near[q] /\ c \in DOMAIN near
    BY <1>1 DEF IsNear
  <2>2. CASE q \in cores
    <3>1. Reaches(near, minSamples, c, c)
      BY DEF Reaches
    <3>2. Reaches(near, minSamples, c, q)
      BY <2>1, <3>1, ReachesNear
    <3>. QED BY <2>2, <3>2 DEF IsDbscan
  <2>3. CASE q \notin cores
    <3>1. PICK x \in near[q] \cap cores : labels[q] = labels[x]
      BY <1>2, <2>1
    <3>2. SUFFICES ASSUME x # c PROVE FALSE
      BY <3>1
    <3>3. IsFiniteSet(near[q]) /\ Cardinality(near[q]) \in Nat
      BY <1>1, <2>1, FS_Subset, FS_CardinalityType DEF IsNear
    <3>4. {q, c, x} \subseteq near[q] /\ q # c /\ q # x
      BY <1>1, <2>1, <2>3, <3>1
    <3>5. Cardinality({q, c, x}) = 3
      BY <3>2, <3>4, ThreePoints
    <3>6. Cardinality({q, c, x}) <= Cardinality(near[q])
      BY <3>3, <3>4, FS_Subset
    <3>. QED BY <2>1, <2>3, <3>3, <3>5, <3>6 DEF Core
  <2>. QED BY <2>2, <2>3
<1>5. near[c] \subseteq group
  BY <1>1, <1>3, <1>4
<1>6. IsFiniteSet(group)
  BY FS_Subset DEF IsNear
<1>7. /\ Cardinality(near[c]) \in Nat /\ Cardinality(group) \in Nat
      /\ Cardinality(near[c]) <= Cardinality(group)
  BY <1>5, <1>6, FS_Subset, FS_CardinalityType
<1>8. Cardinality(near[c]) >= minSamples
  BY <1>3 DEF Core
<1>. QED BY <1>7, <1>8

\* p and q are the ends of a chain of points, each near the next.
Linked(near, p, q) ==
    \A S \in SUBSET DOMAIN near : p \in S /\ (\A r \in S : near[r] \subseteq S) => q \in S

\* With two samples, which is what the clustering job and the labelling ask for, there
\* are no border points: noise is who has nobody near, and everybody else is together
\* with whom a chain of pairs leads to, however far apart the ends of the chain are.
THEOREM PairsLink ==
  ASSUME NEW near, NEW labels, IsNear(near), IsDbscan(near, 2, labels)
  PROVE  /\ \A p \in DOMAIN near : labels[p] = Noise <=> near[p] = {p}
         /\ \A p, q \in DOMAIN near : p # q =>
                (labels[p] = labels[q] /\ labels[p] # Noise <=> Linked(near, p, q))
<1> DEFINE cores == {x \in DOMAIN near : Core(near, 2, x)}
<1>1. ASSUME NEW p \in DOMAIN near
      PROVE  /\ p \in near[p] /\ near[p] \subseteq DOMAIN near
             /\ Core(near, 2, p) <=> near[p] # {p}
  <2>1. p \in near[p] /\ near[p] \subseteq DOMAIN near
    BY DEF IsNear
  <2>2. IsFiniteSet(near[p]) /\ Cardinality(near[p]) \in Nat
    BY <2>1, FS_Subset, FS_CardinalityType DEF IsNear
  <2>3. CASE near[p] = {p}
    <3>1. Cardinality(near[p]) = 1
      BY <2>3, FS_Singleton
    <3>. QED BY <2>3, <3>1 DEF Core
  <2>4. CASE near[p] # {p}
    <3>1. PICK q \in near[p] : q # p
      BY <2>1, <2>4
    <3>2. {p, q} \in SUBSET near[p] /\ {p, q} = {p} \cup {q}
      BY <2>1, <3>1
    <3>3. IsFiniteSet({p}) /\ Cardinality({p}) = 1
      BY FS_Singleton
    <3>4. Cardinality({p} \cup {q}) = 2
      BY <3>1, <3>3, FS_AddElement
    <3>5. Cardinality({p, q}) <= Cardinality(near[p])
      BY <2>2, <3>2, FS_Subset
    <3>6. Cardinality(near[p]) >= 2
      BY <2>2, <3>2, <3>4, <3>5
    <3>. QED BY <2>1, <2>4, <3>6 DEF Core
  <2>. QED BY <2>1, <2>3, <2>4
<1>2. ASSUME NEW p \in DOMAIN near, NEW q \in near[p], p # q
      PROVE  p \in cores /\ q \in cores
  <2>1. q \in DOMAIN near /\ p \in near[q]
    BY <1>1 DEF IsNear
  <2>. QED BY <1>1, <1>2, <2>1
<1>3. \A p \in DOMAIN near : labels[p] = Noise <=> near[p] = {p}
  <2>. TAKE p \in DOMAIN near
  <2>1. near[p] \cap cores = {} <=> near[p] = {p}
    BY <1>1, <1>2
  <2>. QED BY <2>1 DEF IsDbscan
<1>4. ASSUME NEW p \in DOMAIN near, NEW q \in DOMAIN near
      PROVE  Linked(near, p, q) <=> Reaches(near, 2, p, q)
  <2>1. ASSUME NEW S \in SUBSET DOMAIN near, p \in S
        PROVE  (\A r \in S : near[r] \subseteq S)
                 <=> (\A r \in S : Core(near, 2, r) => near[r] \subseteq S)
    BY <1>1, <2>1
  <2>. QED BY <2>1 DEF Linked, Reaches
<1>5. ASSUME NEW p \in DOMAIN near, NEW q \in DOMAIN near, p # q, Linked(near, p, q)
      PROVE  p \in cores /\ q \in cores
  <2>1. p \in cores
    <3>. SUFFICES ASSUME p \notin cores PROVE FALSE
      OBVIOUS
    <3>1. near[p] = {p}
      BY <1>1
    <3>2. {p} \in SUBSET DOMAIN near /\ \A r \in {p} : near[r] \subseteq {p}
      BY <3>1
    <3>. QED BY <1>5, <3>2 DEF Linked
  <2>2. q \in cores
    <3>. SUFFICES ASSUME q \notin cores PROVE FALSE
      OBVIOUS
    <3>1. near[q] = {q}
      BY <1>1
    <3> DEFINE S == DOMAIN near \ {q}
    <3>2. \A r \in S : near[r] \subseteq S
      BY <1>1, <1>2, <3>1
    <3>3. p \in S /\ S \in SUBSET DOMAIN near /\ q \notin S
      BY <1>5
    <3>. HIDE DEF S
    <3>. QED BY <1>5, <3>2, <3>3 DEF Linked
  <2>. QED BY <2>1, <2>2
<1>6. ASSUME NEW p \in DOMAIN near, NEW q \in DOMAIN near, p # q
      PROVE  labels[p] = labels[q] /\ labels[p] # Noise <=> Linked(near, p, q)
  <2>1. CASE p \in cores /\ q \in cores
    <3>1. labels[p] = labels[q] <=> Reaches(near, 2, p, q)
      BY <2>1 DEF IsDbscan
    <3>2. labels[p] # Noise
      BY <1>1, <1>3, <2>1
    <3>. QED BY <1>4, <3>1, <3>2
  <2>2. CASE p \notin cores \/ q \notin cores
    <3>1. labels[p] = Noise \/ labels[q] = Noise
      BY <1>1, <1>3, <2>2
    <3>. QED BY <1>5, <1>6, <2>2, <3>1
  <2>. QED BY <2>1, <2>2
<1>. QED BY <1>3, <1>6
=============================================================================
