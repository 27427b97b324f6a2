------------------------ MODULE TemporalNetworkProofs ------------------------
(***************************************************************************)
(* What TemporalNetwork promises, proved for any set of time points and    *)
(* any finite set of bounds.                                               *)
(*                                                                         *)
(* No path is ever mentioned.  The distances from a node are the greatest  *)
(* solution of the inequalities that the edges are (IsDistanceFrom), which *)
(* is unique; each algorithm is shown to keep the inequalities of the      *)
(* edges it is done with, and not to go below any solution.                *)
(***************************************************************************)
EXTENDS TemporalNetworkProperties, FiniteSetTheorems, SequenceTheorems, TLAPS

(***************************************************************************)
(* 1. Finite sets of numbers.                                              *)
(***************************************************************************)
LEMMA MinimalSet ==
  ASSUME NEW S, IsFiniteSet(S), NEW X, X \subseteq SUBSET S, X # {}
  PROVE  \E s \in X : \A t \in X : t \subseteq s => t = s
<1>1. FiniteSubsetsOf(S) = SUBSET S
  BY FS_FiniteSubsetsOfFinite
<1>2. IsWellFoundedOn(StrictSubsetOrdering(S), SUBSET S)
  BY <1>1, FS_StrictSubsetOrderingWellFounded
<1>3. PICK s \in X : \A t \in X : ~(<<t, s>> \in StrictSubsetOrdering(S))
  BY <1>2, WFMin
<1>4. QED
  BY <1>3 DEF StrictSubsetOrdering

(* A set of integers that is finite has a least element, by the least of   *)
(* its initial segments, and a greatest one.                               *)
LEMMA LeastOf ==
  ASSUME NEW S, IsFiniteSet(S), S # {}, \A x \in S : x \in Int
  PROVE  Min(S) \in S /\ \A x \in S : Min(S) <= x
<1> DEFINE below(m) == {x \in S : x <= m}
           X == {below(m) : m \in S}
<1>1. X \subseteq SUBSET S /\ X # {}
  OBVIOUS
<1>2. PICK s \in X : \A t \in X : t \subseteq s => t = s
  <2> HIDE DEF X
  <2>1. QED
    BY ONLY IsFiniteSet(S), <1>1, MinimalSet
<1>3. PICK m \in S : s = below(m)
  BY <1>2
<1>4. ASSUME NEW x \in S, x < m PROVE FALSE
  <2>1. below(x) \in X
    OBVIOUS
  <2>4. below(x) \subseteq below(m)
    <3>1. \A y \in S : y \in Int
      OBVIOUS
    <3>2. \A y \in S : y <= x => y <= m
      BY <1>4, <3>1
    <3>3. QED
      BY <3>2
  <2>2. m \in below(m) /\ m \notin below(x)
    BY <1>4
  <2>3. QED
    BY <1>2, <1>3, <2>1, <2>2, <2>4
<1>5. \E y \in S : \A x \in S : y <= x
  BY <1>4
<1>6. QED
  BY <1>5, Zenon DEF Min

LEMMA GreatestOf ==
  ASSUME NEW S, IsFiniteSet(S), S # {}, \A x \in S : x \in Int
  PROVE  Max(S) \in S /\ \A x \in S : x <= Max(S)
<1> DEFINE above(m) == {x \in S : x >= m}
           X == {above(m) : m \in S}
<1>1. X \subseteq SUBSET S /\ X # {}
  OBVIOUS
<1>2. PICK s \in X : \A t \in X : t \subseteq s => t = s
  <2> HIDE DEF X
  <2>1. QED
    BY ONLY IsFiniteSet(S), <1>1, MinimalSet
<1>3. PICK m \in S : s = above(m)
  BY <1>2
<1>4. ASSUME NEW x \in S, x > m PROVE FALSE
  <2>1. above(x) \in X
    OBVIOUS
  <2>4. above(x) \subseteq above(m)
    <3>1. \A y \in S : y \in Int
      OBVIOUS
    <3>2. \A y \in S : y >= x => y >= m
      BY <1>4, <3>1
    <3>3. QED
      BY <3>2
  <2>2. m \in above(m) /\ m \notin above(x)
    BY <1>4
  <2>3. QED
    BY <1>2, <1>3, <2>1, <2>2, <2>4
<1>5. \E y \in S : \A x \in S : y >= x
  BY <1>4
<1>6. QED
  BY <1>5, Zenon DEF Max

(* The values of a function on a finite set.                               *)
LEMMA ValuesFinite ==
  ASSUME NEW S, IsFiniteSet(S), NEW f
  PROVE  IsFiniteSet({f[x] : x \in S})
<1> DEFINE g == [x \in S |-> f[x]]
           T == {f[x] : x \in S}
<1>1. g \in Surjection(S, T)
  BY DEF Surjection
<1>2. QED
  BY <1>1, FS_Surjection
-----------------------------------------------------------------------------
(***************************************************************************)
(* 2. Graphs, schedules and distances.                                     *)
(***************************************************************************)
IsGraph(P, len) ==
  /\ IsFiniteSet(P)
  /\ \A e \in DOMAIN len : /\ e \in P \X P /\ e[1] # e[2]
                           /\ len[e] \in Int
  /\ IsFiniteSet(DOMAIN len)

(* A schedule: g is feasible for every edge.                               *)
IsSchedule(P, len, g) ==
  g \in [P -> Int] /\ \A e \in DOMAIN len : g[e[2]] <= g[e[1]] + len[e]

HasSchedule(P, len) == \E g \in [P -> Int] : IsSchedule(P, len, g)

(* Every edge that leaves a node at a finite distance is kept.             *)
Relaxed(len, d) ==
  \A e \in DOMAIN len : d[e[1]] < Infinity => d[e[2]] <= d[e[1]] + len[e]

Distances0(P) == {d \in [P -> Int] : \A p \in P : d[p] <= Infinity}

Below(P, f, d) == \A p \in P : f[p] <= d[p]

(* The distances from p: the greatest solution that is 0 at p.             *)
IsDistanceFrom(P, len, p, f) ==
  /\ f \in Distances0(P) /\ f[p] <= 0 /\ Relaxed(len, f)
  /\ \A h \in Distances0(P) : h[p] <= 0 /\ Relaxed(len, h) => Below(P, h, f)

LEMMA DistanceUnique ==
  ASSUME NEW P, NEW len, NEW p \in P, NEW f, NEW h,
         IsDistanceFrom(P, len, p, f), IsDistanceFrom(P, len, p, h)
  PROVE  f = h
<1>1. f \in [P -> Int] /\ h \in [P -> Int] /\ \A q \in P : f[q] <= h[q] /\ h[q] <= f[q]
  BY DEF IsDistanceFrom, Below, Distances0
<1>2. \A q \in P : f[q] = h[q]
  BY <1>1
<1>3. QED
  BY <1>1, <1>2
-----------------------------------------------------------------------------
(***************************************************************************)
(* 3. Sweeps.                                                              *)
(***************************************************************************)
IsWave(P, w) == w \in [d : [P -> Int], queue : SUBSET P]

(* What one sweep does, from w to v: nodes get nearer by an edge from a    *)
(* node of the queue, and those that do are the next queue.                *)
Lowers(P, len, w, v) ==
  /\ IsWave(P, v)
  /\ \A p \in P : v.d[p] <= w.d[p] /\ (p \in v.queue <=> v.d[p] < w.d[p])
  /\ \A p \in v.queue : \E e \in DOMAIN len :
       e[1] \in w.queue /\ e[2] = p /\ v.d[p] = w.d[e[1]] + len[e]

Relaxes(P, len, w, v) ==
  /\ Lowers(P, len, w, v)
  /\ \A e \in DOMAIN len : e[1] \in w.queue => v.d[e[2]] <= w.d[e[1]] + len[e]

LEMMA WaveParts ==
  ASSUME NEW P, NEW d \in [P -> Int], NEW q, q \subseteq P
  PROVE  IsWave(P, Wave(d, q)) /\ Wave(d, q).d = d /\ Wave(d, q).queue = q
BY DEF IsWave, Wave

LEMMA GraphParts ==
  ASSUME NEW P, NEW len, IsGraph(P, len), NEW e \in DOMAIN len
  PROVE  e[1] \in P /\ e[2] \in P /\ e[1] # e[2] /\ len[e] \in Int
BY DEF IsGraph

LEMMA SweepRelaxes ==
  ASSUME NEW P, NEW len, NEW w, IsGraph(P, len), IsWave(P, w)
  PROVE  Relaxes(P, len, w, Sweep(len, w))
<1> DEFINE I == Improving(len, w)
           next == {e[2] : e \in I}
           ways(p) == {w.d[e[1]] + len[e] : e \in {f \in I : f[2] = p}}
           b(p) == IF p \in next THEN Min(ways(p)) ELSE w.d[p]
           d == [p \in P |-> b(p)]
<1>1. w.d \in [P -> Int] /\ w.queue \subseteq P /\ DOMAIN w.d = P
  BY DEF IsWave
<1>2. Sweep(len, w) = Wave([p \in DOMAIN w.d |-> IF p \in next THEN Min(ways(p)) ELSE w.d[p]], next)
  BY DEF Sweep
<1>3. Sweep(len, w) = Wave(d, next)
  BY <1>1, <1>2
<1>4. \A e \in I : /\ e \in DOMAIN len /\ e[1] \in w.queue /\ w.d[e[1]] + len[e] < w.d[e[2]]
                   /\ e[1] \in P /\ e[2] \in P /\ len[e] \in Int
                   /\ w.d[e[1]] \in Int /\ w.d[e[2]] \in Int
  BY <1>1, GraphParts DEF Improving
<1>5. \A e \in DOMAIN len : e[1] \in w.queue /\ w.d[e[1]] + len[e] < w.d[e[2]] => e \in I
  BY DEF Improving
<1>6. IsFiniteSet(I)
  <2>1. I \subseteq DOMAIN len
    BY DEF Improving
  <2>2. QED
    BY <2>1, FS_Subset DEF IsGraph
<1> HIDE DEF I
<1>7. \A p : p \in next <=> \E e \in I : e[2] = p
  OBVIOUS
<1>8. ASSUME NEW p \in next
      PROVE  /\ \E e \in I : e[2] = p /\ Min(ways(p)) = w.d[e[1]] + len[e]
             /\ \A e \in I : e[2] = p => Min(ways(p)) <= w.d[e[1]] + len[e]
  <2> DEFINE J == {f \in I : f[2] = p}
             W == {w.d[e[1]] + len[e] : e \in J}
  <2>1. IsFiniteSet(J)
    <3>1. J \subseteq I
      OBVIOUS
    <3>2. QED
      BY ONLY <3>1, <1>6, FS_Subset
  <2>2. IsFiniteSet(W)
    <3> DEFINE f == [e \in J |-> w.d[e[1]] + len[e]]
    <3> HIDE DEF J
    <3>1. W = {f[e] : e \in J}
      OBVIOUS
    <3> HIDE DEF f, W
    <3>2. QED
      BY <2>1, <3>1, ValuesFinite
  <2>3. W # {} /\ \A x \in W : x \in Int
    BY <1>4, <1>7
  <2>4. W = ways(p)
    OBVIOUS
  <2>5. Min(W) \in W /\ \A x \in W : Min(W) <= x
    <3> HIDE DEF W
    <3>1. QED
      BY ONLY <2>2, <2>3, LeastOf
  <2>6. QED
    BY <2>4, <2>5
<1>9. ASSUME NEW p \in next PROVE p \in P /\ Min(ways(p)) \in Int /\ Min(ways(p)) < w.d[p]
  <2> HIDE DEF ways
  <2>1. PICK e \in I : e[2] = p /\ Min(ways(p)) = w.d[e[1]] + len[e]
    BY <1>8
  <2>2. QED
    BY <1>4, <2>1
<1>10. d \in [P -> Int] /\ next \subseteq P
  <2> HIDE DEF next
  <2>1. \A p \in P : b(p) \in Int
    BY <1>1, <1>9
  <2> HIDE DEF b
  <2>2. QED
    BY <1>9, <2>1
<1>11. \A p \in P : d[p] = b(p)
  OBVIOUS
<1>12. \A p \in P : d[p] <= w.d[p] /\ (p \in next <=> d[p] < w.d[p])
  BY <1>1, <1>9, <1>11
<1>13. ASSUME NEW p \in next
       PROVE \E e \in DOMAIN len : e[1] \in w.queue /\ e[2] = p /\ d[p] = w.d[e[1]] + len[e]
  BY <1>4, <1>8, <1>9, <1>11
<1>14. ASSUME NEW e \in DOMAIN len, e[1] \in w.queue
       PROVE  d[e[2]] <= w.d[e[1]] + len[e]
  <2>1. e[1] \in P /\ e[2] \in P /\ len[e] \in Int /\ w.d[e[1]] \in Int /\ w.d[e[2]] \in Int
    BY <1>1, GraphParts
  <2>2. CASE e \in I
    <3>1. e[2] \in next
      BY <1>7, <2>2
    <3>2. QED
      BY <1>8, <1>11, <2>1, <2>2, <3>1
  <2>3. CASE e \notin I
    <3>1. ~(w.d[e[1]] + len[e] < w.d[e[2]])
      BY <1>5, <1>14, <2>3
    <3>2. d[e[2]] <= w.d[e[2]] /\ d[e[2]] \in Int
      BY <1>10, <1>12, <2>1
    <3>3. QED
      BY <2>1, <3>1, <3>2
  <2>4. QED
    BY <2>2, <2>3
<1> HIDE DEF d, next
<1>15. QED
  BY <1>3, <1>10, <1>12, <1>13, <1>14, WaveParts DEF Relaxes, Lowers

(* What holds of a wave w that began as start.                             *)
InBounds(P, w) ==
  /\ IsWave(P, w)
  /\ \A p \in P : w.d[p] <= Infinity
  /\ \A p \in w.queue : w.d[p] < Infinity

(* Every edge from a node that is not in the queue is kept.                *)
Loose(len, w) ==
  \A e \in DOMAIN len : e[1] \notin w.queue /\ w.d[e[1]] < Infinity
                          => w.d[e[2]] <= w.d[e[1]] + len[e]

NotBelow(P, len, start, w) ==
  \A h \in Distances0(P) : Relaxed(len, h) /\ Below(P, h, start.d) => Below(P, h, w.d)

(* Nodes only get nearer, and only across edges; S are the sweeps so far.  *)
Moved(P, len, start, S, w) ==
  /\ Below(P, w.d, start.d)
  /\ \A p \in P : w.d[p] < start.d[p] => \E e \in DOMAIN len : e[2] = p
  /\ S # {} => \A p \in w.queue : w.d[p] < start.d[p]

Traceable(P, start, S, w) ==
  Cardinality(S) >= 2 /\ w.queue # {} => \E p \in P \ {Origin} : w.d[p] < start.d[p]

(* The nodes that a node of the queue was reached through are all          *)
(* different, since each of them is no nearer than the schedule allows.    *)
Behind(P, d, g, p, A) ==
  A \subseteq P /\ p \notin A /\ \A u \in A : d[u] - g[u] <= d[p] - g[p]

Chained(P, len, S, w) ==
  \A g \in [P -> Int] : IsSchedule(P, len, g) =>
    \A p \in w.queue : \E A \in SUBSET P :
      Behind(P, w.d, g, p, A) /\ Cardinality(A) = Cardinality(S)

(* So none is farther away than m for each node, m the length of an edge.  *)
Near(P, len, m, w) ==
  \A g \in [P -> Int] : IsSchedule(P, len, g) =>
    \A p \in P : w.d[p] < Infinity => \E A \in SUBSET P :
      Behind(P, w.d, g, p, A) /\ w.d[p] <= Cardinality(A) * m

LEMMA WaveNumbers ==
  ASSUME NEW P, NEW w, IsWave(P, w), NEW p \in P
  PROVE  w.d[p] \in Int
BY DEF IsWave

LEMMA StaysInBounds ==
  ASSUME NEW P, NEW len, IsGraph(P, len), NEW w, InBounds(P, w), NEW v, Lowers(P, len, w, v)
  PROVE  InBounds(P, v)
<1>1. IsWave(P, w) /\ IsWave(P, v)
  BY DEF InBounds, Lowers
<1>2. \A p \in P : v.d[p] \in Int /\ w.d[p] \in Int /\ v.d[p] <= w.d[p] /\ w.d[p] <= Infinity
  BY <1>1, WaveNumbers DEF InBounds, Lowers
<1>3. \A p \in v.queue : p \in P /\ v.d[p] < w.d[p]
  BY <1>1 DEF IsWave, Lowers
<1>4. Infinity \in Int
  BY NetworkAssumption DEF Abstract!ProperNetwork
<1>5. QED
  BY <1>1, <1>2, <1>3, <1>4 DEF InBounds

LEMMA StaysLoose ==
  ASSUME NEW P, NEW len, IsGraph(P, len), NEW w, InBounds(P, w), NEW v, Relaxes(P, len, w, v),
         Loose(len, w)
  PROVE  Loose(len, v)
<1> SUFFICES ASSUME NEW e \in DOMAIN len, e[1] \notin v.queue, v.d[e[1]] < Infinity
             PROVE  v.d[e[2]] <= v.d[e[1]] + len[e]
  BY DEF Loose
<1>1. IsWave(P, w) /\ IsWave(P, v)
  BY DEF InBounds, Relaxes, Lowers
<1>2. e[1] \in P /\ e[2] \in P /\ len[e] \in Int
  BY GraphParts
<1>3. /\ v.d[e[1]] \in Int /\ w.d[e[1]] \in Int /\ v.d[e[2]] \in Int /\ w.d[e[2]] \in Int
      /\ v.d[e[1]] <= w.d[e[1]] /\ v.d[e[2]] <= w.d[e[2]] /\ ~(v.d[e[1]] < w.d[e[1]])
  BY <1>1, <1>2, WaveNumbers DEF Relaxes, Lowers
<1>4. v.d[e[1]] = w.d[e[1]]
  BY <1>3
<1>5. w.d[e[2]] <= w.d[e[1]] + len[e] \/ v.d[e[2]] <= w.d[e[1]] + len[e]
  BY <1>4 DEF Loose, Relaxes, Lowers
<1>6. QED
  BY <1>2, <1>3, <1>4, <1>5

LEMMA StaysNotBelow ==
  ASSUME NEW P, NEW len, IsGraph(P, len), NEW w, InBounds(P, w), NEW v, Lowers(P, len, w, v),
         NEW start, NotBelow(P, len, start, w)
  PROVE  NotBelow(P, len, start, v)
<1> SUFFICES ASSUME NEW h \in Distances0(P), Relaxed(len, h), Below(P, h, start.d), NEW p \in P
             PROVE  h[p] <= v.d[p]
  BY DEF NotBelow, Below
<1>1. IsWave(P, w) /\ IsWave(P, v)
  BY DEF InBounds, Lowers
<1>2. \A q \in P : h[q] \in Int /\ h[q] <= w.d[q] /\ v.d[q] \in Int /\ w.d[q] \in Int
  BY <1>1, WaveNumbers DEF NotBelow, Below, Distances0
<1>3. CASE p \notin v.queue
  <2>1. ~(v.d[p] < w.d[p]) /\ v.d[p] <= w.d[p]
    BY <1>3 DEF Lowers
  <2>2. QED
    BY <1>2, <2>1
<1>4. CASE p \in v.queue
  <2>1. PICK e \in DOMAIN len : e[1] \in w.queue /\ e[2] = p /\ v.d[p] = w.d[e[1]] + len[e]
    BY <1>4 DEF Lowers
  <2>2. e[1] \in P /\ len[e] \in Int /\ w.d[e[1]] < Infinity
    BY <2>1, GraphParts DEF InBounds
  <2>3. Infinity \in Int
    BY NetworkAssumption DEF Abstract!ProperNetwork
  <2>4. h[e[1]] < Infinity
    BY <1>2, <2>2, <2>3
  <2>5. h[p] <= h[e[1]] + len[e]
    BY <2>1, <2>4 DEF Relaxed
  <2>6. QED
    BY <1>2, <2>1, <2>2, <2>5
<1>5. QED
  BY <1>3, <1>4

LEMMA StaysMoved ==
  ASSUME NEW P, NEW len, IsGraph(P, len), NEW w, InBounds(P, w), NEW v, Relaxes(P, len, w, v),
         NEW start, IsWave(P, start), NEW S, NEW T, Moved(P, len, start, S, w)
  PROVE  Moved(P, len, start, T, v)
<1>1. IsWave(P, w) /\ IsWave(P, v)
  BY DEF InBounds, Relaxes, Lowers
<1>2. \A q \in P : v.d[q] \in Int /\ w.d[q] \in Int /\ start.d[q] \in Int
  BY <1>1, WaveNumbers
<1>3. \A q \in P : w.d[q] <= start.d[q] /\ v.d[q] <= w.d[q]
  BY DEF Moved, Relaxes, Lowers, Below
<1>4. \A q \in P : v.d[q] <= start.d[q]
  BY <1>2, <1>3
<1>5. ASSUME NEW q \in v.queue PROVE v.d[q] < start.d[q] /\ \E e \in DOMAIN len : e[2] = q
  <2>1. q \in P /\ v.d[q] < w.d[q]
    BY <1>1, <1>5 DEF IsWave, Relaxes, Lowers
  <2>2. \E e \in DOMAIN len : e[2] = q
    BY <1>5 DEF Relaxes, Lowers
  <2>3. QED
    BY <1>2, <1>3, <2>1, <2>2
<1>6. ASSUME NEW q \in P, v.d[q] < start.d[q] PROVE \E e \in DOMAIN len : e[2] = q
  <2>1. CASE q \in v.queue
    BY <1>5, <2>1
  <2>2. CASE q \notin v.queue
    <3>1. ~(v.d[q] < w.d[q])
      BY <2>2 DEF Relaxes, Lowers
    <3>2. w.d[q] < start.d[q]
      BY <1>2, <1>3, <1>6, <3>1
    <3>3. QED
      BY <3>2 DEF Moved
  <2>3. QED
    BY <2>1, <2>2
<1>7. QED
  BY <1>4, <1>5, <1>6 DEF Moved, Below

LEMMA StaysTraceable ==
  ASSUME NEW P, NEW len, IsGraph(P, len), NEW w, InBounds(P, w), NEW v, Relaxes(P, len, w, v),
         NEW start, IsWave(P, start), NEW S, S # {}, NEW T, Moved(P, len, start, S, w)
  PROVE  Traceable(P, start, T, v)
<1> SUFFICES ASSUME v.queue # {}
             PROVE  \E p \in P \ {Origin} : v.d[p] < start.d[p]
  BY DEF Traceable
<1>1. IsWave(P, w) /\ IsWave(P, v)
  BY DEF InBounds, Relaxes, Lowers
<1>2. \A q \in P : v.d[q] \in Int /\ w.d[q] \in Int /\ start.d[q] \in Int
  BY <1>1, WaveNumbers
<1>3. \A q \in P : w.d[q] <= start.d[q] /\ v.d[q] <= w.d[q]
  BY DEF Moved, Relaxes, Lowers, Below
<1>4. PICK p \in v.queue : p \in P /\ v.d[p] < w.d[p]
  BY <1>1 DEF IsWave, Relaxes, Lowers
<1>5. PICK e \in DOMAIN len : e[1] \in w.queue /\ e[2] = p
  BY <1>4 DEF Relaxes, Lowers
<1>6. e[1] \in P /\ e[1] # p
  BY <1>5, GraphParts
<1>7. w.d[e[1]] < start.d[e[1]]
  BY <1>5 DEF Moved
<1>8. v.d[e[1]] < start.d[e[1]] /\ v.d[p] < start.d[p]
  BY <1>2, <1>3, <1>4, <1>6, <1>7
<1>9. QED
  BY <1>4, <1>6, <1>8

(* One more node behind the one that an edge has been crossed to.          *)
Crossed(len, w, v, e) == e[2] \in v.queue /\ v.d[e[2]] = w.d[e[1]] + len[e]

LEMMA BehindGrows ==
  ASSUME NEW P, NEW len, IsGraph(P, len), NEW g, IsSchedule(P, len, g),
         NEW w, IsWave(P, w), NEW v, Lowers(P, len, w, v), NEW A,
         NEW e \in DOMAIN len, Crossed(len, w, v, e),
         Behind(P, w.d, g, e[1], A)
  PROVE  /\ Behind(P, v.d, g, e[2], A \cup {e[1]})
         /\ IsFiniteSet(A) /\ Cardinality(A \cup {e[1]}) = Cardinality(A) + 1
<1> DEFINE q == e[1]
           p == e[2]
           d == w.d
           f == v.d
<1>0. \A u \in P : f[u] \in Int /\ d[u] \in Int /\ f[u] <= d[u]
  BY WaveNumbers DEF Lowers
<1>1. q \in P /\ p \in P /\ len[e] \in Int /\ f[p] = d[q] + len[e] /\ f[p] < d[p]
  BY GraphParts DEF Lowers, Crossed
<1>2. g[p] <= g[q] + len[e] /\ \A u \in P : g[u] \in Int /\ d[u] \in Int /\ f[u] \in Int
  BY <1>0 DEF IsSchedule
<1>3. A \subseteq P /\ q \notin A /\ \A u \in A : d[u] - g[u] <= d[q] - g[q]
  BY DEF Behind
<1> HIDE DEF d, f, p, q
<1>4. d[q] - g[q] <= f[p] - g[p]
  BY <1>1, <1>2
<1>5. \A u \in A \cup {q} : u \in P /\ d[u] - g[u] <= f[p] - g[p]
  BY <1>1, <1>2, <1>3, <1>4
<1>6. \A u \in A \cup {q} : f[u] - g[u] <= f[p] - g[p]
  BY <1>0, <1>1, <1>2, <1>5
<1>7. p \notin A \cup {q}
  BY <1>0, <1>1, <1>2, <1>5
<1>8. IsFiniteSet(A)
  BY <1>3, FS_Subset DEF IsGraph
<1>9. Behind(P, f, g, p, A \cup {q}) /\ Cardinality(A \cup {q}) = Cardinality(A) + 1
  BY <1>3, <1>5, <1>6, <1>7, <1>8, FS_AddElement DEF Behind
<1>10. QED
  BY <1>8, <1>9 DEF f, p, q
LEMMA StaysChained ==
  ASSUME NEW P, NEW len, IsGraph(P, len), NEW w, InBounds(P, w), NEW v, Lowers(P, len, w, v),
         NEW S, NEW T, Cardinality(T) = Cardinality(S) + 1, Chained(P, len, S, w)
  PROVE  Chained(P, len, T, v)
<1> SUFFICES ASSUME NEW g \in [P -> Int], IsSchedule(P, len, g), NEW p \in v.queue
             PROVE  \E A \in SUBSET P : Behind(P, v.d, g, p, A) /\ Cardinality(A) = Cardinality(T)
  BY DEF Chained
<1>1. IsWave(P, w) /\ IsWave(P, v)
  BY DEF InBounds, Lowers
<1>2. w.d \in [P -> Int] /\ v.d \in [P -> Int] /\ p \in P
  BY <1>1 DEF IsWave
<1>3. (\A u \in P : v.d[u] <= w.d[u]) /\ v.d[p] < w.d[p]
  BY <1>2 DEF Lowers
<1>4. PICK e \in DOMAIN len : e[1] \in w.queue /\ e[2] = p /\ v.d[p] = w.d[e[1]] + len[e]
  BY DEF Lowers
<1>5. PICK A \in SUBSET P : Behind(P, w.d, g, e[1], A) /\ Cardinality(A) = Cardinality(S)
  BY <1>4 DEF Chained
<1>6. Behind(P, v.d, g, p, A \cup {e[1]}) /\ Cardinality(A \cup {e[1]}) = Cardinality(A) + 1
  <2>1. Crossed(len, w, v, e)
    BY <1>4 DEF Crossed
  <2>2. /\ Behind(P, v.d, g, e[2], A \cup {e[1]})
        /\ IsFiniteSet(A) /\ Cardinality(A \cup {e[1]}) = Cardinality(A) + 1
    BY <1>1, <1>5, <2>1, BehindGrows
  <2>3. QED
    BY <1>4, <2>2
<1>7. A \cup {e[1]} \in SUBSET P
  BY <1>6 DEF Behind
<1>8. QED
  BY <1>5, <1>6, <1>7

LEMMA StaysNear ==
  ASSUME NEW P, NEW len, IsGraph(P, len), NEW w, InBounds(P, w), NEW v, Relaxes(P, len, w, v),
         NEW m \in Nat, \A e \in DOMAIN len : len[e] <= m, Near(P, len, m, w)
  PROVE  Near(P, len, m, v)
<1> SUFFICES ASSUME NEW g \in [P -> Int], IsSchedule(P, len, g), NEW p \in P, v.d[p] < Infinity
             PROVE  \E A \in SUBSET P : Behind(P, v.d, g, p, A) /\ v.d[p] <= Cardinality(A) * m
  BY DEF Near
<1>1. IsWave(P, w) /\ IsWave(P, v)
  BY DEF InBounds, Relaxes, Lowers
<1>2. w.d \in [P -> Int] /\ v.d \in [P -> Int]
  BY <1>1 DEF IsWave
<1>3. \A u \in P : v.d[u] <= w.d[u] /\ v.d[u] \in Int /\ w.d[u] \in Int /\ g[u] \in Int
  BY <1>2 DEF Relaxes, Lowers
<1>4. CASE p \in v.queue
  <2>1. PICK e \in DOMAIN len : e[1] \in w.queue /\ e[2] = p /\ v.d[p] = w.d[e[1]] + len[e]
    BY <1>4 DEF Relaxes, Lowers
  <2>2. e[1] \in P /\ w.d[e[1]] < Infinity /\ len[e] \in Int
    BY <2>1, GraphParts DEF InBounds
  <2>3. PICK A \in SUBSET P : Behind(P, w.d, g, e[1], A) /\ w.d[e[1]] <= Cardinality(A) * m
    BY <2>2 DEF Near
  <2>5. /\ Behind(P, v.d, g, p, A \cup {e[1]})
        /\ IsFiniteSet(A) /\ Cardinality(A \cup {e[1]}) = Cardinality(A) + 1
    <3>1. Crossed(len, w, v, e)
      BY <1>4, <2>1 DEF Crossed
    <3>2. /\ Behind(P, v.d, g, e[2], A \cup {e[1]})
          /\ IsFiniteSet(A) /\ Cardinality(A \cup {e[1]}) = Cardinality(A) + 1
      <4>1. Behind(P, w.d, g, e[1], A)
        BY <2>3
      <4>2. Lowers(P, len, w, v)
        BY DEF Relaxes
      <4>3. QED
        BY ONLY IsGraph(P, len), IsSchedule(P, len, g), <4>2, e \in DOMAIN len,
                <1>1, <3>1, <4>1, BehindGrows
    <3>3. QED
      BY <2>1, <3>2
  <2>6. Cardinality(A) \in Nat
    BY <2>5, FS_CardinalityType
  <2>7. (Cardinality(A) + 1) * m = Cardinality(A) * m + m
    BY <2>6
  <2>8. w.d[e[1]] + len[e] <= Cardinality(A) * m + m
    <3>1. \A x \in Int : w.d[e[1]] <= x => w.d[e[1]] + len[e] <= x + m
      BY <1>3, <2>2
    <3>2. QED
      BY <2>3, <2>6, <3>1
  <2>9. A \cup {e[1]} \in SUBSET P
    BY <2>5 DEF Behind
  <2>10. QED
    BY <2>1, <2>5, <2>7, <2>8, <2>9
<1>5. CASE p \notin v.queue
  <2>1. v.d[p] = w.d[p]
    BY <1>3, <1>5 DEF Relaxes, Lowers
  <2>2. PICK A \in SUBSET P : Behind(P, w.d, g, p, A) /\ w.d[p] <= Cardinality(A) * m
    BY <2>1 DEF Near
  <2>3. Behind(P, v.d, g, p, A)
    <3>1. \A u \in A : v.d[u] - g[u] <= v.d[p] - g[p]
      BY <1>3, <2>1, <2>2 DEF Behind
    <3>2. QED
      BY <2>2, <3>1 DEF Behind
  <2>4. QED
    BY <2>1, <2>2, <2>3
<1>6. QED
  BY <1>4, <1>5
-----------------------------------------------------------------------------
(***************************************************************************)
(* 4. Propagation: sweep after sweep.                                      *)
(***************************************************************************)
LastOf(S) == Max(S)

SweepOne(k, i, w) == Swept(k.len, w)

Propagating(k, S, w) ==
  /\ InBounds(k.P, w) /\ Loose(k.len, w)
  /\ NotBelow(k.P, k.len, k.start, w)
  /\ Moved(k.P, k.len, k.start, S, w)
  /\ Traceable(k.P, k.start, S, w)
  /\ Chained(k.P, k.len, S, w)
  /\ Near(k.P, k.len, k.m, k.start) => Near(k.P, k.len, k.m, w)

SweepLoop == INSTANCE FoldInduction WITH Op <- SweepOne, Pick <- LastOf, I <- Propagating

(* The turns that a loop takes.                                            *)
LEMMA TurnsFinite ==
  ASSUME NEW n \in Nat
  PROVE  /\ DOMAIN Turns(n) = 1 .. n /\ IsFiniteSet(1 .. n) /\ Cardinality(1 .. n) = n
         /\ \A S \in SUBSET (1 .. n) : S # {} => LastOf(S) \in S
         /\ \A S \in SUBSET (1 .. n) : S # {} =>
              Cardinality(S) = Cardinality(S \ {LastOf(S)}) + 1
<1>1. DOMAIN Turns(n) = 1 .. n /\ IsFiniteSet(1 .. n) /\ Cardinality(1 .. n) = n
  BY FS_Interval DEF Turns
<1>2. ASSUME NEW S \in SUBSET (1 .. n), S # {}
      PROVE  LastOf(S) \in S /\ Cardinality(S) = Cardinality(S \ {LastOf(S)}) + 1
  <2>1. IsFiniteSet(S)
    BY <1>1, FS_Subset
  <2>2. \A x \in S : x \in Int
    BY <1>2
  <2>3. LastOf(S) \in S
    BY ONLY <1>2, <2>1, <2>2, GreatestOf DEF LastOf
  <2>4. Cardinality(S \ {LastOf(S)}) = Cardinality(S) - 1 /\ Cardinality(S) \in Nat
    BY <2>1, <2>3, FS_RemoveElement, FS_CardinalityType
  <2>5. QED
    BY <2>3, <2>4
<1>3. QED
  BY <1>1, <1>2

(* One sweep, or none if the queue is empty.                               *)
LEMMA StaysPropagating ==
  ASSUME NEW k, IsGraph(k.P, k.len), IsWave(k.P, k.start), k.m \in Nat,
         \A e \in DOMAIN k.len : k.len[e] <= k.m,
         NEW S, NEW T, IsFiniteSet(S), Cardinality(T) = Cardinality(S) + 1,
         NEW w, Propagating(k, S, w)
  PROVE  Propagating(k, T, Swept(k.len, w))
<1> DEFINE P == k.P
           len == k.len
           start == k.start
           m == k.m
           v == Swept(k.len, w)
<1>1. /\ IsGraph(P, len) /\ IsWave(P, start) /\ m \in Nat
      /\ \A e \in DOMAIN len : len[e] <= m
      /\ InBounds(P, w) /\ Loose(len, w) /\ NotBelow(P, len, start, w)
      /\ Moved(P, len, start, S, w) /\ Traceable(P, start, S, w) /\ Chained(P, len, S, w)
      /\ Near(P, len, m, start) => Near(P, len, m, w)
  BY DEF Propagating
<1>2. SUFFICES /\ InBounds(P, v) /\ Loose(len, v) /\ NotBelow(P, len, start, v)
               /\ Moved(P, len, start, T, v) /\ Traceable(P, start, T, v) /\ Chained(P, len, T, v)
               /\ Near(P, len, m, start) => Near(P, len, m, v)
  BY DEF Propagating
<1>3. v = IF w.queue = {} THEN w ELSE Sweep(len, w)
  BY DEF Swept, Settled
<1> HIDE DEF P, len, start, m, v
<1>4. CASE w.queue = {}
  <2>1. v = w
    BY <1>3, <1>4
  <2>2. Moved(P, len, start, T, w) /\ Traceable(P, start, T, w) /\ Chained(P, len, T, w)
    BY <1>1, <1>4 DEF Moved, Traceable, Chained
  <2>3. QED
    BY <1>1, <2>1, <2>2
<1>5. CASE w.queue # {}
  <2>1. Relaxes(P, len, w, v)
    BY <1>1, <1>3, <1>5, SweepRelaxes DEF InBounds
  <2>2. InBounds(P, v)
    BY <1>1, <2>1, StaysInBounds DEF Relaxes
  <2>3. Loose(len, v)
    BY <1>1, <2>1, StaysLoose
  <2>4. NotBelow(P, len, start, v)
    BY <1>1, <2>1, StaysNotBelow DEF Relaxes
  <2>5. Moved(P, len, start, T, v)
    BY <1>1, <2>1, StaysMoved
  <2>6. Traceable(P, start, T, v)
    <3>1. CASE S = {}
      <4>1. Cardinality(S) = 0
        BY <3>1, FS_EmptySet
      <4>2. ~(Cardinality(T) >= 2)
        BY <4>1
      <4>3. QED
        BY <4>2 DEF Traceable
    <3>2. CASE S # {}
      BY <1>1, <2>1, <3>2, StaysTraceable
    <3>3. QED
      BY <3>1, <3>2
  <2>7. Chained(P, len, T, v)
    BY <1>1, <2>1, StaysChained DEF Relaxes
  <2>8. Near(P, len, m, start) => Near(P, len, m, v)
    BY <1>1, <2>1, StaysNear
  <2>9. QED
    BY <2>2, <2>3, <2>4, <2>5, <2>6, <2>7, <2>8
<1>6. QED
  BY <1>4, <1>5

LEMMA PropagatingAtEnd ==
  ASSUME NEW P, NEW len, IsGraph(P, len), NEW m \in Nat, \A e \in DOMAIN len : len[e] <= m,
         NEW w, InBounds(P, w), Loose(len, w)
  PROVE  Propagating([P |-> P, len |-> len, start |-> w, m |-> m], 1 .. Cardinality(P),
                     Propagated(len, w))
<1> DEFINE k == [P |-> P, len |-> len, start |-> w, m |-> m]
           n == Cardinality(P)
           S == 1 .. n
           r == Propagated(len, w)
<1>1. IsWave(P, w) /\ DOMAIN w.d = P
  BY DEF InBounds, IsWave
<1>2. n \in Nat
  BY FS_CardinalityType DEF IsGraph
<1>3. /\ DOMAIN Turns(n) = S /\ IsFiniteSet(S)
      /\ \A T \in SUBSET S : T # {} => LastOf(T) \in T
      /\ \A T \in SUBSET S : T # {} => Cardinality(T) = Cardinality(T \ {LastOf(T)}) + 1
  <2> HIDE DEF n
  <2>1. QED
    BY <1>2, TurnsFinite
<1>4. r = SweepLoop!Fold(k, w, S)
  BY <1>1, <1>3 DEF Propagated, FoldLeft, SweepLoop!Fold, SweepLoop!MapThenFoldSet,
                    MapThenFoldSet, SweepOne, LastOf
<1>5. k.P = P /\ k.len = len /\ k.start = w /\ k.m = m
  OBVIOUS
<1> HIDE DEF k, r, n, S
<1>6. SweepLoop!IsFiniteSet(S)
  BY <1>3, Zenon DEF SweepLoop!IsFiniteSet, IsFiniteSet
<1>7. SweepLoop!Picks(S)
  BY <1>3 DEF SweepLoop!Picks
<1>8. Propagating(k, {}, w)
  <2>1. Moved(P, len, w, {}, w)
    BY <1>1, WaveNumbers DEF Moved, Below
  <2>2. Cardinality({}) = 0
    BY FS_EmptySet
  <2>3. Traceable(P, w, {}, w)
    BY <2>2 DEF Traceable
  <2>4. Chained(P, len, {}, w)
    <3>1. \A g : \A p : Behind(P, w.d, g, p, {})
      BY DEF Behind
    <3>2. QED
      BY <3>1 DEF Chained
  <2>5. NotBelow(P, len, w, w)
    BY DEF NotBelow
  <2>6. QED
    BY <1>5, <2>1, <2>3, <2>4, <2>5 DEF Propagating
<1>9. ASSUME NEW T \in SUBSET S, NEW v, T # {}, Propagating(k, T \ {LastOf(T)}, v)
      PROVE  Propagating(k, T, SweepOne(k, LastOf(T), v))
  <2>1. Cardinality(T) = Cardinality(T \ {LastOf(T)}) + 1 /\ IsFiniteSet(T \ {LastOf(T)})
    BY <1>3, <1>9, FS_Subset
  <2>2. Propagating(k, T, Swept(k.len, v))
    BY <1>1, <1>5, <1>9, <2>1, StaysPropagating
  <2>3. QED
    BY <2>2 DEF SweepOne
<1>10. Propagating(k, S, SweepLoop!Fold(k, w, S))
  BY ONLY <1>6, <1>7, <1>8, <1>9, SweepLoop!FoldKeeps
<1>11. QED
  BY <1>4, <1>10 DEF k, r, n, S
LEMMA TwoNodes ==
  ASSUME NEW P, IsFiniteSet(P), NEW p \in P, NEW q \in P, p # q
  PROVE  Cardinality(P) >= 2 /\ Cardinality(P) \in Nat
<1>1. /\ IsFiniteSet({p}) /\ Cardinality({p}) = 1
      /\ IsFiniteSet({p} \cup {q}) /\ Cardinality({p} \cup {q}) = 2
  <2> DEFINE S == {p}
  <2>1. IsFiniteSet(S) /\ Cardinality(S) = 1 /\ q \notin S
    BY FS_Singleton
  <2> HIDE DEF S
  <2>2. IsFiniteSet(S \cup {q}) /\ Cardinality(S \cup {q}) = Cardinality(S) + 1
    BY <2>1, FS_AddElement
  <2>3. QED
    BY <2>1, <2>2 DEF S
<1>2. {p} \cup {q} \subseteq P
  OBVIOUS
<1>3. Cardinality({p} \cup {q}) <= Cardinality(P)
  BY <1>2, FS_Subset
<1>4. QED
  BY <1>1, <1>3, FS_CardinalityType

(* What propagation arrives at: the queue is empty if there is a schedule, *)
(* and if it is not, some node other than the origin shows it.             *)
Arrived(P, len, m, w, v) ==
  /\ InBounds(P, v) /\ Below(P, v.d, w.d) /\ NotBelow(P, len, w, v)
  /\ HasSchedule(P, len) => Settled(v)
  /\ Settled(v) => Relaxed(len, v.d)
  /\ ~Settled(v) => \E p \in P \ {Origin} : v.d[p] < w.d[p] /\ \E e \in DOMAIN len : e[2] = p
  /\ Near(P, len, m, w) => Near(P, len, m, v)

LEMMA PropagatedArrives ==
  ASSUME NEW P, NEW len, IsGraph(P, len), NEW m \in Nat, \A e \in DOMAIN len : len[e] <= m,
         NEW w, InBounds(P, w), Loose(len, w)
  PROVE  Arrived(P, len, m, w, Propagated(len, w))
<1> DEFINE v == Propagated(len, w)
           n == Cardinality(P)
           S == 1 .. n
           k == [P |-> P, len |-> len, start |-> w, m |-> m]
<1>1. k.P = P /\ k.len = len /\ k.start = w /\ k.m = m
  OBVIOUS
<1>2. Propagating(k, S, v)
  BY PropagatingAtEnd
<1>3. n \in Nat /\ IsFiniteSet(P)
  BY FS_CardinalityType DEF IsGraph
<1>4. Cardinality(S) = n
  <2> HIDE DEF n
  <2>1. QED
    BY <1>3, TurnsFinite
<1> HIDE DEF k, v, S
<1>5. /\ InBounds(P, v) /\ Loose(len, v) /\ NotBelow(P, len, w, v)
      /\ Moved(P, len, w, S, v) /\ Traceable(P, w, S, v) /\ Chained(P, len, S, v)
      /\ Near(P, len, m, w) => Near(P, len, m, v)
  BY <1>1, <1>2 DEF Propagating
<1>6. v.queue \subseteq P
  BY <1>5 DEF InBounds, IsWave
<1>7. ASSUME HasSchedule(P, len), NEW p \in v.queue PROVE FALSE
  <2>1. PICK g \in [P -> Int] : IsSchedule(P, len, g)
    BY <1>7 DEF HasSchedule
  <2>2. PICK A \in SUBSET P : Behind(P, v.d, g, p, A) /\ Cardinality(A) = n
    BY <1>4, <1>5, <1>7, <2>1 DEF Chained
  <2>3. A \subseteq P \ {p} /\ p \in P
    BY <1>6, <2>2 DEF Behind
  <2>4. IsFiniteSet(P \ {p}) /\ Cardinality(P \ {p}) = n - 1
    BY <1>3, <2>3, FS_RemoveElement
  <2>5. Cardinality(A) <= n - 1
    BY <2>3, <2>4, FS_Subset
  <2>6. QED
    BY <1>3, <2>2, <2>5
<1>8. Settled(v) => Relaxed(len, v.d)
  BY <1>5 DEF Settled, Relaxed, Loose
<1>9. ASSUME ~Settled(v)
      PROVE  \E p \in P \ {Origin} : v.d[p] < w.d[p] /\ \E e \in DOMAIN len : e[2] = p
  <2>1. PICK q \in P : q \in v.queue
    BY <1>6, <1>9 DEF Settled
  <2>2. n # 0
    BY <1>3, <2>1, FS_EmptySet
  <2>3. S # {}
    BY <1>3, <2>2 DEF S
  <2>4. PICK e \in DOMAIN len : e[2] = q
    BY <1>5, <2>1, <2>3 DEF Moved
  <2>5. n >= 2
    BY <1>3, <2>4, GraphParts, TwoNodes
  <2>6. PICK p \in P \ {Origin} : v.d[p] < w.d[p]
    BY <1>4, <1>5, <2>1, <2>5 DEF Traceable
  <2>7. QED
    BY <1>5, <2>6 DEF Moved
<1>10. Arrived(P, len, m, w, v)
  BY <1>5, <1>7, <1>8, <1>9 DEF Arrived, Settled, Moved
<1>11. QED
  BY <1>10 DEF v
-----------------------------------------------------------------------------
(***************************************************************************)
(* 5. Distances from a node, and distances that are corrected.             *)
(***************************************************************************)
(* No simple path is as long as Infinity.                                  *)
Small(P, len, m) ==
  /\ m \in Nat /\ m * Cardinality(P) < Infinity
  /\ \A e \in DOMAIN len : len[e] <= m

(* What can be reached from a node that is reached is reached.             *)
Closed(len, d) == \A e \in DOMAIN len : d[e[1]] < Infinity => d[e[2]] < Infinity

LEMMA InfinityType == Infinity \in Nat /\ Infinity > 0
BY NetworkAssumption DEF Abstract!ProperNetwork

LEMMA TimesGrows ==
  ASSUME NEW a \in Nat, NEW b \in Nat, NEW m \in Nat, a <= b
  PROVE  a * m <= b * m
<1>1. b = a + (b - a) /\ b - a \in Nat
  OBVIOUS
<1>2. b * m = a * m + (b - a) * m /\ (b - a) * m >= 0
  BY <1>1
<1>3. QED
  BY <1>2

(* A node that is Behind others is nearer than Infinity by an edge.        *)
LEMMA NearMeansClosed ==
  ASSUME NEW P, NEW len, NEW m, NEW w, IsGraph(P, len), Small(P, len, m), IsWave(P, w),
         HasSchedule(P, len), Near(P, len, m, w), Relaxed(len, w.d)
  PROVE  Closed(len, w.d)
<1> SUFFICES ASSUME NEW e \in DOMAIN len, w.d[e[1]] < Infinity PROVE w.d[e[2]] < Infinity
  BY DEF Closed
<1>1. e[1] \in P /\ e[2] \in P /\ len[e] \in Int /\ len[e] <= m /\ m \in Nat
  BY GraphParts DEF Small
<1>2. PICK g \in [P -> Int] : IsSchedule(P, len, g)
  BY DEF HasSchedule
<1>3. PICK A \in SUBSET P : Behind(P, w.d, g, e[1], A) /\ w.d[e[1]] <= Cardinality(A) * m
  BY <1>1, <1>2 DEF Near
<1>4. IsFiniteSet(P) /\ Cardinality(P) \in Nat
  BY FS_CardinalityType DEF IsGraph
<1>5. A \subseteq P \ {e[1]}
  BY <1>3 DEF Behind
<1>6. IsFiniteSet(P \ {e[1]}) /\ Cardinality(P \ {e[1]}) = Cardinality(P) - 1
  BY <1>1, <1>4, FS_RemoveElement
<1>7. Cardinality(A) \in Nat /\ Cardinality(A) <= Cardinality(P) - 1
  BY <1>5, <1>6, FS_Subset, FS_CardinalityType
<1> DEFINE a == Cardinality(A)
           n == Cardinality(P)
<1>8. a + 1 \in Nat /\ a + 1 <= n /\ a \in Nat /\ n \in Nat
  BY <1>4, <1>7
<1>9. w.d[e[1]] <= a * m /\ m * n < Infinity
  BY <1>3 DEF Small
<1> HIDE DEF a, n
<1>10. (a + 1) * m <= n * m /\ (a + 1) * m = a * m + m /\ n * m = m * n
  BY <1>1, <1>8, TimesGrows
<1>11. a * m \in Int /\ n * m \in Int
  BY <1>1, <1>8
<1>12. w.d[e[2]] <= w.d[e[1]] + len[e] /\ w.d[e[1]] \in Int /\ w.d[e[2]] \in Int
  BY <1>1, WaveNumbers DEF Relaxed
<1>13. w.d[e[2]] <= a * m + m
  BY <1>1, <1>9, <1>11, <1>12
<1>14. a * m + m < Infinity
  BY <1>1, <1>9, <1>10, <1>11, InfinityType
<1>15. QED
  BY <1>1, <1>11, <1>12, <1>13, <1>14, InfinityType

LEMMA FromParts ==
  ASSUME NEW P, NEW p \in P
  PROVE  /\ From(p, P).d = [q \in P |-> IF q = p THEN 0 ELSE Infinity]
         /\ From(p, P).queue = {p} /\ InBounds(P, From(p, P))
         /\ \A len : IsGraph(P, len) => Loose(len, From(p, P))
<1> DEFINE d == [q \in P |-> IF q = p THEN 0 ELSE Infinity]
           w == From(p, P)
<1>1. d \in [P -> Int] /\ {p} \subseteq P
  BY InfinityType
<1>2. \A q \in P : d[q] = IF q = p THEN 0 ELSE Infinity
  OBVIOUS
<1>3. w = Wave(d, {p})
  BY DEF From
<1> HIDE DEF d, w
<1>4. w.d = d /\ w.queue = {p} /\ IsWave(P, w)
  BY <1>1, <1>3, WaveParts
<1>5. InBounds(P, w)
  BY <1>2, <1>4, InfinityType DEF InBounds
<1>6. QED
  <2>1. ASSUME NEW len, IsGraph(P, len) PROVE Loose(len, w)
    BY <1>2, <1>4, <2>1, GraphParts, InfinityType DEF Loose
  <2>2. QED
    BY <1>4, <1>5, <2>1 DEF d, w

LEMMA FromArrives ==
  ASSUME NEW P, NEW len, NEW m, NEW p \in P, IsGraph(P, len), Small(P, len, m),
         HasSchedule(P, len)
  PROVE  /\ IsDistanceFrom(P, len, p, Propagated(len, From(p, P)).d)
         /\ Closed(len, Propagated(len, From(p, P)).d)
<1> DEFINE w == From(p, P)
           v == Propagated(len, w)
<1>1. /\ w.d = [q \in P |-> IF q = p THEN 0 ELSE Infinity] /\ w.queue = {p}
      /\ InBounds(P, w) /\ Loose(len, w)
  BY FromParts
<1>2. m \in Nat /\ \A e \in DOMAIN len : len[e] <= m
  BY DEF Small
<1> HIDE DEF w
<1>3. Arrived(P, len, m, w, v)
  BY <1>1, <1>2, PropagatedArrives
<1>4. Near(P, len, m, w)
  <2> SUFFICES ASSUME NEW g \in [P -> Int], NEW q \in P, w.d[q] < Infinity
               PROVE  \E A \in SUBSET P : Behind(P, w.d, g, q, A) /\ w.d[q] <= Cardinality(A) * m
    BY DEF Near
  <2>1. q = p /\ w.d[q] = 0
    BY <1>1, InfinityType
  <2>2. Cardinality({}) = 0 /\ 0 * m = 0
    BY <1>2, FS_EmptySet
  <2>3. Behind(P, w.d, g, q, {})
    BY DEF Behind
  <2>4. QED
    BY <2>1, <2>2, <2>3
<1> HIDE DEF v
<1>5. /\ InBounds(P, v) /\ Below(P, v.d, w.d) /\ NotBelow(P, len, w, v)
      /\ Relaxed(len, v.d) /\ Near(P, len, m, v)
  BY <1>3, <1>4 DEF Arrived
<1>6. IsWave(P, v) /\ v.d \in Distances0(P)
  BY <1>5 DEF InBounds, IsWave, Distances0
<1>7. v.d[p] <= 0
  BY <1>1, <1>5 DEF Below
<1>8. ASSUME NEW h \in Distances0(P), h[p] <= 0, Relaxed(len, h) PROVE Below(P, h, v.d)
  <2>1. Below(P, h, w.d)
    BY <1>1, <1>8 DEF Below, Distances0
  <2>2. QED
    BY <1>5, <1>8, <2>1 DEF NotBelow
<1>9. Closed(len, v.d)
  BY <1>5, <1>6, NearMeansClosed
<1>10. QED
  BY <1>5, <1>6, <1>7, <1>8, <1>9 DEF IsDistanceFrom, v, w

(* All edges but the two between x and y are kept.                         *)
AlmostRelaxed(len, d, x, y) ==
  \A e \in DOMAIN len : e # <<x, y>> /\ e # <<y, x>> /\ d[e[1]] < Infinity
                          => d[e[2]] <= d[e[1]] + len[e]

(* The first step across one of these two.                                 *)
Started(P, len, d, w) ==
  /\ InBounds(P, w) /\ Loose(len, w) /\ Below(P, w.d, d)
  /\ \A h \in Distances0(P) : Relaxed(len, h) /\ Below(P, h, d) => Below(P, h, w.d)
  /\ \A p \in P : w.d[p] < d[p] => \E e \in DOMAIN len : e[2] = p

(* Across an edge e that d does not keep.                                  *)
LEMMA AcrossStarts ==
  ASSUME NEW P, NEW len, NEW d \in Distances0(P), IsGraph(P, len), NEW x, NEW y,
         AlmostRelaxed(len, d, x, y) \/ AlmostRelaxed(len, d, y, x),
         <<x, y>> \in DOMAIN len, d[x] < Infinity, d[x] + len[<<x, y>>] < d[y]
  PROVE  Started(P, len, d, Wave([d EXCEPT ![y] = d[x] + len[<<x, y>>]], {y}))
<1> DEFINE l == len[<<x, y>>]
           f == [d EXCEPT ![y] = d[x] + l]
           w == Wave(f, {y})
<1>1. x \in P /\ y \in P /\ x # y /\ l \in Int
  BY GraphParts
<1>2. d \in [P -> Int] /\ \A p \in P : d[p] \in Int /\ d[p] <= Infinity
  BY DEF Distances0
<1>3. f \in [P -> Int] /\ \A p \in P : f[p] = IF p = y THEN d[x] + l ELSE d[p]
  BY <1>1, <1>2
<1>4. d[x] + l < d[y]
  OBVIOUS
<1>11. l = len[<<x, y>>] /\ <<x, y>> \in DOMAIN len /\ d[x] < Infinity
  OBVIOUS
<1>12. AlmostRelaxed(len, d, x, y)
  BY DEF AlmostRelaxed
<1> HIDE DEF l, f
<1>5. IsWave(P, w) /\ w.d = f /\ w.queue = {y}
  BY <1>1, <1>3, WaveParts
<1> HIDE DEF w
<1>6. \A p \in P : f[p] <= d[p] /\ (p # y => f[p] = d[p]) /\ f[p] \in Int
  BY <1>1, <1>2, <1>3, <1>4
<1>7. InBounds(P, w)
  BY <1>1, <1>2, <1>3, <1>4, <1>5, <1>6, InfinityType DEF InBounds
<1>8. ASSUME NEW e \in DOMAIN len, e[1] # y, f[e[1]] < Infinity
      PROVE  f[e[2]] <= f[e[1]] + len[e]
  <2>1. e[1] \in P /\ e[2] \in P /\ len[e] \in Int /\ e = <<e[1], e[2]>>
    BY GraphParts DEF IsGraph
  <2>2. f[e[1]] = d[e[1]]
    BY <1>6, <1>8, <2>1
  <2>3. CASE e = <<x, y>>
    <3>1. e[1] = x /\ e[2] = y
      BY <2>3
    <3>2. f[y] = d[x] + l /\ f[x] = d[x]
      BY <1>1, <1>3
    <3>3. QED
      BY <1>1, <1>2, <1>11, <2>3, <3>1, <3>2
  <2>4. CASE e # <<x, y>>
    <3>1. e # <<y, x>>
      BY <1>8
    <3>2. d[e[2]] <= d[e[1]] + len[e]
      BY <1>8, <1>12, <2>2, <2>4, <3>1 DEF AlmostRelaxed
    <3>3. QED
      BY <1>2, <1>6, <2>1, <2>2, <3>2
  <2>5. QED
    BY <2>3, <2>4
<1>9. ASSUME NEW h \in Distances0(P), Relaxed(len, h), Below(P, h, d) PROVE Below(P, h, f)
  <2>1. \A p \in P : h[p] \in Int /\ h[p] <= d[p]
    BY <1>9 DEF Distances0, Below
  <2>2. h[x] < Infinity
    BY <1>1, <1>2, <1>11, <2>1, InfinityType
  <2>3. <<x, y>>[1] = x /\ <<x, y>>[2] = y
    OBVIOUS
  <2>4. h[y] <= h[x] + l
    BY <1>9, <1>11, <2>2, <2>3 DEF Relaxed
  <2>5. QED
    BY <1>1, <1>2, <1>3, <2>1, <2>4 DEF Below
<1>10. \A p \in P : f[p] < d[p] => \E e \in DOMAIN len : e[2] = p
  <2>1. <<x, y>>[2] = y
    OBVIOUS
  <2>2. QED
    BY <1>2, <1>6, <1>11, <2>1
<1>13. Started(P, len, d, w)
  BY <1>5, <1>6, <1>7, <1>8, <1>9, <1>10 DEF Started, Loose, Below
<1>14. QED
  BY <1>13 DEF w, f, l

LEMMA StartNodeStarts ==
  ASSUME NEW P, NEW len, NEW d \in Distances0(P), IsGraph(P, len), NEW x, NEW y,
         AlmostRelaxed(len, d, x, y)
  PROVE  Started(P, len, d, StartNode(len, d, x, y))
<1> DEFINE l(a, b) == len[<<a, b>>]
           step(a, b) == <<a, b>> \in DOMAIN len /\ d[a] < Infinity /\ d[a] + len[<<a, b>>] < d[b]
           across(a, b) == Wave([d EXCEPT ![b] = d[a] + len[<<a, b>>]], {b})
           r == StartNode(len, d, x, y)
<1>1. r = IF step(x, y) THEN across(x, y) ELSE IF step(y, x) THEN across(y, x) ELSE Wave(d, {})
  BY DEF StartNode
<1>2. CASE step(x, y)
  <2>1. Started(P, len, d, across(x, y))
    BY <1>2, AcrossStarts
  <2>2. QED
    BY <1>1, <1>2, <2>1
<1>3. CASE step(y, x) /\ ~step(x, y)
  <2>1. AlmostRelaxed(len, d, y, x) \/ AlmostRelaxed(len, d, x, y)
    OBVIOUS
  <2>2. Started(P, len, d, across(y, x))
    BY <1>3, <2>1, AcrossStarts
  <2>3. QED
    BY <1>1, <1>3, <2>2
<1>4. CASE ~step(x, y) /\ ~step(y, x)
  <2> DEFINE w == Wave(d, {})
  <2>1. d \in [P -> Int] /\ \A p \in P : d[p] \in Int /\ d[p] <= Infinity
    BY DEF Distances0
  <2>2. IsWave(P, w) /\ w.d = d /\ w.queue = {}
    BY <2>1, WaveParts
  <2> HIDE DEF w
  <2>3. InBounds(P, w)
    BY <2>1, <2>2 DEF InBounds
  <2>4. ASSUME NEW e \in DOMAIN len, d[e[1]] < Infinity
        PROVE  d[e[2]] <= d[e[1]] + len[e]
    <3>1. e[1] \in P /\ e[2] \in P /\ len[e] \in Int /\ e = <<e[1], e[2]>>
      BY GraphParts DEF IsGraph
    <3>2. CASE e = <<x, y>>
      <4>1. x = e[1] /\ y = e[2]
        BY <3>2
      <4>2. ~(d[x] + len[<<x, y>>] < d[y])
        BY <1>4, <2>4, <3>2, <4>1
      <4>3. QED
        BY <2>1, <3>1, <3>2, <4>1, <4>2
    <3>3. CASE e = <<y, x>>
      <4>1. y = e[1] /\ x = e[2]
        BY <3>3
      <4>2. ~(d[y] + len[<<y, x>>] < d[x])
        BY <1>4, <2>4, <3>3, <4>1
      <4>3. QED
        BY <2>1, <3>1, <3>3, <4>1, <4>2
    <3>4. CASE e # <<x, y>> /\ e # <<y, x>>
      BY <2>4, <3>4 DEF AlmostRelaxed
    <3>5. QED
      BY <3>2, <3>3, <3>4
  <2>5. Started(P, len, d, w)
    BY <2>1, <2>2, <2>3, <2>4 DEF Started, Loose, Below
  <2>6. r = w
    BY <1>1, <1>4 DEF w
  <2>7. QED
    BY <2>5, <2>6
<1>5. QED
  BY <1>2, <1>3, <1>4

(* Distances corrected after the addition of the edges between x and y.    *)
Corrected(len, d, x, y) == Propagated(len, StartNode(len, d, x, y))

LEMMA CorrectedArrives ==
  ASSUME NEW P, NEW len, NEW d \in Distances0(P), IsGraph(P, len), NEW x, NEW y,
         AlmostRelaxed(len, d, x, y), NEW m, Small(P, len, m)
  PROVE  LET v == Corrected(len, d, x, y)
         IN  /\ InBounds(P, v) /\ v.d \in Distances0(P) /\ Below(P, v.d, d)
             /\ HasSchedule(P, len) => Settled(v)
             /\ Settled(v) => Relaxed(len, v.d)
             /\ ~Settled(v) => \E p \in P \ {Origin} :
                                  v.d[p] < d[p] /\ \E e \in DOMAIN len : e[2] = p
             /\ \A h \in Distances0(P) : Relaxed(len, h) /\ Below(P, h, d) => Below(P, h, v.d)
<1> DEFINE w == StartNode(len, d, x, y)
           v == Propagated(len, w)
<1>1. Started(P, len, d, w)
  BY StartNodeStarts
<1> HIDE DEF w
<1>2. InBounds(P, w) /\ Loose(len, w) /\ m \in Nat /\ \A e \in DOMAIN len : len[e] <= m
  BY <1>1 DEF Started, Small
<1>3. Arrived(P, len, m, w, v)
  BY <1>2, PropagatedArrives
<1> HIDE DEF v
<1>4. InBounds(P, v) /\ Below(P, v.d, w.d) /\ NotBelow(P, len, w, v)
  BY <1>3 DEF Arrived
<1>5. IsWave(P, v) /\ IsWave(P, w)
  BY <1>2, <1>4 DEF InBounds
<1>6. \A p \in P : v.d[p] \in Int /\ w.d[p] \in Int /\ d[p] \in Int /\ v.d[p] <= w.d[p] /\ w.d[p] <= d[p]
  BY <1>1, <1>4, <1>5, WaveNumbers DEF Distances0, Below, Started
<1>7. Below(P, v.d, d)
  BY <1>6 DEF Below
<1>8. v.d \in Distances0(P)
  BY <1>4, <1>5 DEF InBounds, IsWave, Distances0
<1>9. ASSUME ~Settled(v)
      PROVE  \E p \in P \ {Origin} : v.d[p] < d[p] /\ \E e \in DOMAIN len : e[2] = p
  <2>1. PICK p \in P \ {Origin} : v.d[p] < w.d[p] /\ \E e \in DOMAIN len : e[2] = p
    BY <1>3, <1>9 DEF Arrived
  <2>2. v.d[p] < d[p]
    BY <1>6, <2>1
  <2>3. QED
    BY <2>1, <2>2
<1>10. ASSUME NEW h \in Distances0(P), Relaxed(len, h), Below(P, h, d) PROVE Below(P, h, v.d)
  BY <1>1, <1>4, <1>10 DEF Started, NotBelow
<1>11. (HasSchedule(P, len) => Settled(v)) /\ (Settled(v) => Relaxed(len, v.d))
  BY <1>3 DEF Arrived
<1>12. QED
  BY <1>4, <1>7, <1>8, <1>9, <1>10, <1>11 DEF Corrected, v, w

(* From the distances before to the distances now: the edges between x and *)
(* y are new or have become shorter, and there is a schedule.              *)
Tighter(old, new, x, y) ==
  /\ \A e \in DOMAIN old : e \in DOMAIN new /\ new[e] <= old[e]
  /\ \A e \in DOMAIN new : e # <<x, y>> /\ e # <<y, x>> => e \in DOMAIN old /\ new[e] = old[e]

LEMMA TighterRelaxed ==
  ASSUME NEW P, NEW old, NEW new, IsGraph(P, old), IsGraph(P, new), NEW x, NEW y,
         Tighter(old, new, x, y), NEW d \in Distances0(P)
  PROVE  /\ Relaxed(old, d) => AlmostRelaxed(new, d, x, y)
         /\ Relaxed(new, d) => Relaxed(old, d)
<1>1. Relaxed(old, d) => AlmostRelaxed(new, d, x, y)
  BY DEF Relaxed, AlmostRelaxed, Tighter
<1>2. ASSUME Relaxed(new, d), NEW e \in DOMAIN old, d[e[1]] < Infinity
      PROVE  d[e[2]] <= d[e[1]] + old[e]
  <2>1. e \in DOMAIN new /\ new[e] <= old[e]
    BY DEF Tighter
  <2>2. d[e[2]] <= d[e[1]] + new[e]
    BY <1>2, <2>1 DEF Relaxed
  <2>3. /\ e[1] \in P /\ e[2] \in P /\ old[e] \in Int /\ new[e] \in Int
        /\ d[e[1]] \in Int /\ d[e[2]] \in Int
    BY <2>1, GraphParts DEF Distances0
  <2>4. QED
    BY <2>1, <2>2, <2>3
<1>3. QED
  BY <1>1, <1>2 DEF Relaxed

LEMMA CorrectedDistance ==
  ASSUME NEW P, NEW old, NEW new, IsGraph(P, old), IsGraph(P, new), NEW x, NEW y,
         Tighter(old, new, x, y), NEW p \in P, NEW d, IsDistanceFrom(P, old, p, d),
         HasSchedule(P, new), NEW m, Small(P, new, m)
  PROVE  IsDistanceFrom(P, new, p, Corrected(new, d, x, y).d)
<1> DEFINE v == Corrected(new, d, x, y)
<1>1. d \in Distances0(P) /\ d[p] <= 0 /\ Relaxed(old, d)
  BY DEF IsDistanceFrom
<1>2. AlmostRelaxed(new, d, x, y)
  BY <1>1, TighterRelaxed
<1>3. /\ v.d \in Distances0(P) /\ Below(P, v.d, d) /\ Relaxed(new, v.d)
      /\ \A h \in Distances0(P) : Relaxed(new, h) /\ Below(P, h, d) => Below(P, h, v.d)
  BY <1>1, <1>2, CorrectedArrives
<1> HIDE DEF v
<1>4. v.d[p] <= 0
  <2>1. v.d[p] <= d[p] /\ v.d[p] \in Int /\ d[p] \in Int
    BY <1>1, <1>3 DEF Below, Distances0
  <2>2. QED
    BY <1>1, <2>1
<1>5. ASSUME NEW h \in Distances0(P), h[p] <= 0, Relaxed(new, h) PROVE Below(P, h, v.d)
  <2>1. Relaxed(old, h)
    BY <1>5, TighterRelaxed
  <2>2. Below(P, h, d)
    BY <1>5, <2>1 DEF IsDistanceFrom
  <2>3. QED
    BY <1>3, <1>5, <2>2
<1>6. QED
  BY <1>3, <1>4, <1>5 DEF IsDistanceFrom, v
-----------------------------------------------------------------------------
(***************************************************************************)
(* 6. The shortest distances between all pairs, of SimpleTemporalNetwork.  *)
(* When the nodes of S have been gone through, the row of x in the matrix  *)
(* are the distances from x in the graph of the edges that leave S or x.   *)
(***************************************************************************)
At(d, x, y) == d[<<x, y>>]

IsMatrix(P, d) ==
  /\ d \in [P \X P -> Int]
  /\ \A x, y \in P : At(d, x, y) <= Infinity
  /\ \A x \in P : At(d, x, x) <= 0

Row(P, d, x) == [y \in P |-> At(d, x, y)]
Leaving(len, S) == [e \in {f \in DOMAIN len : f[1] \in S} |-> len[e]]
Diagonal(P, d) == \A x \in P : At(d, x, x) = 0

RowGood(P, len, S, d, x) ==
  /\ HasSchedule(P, Leaving(len, S \cup {x}))
  /\ IsDistanceFrom(P, Leaving(len, S \cup {x}), x, Row(P, d, x))
  /\ Closed(Leaving(len, S \cup {x}), Row(P, d, x))

LEMMA LeavingParts ==
  ASSUME NEW len, NEW S
  PROVE  /\ \A e : e \in DOMAIN Leaving(len, S) <=> e \in DOMAIN len /\ e[1] \in S
         /\ \A e \in DOMAIN Leaving(len, S) : Leaving(len, S)[e] = len[e]
BY DEF Leaving

LEMMA LeavingGraph ==
  ASSUME NEW P, NEW len, NEW S, NEW m, IsGraph(P, len), Small(P, len, m)
  PROVE  IsGraph(P, Leaving(len, S)) /\ Small(P, Leaving(len, S), m)
<1> DEFINE l == Leaving(len, S)
<1>1. /\ \A e : e \in DOMAIN l <=> e \in DOMAIN len /\ e[1] \in S
      /\ \A e \in DOMAIN l : l[e] = len[e]
  BY LeavingParts
<1> HIDE DEF l
<1>2. DOMAIN l \subseteq DOMAIN len
  BY <1>1
<1>3. IsFiniteSet(DOMAIN l)
  BY <1>2, FS_Subset DEF IsGraph
<1>4. IsGraph(P, l) /\ Small(P, l, m)
  BY <1>1, <1>3 DEF IsGraph, Small
<1>5. QED
  BY <1>4 DEF l

LEMMA MatrixAt ==
  ASSUME NEW P, NEW d, IsMatrix(P, d), NEW x \in P, NEW y \in P
  PROVE  At(d, x, y) \in Int /\ At(d, x, y) <= Infinity /\ Row(P, d, x)[y] = At(d, x, y)
<1>1. <<x, y>> \in P \X P
  OBVIOUS
<1>2. At(d, x, y) \in Int
  BY <1>1 DEF IsMatrix, At
<1>3. QED
  BY <1>2 DEF IsMatrix, Row

LEMMA RowDistances ==
  ASSUME NEW P, NEW d, IsMatrix(P, d), NEW x \in P
  PROVE  Row(P, d, x) \in Distances0(P)
<1>1. \A y \in P : At(d, x, y) \in Int /\ At(d, x, y) <= Infinity
  BY MatrixAt
<1>2. QED
  BY <1>1 DEF Row, Distances0

LEMMA RowEdges ==
  ASSUME NEW P, NEW len, NEW S, NEW d, NEW x \in P, IsGraph(P, len), IsMatrix(P, d),
         RowGood(P, len, S, d, x), NEW e \in DOMAIN len, e[1] \in S \cup {x},
         At(d, x, e[1]) < Infinity
  PROVE  At(d, x, e[2]) < Infinity /\ At(d, x, e[2]) <= At(d, x, e[1]) + len[e]
<1> DEFINE l == Leaving(len, S \cup {x})
           r == Row(P, d, x)
<1>1. e \in DOMAIN l /\ l[e] = len[e]
  BY LeavingParts
<1>2. e[1] \in P /\ e[2] \in P
  BY GraphParts
<1>3. r[e[1]] = At(d, x, e[1]) /\ r[e[2]] = At(d, x, e[2])
  BY <1>2, MatrixAt
<1>4. Relaxed(l, r) /\ Closed(l, r)
  BY DEF RowGood, IsDistanceFrom
<1> HIDE DEF l, r
<1>5. QED
  BY <1>1, <1>3, <1>4 DEF Relaxed, Closed

LEMMA RowGreatest ==
  ASSUME NEW P, NEW len, NEW S, NEW d, NEW x \in P, IsMatrix(P, d), RowGood(P, len, S, d, x),
         NEW h \in Distances0(P), h[x] <= 0,
         \A e \in DOMAIN len : e[1] \in S \cup {x} /\ h[e[1]] < Infinity
                                 => h[e[2]] <= h[e[1]] + len[e]
  PROVE  \A y \in P : h[y] <= At(d, x, y)
<1> DEFINE l == Leaving(len, S \cup {x})
           r == Row(P, d, x)
<1>1. \A e \in DOMAIN l : e \in DOMAIN len /\ l[e] = len[e] /\ e[1] \in S \cup {x}
  BY LeavingParts
<1>2. IsDistanceFrom(P, l, x, r) /\ \A y \in P : r[y] = At(d, x, y)
  BY MatrixAt DEF RowGood
<1> HIDE DEF l, r
<1>3. Relaxed(l, h)
  BY <1>1 DEF Relaxed
<1>4. QED
  BY <1>2, <1>3 DEF IsDistanceFrom, Below

(* One node v is gone through: from d to c.                                *)
Stepped(P, d, v, c) ==
  \A x, y \in P :
    /\ At(c, x, y) <= At(d, x, y)
    /\ At(d, x, v) < Infinity /\ At(d, v, y) < Infinity
         => At(c, x, y) <= At(d, x, v) + At(d, v, y)
    /\ \/ At(c, x, y) = At(d, x, y)
       \/ /\ At(d, x, v) < Infinity /\ At(d, v, y) < Infinity
          /\ At(c, x, y) = At(d, x, v) + At(d, v, y)

LEMMA ThroughSteps ==
  ASSUME NEW P, NEW d, IsMatrix(P, d), NEW v \in P
  PROVE  IsMatrix(P, Network!Through(d, v)) /\ Stepped(P, d, v, Network!Through(d, v))
<1> DEFINE via(p) == Network!Plus(d[<<p[1], v>>], d[<<v, p[2]>>])
           c == Network!Through(d, v)
<1>1. DOMAIN d = P \X P
  BY DEF IsMatrix
<1>2. c = [p \in P \X P |-> IF via(p) < d[p] THEN via(p) ELSE d[p]]
  BY <1>1 DEF Network!Through
<1>3. ASSUME NEW x \in P, NEW y \in P
      PROVE  /\ At(c, x, y) = IF via(<<x, y>>) < d[<<x, y>>] THEN via(<<x, y>>) ELSE d[<<x, y>>]
             /\ via(<<x, y>>) = IF At(d, x, v) = Infinity \/ At(d, v, y) = Infinity THEN Infinity
                                ELSE At(d, x, v) + At(d, v, y)
  <2>1. <<x, y>> \in P \X P /\ <<x, y>>[1] = x /\ <<x, y>>[2] = y
    OBVIOUS
  <2>2. via(<<x, y>>) = Network!Plus(At(d, x, v), At(d, v, y))
    BY <2>1 DEF At
  <2>3. At(c, x, y) = IF via(<<x, y>>) < d[<<x, y>>] THEN via(<<x, y>>) ELSE d[<<x, y>>]
    BY <1>2, <2>1 DEF At
  <2>4. QED
    BY <2>2, <2>3 DEF Network!Plus
<1> HIDE DEF c, via
<1>4. ASSUME NEW x \in P, NEW y \in P
      PROVE  /\ At(c, x, y) \in Int /\ At(c, x, y) <= At(d, x, y)
             /\ At(d, x, v) < Infinity /\ At(d, v, y) < Infinity
                  => At(c, x, y) <= At(d, x, v) + At(d, v, y)
             /\ \/ At(c, x, y) = At(d, x, y)
                \/ /\ At(d, x, v) < Infinity /\ At(d, v, y) < Infinity
                   /\ At(c, x, y) = At(d, x, v) + At(d, v, y)
  <2>1. /\ At(d, x, v) \in Int /\ At(d, v, y) \in Int /\ At(d, x, y) \in Int
        /\ At(d, x, v) <= Infinity /\ At(d, v, y) <= Infinity /\ At(d, x, y) <= Infinity
        /\ d[<<x, y>>] = At(d, x, y)
    BY MatrixAt DEF At
  <2>2. QED
    BY <1>3, <2>1, InfinityType
<1>5. Stepped(P, d, v, c)
  BY <1>4 DEF Stepped
<1>6. c \in [P \X P -> Int]
  <2>1. \A p \in P \X P : c[p] \in Int
    <3>1. ASSUME NEW p \in P \X P PROVE c[p] \in Int
      <4>1. PICK x, y \in P : p = <<x, y>>
        OBVIOUS
      <4>2. At(c, x, y) \in Int
        BY <1>4
      <4>3. QED
        BY <4>1, <4>2 DEF At
    <3>2. QED
      BY <3>1
  <2>2. DOMAIN c = P \X P /\ c = [p \in P \X P |-> c[p]]
    BY <1>2
  <2>3. QED
    BY <2>1, <2>2
<1>7. IsMatrix(P, c)
  <2>1. \A x, y \in P : At(c, x, y) <= Infinity
    BY <1>4, MatrixAt, InfinityType
  <2>2. \A x \in P : At(c, x, x) <= 0
    BY <1>4, MatrixAt DEF IsMatrix
  <2>3. QED
    BY <1>6, <2>1, <2>2 DEF IsMatrix
<1>8. QED
  BY <1>5, <1>7 DEF c

(* Two schedules, for a part that no edge leaves and for the rest, make    *)
(* one when the rest is late enough.                                       *)
LEMMA GluedSchedule ==
  ASSUME NEW P, NEW l, IsGraph(P, l), NEW R, NEW f \in [P -> Int], NEW g \in [P -> Int],
         \A e \in DOMAIN l : e[1] \in R => e[2] \in R /\ f[e[2]] <= f[e[1]] + l[e],
         \A e \in DOMAIN l : e[1] \notin R /\ e[2] \notin R => g[e[2]] <= g[e[1]] + l[e]
  PROVE  HasSchedule(P, l)
<1> DEFINE D == DOMAIN l
           late == [e \in D |-> f[e[2]] - g[e[1]] - l[e]]
           L == {late[e] : e \in D}
           M == L \cup {0}
<1>1. \A e \in D : /\ e[1] \in P /\ e[2] \in P /\ l[e] \in Int
                   /\ f[e[1]] \in Int /\ f[e[2]] \in Int /\ g[e[1]] \in Int /\ g[e[2]] \in Int
  BY GraphParts
<1>2. IsFiniteSet(D)
  BY DEF IsGraph
<1>3. \A e \in D : late[e] = f[e[2]] - g[e[1]] - l[e]
  OBVIOUS
<1> HIDE DEF late, D
<1>4. IsFiniteSet(L)
  BY <1>2, ValuesFinite
<1>5. IsFiniteSet(M)
  <2> HIDE DEF L
  <2>1. QED
    BY <1>4, FS_AddElement
<1>6. \A k \in M : k \in Int
  BY <1>1, <1>3
<1>7. M # {} /\ \A e \in D : late[e] \in M
  OBVIOUS
<1> HIDE DEF M
<1>8. Max(M) \in M /\ \A k \in M : k <= Max(M)
  BY ONLY <1>5, <1>6, <1>7, GreatestOf
<1> DEFINE K == Max(M)
<1>9. K \in Int /\ \A e \in D : f[e[2]] - g[e[1]] - l[e] <= K
  BY <1>3, <1>6, <1>7, <1>8
<1> HIDE DEF K
<1> DEFINE h == [p \in P |-> IF p \in R THEN f[p] ELSE g[p] + K]
<1>10. h \in [P -> Int] /\ \A p \in P : h[p] = IF p \in R THEN f[p] ELSE g[p] + K
  BY <1>9
<1> HIDE DEF h
<1>11. ASSUME NEW e \in D PROVE h[e[2]] <= h[e[1]] + l[e]
  <2>1. /\ e[1] \in P /\ e[2] \in P /\ l[e] \in Int
        /\ f[e[1]] \in Int /\ f[e[2]] \in Int /\ g[e[1]] \in Int /\ g[e[2]] \in Int
    BY <1>1
  <2>2. CASE e[1] \in R
    BY <1>10, <2>1, <2>2 DEF D
  <2>3. CASE e[1] \notin R /\ e[2] \notin R
    <3>1. g[e[2]] <= g[e[1]] + l[e]
      BY <2>3 DEF D
    <3>2. QED
      BY <1>9, <1>10, <2>1, <2>3, <3>1
  <2>4. CASE e[1] \notin R /\ e[2] \in R
    BY <1>9, <1>10, <2>1, <2>4
  <2>5. QED
    BY <2>2, <2>3, <2>4
<1>12. QED
  BY <1>10, <1>11 DEF HasSchedule, IsSchedule, D

RowsGood(P, len, S, d) == \A x \in P : RowGood(P, len, S, d, x)

(* The edges that leave v as well can be kept: no cycle has become         *)
(* negative.  f is the shorter of the two ways.                            *)
LEMMA StepSchedule ==
  ASSUME NEW P, NEW len, IsGraph(P, len), NEW S, NEW d, IsMatrix(P, d), RowsGood(P, len, S, d),
         NEW v \in P, NEW c, IsMatrix(P, c), Stepped(P, d, v, c), Diagonal(P, d), Diagonal(P, c),
         NEW x \in P, NEW m, Small(P, len, m)
  PROVE  HasSchedule(P, Leaving(len, S \cup {v} \cup {x}))
<1> DEFINE l == Leaving(len, S \cup {v} \cup {x})
           both(y) == At(d, x, v) < Infinity /\ At(d, v, y) < Infinity
           R == {y \in P : At(d, x, y) < Infinity \/ both(y)}
           way(y) == At(d, x, v) + At(d, v, y)
           val(y) == IF both(y) /\ ~(At(d, x, y) < Infinity /\ At(d, x, y) <= way(y))
                     THEN way(y) ELSE At(d, x, y)
           f == [y \in P |-> val(y)]
<1>1. \A y \in P : /\ At(d, x, y) \in Int /\ At(d, v, y) \in Int /\ At(d, x, v) \in Int
                   /\ At(d, x, y) <= Infinity /\ At(d, v, y) <= Infinity
  BY MatrixAt
<1>2. f \in [P -> Int] /\ \A y \in P : f[y] = val(y)
  BY <1>1
<1>3. PICK g \in [P -> Int] : IsSchedule(P, Leaving(len, S \cup {v}), g)
  BY DEF RowsGood, RowGood, HasSchedule
<1>4. \A e : e \in DOMAIN l <=> e \in DOMAIN len /\ e[1] \in S \cup {v} \cup {x}
  BY LeavingParts
<1>5. \A e \in DOMAIN l : l[e] = len[e]
  BY LeavingParts
<1>6. \A e \in DOMAIN len : e[1] \in S \cup {v} => g[e[2]] <= g[e[1]] + len[e]
  BY <1>3, LeavingParts DEF IsSchedule
<1>7. IsGraph(P, l)
  BY LeavingGraph
<1>8. At(d, x, x) = 0 /\ At(d, v, v) = 0 /\ At(c, x, x) = 0
  BY DEF Diagonal
<1>9. both(x) => 0 <= way(x)
  BY <1>8 DEF Stepped
<1> HIDE DEF f, l
<1>10. x \in R /\ f[x] = 0
  BY <1>1, <1>2, <1>8, <1>9, InfinityType
<1>11. ASSUME NEW e \in DOMAIN len, e[1] \in S \cup {x}, At(d, x, e[1]) < Infinity
       PROVE  At(d, x, e[2]) < Infinity /\ At(d, x, e[2]) <= At(d, x, e[1]) + len[e]
  BY <1>11, RowEdges DEF RowsGood
<1>12. ASSUME NEW e \in DOMAIN len, e[1] \in S \cup {v}, At(d, v, e[1]) < Infinity
       PROVE  At(d, v, e[2]) < Infinity /\ At(d, v, e[2]) <= At(d, v, e[1]) + len[e]
  BY <1>12, RowEdges DEF RowsGood
<1>13. ASSUME NEW e \in DOMAIN l, e[1] \in R
       PROVE  e[2] \in R /\ f[e[2]] <= f[e[1]] + l[e]
  <2> DEFINE p == e[1]
             q == e[2]
             n == len[e]
  <2>1. e \in DOMAIN len /\ p \in S \cup {v} \cup {x} /\ l[e] = n
    BY <1>4, <1>5
  <2>2. p \in P /\ q \in P /\ n \in Int
    BY <2>1, GraphParts
  <2>3. /\ At(d, x, p) \in Int /\ At(d, v, p) \in Int /\ At(d, x, v) \in Int
        /\ At(d, x, q) \in Int /\ At(d, v, q) \in Int
    BY <1>1, <2>2
  <2>4. f[p] = val(p) /\ f[q] = val(q)
    BY <1>2, <2>2
  <2>5. p \in S \cup {x} /\ At(d, x, p) < Infinity
          => At(d, x, q) < Infinity /\ At(d, x, q) <= At(d, x, p) + n
    BY <1>11, <2>1
  <2>6. p \in S \cup {v} /\ At(d, v, p) < Infinity
          => At(d, v, q) < Infinity /\ At(d, v, q) <= At(d, v, p) + n
    BY <1>12, <2>1
  <2>7. p = x => At(d, x, p) = 0 /\ f[p] = 0
    BY <1>8, <1>10
  <2>8. p = v => At(d, v, p) = 0
    BY <1>8
  <2>9. At(d, x, p) < Infinity \/ both(p)
    BY <1>13
  <2> HIDE DEF p, q, n
  <2>10. At(d, x, q) < Infinity => f[q] <= At(d, x, q)
    BY <2>3, <2>4
  <2>11. both(q) => f[q] <= way(q)
    BY <2>3, <2>4
  <2>12. f[p] \in Int /\ f[q] \in Int
    BY <1>2, <2>2
  <2>13. CASE p \in S \cup {x} /\ At(d, x, p) < Infinity /\ f[p] = At(d, x, p)
    <3>1. At(d, x, q) < Infinity /\ At(d, x, q) <= At(d, x, p) + n
      BY <2>5, <2>13
    <3>2. q \in R
      BY <2>2, <3>1
    <3>3. f[q] <= f[p] + n
      BY <2>2, <2>3, <2>10, <2>12, <2>13, <3>1
    <3>4. QED
      BY <2>1, <3>2, <3>3 DEF p, q
  <2>14. CASE p \in S \cup {v} /\ both(p) /\ f[p] = way(p)
    <3>1. At(d, v, q) < Infinity /\ At(d, v, q) <= At(d, v, p) + n
      BY <2>6, <2>14
    <3>2. both(q)
      BY <2>14, <3>1
    <3>3. q \in R
      BY <2>2, <3>2
    <3>4. f[q] <= f[p] + n
      BY <2>2, <2>3, <2>11, <2>12, <2>14, <3>1, <3>2
    <3>5. QED
      BY <2>1, <3>3, <3>4 DEF p, q
  <2>15. (f[p] = At(d, x, p) /\ At(d, x, p) < Infinity) \/ (f[p] = way(p) /\ both(p))
    BY <2>4, <2>9
  <2>16. p = x => f[p] = At(d, x, p) /\ At(d, x, p) < Infinity
    BY <2>7, InfinityType
  <2>17. p = v => f[p] = way(p) /\ both(p)
    <3>1. SUFFICES ASSUME p = v PROVE f[p] = way(p) /\ both(p)
      OBVIOUS
    <3>2. At(d, v, p) = 0
      BY <2>8, <3>1
    <3>3. At(d, x, v) < Infinity
      BY <2>9, <3>1
    <3>4. way(p) = At(d, x, v) /\ both(p) /\ way(p) = At(d, x, p)
      BY <2>3, <3>1, <3>2, <3>3, InfinityType
    <3>5. QED
      BY <2>4, <3>4
  <2>18. QED
    BY <2>1, <2>13, <2>14, <2>15, <2>16, <2>17
<1>14. \A e \in DOMAIN l : e[1] \notin R /\ e[2] \notin R => g[e[2]] <= g[e[1]] + l[e]
  BY <1>4, <1>5, <1>6, <1>10
<1> HIDE DEF R
<1>15. HasSchedule(P, l)
  BY <1>2, <1>7, <1>13, <1>14, GluedSchedule
<1>16. QED
  BY <1>15 DEF l

(* The distances of a graph that leaves v as well, shifted to begin at v,  *)
(* are no greater than the row of v.                                       *)
LEMMA ShiftedRow ==
  ASSUME NEW P, NEW len, IsGraph(P, len), NEW S, NEW d, IsMatrix(P, d), NEW v \in P,
         RowGood(P, len, S, d, v), NEW D \in Distances0(P), D[v] < Infinity,
         \A e \in DOMAIN len : e[1] \in S \cup {v} /\ D[e[1]] < Infinity
           => D[e[2]] < Infinity /\ D[e[2]] <= D[e[1]] + len[e]
  PROVE  \A y \in P : At(d, v, y) < Infinity => D[y] <= D[v] + At(d, v, y)
<1> DEFINE less(a) == IF a <= Infinity THEN a ELSE Infinity
           val(z) == IF D[z] < Infinity THEN less(D[z] - D[v]) ELSE Infinity
           h == [z \in P |-> val(z)]
<1>1. \A z \in P : D[z] \in Int /\ D[z] <= Infinity
  BY DEF Distances0
<1>2. h \in [P -> Int] /\ \A z \in P : h[z] = val(z) /\ h[z] <= Infinity
  BY <1>1, InfinityType
<1> HIDE DEF h
<1>3. h \in Distances0(P) /\ h[v] <= 0
  BY <1>1, <1>2, InfinityType DEF Distances0
<1>4. ASSUME NEW e \in DOMAIN len, e[1] \in S \cup {v}, h[e[1]] < Infinity
      PROVE  h[e[2]] <= h[e[1]] + len[e]
  <2>1. e[1] \in P /\ e[2] \in P /\ len[e] \in Int
    BY GraphParts
  <2>2. D[e[1]] < Infinity /\ h[e[1]] = D[e[1]] - D[v]
    BY <1>1, <1>2, <1>4, <2>1, InfinityType
  <2>3. D[e[2]] < Infinity /\ D[e[2]] <= D[e[1]] + len[e]
    BY <1>4, <2>2
  <2>4. h[e[2]] <= D[e[2]] - D[v]
    BY <1>1, <1>2, <2>1, <2>3, InfinityType
  <2>5. h[e[2]] \in Int /\ D[e[1]] \in Int /\ D[e[2]] \in Int /\ D[v] \in Int
    BY <1>1, <1>2, <2>1
  <2>6. QED
    BY <2>1, <2>2, <2>3, <2>4, <2>5
<1>5. \A y \in P : h[y] <= At(d, v, y)
  BY <1>3, <1>4, RowGreatest
<1>6. ASSUME NEW y \in P, At(d, v, y) < Infinity PROVE D[y] <= D[v] + At(d, v, y)
  <2>1. h[y] <= At(d, v, y) /\ At(d, v, y) \in Int /\ D[y] \in Int /\ D[v] \in Int
    BY <1>1, <1>5, MatrixAt
  <2>2. h[y] < Infinity /\ h[y] \in Int
    BY <1>2, <1>6, <2>1, InfinityType
  <2>3. h[y] = D[y] - D[v]
    BY <1>1, <1>2, <2>2, InfinityType
  <2>4. QED
    BY <2>1, <2>3
<1>7. QED
  BY <1>6

LEMMA StepRow ==
  ASSUME NEW P, NEW len, IsGraph(P, len), NEW S, NEW d, IsMatrix(P, d), RowsGood(P, len, S, d),
         NEW v \in P, NEW c, IsMatrix(P, c), Stepped(P, d, v, c), Diagonal(P, d), Diagonal(P, c),
         NEW x \in P, NEW m, Small(P, len, m)
  PROVE  RowGood(P, len, S \cup {v}, c, x)
<1> DEFINE l == Leaving(len, S \cup {v} \cup {x})
           D == Propagated(l, From(x, P)).d
           r == Row(P, c, x)
<1>1. HasSchedule(P, l)
  BY StepSchedule
<1>2. IsGraph(P, l) /\ Small(P, l, m)
  BY LeavingGraph
<1>3. \A e : e \in DOMAIN l <=> e \in DOMAIN len /\ e[1] \in S \cup {v} \cup {x}
  BY LeavingParts
<1>4. \A e \in DOMAIN l : l[e] = len[e]
  BY LeavingParts
<1>5. \A y \in P : r[y] = At(c, x, y)
  BY MatrixAt
<1>6. r \in Distances0(P)
  BY RowDistances
<1> HIDE DEF l, r
<1>7. IsDistanceFrom(P, l, x, D) /\ Closed(l, D)
  BY <1>1, <1>2, FromArrives
<1> HIDE DEF D
<1>8. At(d, x, x) = 0 /\ At(d, v, v) = 0 /\ At(c, x, x) = 0
  BY DEF Diagonal
<1>9. \A y \in P : /\ At(d, x, y) \in Int /\ At(d, v, y) \in Int /\ At(c, x, y) \in Int
                   /\ At(d, x, y) <= Infinity /\ At(d, v, y) <= Infinity
                   /\ At(c, x, y) <= Infinity
  BY MatrixAt
<1>10. \A y \in P :
         /\ At(c, x, y) <= At(d, x, y)
         /\ At(d, x, v) < Infinity /\ At(d, v, y) < Infinity
              => At(c, x, y) <= At(d, x, v) + At(d, v, y)
         /\ \/ At(c, x, y) = At(d, x, y)
            \/ /\ At(d, x, v) < Infinity /\ At(d, v, y) < Infinity
               /\ At(c, x, y) = At(d, x, v) + At(d, v, y)
  BY DEF Stepped
<1>11. ASSUME NEW e \in DOMAIN len, e[1] \in S \cup {x}, At(d, x, e[1]) < Infinity
       PROVE  At(d, x, e[2]) < Infinity /\ At(d, x, e[2]) <= At(d, x, e[1]) + len[e]
  BY <1>11, RowEdges DEF RowsGood
<1>12. ASSUME NEW e \in DOMAIN len, e[1] \in S \cup {v}, At(d, v, e[1]) < Infinity
       PROVE  At(d, v, e[2]) < Infinity /\ At(d, v, e[2]) <= At(d, v, e[1]) + len[e]
  BY <1>12, RowEdges DEF RowsGood
<1>13. ASSUME NEW e \in DOMAIN l, At(c, x, e[1]) < Infinity
       PROVE  At(c, x, e[2]) <= At(c, x, e[1]) + l[e]
  <2> DEFINE p == e[1]
             q == e[2]
             n == len[e]
  <2>1. e \in DOMAIN len /\ p \in S \cup {v} \cup {x} /\ l[e] = n
    BY <1>3, <1>4
  <2>2. p \in P /\ q \in P /\ n \in Int
    BY <2>1, GraphParts
  <2>3. /\ At(d, x, p) \in Int /\ At(d, v, p) \in Int /\ At(d, x, v) \in Int
        /\ At(d, x, q) \in Int /\ At(d, v, q) \in Int /\ At(c, x, p) \in Int /\ At(c, x, q) \in Int
    BY <1>9, <2>2
  <2>4. p \in S \cup {x} /\ At(d, x, p) < Infinity
          => At(d, x, q) < Infinity /\ At(d, x, q) <= At(d, x, p) + n
    BY <1>11, <2>1
  <2>5. p \in S \cup {v} /\ At(d, v, p) < Infinity
          => At(d, v, q) < Infinity /\ At(d, v, q) <= At(d, v, p) + n
    BY <1>12, <2>1
  <2>6. At(c, x, p) < Infinity
    BY <1>13
  <2> HIDE DEF p, q, n
  <2>7. /\ At(c, x, q) <= At(d, x, q)
        /\ At(d, x, v) < Infinity /\ At(d, v, q) < Infinity
             => At(c, x, q) <= At(d, x, v) + At(d, v, q)
    BY <1>10, <2>2
  <2>8. CASE p \in S \cup {x} /\ At(c, x, p) = At(d, x, p)
    <3>1. At(c, x, q) <= At(c, x, p) + n
      BY <2>2, <2>3, <2>4, <2>6, <2>7, <2>8
    <3>2. QED
      BY <2>1, <3>1 DEF p, q
  <2>9. CASE /\ p \in S \cup {v} /\ At(d, x, v) < Infinity /\ At(d, v, p) < Infinity
             /\ At(c, x, p) = At(d, x, v) + At(d, v, p)
    <3>1. At(c, x, q) <= At(c, x, p) + n
      BY <2>2, <2>3, <2>5, <2>6, <2>7, <2>9
    <3>2. QED
      BY <2>1, <3>1 DEF p, q
  <2>10. \/ At(c, x, p) = At(d, x, p)
         \/ /\ At(d, x, v) < Infinity /\ At(d, v, p) < Infinity
            /\ At(c, x, p) = At(d, x, v) + At(d, v, p)
    BY <1>10, <2>2
  <2>11. p = x => At(c, x, p) = At(d, x, p)
    BY <1>8
  <2>12. p = v => /\ At(d, x, v) < Infinity /\ At(d, v, p) < Infinity
                  /\ At(c, x, p) = At(d, x, v) + At(d, v, p)
    <3>1. SUFFICES ASSUME p = v PROVE /\ At(d, x, v) < Infinity /\ At(d, v, p) < Infinity
                                      /\ At(c, x, p) = At(d, x, v) + At(d, v, p)
      OBVIOUS
    <3>2. At(d, v, p) = 0
      BY <1>8, <3>1
    <3>3. At(c, x, p) = At(d, x, v)
      BY <2>3, <2>10, <3>1, <3>2
    <3>4. QED
      BY <2>3, <2>6, <3>2, <3>3, InfinityType
  <2>13. QED
    BY <2>1, <2>8, <2>9, <2>10, <2>11, <2>12
<1>14. Relaxed(l, r) /\ r[x] <= 0
  <2>1. \A e \in DOMAIN l : e[1] \in P /\ e[2] \in P
    BY <1>2, GraphParts
  <2>2. QED
    BY <1>5, <1>8, <1>13, <2>1 DEF Relaxed
<1>15. \A y \in P : r[y] <= D[y]
  BY <1>6, <1>7, <1>14 DEF IsDistanceFrom, Below
<1>16. D \in Distances0(P) /\ D[x] <= 0 /\ \A y \in P : D[y] \in Int
  BY <1>7 DEF IsDistanceFrom, Distances0
<1>17. \A e \in DOMAIN len : e[1] \in S \cup {v} \cup {x} /\ D[e[1]] < Infinity
         => D[e[2]] < Infinity /\ D[e[2]] <= D[e[1]] + len[e]
  <2>1. Relaxed(l, D) /\ Closed(l, D)
    BY <1>7 DEF IsDistanceFrom
  <2>2. QED
    BY <1>3, <1>4, <2>1 DEF Relaxed, Closed
<1>18. \A y \in P : D[y] <= At(d, x, y)
  <2>1. RowGood(P, len, S, d, x)
    BY DEF RowsGood
  <2>2. \A e \in DOMAIN len : e[1] \in S \cup {x} /\ D[e[1]] < Infinity
          => D[e[2]] <= D[e[1]] + len[e]
    BY <1>17
  <2>3. QED
    BY <1>16, <2>1, <2>2, RowGreatest
<1>19. ASSUME At(d, x, v) < Infinity, NEW y \in P, At(d, v, y) < Infinity
       PROVE  D[y] <= At(d, x, v) + At(d, v, y)
  <2>1. D[v] <= At(d, x, v) /\ D[v] < Infinity
    BY <1>9, <1>16, <1>18, <1>19, InfinityType
  <2>2. RowGood(P, len, S, d, v)
    BY DEF RowsGood
  <2>3. \A e \in DOMAIN len : e[1] \in S \cup {v} /\ D[e[1]] < Infinity
          => D[e[2]] < Infinity /\ D[e[2]] <= D[e[1]] + len[e]
    BY <1>17
  <2>4. D[y] <= D[v] + At(d, v, y)
    BY <1>16, <1>19, <2>1, <2>2, <2>3, ShiftedRow
  <2>5. QED
    BY <1>9, <1>16, <2>1, <2>4
<1>20. \A y \in P : D[y] <= r[y]
  BY <1>5, <1>10, <1>18, <1>19
<1>21. r = D
  <2>1. r \in [P -> Int] /\ D \in [P -> Int]
    BY <1>6, <1>16 DEF Distances0
  <2>2. \A y \in P : r[y] = D[y]
    BY <1>15, <1>20, <2>1
  <2>3. QED
    BY <2>1, <2>2
<1>22. HasSchedule(P, l) /\ IsDistanceFrom(P, l, x, r) /\ Closed(l, r)
  BY <1>1, <1>7, <1>21
<1>23. QED
  BY <1>22 DEF RowGood, l, r

(* The graph with every edge turned round, and the matrix with it.         *)
LEMMA ReversedParts ==
  ASSUME NEW P, NEW len, IsGraph(P, len)
  PROVE  /\ \A x, y : <<x, y>> \in DOMAIN Reversed(len) <=> <<y, x>> \in DOMAIN len
         /\ \A x, y : <<x, y>> \in DOMAIN Reversed(len) => Reversed(len)[<<x, y>>] = len[<<y, x>>]
         /\ \A e \in DOMAIN Reversed(len) : /\ e = <<e[1], e[2]>> /\ <<e[2], e[1]>> \in DOMAIN len
                                           /\ Reversed(len)[e] = len[<<e[2], e[1]>>]
         /\ \A e \in DOMAIN len : /\ e = <<e[1], e[2]>> /\ <<e[2], e[1]>> \in DOMAIN Reversed(len)
                                 /\ Reversed(len)[<<e[2], e[1]>>] = len[e]
<1> DEFINE r == Reversed(len)
           D == {<<f[2], f[1]>> : f \in DOMAIN len}
<1>1. r = [e \in D |-> len[<<e[2], e[1]>>]]
  BY DEF Reversed
<1>2. \A e \in DOMAIN len : e = <<e[1], e[2]>>
  BY DEF IsGraph
<1>3. \A x, y : <<x, y>> \in D <=> <<y, x>> \in DOMAIN len
  <2>1. ASSUME NEW x, NEW y, <<x, y>> \in D PROVE <<y, x>> \in DOMAIN len
    <3>1. PICK f \in DOMAIN len : <<x, y>> = <<f[2], f[1]>>
      BY <2>1
    <3>2. x = f[2] /\ y = f[1] /\ f = <<f[1], f[2]>>
      BY <1>2, <3>1
    <3>3. QED
      BY <3>2
  <2>2. ASSUME NEW x, NEW y, <<y, x>> \in DOMAIN len PROVE <<x, y>> \in D
    <3>1. <<y, x>>[1] = y /\ <<y, x>>[2] = x
      OBVIOUS
    <3>2. QED
      BY <2>2, <3>1
  <2>3. QED
    BY <2>1, <2>2
<1>4. \A e \in D : e = <<e[1], e[2]>>
  <2>1. ASSUME NEW e \in D PROVE e = <<e[1], e[2]>>
    <3>1. PICK f \in DOMAIN len : e = <<f[2], f[1]>>
      OBVIOUS
    <3>2. QED
      BY <3>1
  <2>2. QED
    BY <2>1
<1>5. DOMAIN r = D
  BY <1>1
<1>6. \A x, y : <<x, y>> \in D => r[<<x, y>>] = len[<<y, x>>]
  <2>1. ASSUME NEW x, NEW y, <<x, y>> \in D PROVE r[<<x, y>>] = len[<<y, x>>]
    <3>1. r[<<x, y>>] = len[<< <<x, y>>[2], <<x, y>>[1] >>]
      BY <1>1, <2>1
    <3>2. QED
      BY <3>1
  <2>2. QED
    BY <2>1
<1>10. \A e \in D : r[e] = len[<<e[2], e[1]>>]
  BY <1>1
<1> HIDE DEF D, r
<1>7. \A e \in D : <<e[2], e[1]>> \in DOMAIN len
  BY <1>3, <1>4
<1>8. ASSUME NEW e \in DOMAIN len
      PROVE  <<e[2], e[1]>> \in D /\ r[<<e[2], e[1]>>] = len[e]
  <2>1. PICK a, b : a = e[1] /\ b = e[2] /\ e = <<a, b>>
    BY <1>2
  <2>2. <<b, a>> \in D /\ r[<<b, a>>] = len[<<a, b>>]
    BY <1>3, <1>6, <2>1
  <2>3. QED
    BY <2>1, <2>2
<1>9. QED
  BY <1>2, <1>3, <1>4, <1>5, <1>6, <1>7, <1>8, <1>10 DEF r

LEMMA ReversedGraph ==
  ASSUME NEW P, NEW len, IsGraph(P, len)
  PROVE  /\ IsGraph(P, Reversed(len))
         /\ \A m : Small(P, len, m) => Small(P, Reversed(len), m)
         /\ HasSchedule(P, len) => HasSchedule(P, Reversed(len))
         /\ HasSchedule(P, Reversed(len)) => HasSchedule(P, len)
<1> DEFINE r == Reversed(len)
           turned == [e \in DOMAIN len |-> <<e[2], e[1]>>]
<1>0. /\ \A x, y : <<x, y>> \in DOMAIN r <=> <<y, x>> \in DOMAIN len
      /\ \A x, y : <<x, y>> \in DOMAIN r => r[<<x, y>>] = len[<<y, x>>]
      /\ \A e \in DOMAIN r : /\ e = <<e[1], e[2]>> /\ <<e[2], e[1]>> \in DOMAIN len
                             /\ r[e] = len[<<e[2], e[1]>>]
      /\ \A e \in DOMAIN len : /\ e = <<e[1], e[2]>> /\ <<e[2], e[1]>> \in DOMAIN r
                               /\ r[<<e[2], e[1]>>] = len[e]
  BY ReversedParts
<1>1. \A e \in DOMAIN r : e = <<e[1], e[2]>> /\ <<e[2], e[1]>> \in DOMAIN len
                          /\ r[e] = len[<<e[2], e[1]>>]
  BY ONLY <1>0, Zenon
<1>2. \A e \in DOMAIN len : e = <<e[1], e[2]>> /\ <<e[2], e[1]>> \in DOMAIN r
                            /\ r[<<e[2], e[1]>>] = len[e]
  BY ONLY <1>0, Zenon
<1>3. IsFiniteSet(DOMAIN r)
  <2>1. DOMAIN r = {turned[e] : e \in DOMAIN len}
    <3>1. DOMAIN r = {<<f[2], f[1]>> : f \in DOMAIN len}
      BY DEF Reversed
    <3>2. QED
      BY <3>1
  <2>2. IsFiniteSet(DOMAIN len)
    BY DEF IsGraph
  <2> HIDE DEF turned, r
  <2>3. QED
    BY <2>1, <2>2, ValuesFinite
<1> HIDE DEF r
<1>4. ASSUME NEW e \in DOMAIN r PROVE e \in P \X P /\ e[1] # e[2] /\ r[e] \in Int
  <2> DEFINE f == <<e[2], e[1]>>
  <2>1. f \in DOMAIN len /\ f[1] = e[2] /\ f[2] = e[1] /\ r[e] = len[f] /\ e = <<e[1], e[2]>>
    BY <1>1
  <2>2. f[1] \in P /\ f[2] \in P /\ f[1] # f[2] /\ len[f] \in Int
    BY <2>1, GraphParts
  <2>3. QED
    BY <2>1, <2>2
<1>5. IsGraph(P, r)
  BY <1>3, <1>4 DEF IsGraph
<1>6. \A m : Small(P, len, m) => Small(P, r, m)
  BY <1>1 DEF Small
<1>7. ASSUME NEW a, NEW b, IsGraph(P, a), HasSchedule(P, a),
             \A e \in DOMAIN b : /\ e \in P \X P /\ <<e[2], e[1]>> \in DOMAIN a
                                 /\ b[e] = a[<<e[2], e[1]>>]
      PROVE  HasSchedule(P, b)
  <2>1. PICK g \in [P -> Int] : IsSchedule(P, a, g)
    BY <1>7 DEF HasSchedule
  <2> DEFINE h == [p \in P |-> -g[p]]
  <2>2. h \in [P -> Int] /\ \A p \in P : h[p] = -g[p] /\ g[p] \in Int
    OBVIOUS
  <2> HIDE DEF h
  <2>3. ASSUME NEW e \in DOMAIN b PROVE h[e[2]] <= h[e[1]] + b[e]
    <3> DEFINE f == <<e[2], e[1]>>
    <3>1. f \in DOMAIN a /\ f[1] = e[2] /\ f[2] = e[1] /\ b[e] = a[f]
      BY <1>7
    <3>2. e[1] \in P /\ e[2] \in P
      BY <1>7
    <3>3. g[e[1]] <= g[e[2]] + a[f] /\ a[f] \in Int
      BY <1>7, <2>1, <3>1, GraphParts DEF IsSchedule
    <3> HIDE DEF f
    <3>4. QED
      BY <2>2, <3>1, <3>2, <3>3
  <2>4. QED
    BY <2>2, <2>3 DEF HasSchedule, IsSchedule
<1>8. HasSchedule(P, len) => HasSchedule(P, r)
  BY <1>1, <1>4, <1>7
<1>9. HasSchedule(P, r) => HasSchedule(P, len)
  <2>1. \A e \in DOMAIN len : e \in P \X P
    BY DEF IsGraph
  <2>2. QED
    BY <1>2, <1>5, <1>7, <2>1
<1>10. QED
  BY <1>5, <1>6, <1>8, <1>9 DEF r

Transposed(P, d) == [p \in P \X P |-> At(d, p[2], p[1])]

LEMMA TransposedParts ==
  ASSUME NEW P, NEW d, IsMatrix(P, d)
  PROVE  /\ IsMatrix(P, Transposed(P, d))
         /\ \A x, y \in P : At(Transposed(P, d), x, y) = At(d, y, x)
<1> DEFINE t == Transposed(P, d)
<1>1. \A x, y \in P : At(t, x, y) = At(d, y, x)
  <2>1. ASSUME NEW x \in P, NEW y \in P PROVE At(t, x, y) = At(d, y, x)
    <3>1. <<x, y>> \in P \X P /\ <<x, y>>[1] = x /\ <<x, y>>[2] = y
      OBVIOUS
    <3>2. t[<<x, y>>] = At(d, y, x)
      BY <3>1 DEF Transposed
    <3>3. QED
      BY <3>2 DEF At
  <2>2. QED
    BY <2>1
<1>2. t \in [P \X P -> Int]
  <2>1. \A p \in P \X P : At(d, p[2], p[1]) \in Int
    BY MatrixAt
  <2>2. QED
    BY <2>1 DEF Transposed
<1> HIDE DEF t
<1>3. IsMatrix(P, t)
  BY <1>1, <1>2 DEF IsMatrix
<1>4. QED
  BY <1>1, <1>3 DEF t

LEMMA TransposedSteps ==
  ASSUME NEW P, NEW d, NEW v \in P, NEW c, IsMatrix(P, d), IsMatrix(P, c), Stepped(P, d, v, c)
  PROVE  /\ Stepped(P, Transposed(P, d), v, Transposed(P, c))
         /\ Diagonal(P, d) => Diagonal(P, Transposed(P, d))
<1>1. \A x, y \in P : /\ At(Transposed(P, d), x, y) = At(d, y, x)
                      /\ At(Transposed(P, c), x, y) = At(c, y, x)
  BY TransposedParts
<1>2. Diagonal(P, d) => Diagonal(P, Transposed(P, d))
  BY <1>1 DEF Diagonal
<1>3. ASSUME NEW x \in P, NEW y \in P
      PROVE  /\ At(c, y, x) <= At(d, y, x)
             /\ At(d, v, x) < Infinity /\ At(d, y, v) < Infinity
                  => At(c, y, x) <= At(d, v, x) + At(d, y, v)
             /\ \/ At(c, y, x) = At(d, y, x)
                \/ /\ At(d, v, x) < Infinity /\ At(d, y, v) < Infinity
                   /\ At(c, y, x) = At(d, v, x) + At(d, y, v)
  <2>1. /\ At(c, y, x) <= At(d, y, x)
        /\ At(d, y, v) < Infinity /\ At(d, v, x) < Infinity
             => At(c, y, x) <= At(d, y, v) + At(d, v, x)
        /\ \/ At(c, y, x) = At(d, y, x)
           \/ /\ At(d, y, v) < Infinity /\ At(d, v, x) < Infinity
              /\ At(c, y, x) = At(d, y, v) + At(d, v, x)
    BY DEF Stepped
  <2>2. At(d, v, x) \in Int /\ At(d, y, v) \in Int
    BY MatrixAt
  <2>3. At(d, y, v) + At(d, v, x) = At(d, v, x) + At(d, y, v)
    BY <2>2
  <2>4. QED
    BY <2>1, <2>3
<1>4. QED
  BY <1>1, <1>2, <1>3 DEF Stepped

(* Before any node is gone through.                                        *)
Entry(len, d, x, y) ==
  /\ x = y => At(d, x, y) = 0
  /\ x # y /\ <<x, y>> \in DOMAIN len => At(d, x, y) = len[<<x, y>>]
  /\ x # y /\ <<x, y>> \notin DOMAIN len => At(d, x, y) = Infinity

IsMatrixOf(P, len, d) == IsMatrix(P, d) /\ \A x, y \in P : Entry(len, d, x, y)

LEMMA BaseRow ==
  ASSUME NEW P, NEW len, IsGraph(P, len), NEW m, Small(P, len, m), NEW d,
         IsMatrixOf(P, len, d), NEW x \in P
  PROVE  RowGood(P, len, {}, d, x)
<1> DEFINE l == Leaving(len, {} \cup {x})
           r == Row(P, d, x)
<1>1. IsMatrix(P, d)
  BY DEF IsMatrixOf, Entry
<1>2. r \in Distances0(P) /\ \A y \in P : r[y] = At(d, x, y) /\ r[y] \in Int
  BY <1>1, RowDistances, MatrixAt
<1>3. \A e : e \in DOMAIN l <=> e \in DOMAIN len /\ e[1] \in {} \cup {x}
  BY LeavingParts
<1>4. \A e \in DOMAIN l : l[e] = len[e]
  BY LeavingParts
<1> HIDE DEF l, r
<1>5. r[x] = 0
  BY <1>2 DEF IsMatrixOf, Entry
<1>6. ASSUME NEW e \in DOMAIN l
      PROVE  /\ e[1] = x /\ e[2] \in P /\ r[e[2]] = l[e] /\ l[e] \in Int /\ l[e] < Infinity
             /\ e = <<x, e[2]>>
  <2>1. e \in DOMAIN len /\ e[1] = x /\ l[e] = len[e]
    BY <1>3, <1>4
  <2>2. e[2] \in P /\ e[2] # x /\ len[e] \in Int /\ e = <<x, e[2]>>
    BY <2>1, GraphParts DEF IsGraph
  <2>3. At(d, x, e[2]) = len[e]
    BY <2>1, <2>2 DEF IsMatrixOf, Entry
  <2>4. len[e] <= m /\ m \in Nat /\ m * Cardinality(P) < Infinity
    BY <2>1 DEF Small
  <2>5. Cardinality(P) \in Nat /\ Cardinality(P) >= 2
    BY <2>2, TwoNodes DEF IsGraph
  <2>6. m * 1 <= m * Cardinality(P) /\ m * Cardinality(P) \in Int
    <3>1. 1 * m <= Cardinality(P) * m
      BY <2>4, <2>5, TimesGrows
    <3>2. QED
      BY <2>4, <2>5, <3>1
  <2>7. len[e] < Infinity
    BY <2>2, <2>4, <2>6, InfinityType
  <2>8. QED
    BY <1>2, <2>1, <2>2, <2>3, <2>7
<1>7. IsSchedule(P, l, r)
  BY <1>2, <1>5, <1>6 DEF IsSchedule, Distances0
<1>8. HasSchedule(P, l) /\ Relaxed(l, r) /\ Closed(l, r)
  <2>1. r \in [P -> Int]
    BY <1>2 DEF Distances0
  <2>2. Relaxed(l, r)
    BY <1>7 DEF IsSchedule, Relaxed
  <2>3. Closed(l, r)
    BY <1>6 DEF Closed
  <2>4. QED
    BY <1>7, <2>1, <2>2, <2>3 DEF HasSchedule
<1>9. ASSUME NEW h \in Distances0(P), h[x] <= 0, Relaxed(l, h), NEW y \in P PROVE h[y] <= r[y]
  <2>1. h[y] \in Int /\ h[y] <= Infinity /\ h[x] \in Int
    BY DEF Distances0
  <2>2. CASE y = x
    BY <1>5, <1>9, <2>2
  <2>3. CASE y # x /\ <<x, y>> \in DOMAIN len
    <3>1. <<x, y>>[1] = x /\ <<x, y>>[2] = y
      OBVIOUS
    <3>2. <<x, y>> \in DOMAIN l
      BY <1>3, <2>3, <3>1
    <3>3. r[y] = l[<<x, y>>] /\ l[<<x, y>>] \in Int
      BY <1>6, <3>1, <3>2
    <3>4. h[x] < Infinity
      BY <1>9, <2>1, InfinityType
    <3>5. h[y] <= h[x] + l[<<x, y>>]
      BY <1>9, <3>1, <3>2, <3>4 DEF Relaxed
    <3>6. QED
      BY <1>9, <2>1, <3>3, <3>5
  <2>4. CASE y # x /\ <<x, y>> \notin DOMAIN len
    <3>1. r[y] = Infinity
      BY <1>2, <2>4 DEF IsMatrixOf, Entry
    <3>2. QED
      BY <2>1, <3>1
  <2>5. QED
    BY <2>2, <2>3, <2>4
<1>10. IsDistanceFrom(P, l, x, r)
  BY <1>2, <1>5, <1>8, <1>9 DEF IsDistanceFrom, Below
<1>11. QED
  BY <1>8, <1>10 DEF RowGood, l, r

(* No matrix goes below what a schedule allows.                            *)
Allowed(P, len, d) ==
  \A g \in [P -> Int] : IsSchedule(P, len, g) =>
    \A x, y \in P : At(d, x, y) < Infinity => g[y] - g[x] <= At(d, x, y)

AnyOf(S) == CHOOSE x \in S : TRUE

ThroughOne(k, u, d) == Network!Through(d, u)

Completing(k, S, d) ==
  /\ IsMatrix(k.P, d) /\ Allowed(k.P, k.len, d)
  /\ Diagonal(k.P, d) => /\ RowsGood(k.P, k.len, S, d)
                         /\ RowsGood(k.P, k.rev, S, Transposed(k.P, d))

ThroughLoop == INSTANCE FoldInduction WITH Op <- ThroughOne, Pick <- AnyOf, I <- Completing

LEMMA StepAllowed ==
  ASSUME NEW P, NEW len, NEW d, NEW v \in P, NEW c, IsMatrix(P, d), IsMatrix(P, c),
         Stepped(P, d, v, c), Allowed(P, len, d)
  PROVE  Allowed(P, len, c)
<1> SUFFICES ASSUME NEW g \in [P -> Int], IsSchedule(P, len, g), NEW x \in P, NEW y \in P,
                    At(c, x, y) < Infinity
             PROVE  g[y] - g[x] <= At(c, x, y)
  BY DEF Allowed
<1>1. \A z, u \in P : At(d, z, u) < Infinity => g[u] - g[z] <= At(d, z, u)
  BY DEF Allowed
<1>2. \A z \in P : g[z] \in Int
  OBVIOUS
<1>3. At(d, x, v) \in Int /\ At(d, v, y) \in Int /\ At(d, x, y) \in Int /\ At(c, x, y) \in Int
  BY MatrixAt
<1>4. \/ At(c, x, y) = At(d, x, y)
      \/ /\ At(d, x, v) < Infinity /\ At(d, v, y) < Infinity
         /\ At(c, x, y) = At(d, x, v) + At(d, v, y)
  BY DEF Stepped
<1>5. QED
  BY <1>1, <1>2, <1>3, <1>4

LEMMA StaysCompleting ==
  ASSUME NEW k, IsGraph(k.P, k.len), NEW m, Small(k.P, k.len, m), k.rev = Reversed(k.len),
         NEW S, NEW v \in k.P, NEW d, Completing(k, S \ {v}, d), v \in S
  PROVE  Completing(k, S, Network!Through(d, v))
<1> DEFINE P == k.P
           len == k.len
           rev == k.rev
           R == S \ {v}
           c == Network!Through(d, v)
<1>1. /\ IsGraph(P, len) /\ Small(P, len, m) /\ IsGraph(P, rev) /\ Small(P, rev, m)
      /\ v \in P /\ R \cup {v} = S
  BY ReversedGraph
<1>2. /\ IsMatrix(P, d) /\ Allowed(P, len, d)
      /\ Diagonal(P, d) => RowsGood(P, len, R, d) /\ RowsGood(P, rev, R, Transposed(P, d))
  BY DEF Completing
<1>3. SUFFICES /\ IsMatrix(P, c) /\ Allowed(P, len, c)
               /\ Diagonal(P, c) => RowsGood(P, len, S, c) /\ RowsGood(P, rev, S, Transposed(P, c))
  BY DEF Completing
<1>4. IsMatrix(P, c) /\ Stepped(P, d, v, c)
  BY <1>1, <1>2, ThroughSteps
<1> HIDE DEF P, len, rev, R, c
<1>5. Allowed(P, len, c)
  BY <1>1, <1>2, <1>4, StepAllowed
<1>6. ASSUME Diagonal(P, c)
      PROVE  RowsGood(P, len, S, c) /\ RowsGood(P, rev, S, Transposed(P, c))
  <2>1. Diagonal(P, d)
    <3>1. ASSUME NEW x \in P PROVE At(d, x, x) = 0
      <4>1. At(c, x, x) <= At(d, x, x) /\ At(c, x, x) = 0
        BY <1>4, <1>6 DEF Stepped, Diagonal
      <4>2. At(d, x, x) <= 0 /\ At(d, x, x) \in Int
        BY <1>2, MatrixAt DEF IsMatrix
      <4>3. QED
        BY <4>1, <4>2
    <3>2. QED
      BY <3>1 DEF Diagonal
  <2>2. \A x \in P : RowGood(P, len, R \cup {v}, c, x)
    BY <1>1, <1>2, <1>4, <1>6, <2>1, StepRow
  <2> DEFINE dt == Transposed(P, d)
             ct == Transposed(P, c)
  <2>3. IsMatrix(P, dt) /\ IsMatrix(P, ct)
    BY <1>2, <1>4, TransposedParts
  <2>4. Stepped(P, dt, v, ct) /\ Diagonal(P, dt)
    BY <1>1, <1>2, <1>4, <2>1, TransposedSteps
  <2>5. Diagonal(P, ct)
    BY <1>4, <1>6, TransposedParts DEF Diagonal
  <2>6. RowsGood(P, rev, R, dt)
    BY <1>2, <2>1
  <2> HIDE DEF dt, ct
  <2>7. \A x \in P : RowGood(P, rev, R \cup {v}, ct, x)
    BY <1>1, <2>3, <2>4, <2>5, <2>6, StepRow
  <2>8. QED
    BY <1>1, <2>2, <2>7 DEF RowsGood, ct
<1>7. QED
  BY <1>4, <1>5, <1>6

LEMMA AllLeaving ==
  ASSUME NEW P, NEW len, IsGraph(P, len), NEW x
  PROVE  /\ HasSchedule(P, Leaving(len, P \cup {x})) => HasSchedule(P, len)
         /\ \A f : IsDistanceFrom(P, Leaving(len, P \cup {x}), x, f) => IsDistanceFrom(P, len, x, f)
<1> DEFINE l == Leaving(len, P \cup {x})
<1>1. \A e : e \in DOMAIN l <=> e \in DOMAIN len /\ e[1] \in P \cup {x}
  BY LeavingParts
<1>2. \A e \in DOMAIN l : l[e] = len[e]
  BY LeavingParts
<1> HIDE DEF l
<1>3. \A e \in DOMAIN len : e \in DOMAIN l /\ l[e] = len[e]
  BY <1>1, <1>2, GraphParts
<1>4. \A e \in DOMAIN l : e \in DOMAIN len /\ l[e] = len[e]
  BY <1>1, <1>2
<1>5. \A d : Relaxed(l, d) <=> Relaxed(len, d)
  BY <1>3, <1>4 DEF Relaxed
<1>6. \A g : IsSchedule(P, l, g) => IsSchedule(P, len, g)
  BY <1>3 DEF IsSchedule
<1>7. HasSchedule(P, l) => HasSchedule(P, len)
  BY <1>6 DEF HasSchedule
<1>8. \A f : IsDistanceFrom(P, l, x, f) => IsDistanceFrom(P, len, x, f)
  BY <1>5 DEF IsDistanceFrom
<1>9. QED
  BY <1>7, <1>8 DEF l

BaseMatrix(P, C) == [p \in {<<x, y>> : x, y \in P} |-> Network!Direct(C, p[1], p[2])]

(* The matrix of the shortest distances: its diagonal is zero exactly if   *)
(* there is a schedule, and then its rows and columns are the distances.   *)
MatrixCorrect(P, len, d) ==
  /\ IsMatrix(P, d)
  /\ Diagonal(P, d) <=> HasSchedule(P, len)
  /\ Diagonal(P, d) => \A x \in P :
       /\ IsDistanceFrom(P, len, x, Row(P, d, x))
       /\ IsDistanceFrom(P, Reversed(len), x, Row(P, Transposed(P, d), x))

LEMMA DistancesComplete ==
  ASSUME NEW P, NEW len, IsGraph(P, len), NEW m, Small(P, len, m), P # {}, NEW C,
         IsMatrixOf(P, len, BaseMatrix(P, C))
  PROVE  MatrixCorrect(P, len, Network!Distances(P, C))
<1> DEFINE b == BaseMatrix(P, C)
           k == [P |-> P, len |-> len, rev |-> Reversed(len)]
           d == Network!Distances(P, C)
<1>1. d = ThroughLoop!Fold(k, b, P)
  BY DEF Network!Distances, Network!FoldSet, Network!MapThenFoldSet, BaseMatrix, ThroughLoop!Fold,
         ThroughLoop!MapThenFoldSet, MapThenFoldSet, ThroughOne, AnyOf
<1>2. k.P = P /\ k.len = len /\ k.rev = Reversed(len)
  OBVIOUS
<1>3. IsFiniteSet(P)
  BY DEF IsGraph
<1>4. IsGraph(P, Reversed(len)) /\ Small(P, Reversed(len), m)
  BY ReversedGraph
<1> HIDE DEF k, b, d
<1>5. ThroughLoop!IsFiniteSet(P)
  BY <1>3, Zenon DEF ThroughLoop!IsFiniteSet, IsFiniteSet
<1>6. ThroughLoop!Picks(P)
  BY DEF ThroughLoop!Picks, AnyOf
<1>7. IsMatrixOf(P, len, b)
  BY DEF b
<1>8. IsMatrixOf(P, Reversed(len), Transposed(P, b))
  <2> DEFINE rev == Reversed(len)
             t == Transposed(P, b)
  <2>1. IsMatrix(P, t) /\ \A x, y \in P : At(t, x, y) = At(b, y, x)
    BY <1>7, TransposedParts DEF IsMatrixOf
  <2>2. /\ \A x, y : <<x, y>> \in DOMAIN rev <=> <<y, x>> \in DOMAIN len
        /\ \A x, y : <<x, y>> \in DOMAIN rev => rev[<<x, y>>] = len[<<y, x>>]
    BY ReversedParts
  <2> HIDE DEF rev, t
  <2>3. ASSUME NEW x \in P, NEW y \in P
        PROVE  Entry(rev, t, x, y)
    <3>1. Entry(len, b, y, x)
      BY <1>7 DEF IsMatrixOf
    <3>2. QED
      BY <2>1, <2>2, <3>1 DEF Entry
  <2>4. IsMatrixOf(P, rev, t)
    BY <2>1, <2>3 DEF IsMatrixOf
  <2>5. QED
    BY <2>4 DEF rev, t
<1>9. Completing(k, {}, b)
  <2>1. RowsGood(P, len, {}, b) /\ RowsGood(P, Reversed(len), {}, Transposed(P, b))
    <3>1. \A x \in P : RowGood(P, len, {}, b, x)
      BY <1>7, BaseRow
    <3>2. \A x \in P : RowGood(P, Reversed(len), {}, Transposed(P, b), x)
      <4> DEFINE rev == Reversed(len)
                 t == Transposed(P, b)
      <4>1. IsGraph(P, rev) /\ Small(P, rev, m) /\ IsMatrixOf(P, rev, t)
        BY <1>4, <1>8
      <4> HIDE DEF rev, t
      <4>2. \A x \in P : RowGood(P, rev, {}, t, x)
        BY <4>1, BaseRow
      <4>3. QED
        BY <4>2 DEF rev, t
    <3>3. QED
      BY <3>1, <3>2 DEF RowsGood
  <2>2. ASSUME NEW g \in [P -> Int], IsSchedule(P, len, g), NEW x \in P, NEW y \in P,
               At(b, x, y) < Infinity
        PROVE  g[y] - g[x] <= At(b, x, y)
    <3>1. g[x] \in Int /\ g[y] \in Int
      OBVIOUS
    <3>2. CASE x = y
      <4>1. At(b, x, y) = 0
        BY <1>7, <3>2 DEF IsMatrixOf, Entry
      <4>2. g[y] - g[x] = 0
        BY <3>1, <3>2
      <4>3. QED
        BY <4>1, <4>2
    <3>3. CASE x # y
      <4>1. <<x, y>> \in DOMAIN len /\ At(b, x, y) = len[<<x, y>>]
        <5>1. At(b, x, y) < Infinity
          BY <2>2
        <5>2. At(b, x, y) # Infinity
          BY <5>1, InfinityType
        <5>3. QED
          BY <1>7, <3>3, <5>2 DEF IsMatrixOf, Entry
      <4>2. <<x, y>>[1] = x /\ <<x, y>>[2] = y
        OBVIOUS
      <4>3. g[y] <= g[x] + len[<<x, y>>] /\ len[<<x, y>>] \in Int
        BY <2>2, <4>1, <4>2, GraphParts DEF IsSchedule
      <4>4. QED
        BY <3>1, <4>1, <4>3
    <3>4. QED
      BY <3>2, <3>3
  <2>3. Allowed(P, len, b)
    BY <2>2 DEF Allowed
  <2>4. QED
    BY <1>2, <1>7, <2>1, <2>3 DEF Completing, IsMatrixOf
<1>10. ASSUME NEW S \in SUBSET P, NEW y, S # {}, Completing(k, S \ {AnyOf(S)}, y)
       PROVE  Completing(k, S, ThroughOne(k, AnyOf(S), y))
  <2>1. AnyOf(S) \in S /\ AnyOf(S) \in P
    BY <1>10 DEF AnyOf
  <2>2. Completing(k, S, Network!Through(y, AnyOf(S)))
    BY <1>2, <1>10, <2>1, StaysCompleting
  <2>3. QED
    BY <2>2 DEF ThroughOne
<1>11. Completing(k, P, ThroughLoop!Fold(k, b, P))
  BY ONLY <1>5, <1>6, <1>9, <1>10, ThroughLoop!FoldKeeps
<1>12. /\ IsMatrix(P, d) /\ Allowed(P, len, d)
       /\ Diagonal(P, d) => /\ RowsGood(P, len, P, d)
                            /\ RowsGood(P, Reversed(len), P, Transposed(P, d))
  BY <1>1, <1>2, <1>11 DEF Completing
<1>13. ASSUME HasSchedule(P, len) PROVE Diagonal(P, d)
  <2>1. PICK g \in [P -> Int] : IsSchedule(P, len, g)
    BY <1>13 DEF HasSchedule
  <2>2. ASSUME NEW x \in P PROVE At(d, x, x) = 0
    <3>1. At(d, x, x) <= 0 /\ At(d, x, x) \in Int /\ g[x] \in Int
      BY <1>12, MatrixAt DEF IsMatrix
    <3>2. g[x] - g[x] <= At(d, x, x)
      BY <1>12, <2>1, <3>1, InfinityType DEF Allowed
    <3>3. QED
      BY <3>1, <3>2
  <2>3. QED
    BY <2>2 DEF Diagonal
<1>14. ASSUME Diagonal(P, d), NEW x \in P
       PROVE  /\ HasSchedule(P, len)
              /\ IsDistanceFrom(P, len, x, Row(P, d, x))
              /\ IsDistanceFrom(P, Reversed(len), x, Row(P, Transposed(P, d), x))
  <2>1. RowGood(P, len, P, d, x) /\ RowGood(P, Reversed(len), P, Transposed(P, d), x)
    BY <1>12, <1>14 DEF RowsGood
  <2>2. QED
    BY <1>4, <2>1, AllLeaving DEF RowGood
<1>15. MatrixCorrect(P, len, d)
  BY <1>12, <1>13, <1>14 DEF MatrixCorrect
<1>16. QED
  BY <1>15 DEF d
-----------------------------------------------------------------------------
(***************************************************************************)
(* 7. The edges of the network are those of its constraints: each length   *)
(* is in the bag as often as there are constraints that contribute it.     *)
(***************************************************************************)
Copies(s, e) == IF e \in DOMAIN s THEN s[e] ELSE 0

Holding(cs, e) == {c \in DOMAIN cs : e \in EdgesOf(cs[c])}

IsSpecs(s) == IsABag(s) /\ IsFiniteSet(DOMAIN s)

Counted(s, cs) ==
  /\ IsSpecs(s) /\ IsFiniteSet(DOMAIN cs)
  /\ \A e : Copies(s, e) = Cardinality(Holding(cs, e))

LEMMA EdgesFinite ==
  ASSUME NEW x
  PROVE  IsFiniteSet(EdgesOf(x))
<1> DEFINE a == <<x.head, x.foot, x.ub>>
           b == <<x.foot, x.head, -x.lb>>
<1>1. EdgesOf(x) \subseteq {a} \cup {b}
  BY DEF EdgesOf
<1>2. IsFiniteSet({a} \cup {b})
  <2> DEFINE S == {a}
  <2>1. IsFiniteSet(S)
    BY FS_Singleton
  <2> HIDE DEF S
  <2>2. IsFiniteSet(S \cup {b})
    BY <2>1, FS_AddElement
  <2>3. QED
    BY <2>2 DEF S
<1> HIDE DEF a, b
<1>3. QED
  BY <1>1, <1>2, FS_Subset

LEMMA EdgesAdded ==
  ASSUME NEW s, IsSpecs(s), NEW x
  PROVE  /\ IsSpecs(AddEdges(s, x))
         /\ \A e : Copies(AddEdges(s, x), e) = Copies(s, e) + (IF e \in EdgesOf(x) THEN 1 ELSE 0)
<1> DEFINE E == EdgesOf(x)
           t == AddEdges(s, x)
           D == DOMAIN s \cup E
           val(e) == (IF e \in DOMAIN s THEN s[e] ELSE 0) + (IF e \in E THEN 1 ELSE 0)
<1>1. s \in [DOMAIN s -> {n \in Nat : n > 0}] /\ IsFiniteSet(DOMAIN s)
  BY DEF IsSpecs, IsABag
<1>2. t = [e \in D |-> val(e)]
  <2>1. t = s (+) [e \in E |-> 1]
    BY DEF AddEdges, SetToBag
  <2> HIDE DEF E, t
  <2>2. s (+) [e \in E |-> 1] =
          [e \in (DOMAIN s) \cup (DOMAIN [f \in E |-> 1]) |->
             (IF e \in DOMAIN s THEN s[e] ELSE 0)
             + (IF e \in DOMAIN [f \in E |-> 1] THEN [f \in E |-> 1][e] ELSE 0)]
    BY DEF (+)
  <2>3. DOMAIN [f \in E |-> 1] = E /\ \A e \in E : [f \in E |-> 1][e] = 1
    OBVIOUS
  <2>4. QED
    BY <2>1, <2>2, <2>3
<1>3. \A e \in DOMAIN s : s[e] \in Nat /\ s[e] > 0
  BY <1>1
<1>4. IsFiniteSet(E)
  BY EdgesFinite
<1> HIDE DEF E, t
<1>5. \A e \in D : val(e) \in Nat /\ val(e) > 0
  BY <1>3
<1>6. DOMAIN t = D /\ \A e \in D : t[e] = val(e)
  BY <1>2
<1>7. IsFiniteSet(D)
  BY <1>1, <1>4, FS_Union
<1>8. IsABag(t)
  <2>1. t = [e \in D |-> t[e]]
    BY <1>2
  <2>2. t \in [D -> {n \in Nat : n > 0}]
    BY <1>5, <1>6, <2>1
  <2>3. QED
    BY <1>6, <2>2 DEF IsABag
<1>9. ASSUME NEW e PROVE Copies(t, e) = Copies(s, e) + (IF e \in E THEN 1 ELSE 0)
  <2>1. CASE e \in D
    BY <1>6, <2>1 DEF Copies
  <2>2. CASE e \notin D
    BY <1>6, <2>2 DEF Copies
  <2>3. QED
    BY <2>1, <2>2
<1>10. QED
  BY <1>6, <1>7, <1>8, <1>9 DEF IsSpecs, E, t

LEMMA EdgesRemoved ==
  ASSUME NEW s, IsSpecs(s), NEW x, \A e \in EdgesOf(x) : e \in DOMAIN s
  PROVE  /\ IsSpecs(RemoveEdges(s, x))
         /\ \A e : Copies(RemoveEdges(s, x), e) =
                     Copies(s, e) - (IF e \in EdgesOf(x) THEN 1 ELSE 0)
<1> DEFINE E == EdgesOf(x)
           t == RemoveEdges(s, x)
           val(e) == IF e \in E THEN s[e] - 1 ELSE s[e]
           B == [e \in DOMAIN s |-> val(e)]
           D == {e \in DOMAIN s : val(e) > 0}
<1>1. s \in [DOMAIN s -> {n \in Nat : n > 0}] /\ IsFiniteSet(DOMAIN s)
  BY DEF IsSpecs, IsABag
<1>2. t = [e \in D |-> val(e)]
  <2> DEFINE one == [e \in E |-> 1]
             C == [e \in DOMAIN s |-> IF e \in DOMAIN one THEN s[e] - one[e] ELSE s[e]]
  <2>1. t = s (-) one
    BY DEF RemoveEdges, SetToBag
  <2>2. s (-) one = [e \in {d \in DOMAIN C : C[d] > 0} |-> C[e]]
    BY DEF (-)
  <2>3. C = B
    OBVIOUS
  <2>4. t = [e \in {d \in DOMAIN B : B[d] > 0} |-> B[e]]
    BY <2>1, <2>2, <2>3
  <2>5. DOMAIN B = DOMAIN s /\ \A e \in DOMAIN s : B[e] = val(e)
    OBVIOUS
  <2> HIDE DEF B, E, t
  <2>6. {d \in DOMAIN B : B[d] > 0} = D
    BY <2>5
  <2>7. QED
    BY <2>4, <2>5, <2>6
<1>3. \A e \in DOMAIN s : s[e] \in Nat /\ s[e] > 0
  BY <1>1
<1> HIDE DEF E, t
<1>4. \A e \in D : val(e) \in Nat /\ val(e) > 0
  BY <1>3
<1>5. DOMAIN t = D /\ \A e \in D : t[e] = val(e)
  BY <1>2
<1>6. IsFiniteSet(D)
  <2>1. D \subseteq DOMAIN s
    OBVIOUS
  <2> HIDE DEF D
  <2>2. QED
    BY <1>1, <2>1, FS_Subset
<1>7. IsABag(t)
  <2>1. t = [e \in D |-> t[e]]
    BY <1>2
  <2>2. t \in [D -> {n \in Nat : n > 0}]
    BY <1>4, <1>5, <2>1
  <2>3. QED
    BY <1>5, <2>2 DEF IsABag
<1>8. \A e \in E : e \in DOMAIN s
  BY DEF E
<1>9. ASSUME NEW e PROVE Copies(t, e) = Copies(s, e) - (IF e \in E THEN 1 ELSE 0)
  <2>1. CASE e \in D
    BY <1>3, <1>5, <2>1 DEF Copies
  <2>2. CASE e \notin D /\ e \in DOMAIN s
    <3>1. s[e] \in Nat /\ s[e] > 0 /\ ~(val(e) > 0)
      BY <1>3, <2>2
    <3>2. e \in E /\ s[e] = 1
      BY <3>1
    <3>3. QED
      BY <1>5, <2>2, <3>2 DEF Copies
  <2>3. CASE e \notin DOMAIN s
    <3>1. e \notin E /\ e \notin D
      BY <1>8, <2>3
    <3>2. QED
      BY <1>5, <2>3, <3>1 DEF Copies
  <2>4. QED
    BY <2>1, <2>2, <2>3
<1>10. QED
  BY <1>5, <1>6, <1>7, <1>9 DEF IsSpecs, E, t

LEMMA EdgesCounted ==
  ASSUME NEW s, NEW cs, Counted(s, cs)
  PROVE  \A e : e \in DOMAIN s <=> \E c \in DOMAIN cs : e \in EdgesOf(cs[c])
<1> SUFFICES ASSUME NEW e
             PROVE  e \in DOMAIN s <=> \E c \in DOMAIN cs : e \in EdgesOf(cs[c])
  OBVIOUS
<1>1. IsFiniteSet(Holding(cs, e)) /\ Copies(s, e) = Cardinality(Holding(cs, e))
  <2>1. Holding(cs, e) \subseteq DOMAIN cs
    BY DEF Holding
  <2>2. QED
    BY <2>1, FS_Subset DEF Counted
<1>2. Cardinality(Holding(cs, e)) = 0 <=> Holding(cs, e) = {}
  BY <1>1, FS_EmptySet
<1>3. Copies(s, e) = 0 <=> e \notin DOMAIN s
  <2>1. e \in DOMAIN s => s[e] > 0 /\ s[e] \in Nat
    BY DEF Counted, IsSpecs, IsABag
  <2>2. QED
    BY <2>1 DEF Copies
<1>4. QED
  BY <1>1, <1>2, <1>3 DEF Holding

LEMMA CountedAdd ==
  ASSUME NEW s, NEW cs, Counted(s, cs), NEW c, c \notin DOMAIN cs, NEW x
  PROVE  Counted(AddEdges(s, x), With(cs, c, x))
<1> DEFINE t == AddEdges(s, x)
           ds == With(cs, c, x)
<1>1. /\ DOMAIN ds = DOMAIN cs \cup {c} /\ ds[c] = x
      /\ \A k \in DOMAIN cs : ds[k] = cs[k]
  BY DEF With
<1>2. /\ IsSpecs(t)
      /\ \A e : Copies(t, e) = Copies(s, e) + (IF e \in EdgesOf(x) THEN 1 ELSE 0)
  BY EdgesAdded DEF Counted
<1> HIDE DEF t, ds
<1>3. IsFiniteSet(DOMAIN ds)
  BY <1>1, FS_AddElement DEF Counted
<1>4. ASSUME NEW e PROVE Copies(t, e) = Cardinality(Holding(ds, e))
  <2> DEFINE H == Holding(cs, e)
  <2>1. IsFiniteSet(H) /\ c \notin H /\ Copies(s, e) = Cardinality(H)
    <3>1. H \subseteq DOMAIN cs
      BY DEF Holding
    <3>2. QED
      BY <3>1, FS_Subset DEF Counted
  <2>2. Holding(ds, e) = IF e \in EdgesOf(x) THEN H \cup {c} ELSE H
    BY <1>1 DEF Holding
  <2> HIDE DEF H
  <2>3. Cardinality(H \cup {c}) = Cardinality(H) + 1 /\ Cardinality(H) \in Nat
    BY <2>1, FS_AddElement, FS_CardinalityType
  <2>4. QED
    BY <1>2, <2>1, <2>2, <2>3
<1>5. Counted(t, ds)
  BY <1>2, <1>3, <1>4 DEF Counted
<1>6. QED
  BY <1>5 DEF t, ds

LEMMA CountedRemove ==
  ASSUME NEW s, NEW cs, Counted(s, cs), NEW c \in DOMAIN cs
  PROVE  Counted(RemoveEdges(s, cs[c]), Without(cs, c))
<1> DEFINE x == cs[c]
           t == RemoveEdges(s, x)
           ds == Without(cs, c)
<1>1. DOMAIN ds = DOMAIN cs \ {c} /\ \A k \in DOMAIN ds : ds[k] = cs[k]
  BY DEF Without
<1>2. \A e \in EdgesOf(x) : e \in DOMAIN s
  BY EdgesCounted
<1>3. /\ IsSpecs(t)
      /\ \A e : Copies(t, e) = Copies(s, e) - (IF e \in EdgesOf(x) THEN 1 ELSE 0)
  BY <1>2, EdgesRemoved DEF Counted
<1>6. x = cs[c]
  OBVIOUS
<1> HIDE DEF t, ds, x
<1>4. IsFiniteSet(DOMAIN ds)
  BY <1>1, FS_RemoveElement DEF Counted
<1>5. ASSUME NEW e PROVE Copies(t, e) = Cardinality(Holding(ds, e))
  <2> DEFINE H == Holding(cs, e)
  <2>1. IsFiniteSet(H) /\ Copies(s, e) = Cardinality(H)
    <3>1. H \subseteq DOMAIN cs
      BY DEF Holding
    <3>2. QED
      BY <3>1, FS_Subset DEF Counted
  <2>2. Holding(ds, e) = H \ {c} /\ (c \in H <=> e \in EdgesOf(x))
    BY <1>1, <1>6 DEF Holding
  <2> HIDE DEF H
  <2>3. /\ Cardinality(H \ {c}) = IF c \in H THEN Cardinality(H) - 1 ELSE Cardinality(H)
        /\ Cardinality(H) \in Nat
    BY <2>1, FS_RemoveElement, FS_CardinalityType
  <2>4. QED
    BY <1>3, <2>1, <2>2, <2>3
<1>7. Counted(t, ds)
  BY <1>3, <1>4, <1>5 DEF Counted
<1>8. QED
  BY <1>7 DEF t, ds, x

(* The new edges are added before the old ones are removed.                *)
LEMMA CountedNarrow ==
  ASSUME NEW s, NEW cs, Counted(s, cs), NEW c \in DOMAIN cs, NEW x
  PROVE  Counted(RemoveEdges(AddEdges(s, x), cs[c]), With(cs, c, x))
<1> DEFINE y == cs[c]
           t == AddEdges(s, x)
           u == RemoveEdges(t, y)
           ds == With(cs, c, x)
<1>1. /\ DOMAIN ds = DOMAIN cs /\ ds[c] = x
      /\ \A k \in DOMAIN cs : k # c => ds[k] = cs[k]
  <2>1. DOMAIN cs \cup {c} = DOMAIN cs
    OBVIOUS
  <2>2. QED
    BY <2>1 DEF With
<1>2. /\ IsSpecs(t)
      /\ \A e : Copies(t, e) = Copies(s, e) + (IF e \in EdgesOf(x) THEN 1 ELSE 0)
  BY EdgesAdded DEF Counted
<1>3. \A e \in EdgesOf(y) : e \in DOMAIN t
  <2> SUFFICES ASSUME NEW e \in EdgesOf(y) PROVE e \in DOMAIN t
    OBVIOUS
  <2>1. e \in DOMAIN s
    BY EdgesCounted
  <2>2. s[e] \in Nat /\ s[e] > 0
    BY <2>1 DEF Counted, IsSpecs, IsABag
  <2>3. Copies(t, e) > 0
    BY <1>2, <2>1, <2>2 DEF Copies
  <2>4. QED
    BY <2>3 DEF Copies
<1> HIDE DEF t
<1>4. /\ IsSpecs(u)
      /\ \A e : Copies(u, e) = Copies(t, e) - (IF e \in EdgesOf(y) THEN 1 ELSE 0)
  BY <1>2, <1>3, EdgesRemoved
<1>6. y = cs[c]
  OBVIOUS
<1> HIDE DEF u, ds, y
<1>5. IsFiniteSet(DOMAIN ds)
  BY <1>1 DEF Counted
<1>7. ASSUME NEW e PROVE Copies(u, e) = Cardinality(Holding(ds, e))
  <2> DEFINE H == Holding(cs, e)
             R == H \ {c}
  <2>1. IsFiniteSet(H) /\ Copies(s, e) = Cardinality(H)
    <3>1. H \subseteq DOMAIN cs
      BY DEF Holding
    <3>2. QED
      BY <3>1, FS_Subset DEF Counted
  <2>2. c \in H <=> e \in EdgesOf(y)
    BY <1>6 DEF Holding
  <2>3. Holding(ds, e) = IF e \in EdgesOf(x) THEN R \cup {c} ELSE R
    BY <1>1 DEF Holding
  <2> HIDE DEF H
  <2>4. /\ IsFiniteSet(R) /\ Cardinality(H) \in Nat
        /\ Cardinality(R) = IF c \in H THEN Cardinality(H) - 1 ELSE Cardinality(H)
    BY <2>1, FS_RemoveElement, FS_CardinalityType
  <2>5. c \notin R
    OBVIOUS
  <2> HIDE DEF R
  <2>6. Cardinality(R \cup {c}) = Cardinality(R) + 1
    BY <2>4, <2>5, FS_AddElement
  <2>7. Copies(u, e) = (Cardinality(H) + (IF e \in EdgesOf(x) THEN 1 ELSE 0))
                         - (IF e \in EdgesOf(y) THEN 1 ELSE 0)
    <3>1. Copies(t, e) = Cardinality(H) + (IF e \in EdgesOf(x) THEN 1 ELSE 0)
      BY <1>2, <2>1
    <3>2. Copies(u, e) = Copies(t, e) - (IF e \in EdgesOf(y) THEN 1 ELSE 0)
      BY ONLY <1>4
    <3>3. QED
      BY ONLY <3>1, <3>2
  <2>8. QED
    BY <2>2, <2>3, <2>4, <2>6, <2>7
<1>8. Counted(u, ds)
  BY <1>4, <1>5, <1>7 DEF Counted
<1>9. QED
  BY <1>8 DEF u, t, ds, y
-----------------------------------------------------------------------------
(* The lengths that an edge can have.                                      *)
LEMMA SameSets ==
  \A S : (Abstract!IsFiniteSet(S) <=> IsFiniteSet(S)) /\ Abstract!Cardinality(S) = Cardinality(S)
<1>1. \A S : Abstract!IsFiniteSet(S) <=> IsFiniteSet(S)
  BY Zenon DEF Abstract!IsFiniteSet, IsFiniteSet
<1>2. \A S : Abstract!Cardinality(S) = Cardinality(S)
  BY Zenon DEF Abstract!Cardinality, Cardinality
<1>3. QED
  BY <1>1, <1>2

LEMMA BoundSize ==
  \E m \in Nat : /\ m * Cardinality(Timepoint) < Infinity
                 /\ \A b \in Bound : b <= m /\ -b <= m
<1>1. /\ IsFiniteSet(Timepoint) /\ IsFiniteSet(Bound) /\ \A b \in Bound : b \in Int
      /\ \A b \in Bound : b * Cardinality(Timepoint) < Infinity /\ -b * Cardinality(Timepoint) < Infinity
  <2>1. /\ Abstract!IsFiniteSet(Timepoint) /\ Abstract!IsFiniteSet(Bound) /\ Bound \subseteq Int
        /\ \A b \in Bound : /\ b * Abstract!Cardinality(Timepoint) < Infinity
                            /\ -b * Abstract!Cardinality(Timepoint) < Infinity
    BY NetworkAssumption DEF Abstract!ProperNetwork
  <2>2. QED
    BY <2>1, SameSets
<1> DEFINE minus == [b \in Bound |-> -b]
           N == {minus[b] : b \in Bound}
           M == (Bound \cup N) \cup {0}
<1>2. IsFiniteSet(M)
  <2>1. IsFiniteSet(N)
    <3> HIDE DEF minus
    <3>1. QED
      BY <1>1, ValuesFinite
  <2> HIDE DEF N
  <2>2. IsFiniteSet(Bound \cup N)
    BY <1>1, <2>1, FS_Union
  <2>3. QED
    BY <2>2, FS_AddElement
<1>3. \A b \in Bound : minus[b] = -b /\ minus[b] \in M /\ b \in M
  OBVIOUS
<1>4. \A k \in M : k \in Int
  BY <1>1
<1>5. \A k \in M : k = 0 \/ k \in Bound \/ \E b \in Bound : k = -b
  OBVIOUS
<1>6. 0 \in M /\ M # {}
  OBVIOUS
<1> HIDE DEF M, N, minus
<1>7. Max(M) \in M /\ \A k \in M : k <= Max(M)
  BY ONLY <1>2, <1>4, <1>6, GreatestOf
<1> DEFINE m == Max(M)
<1>8. m \in Nat /\ \A b \in Bound : b <= m /\ -b <= m
  <2>1. m \in Int /\ 0 <= m
    BY <1>4, <1>6, <1>7
  <2>2. \A b \in Bound : b <= m /\ minus[b] <= m
    BY <1>3, <1>7
  <2>3. QED
    BY <1>3, <2>1, <2>2
<1>9. m * Cardinality(Timepoint) < Infinity
  <2> DEFINE n == Cardinality(Timepoint)
  <2>1. n \in Nat
    BY <1>1, FS_CardinalityType
  <2>2. \A b \in Bound : b * n < Infinity /\ -b * n < Infinity
    BY <1>1
  <2>6. m = 0 \/ m \in Bound \/ \E b \in Bound : m = -b
    BY <1>5, <1>7
  <2> HIDE DEF n, m
  <2>3. ASSUME m = 0 PROVE m * n < Infinity
    BY <2>1, <2>3, InfinityType
  <2>4. ASSUME m \in Bound PROVE m * n < Infinity
    BY <2>2, <2>4
  <2>5. ASSUME NEW b \in Bound, m = -b PROVE m * n < Infinity
    <3>1. b \in Int
      BY <1>1
    <3>2. (-b) * n = -(b * n)
      BY <2>1, <3>1
    <3>3. QED
      BY <2>2, <2>5, <3>2
  <2>7. QED
    BY <2>3, <2>4, <2>5, <2>6 DEF n
<1>10. QED
  BY <1>8, <1>9
LEMMA BoundBelow ==
  Infinity \in Int /\ \A b \in Bound : b \in Int /\ b < Infinity /\ -b < Infinity
<1>1. \A b \in Bound : b \in Int
  BY NetworkAssumption DEF Abstract!ProperNetwork
<1>2. PICK m \in Nat : /\ m * Cardinality(Timepoint) < Infinity
                       /\ \A b \in Bound : b <= m /\ -b <= m
  BY BoundSize
<1>3. Cardinality(Timepoint) \in Nat /\ Cardinality(Timepoint) # 0
  BY NetworkAssumption, SameSets, FS_CardinalityType, FS_EmptySet DEF Abstract!ProperNetwork
<1> DEFINE n == Cardinality(Timepoint)
<1> HIDE DEF n
<1>4. m <= m * n
  <2>1. 1 * m <= n * m
    BY <1>3, TimesGrows DEF n
  <2>2. 1 * m = m /\ n * m = m * n
    BY <1>3 DEF n
  <2>3. QED
    BY <2>1, <2>2
<1>5. m < Infinity
  <2>1. m * n \in Int
    BY <1>3 DEF n
  <2>2. m * n < Infinity
    BY <1>2 DEF n
  <2>3. QED
    BY <1>4, <2>1, <2>2, InfinityType
<1>6. QED
  BY <1>1, <1>2, <1>5, InfinityType
-----------------------------------------------------------------------------
(* The constraints of a network on the time points P, and their edges.     *)
Linked(P, cs) ==
  \A c \in DOMAIN cs : Abstract!IsLink(cs[c]) /\ cs[c].head \in P /\ cs[c].foot \in P

(* e is a length that an edge between nodes of P can have.                 *)
IsLength(P, e) ==
  /\ e = <<e[1], e[2], e[3]>> /\ e[1] \in P /\ e[2] \in P /\ e[1] # e[2]
  /\ e[3] \in Int /\ e[3] < Infinity
  /\ e[3] \in Bound \/ \E b \in Bound : e[3] = -b

LEMMA EdgeParts ==
  ASSUME NEW x, Abstract!IsLink(x), NEW e \in EdgesOf(x)
  PROVE  /\ e[3] \in Int /\ e[3] < Infinity
         /\ \/ e = <<x.head, x.foot, x.ub>> /\ x.ub \in Bound
            \/ e = <<x.foot, x.head, -x.lb>> /\ x.lb \in Bound
<1>1. /\ x.ub \in Bound \cup {Infinity} /\ x.lb \in Bound \cup {-Infinity}
  BY DEF Abstract!IsLink
<1>2. (\A b \in Bound : b \in Int) /\ Infinity \in Int
  BY NetworkAssumption DEF Abstract!ProperNetwork
<1>3. e[3] < Infinity /\ (e = <<x.head, x.foot, x.ub>> \/ e = <<x.foot, x.head, -x.lb>>)
  BY DEF EdgesOf
<1>4. CASE e = <<x.head, x.foot, x.ub>>
  <2>1. e[3] = x.ub
    BY <1>4
  <2>2. x.ub \in Bound
    BY <1>1, <1>2, <1>3, <2>1
  <2>3. e[3] \in Int
    BY <1>2, <2>1, <2>2
  <2>4. QED
    BY ONLY <1>3, <1>4, <2>2, <2>3
<1>5. CASE e = <<x.foot, x.head, -x.lb>>
  <2>1. e[3] = -x.lb
    BY <1>5
  <2>2. x.lb # -Infinity
    BY <1>2, <1>3, <2>1
  <2>3. x.lb \in Bound
    BY <1>1, <2>2
  <2>4. e[3] \in Int
    BY <1>2, <2>1, <2>3
  <2>5. QED
    BY ONLY <1>3, <1>5, <2>3, <2>4
<1>6. QED
  BY <1>3, <1>4, <1>5

LEMMA LinkLengths ==
  ASSUME NEW P, NEW x, Abstract!IsLink(x), x.head \in P, x.foot \in P, NEW e \in EdgesOf(x)
  PROVE  IsLength(P, e)
<1>1. x.head # x.foot
  BY DEF Abstract!IsLink
<1>2. /\ e[3] \in Int /\ e[3] < Infinity
      /\ \/ e = <<x.head, x.foot, x.ub>> /\ x.ub \in Bound
         \/ e = <<x.foot, x.head, -x.lb>> /\ x.lb \in Bound
  BY EdgeParts
<1>3. CASE e = <<x.head, x.foot, x.ub>> /\ x.ub \in Bound
  BY <1>1, <1>2, <1>3 DEF IsLength
<1>4. CASE e = <<x.foot, x.head, -x.lb>> /\ x.lb \in Bound
  <2>1. e[3] = -x.lb /\ e[1] = x.foot /\ e[2] = x.head
    BY <1>4
  <2>2. QED
    BY <1>1, <1>2, <1>4, <2>1 DEF IsLength
<1>5. QED
  BY <1>2, <1>3, <1>4

LEMMA SpecLengths ==
  ASSUME NEW P, NEW s, NEW cs, Counted(s, cs), Linked(P, cs), NEW e \in DOMAIN s
  PROVE  IsLength(P, e)
<1>1. PICK c \in DOMAIN cs : e \in EdgesOf(cs[c])
  BY EdgesCounted
<1>2. QED
  BY <1>1, LinkLengths DEF Linked

(* The length of an edge is one of those it has, and the least.            *)
Attained(s, len, p) == \E e \in DOMAIN s : p = Ends(e) /\ len[p] = e[3]
Covers(len, e) == Ends(e) \in DOMAIN len /\ len[Ends(e)] <= e[3]

LEMMA LengthsParts ==
  ASSUME NEW s, IsSpecs(s), \A e \in DOMAIN s : e[3] \in Int
  PROVE  /\ IsFiniteSet(DOMAIN Lengths(s))
         /\ \A p \in DOMAIN Lengths(s) : Attained(s, Lengths(s), p)
         /\ \A e \in DOMAIN s : Covers(Lengths(s), e)
<1> DEFINE S == DOMAIN s
           D == {Ends(e) : e \in S}
           on(p) == {e[3] : e \in {f \in S : Ends(f) = p}}
           len == Lengths(s)
<1>1. DOMAIN len = D /\ \A p \in D : len[p] = Min(on(p))
  BY DEF Lengths, BagToSet
<1>2. IsFiniteSet(S) /\ \A e \in S : e[3] \in Int
  BY DEF IsSpecs
<1> HIDE DEF len, S
<1>3. IsFiniteSet(D)
  <2> DEFINE f == [e \in S |-> Ends(e)]
  <2>1. D = {f[e] : e \in S}
    OBVIOUS
  <2> HIDE DEF f, D
  <2>2. QED
    BY <1>2, <2>1, ValuesFinite
<1>4. ASSUME NEW p \in D
      PROVE  /\ \E e \in S : Ends(e) = p /\ Min(on(p)) = e[3]
             /\ \A e \in S : Ends(e) = p => Min(on(p)) <= e[3]
  <2> DEFINE J == {f \in S : Ends(f) = p}
             f == [e \in J |-> e[3]]
             W == {f[e] : e \in J}
  <2>1. IsFiniteSet(J)
    <3>1. J \subseteq S
      OBVIOUS
    <3>2. QED
      BY ONLY <3>1, <1>2, FS_Subset
  <2>2. IsFiniteSet(W)
    <3> HIDE DEF f, J
    <3>1. QED
      BY <2>1, ValuesFinite
  <2>3. W # {} /\ \A x \in W : x \in Int
    BY <1>2
  <2>4. W = on(p)
    OBVIOUS
  <2>5. Min(W) \in W /\ \A x \in W : Min(W) <= x
    <3> HIDE DEF W
    <3>1. QED
      BY ONLY <2>2, <2>3, LeastOf
  <2>6. Min(on(p)) \in on(p) /\ \A x \in on(p) : Min(on(p)) <= x
    BY ONLY <2>4, <2>5
  <2>7. QED
    BY <2>6
<1>5. \A e \in S : Ends(e) \in D
  OBVIOUS
<1> HIDE DEF on, D
<1>6. \A p \in D : Attained(s, len, p)
  BY <1>1, <1>4 DEF Attained, S
<1>7. \A e \in S : Covers(len, e)
  BY <1>1, <1>4, <1>5 DEF Covers
<1>8. QED
  BY <1>1, <1>3, <1>6, <1>7 DEF len, S

LEMMA LengthsGraph ==
  ASSUME NEW P, NEW s, NEW cs, Counted(s, cs), Linked(P, cs), P \subseteq Timepoint
  PROVE  /\ IsGraph(P, Lengths(s)) /\ \E m \in Nat : Small(P, Lengths(s), m)
         /\ \A e \in DOMAIN s : Covers(Lengths(s), e)
         /\ \A p \in DOMAIN Lengths(s) : Attained(s, Lengths(s), p)
         /\ \A e \in DOMAIN Lengths(s) : Lengths(s)[e] < Infinity
<1> DEFINE len == Lengths(s)
<1>1. \A e \in DOMAIN s : IsLength(P, e)
  BY SpecLengths
<1>2. /\ IsFiniteSet(DOMAIN len)
      /\ \A p \in DOMAIN len : Attained(s, len, p)
      /\ \A e \in DOMAIN s : Covers(len, e)
  <2>1. \A e \in DOMAIN s : e[3] \in Int
    BY <1>1 DEF IsLength
  <2>2. IsSpecs(s)
    BY DEF Counted
  <2>3. QED
    BY <2>1, <2>2, LengthsParts
<1>3. IsFiniteSet(Timepoint) /\ IsFiniteSet(P) /\ Cardinality(P) <= Cardinality(Timepoint)
      /\ Cardinality(P) \in Nat /\ Cardinality(Timepoint) \in Nat
  <2>1. IsFiniteSet(Timepoint)
    BY NetworkAssumption, SameSets DEF Abstract!ProperNetwork
  <2>2. QED
    BY <2>1, FS_Subset, FS_CardinalityType
<1>4. PICK m \in Nat : /\ m * Cardinality(Timepoint) < Infinity
                       /\ \A b \in Bound : b <= m /\ -b <= m
  BY BoundSize
<1> HIDE DEF len
<1>5. ASSUME NEW p \in DOMAIN len
      PROVE  /\ p \in P \X P /\ p[1] # p[2] /\ len[p] \in Int /\ len[p] <= m /\ len[p] < Infinity
  <2>1. PICK e \in DOMAIN s : p = Ends(e) /\ len[p] = e[3]
    BY <1>2 DEF Attained
  <2>2. IsLength(P, e)
    BY <1>1
  <2>3. p = <<e[1], e[2]>>
    BY <2>1 DEF Ends
  <2>4. e[3] <= m
    BY <1>4, <2>2 DEF IsLength
  <2>5. QED
    BY <2>1, <2>2, <2>3, <2>4 DEF IsLength
<1>6. IsGraph(P, len)
  BY <1>2, <1>3, <1>5 DEF IsGraph
<1>7. m * Cardinality(P) < Infinity
  <2>1. Cardinality(P) * m <= Cardinality(Timepoint) * m
    BY <1>3, TimesGrows
  <2>2. Cardinality(P) * m = m * Cardinality(P) /\ Cardinality(Timepoint) * m = m * Cardinality(Timepoint)
    BY <1>3
  <2>3. m * Cardinality(P) \in Int /\ m * Cardinality(Timepoint) \in Int
    BY <1>3
  <2>4. QED
    BY <1>4, <2>1, <2>2, <2>3, InfinityType
<1>8. Small(P, len, m)
  BY <1>5, <1>7 DEF Small
<1>9. QED
  BY <1>2, <1>5, <1>6, <1>8 DEF len
-----------------------------------------------------------------------------
(* What Direct of SimpleTemporalNetwork takes the least of.                *)
Ahead(C, x, y) == {k \in C : k.head = x /\ k.foot = y}
Spans(C, x, y) ==
  (({l.ub : l \in Ahead(C, x, y)} \cup {-l.lb : l \in Ahead(C, y, x)})
     \cup (IF x = y THEN {0} ELSE {})) \cup {Infinity}

LEMMA DirectSpans ==
  \A C, x, y : Network!Direct(C, x, y) = Min(Spans(C, x, y))
<1>1. \A S : Network!Min(S) = Min(S)
  BY Zenon DEF Network!Min, Min
<1> SUFFICES ASSUME NEW C, NEW x, NEW y PROVE Network!Direct(C, x, y) = Min(Spans(C, x, y))
  OBVIOUS
<1>2. Ahead(C, y, x) = {k \in C : k.head = y /\ k.foot = x}
  BY DEF Ahead
<1>3. Network!Direct(C, x, y) = Network!Min(Spans(C, x, y))
  BY <1>2 DEF Network!Direct, Network!Least, Spans, Ahead
<1>4. QED
  BY <1>1, <1>3

LEMMA SpansFinite ==
  ASSUME NEW C, IsFiniteSet(C), NEW x, NEW y
  PROVE  IsFiniteSet(Spans(C, x, y))
<1> DEFINE A == Ahead(C, x, y)
           B == Ahead(C, y, x)
           f == [l \in A |-> l.ub]
           g == [l \in B |-> -l.lb]
           F == {f[l] : l \in A}
           G == {g[l] : l \in B}
           Z == IF x = y THEN {0} ELSE {}
<1>1. IsFiniteSet(A) /\ IsFiniteSet(B)
  <2>1. A \subseteq C /\ B \subseteq C
    BY DEF Ahead
  <2>2. QED
    BY <2>1, FS_Subset
<1>2. F = {l.ub : l \in A} /\ G = {-l.lb : l \in B}
  OBVIOUS
<1> HIDE DEF A, B, f, g
<1>3. IsFiniteSet(F) /\ IsFiniteSet(G)
  BY <1>1, ValuesFinite
<1>4. IsFiniteSet(Z)
  BY FS_EmptySet, FS_Singleton
<1> HIDE DEF F, G, Z
<1>5. IsFiniteSet((F \cup G) \cup Z)
  BY <1>3, <1>4, FS_Union
<1>6. IsFiniteSet(((F \cup G) \cup Z) \cup {Infinity})
  BY <1>5, FS_AddElement
<1>7. QED
  BY <1>2, <1>6 DEF Spans, A, B, Z

(* The finite ones are lengths of the edge from x to y.                    *)
Spanned(s, C, x, y) ==
  /\ \A e \in DOMAIN s : e[1] = x /\ e[2] = y => e[3] \in Spans(C, x, y)
  /\ \A z \in Spans(C, x, y) :
       z = Infinity \/ (z < Infinity /\ \E e \in DOMAIN s : Ends(e) = <<x, y>> /\ e[3] = z)

LEMMA SpansEdges ==
  ASSUME NEW P, NEW s, NEW cs, Counted(s, cs), Linked(P, cs), NEW x \in P, NEW y \in P, x # y
  PROVE  Spanned(s, {cs[c] : c \in DOMAIN cs}, x, y)
<1> DEFINE C == {cs[c] : c \in DOMAIN cs}
<1>1. \A l \in C : Abstract!IsLink(l) /\ \A e \in EdgesOf(l) : e \in DOMAIN s
  BY EdgesCounted DEF Linked
<1>2. \A e \in DOMAIN s : \E l \in C : e \in EdgesOf(l)
  BY EdgesCounted
<1> HIDE DEF C
<1>3. ASSUME NEW e \in DOMAIN s, e[1] = x, e[2] = y PROVE e[3] \in Spans(C, x, y)
  <2>1. PICK l \in C : e \in EdgesOf(l)
    BY <1>2
  <2>2. e = <<l.head, l.foot, l.ub>> \/ e = <<l.foot, l.head, -l.lb>>
    BY <2>1 DEF EdgesOf
  <2>3. CASE e = <<l.head, l.foot, l.ub>>
    <3>1. l.head = x /\ l.foot = y /\ e[3] = l.ub
      BY <1>3, <2>3
    <3>2. l \in Ahead(C, x, y)
      BY <3>1 DEF Ahead
    <3>3. QED
      BY <3>1, <3>2 DEF Spans
  <2>4. CASE e = <<l.foot, l.head, -l.lb>>
    <3>1. l.head = y /\ l.foot = x /\ e[3] = -l.lb
      BY <1>3, <2>4
    <3>2. l \in Ahead(C, y, x)
      BY <3>1 DEF Ahead
    <3>3. QED
      BY <3>1, <3>2 DEF Spans
  <2>5. QED
    BY <2>2, <2>3, <2>4
<1>4. ASSUME NEW z \in Spans(C, x, y), z # Infinity
      PROVE  z < Infinity /\ \E e \in DOMAIN s : Ends(e) = <<x, y>> /\ e[3] = z
  <2>1. \/ \E l \in Ahead(C, x, y) : z = l.ub
        \/ \E l \in Ahead(C, y, x) : z = -l.lb
    BY <1>4 DEF Spans
  <2>2. /\ \A b \in Bound : b \in Int /\ b < Infinity /\ -b < Infinity
        /\ Infinity \in Int
    BY BoundBelow
  <2>3. ASSUME NEW l \in Ahead(C, x, y), z = l.ub
        PROVE  z < Infinity /\ <<x, y, z>> \in DOMAIN s
    <3>1. l \in C /\ l.head = x /\ l.foot = y /\ l.ub \in Bound \cup {Infinity}
      BY <1>1 DEF Ahead, Abstract!IsLink
    <3>2. z < Infinity
      BY <1>4, <2>2, <2>3, <3>1
    <3>3. <<x, y, z>> \in EdgesOf(l)
      BY <2>3, <3>1, <3>2 DEF EdgesOf
    <3>4. QED
      BY <1>1, <3>1, <3>2, <3>3
  <2>4. ASSUME NEW l \in Ahead(C, y, x), z = -l.lb
        PROVE  z < Infinity /\ <<x, y, z>> \in DOMAIN s
    <3>1. l \in C /\ l.head = y /\ l.foot = x /\ l.lb \in Bound \cup {-Infinity}
      BY <1>1 DEF Ahead, Abstract!IsLink
    <3>2. z < Infinity
      <4>1. CASE l.lb \in Bound
        BY <2>2, <2>4, <4>1
      <4>2. CASE l.lb = -Infinity
        BY <1>4, <2>2, <2>4, <4>2
      <4>3. QED
        BY <3>1, <4>1, <4>2
    <3>3. <<x, y, z>> \in EdgesOf(l)
      BY <2>4, <3>1, <3>2 DEF EdgesOf
    <3>4. QED
      BY <1>1, <3>1, <3>2, <3>3
  <2>5. z < Infinity /\ <<x, y, z>> \in DOMAIN s
    BY <2>1, <2>3, <2>4
  <2>6. Ends(<<x, y, z>>) = <<x, y>> /\ <<x, y, z>>[3] = z
    BY DEF Ends
  <2>7. QED
    BY <2>5, <2>6
<1>5. QED
  BY <1>3, <1>4 DEF Spanned, C

LEMMA DirectEntry ==
  ASSUME NEW P, NEW s, NEW cs, Counted(s, cs), Linked(P, cs), P \subseteq Timepoint,
         NEW x \in P, NEW y \in P, NEW z,
         z = Network!Direct({cs[c] : c \in DOMAIN cs}, x, y)
  PROVE  /\ z \in Int /\ z <= Infinity
         /\ x = y => z = 0
         /\ x # y /\ <<x, y>> \in DOMAIN Lengths(s) => z = Lengths(s)[<<x, y>>]
         /\ x # y /\ <<x, y>> \notin DOMAIN Lengths(s) => z = Infinity
<1> DEFINE C == {cs[c] : c \in DOMAIN cs}
           D == Spans(C, x, y)
           len == Lengths(s)
<1>1. z = Min(D)
  BY DirectSpans
<1>2. IsFiniteSet(D)
  <2>1. IsFiniteSet(C)
    <3>1. IsFiniteSet(DOMAIN cs)
      BY DEF Counted
    <3>2. QED
      BY ONLY <3>1, ValuesFinite
  <2> HIDE DEF C
  <2>2. QED
    BY <2>1, SpansFinite
<1>3. Infinity \in D
  BY DEF Spans
<1>4. \A l \in C : Abstract!IsLink(l)
  BY DEF Linked
<1>5. ASSUME x # y PROVE Spanned(s, C, x, y)
  BY <1>5, SpansEdges
<1> HIDE DEF C, D
<1>6. ASSUME x = y PROVE D = {0, Infinity}
  <2>1. Ahead(C, x, y) = {} /\ Ahead(C, y, x) = {}
    BY <1>4, <1>6 DEF Ahead, Abstract!IsLink
  <2>2. QED
    BY <1>6, <2>1 DEF D, Spans
<1>7. /\ \A e \in DOMAIN s : Covers(len, e)
      /\ \A p \in DOMAIN len : Attained(s, len, p)
      /\ IsGraph(P, len)
  BY LengthsGraph
<1> HIDE DEF len
<1>8. \A e \in DOMAIN s : e[3] \in Int
  BY SpecLengths DEF IsLength
<1>9. \A v \in D : v \in Int /\ v <= Infinity
  <2>1. CASE x = y
    BY <1>6, <2>1, InfinityType
  <2>2. CASE x # y
    <3>1. ASSUME NEW v \in D PROVE v \in Int /\ v <= Infinity
      <4>1. v = Infinity \/ (v < Infinity /\ \E e \in DOMAIN s : Ends(e) = <<x, y>> /\ e[3] = v)
        BY <1>5, <2>2 DEF Spanned, D
      <4>2. v \in Int
        BY <1>8, <4>1, InfinityType
      <4>3. QED
        BY <4>1, <4>2, InfinityType
    <3>2. QED
      BY <3>1
  <2>3. QED
    BY <2>1, <2>2
<1>10. z \in D /\ \A v \in D : z <= v
  BY <1>1, <1>2, <1>3, <1>9, LeastOf
<1>11. z \in Int /\ z <= Infinity
  BY <1>9, <1>10
<1>12. ASSUME x = y PROVE z = 0
  BY <1>6, <1>10, <1>12, InfinityType
<1>13. ASSUME x # y, <<x, y>> \in DOMAIN len PROVE z = len[<<x, y>>]
  <2> DEFINE p == <<x, y>>
  <2>1. PICK e \in DOMAIN s : p = Ends(e) /\ len[p] = e[3]
    BY <1>7, <1>13 DEF Attained
  <2>2. e[1] = x /\ e[2] = y
    BY <2>1 DEF Ends
  <2>3. e[3] \in D
    BY <1>5, <1>13, <2>2 DEF Spanned, D
  <2>4. IsLength(P, e)
    BY SpecLengths
  <2> HIDE DEF p
  <2>5. z <= len[p] /\ len[p] \in Int /\ len[p] < Infinity
    BY <1>10, <2>1, <2>3, <2>4 DEF IsLength
  <2>6. PICK f \in DOMAIN s : Ends(f) = p /\ f[3] = z
    <3>1. z # Infinity
      BY <2>5, <1>11, InfinityType
    <3>2. QED
      BY <1>5, <1>10, <1>13, <3>1 DEF Spanned, D, p
  <2>7. len[p] <= z
    BY <1>7, <2>6 DEF Covers
  <2>8. z = len[p]
    BY <1>11, <2>5, <2>7
  <2>9. QED
    BY <2>8 DEF p
<1>14. ASSUME x # y, <<x, y>> \notin DOMAIN len PROVE z = Infinity
  <2>1. ASSUME z # Infinity PROVE FALSE
    <3>1. PICK f \in DOMAIN s : Ends(f) = <<x, y>> /\ f[3] = z
      BY <1>5, <1>10, <1>14, <2>1 DEF Spanned, D
    <3>2. QED
      BY <1>7, <1>14, <3>1 DEF Covers
  <2>2. QED
    BY <2>1
<1>15. QED
  BY <1>11, <1>12, <1>13, <1>14 DEF len

Shapes0(cs) == {cs[c] : c \in DOMAIN cs}

(* So the matrix that SimpleTemporalNetwork starts from is that of the     *)
(* graph that DistanceGraph keeps.                                         *)
LEMMA LengthsMatrix ==
  ASSUME NEW P, NEW s, NEW cs, Counted(s, cs), Linked(P, cs), P \subseteq Timepoint
  PROVE  IsMatrixOf(P, Lengths(s), BaseMatrix(P, Shapes0(cs)))
<1> DEFINE C == Shapes0(cs)
           d == BaseMatrix(P, C)
           len == Lengths(s)
<1>1. \A x, y \in P : At(d, x, y) = Network!Direct(C, x, y)
  <2>1. ASSUME NEW x \in P, NEW y \in P PROVE At(d, x, y) = Network!Direct(C, x, y)
    <3> DEFINE D == {<<u, v>> : u, v \in P}
               p == <<x, y>>
    <3>1. p \in D /\ p[1] = x /\ p[2] = y
      OBVIOUS
    <3>2. d[p] = Network!Direct(C, p[1], p[2])
      BY <3>1 DEF BaseMatrix
    <3>3. QED
      BY <3>1, <3>2 DEF At
  <2>2. QED
    BY <2>1
<1>2. ASSUME NEW x \in P, NEW y \in P
      PROVE  At(d, x, y) \in Int /\ At(d, x, y) <= Infinity /\ Entry(len, d, x, y)
  <2> DEFINE z == At(d, x, y)
  <2>1. z = Network!Direct({cs[c] : c \in DOMAIN cs}, x, y)
    BY <1>1 DEF Shapes0
  <2> HIDE DEF z, d, len
  <2>2. /\ z \in Int /\ z <= Infinity
        /\ x = y => z = 0
        /\ x # y /\ <<x, y>> \in DOMAIN len => z = len[<<x, y>>]
        /\ x # y /\ <<x, y>> \notin DOMAIN len => z = Infinity
    BY <2>1, DirectEntry DEF len
  <2>3. QED
    BY <2>2 DEF z, Entry
<1>3. d \in [P \X P -> Int]
  <2>1. \A p \in P \X P : Network!Direct(C, p[1], p[2]) \in Int
    BY <1>1, <1>2
  <2>2. {<<u, v>> : u, v \in P} = P \X P
    OBVIOUS
  <2>3. d = [p \in P \X P |-> Network!Direct(C, p[1], p[2])]
    BY <2>2 DEF BaseMatrix
  <2>4. QED
    BY <2>1, <2>3
<1>4. \A x \in P : At(d, x, x) <= 0
  <2>1. ASSUME NEW x \in P PROVE At(d, x, x) <= 0
    <3>1. Entry(len, d, x, x)
      BY <1>2
    <3> HIDE DEF d, len
    <3>2. At(d, x, x) = 0
      BY <3>1 DEF Entry
    <3>3. QED
      BY <3>2
  <2>2. QED
    BY <2>1
<1> HIDE DEF d, len
<1>5. IsMatrixOf(P, len, d)
  BY <1>2, <1>3, <1>4 DEF IsMatrixOf, IsMatrix
<1>6. QED
  BY <1>5 DEF d, len, C
-----------------------------------------------------------------------------
(***************************************************************************)
(* 8. What a change of the constraints does to the graph.                  *)
(***************************************************************************)
(* A schedule is feasible for every length that an edge has.               *)
LEMMA ScheduleSpecs ==
  ASSUME NEW P, NEW s, NEW cs, Counted(s, cs), Linked(P, cs), P \subseteq Timepoint,
         NEW g \in [P -> Int]
  PROVE  IsSchedule(P, Lengths(s), g) <=> \A e \in DOMAIN s : g[e[2]] <= g[e[1]] + e[3]
<1> DEFINE len == Lengths(s)
<1>1. /\ \A e \in DOMAIN s : Covers(len, e)
      /\ \A p \in DOMAIN len : Attained(s, len, p)
      /\ IsGraph(P, len)
  BY LengthsGraph
<1> HIDE DEF len
<1>2. ASSUME IsSchedule(P, len, g), NEW e \in DOMAIN s PROVE g[e[2]] <= g[e[1]] + e[3]
  <2> DEFINE p == <<e[1], e[2]>>
  <2>1. p \in DOMAIN len /\ len[p] <= e[3]
    BY <1>1 DEF Covers, Ends
  <2>2. g[p[2]] <= g[p[1]] + len[p]
    BY <1>2, <2>1 DEF IsSchedule
  <2>3. len[p] \in Int
    BY <1>1, <2>1, GraphParts
  <2>4. IsLength(P, e)
    BY SpecLengths
  <2>5. g[e[1]] \in Int /\ g[e[2]] \in Int /\ e[3] \in Int /\ p[1] = e[1] /\ p[2] = e[2]
    BY <2>4 DEF IsLength
  <2> HIDE DEF p
  <2>6. g[e[2]] <= g[e[1]] + len[p]
    BY <2>2, <2>5
  <2>7. QED
    BY <2>1, <2>3, <2>5, <2>6
<1>3. ASSUME \A e \in DOMAIN s : g[e[2]] <= g[e[1]] + e[3], NEW p \in DOMAIN len
      PROVE  g[p[2]] <= g[p[1]] + len[p]
  <2>1. PICK e \in DOMAIN s : p = Ends(e) /\ len[p] = e[3]
    BY <1>1 DEF Attained
  <2>2. p[1] = e[1] /\ p[2] = e[2]
    BY <2>1 DEF Ends
  <2>3. QED
    BY <1>3, <2>1, <2>2
<1>4. QED
  BY <1>2, <1>3 DEF IsSchedule, len

(* Every edge of s has an edge of t that is no longer, and other edges     *)
(* than those between x and y are in both or in neither.                   *)
Shortened(s, t, x, y) ==
  /\ \A e \in DOMAIN s : \E f \in DOMAIN t : Ends(f) = Ends(e) /\ f[3] <= e[3]
  /\ \A f \in DOMAIN t : Ends(f) # <<x, y>> /\ Ends(f) # <<y, x>> => f \in DOMAIN s

LEMMA ShortenedTighter ==
  ASSUME NEW s, NEW t, IsSpecs(s), IsSpecs(t), NEW x, NEW y, Shortened(s, t, x, y),
         \A e \in DOMAIN s : e[3] \in Int, \A e \in DOMAIN t : e[3] \in Int
  PROVE  Tighter(Lengths(s), Lengths(t), x, y)
<1> DEFINE old == Lengths(s)
           new == Lengths(t)
<1>1. /\ \A p \in DOMAIN old : Attained(s, old, p)
      /\ \A e \in DOMAIN s : Covers(old, e)
  BY LengthsParts
<1>2. /\ \A p \in DOMAIN new : Attained(t, new, p)
      /\ \A e \in DOMAIN t : Covers(new, e)
  BY LengthsParts
<1> HIDE DEF old, new
<1>3. \A p \in DOMAIN old : old[p] \in Int
  BY <1>1 DEF Attained
<1>4. \A p \in DOMAIN new : new[p] \in Int
  BY <1>2 DEF Attained
<1>5. ASSUME NEW p \in DOMAIN old PROVE p \in DOMAIN new /\ new[p] <= old[p]
  <2>1. PICK e \in DOMAIN s : p = Ends(e) /\ old[p] = e[3]
    BY <1>1 DEF Attained
  <2>2. PICK f \in DOMAIN t : Ends(f) = p /\ f[3] <= e[3]
    BY <2>1 DEF Shortened
  <2>3. p \in DOMAIN new /\ new[p] <= f[3]
    BY <1>2, <2>2 DEF Covers
  <2>4. new[p] \in Int /\ f[3] \in Int /\ e[3] \in Int
    BY <1>4, <2>3
  <2>5. QED
    BY <2>1, <2>2, <2>3, <2>4
<1>6. ASSUME NEW p \in DOMAIN new, p # <<x, y>>, p # <<y, x>>
      PROVE  p \in DOMAIN old /\ new[p] = old[p]
  <2>1. PICK f \in DOMAIN t : p = Ends(f) /\ new[p] = f[3]
    BY <1>2 DEF Attained
  <2>2. f \in DOMAIN s
    BY <1>6, <2>1 DEF Shortened
  <2>3. p \in DOMAIN old /\ old[p] <= f[3]
    BY <1>1, <2>1, <2>2 DEF Covers
  <2>4. new[p] <= old[p] /\ new[p] \in Int /\ old[p] \in Int
    BY <1>3, <1>4, <1>5, <2>3
  <2>5. old[p] <= new[p]
    BY <2>1, <2>3
  <2>6. QED
    BY <2>3, <2>4, <2>5
<1>7. QED
  BY <1>5, <1>6 DEF Tighter, old, new

(* A constraint x is added as c, or takes the place of a looser one.       *)
Replaces(cs, c, x) ==
  c \in DOMAIN cs => /\ cs[c].head = x.head /\ cs[c].foot = x.foot
                     /\ cs[c].lb <= x.lb /\ x.ub <= cs[c].ub

LEMMA EdgesKept ==
  ASSUME NEW x, NEW y, Abstract!IsLink(x), Abstract!IsLink(y),
         y.head = x.head, y.foot = x.foot, y.lb <= x.lb, x.ub <= y.ub, NEW e \in EdgesOf(y)
  PROVE  \E f \in EdgesOf(x) : Ends(f) = Ends(e) /\ f[3] <= e[3]
<1> DEFINE f == <<x.head, x.foot, x.ub>>
           g == <<x.foot, x.head, -x.lb>>
<1>1. /\ x.ub \in Int /\ x.lb \in Int /\ y.ub \in Int /\ y.lb \in Int /\ Infinity \in Int
  <2>1. /\ x.ub \in Bound \cup {Infinity} /\ x.lb \in Bound \cup {-Infinity}
        /\ y.ub \in Bound \cup {Infinity} /\ y.lb \in Bound \cup {-Infinity}
    BY DEF Abstract!IsLink
  <2>2. QED
    BY <2>1, BoundBelow
<1>2. e = <<y.head, y.foot, y.ub>> \/ e = <<y.foot, y.head, -y.lb>>
  BY DEF EdgesOf
<1>3. e[3] < Infinity
  BY DEF EdgesOf
<1>4. CASE e = <<y.head, y.foot, y.ub>>
  <2>1. f \in EdgesOf(x)
    <3>1. x.ub < Infinity
      BY <1>1, <1>3, <1>4
    <3>2. QED
      BY <3>1 DEF EdgesOf
  <2>2. Ends(f) = Ends(e) /\ f[3] <= e[3]
    BY <1>4 DEF Ends
  <2>3. QED
    BY <2>1, <2>2
<1>5. CASE e = <<y.foot, y.head, -y.lb>>
  <2>0. e[3] = -y.lb /\ -x.lb <= -y.lb
    BY <1>1, <1>5
  <2>1. g \in EdgesOf(x)
    <3>1. -x.lb < Infinity
      BY <1>1, <1>3, <2>0
    <3>2. QED
      BY <3>1 DEF EdgesOf
  <2>2. Ends(g) = Ends(e) /\ g[3] <= e[3]
    BY <1>5, <2>0 DEF Ends
  <2>3. QED
    BY <2>1, <2>2
<1>6. QED
  BY <1>2, <1>4, <1>5

LEMMA WithTighter ==
  ASSUME NEW P, P \subseteq Timepoint, NEW s, NEW cs, Counted(s, cs), Linked(P, cs),
         NEW x, Abstract!IsLink(x), x.head \in P, x.foot \in P, NEW c, Replaces(cs, c, x),
         NEW t, Counted(t, With(cs, c, x))
  PROVE  /\ Linked(P, With(cs, c, x))
         /\ Tighter(Lengths(s), Lengths(t), x.head, x.foot)
<1> DEFINE ds == With(cs, c, x)
<1>1. /\ DOMAIN ds = DOMAIN cs \cup {c} /\ ds[c] = x
      /\ \A k \in DOMAIN cs : k # c => ds[k] = cs[k]
  BY DEF With
<1>2. Counted(t, ds)
  OBVIOUS
<1> HIDE DEF ds
<1>3. Linked(P, ds)
  BY <1>1 DEF Linked
<1>4. \A e \in DOMAIN s : IsLength(P, e)
  BY SpecLengths
<1>5. \A e \in DOMAIN t : IsLength(P, e)
  BY <1>2, <1>3, SpecLengths
<1>6. \A e : e \in DOMAIN s <=> \E k \in DOMAIN cs : e \in EdgesOf(cs[k])
  BY EdgesCounted
<1>7. \A e : e \in DOMAIN t <=> \E k \in DOMAIN ds : e \in EdgesOf(ds[k])
  BY <1>2, EdgesCounted
<1>8. ASSUME NEW e \in DOMAIN s PROVE \E f \in DOMAIN t : Ends(f) = Ends(e) /\ f[3] <= e[3]
  <2>1. PICK k \in DOMAIN cs : e \in EdgesOf(cs[k])
    BY <1>6
  <2>2. CASE k # c
    <3>1. e \in DOMAIN t
      BY <1>1, <1>7, <2>1, <2>2
    <3>2. e[3] <= e[3]
      BY <1>4 DEF IsLength
    <3>3. QED
      BY <3>1, <3>2
  <2>3. CASE k = c
    <3>1. /\ cs[k].head = x.head /\ cs[k].foot = x.foot
          /\ cs[k].lb <= x.lb /\ x.ub <= cs[k].ub /\ Abstract!IsLink(cs[k])
      BY <2>3 DEF Replaces, Linked
    <3>2. PICK f \in EdgesOf(x) : Ends(f) = Ends(e) /\ f[3] <= e[3]
      BY <2>1, <3>1, EdgesKept
    <3>3. f \in DOMAIN t
      BY <1>1, <1>7
    <3>4. QED
      BY <3>2, <3>3
  <2>4. QED
    BY <2>2, <2>3
<1>9. ASSUME NEW f \in DOMAIN t, Ends(f) # <<x.head, x.foot>>, Ends(f) # <<x.foot, x.head>>
      PROVE  f \in DOMAIN s
  <2>1. PICK k \in DOMAIN ds : f \in EdgesOf(ds[k])
    BY <1>7
  <2>2. k # c
    <3>1. ASSUME f \in EdgesOf(x) PROVE FALSE
      <4>1. f = <<x.head, x.foot, x.ub>> \/ f = <<x.foot, x.head, -x.lb>>
        BY <3>1 DEF EdgesOf
      <4>2. QED
        BY <1>9, <4>1 DEF Ends
    <3>2. QED
      BY <1>1, <2>1, <3>1
  <2>3. QED
    BY <1>1, <1>6, <2>1, <2>2
<1>10. Shortened(s, t, x.head, x.foot)
  BY <1>8, <1>9 DEF Shortened
<1>11. IsSpecs(s) /\ IsSpecs(t)
  BY <1>2 DEF Counted
<1>12. /\ \A e \in DOMAIN s : e[3] \in Int
       /\ \A e \in DOMAIN t : e[3] \in Int
  BY <1>4, <1>5 DEF IsLength
<1>13. Tighter(Lengths(s), Lengths(t), x.head, x.foot)
  BY <1>10, <1>11, <1>12, ShortenedTighter
<1>14. QED
  BY <1>3, <1>13 DEF ds

LEMMA ReversedTighter ==
  ASSUME NEW P, NEW old, NEW new, IsGraph(P, old), IsGraph(P, new), NEW x, NEW y,
         Tighter(old, new, x, y)
  PROVE  Tighter(Reversed(old), Reversed(new), x, y)
<1> DEFINE ro == Reversed(old)
           rn == Reversed(new)
<1>1. /\ \A a, b : <<a, b>> \in DOMAIN ro <=> <<b, a>> \in DOMAIN old
      /\ \A a, b : <<a, b>> \in DOMAIN ro => ro[<<a, b>>] = old[<<b, a>>]
      /\ \A e \in DOMAIN ro : e = <<e[1], e[2]>> /\ <<e[2], e[1]>> \in DOMAIN old
                              /\ ro[e] = old[<<e[2], e[1]>>]
      /\ \A e \in DOMAIN old : e = <<e[1], e[2]>> /\ <<e[2], e[1]>> \in DOMAIN ro
                               /\ ro[<<e[2], e[1]>>] = old[e]
  BY ReversedParts
<1>2. /\ \A a, b : <<a, b>> \in DOMAIN rn <=> <<b, a>> \in DOMAIN new
      /\ \A a, b : <<a, b>> \in DOMAIN rn => rn[<<a, b>>] = new[<<b, a>>]
      /\ \A e \in DOMAIN rn : e = <<e[1], e[2]>> /\ <<e[2], e[1]>> \in DOMAIN new
                              /\ rn[e] = new[<<e[2], e[1]>>]
      /\ \A e \in DOMAIN new : e = <<e[1], e[2]>> /\ <<e[2], e[1]>> \in DOMAIN rn
                               /\ rn[<<e[2], e[1]>>] = new[e]
  BY ReversedParts
<1> HIDE DEF ro, rn
<1>3. ASSUME NEW e \in DOMAIN ro PROVE e \in DOMAIN rn /\ rn[e] <= ro[e]
  <2>1. PICK a, b : e = <<a, b>> /\ <<b, a>> \in DOMAIN old /\ ro[e] = old[<<b, a>>]
    <3>1. e = <<e[1], e[2]>> /\ <<e[2], e[1]>> \in DOMAIN old /\ ro[e] = old[<<e[2], e[1]>>]
      BY ONLY <1>1, e \in DOMAIN ro, Zenon
    <3>2. QED
      BY ONLY <3>1, Zenon
  <2>2. <<b, a>> \in DOMAIN new /\ new[<<b, a>>] <= old[<<b, a>>]
    BY <2>1 DEF Tighter
  <2>3. <<a, b>> \in DOMAIN rn /\ rn[<<a, b>>] = new[<<b, a>>]
    BY ONLY <1>2, <2>2, Zenon
  <2>4. QED
    BY ONLY <2>1, <2>2, <2>3
<1>4. ASSUME NEW e \in DOMAIN rn, e # <<x, y>>, e # <<y, x>>
      PROVE  e \in DOMAIN ro /\ rn[e] = ro[e]
  <2>1. PICK a, b : e = <<a, b>> /\ <<b, a>> \in DOMAIN new /\ rn[e] = new[<<b, a>>]
    <3>1. e = <<e[1], e[2]>> /\ <<e[2], e[1]>> \in DOMAIN new /\ rn[e] = new[<<e[2], e[1]>>]
      BY ONLY <1>2, e \in DOMAIN rn, Zenon
    <3>2. QED
      BY ONLY <3>1, Zenon
  <2>2. <<b, a>> # <<x, y>> /\ <<b, a>> # <<y, x>>
    BY ONLY <1>4, <2>1
  <2>3. <<b, a>> \in DOMAIN old /\ new[<<b, a>>] = old[<<b, a>>]
    BY <2>1, <2>2 DEF Tighter
  <2>4. <<a, b>> \in DOMAIN ro /\ ro[<<a, b>>] = old[<<b, a>>]
    BY ONLY <1>1, <2>3, Zenon
  <2>5. QED
    BY ONLY <2>1, <2>3, <2>4
<1>5. QED
  BY <1>3, <1>4 DEF Tighter, ro, rn

(* A schedule of the tighter graph is one of the looser.                   *)
LEMMA TighterSchedule ==
  ASSUME NEW P, NEW old, NEW new, IsGraph(P, old), IsGraph(P, new), NEW x, NEW y,
         Tighter(old, new, x, y), HasSchedule(P, new)
  PROVE  HasSchedule(P, old)
<1>1. PICK g \in [P -> Int] : IsSchedule(P, new, g)
  BY DEF HasSchedule
<1>2. ASSUME NEW e \in DOMAIN old PROVE g[e[2]] <= g[e[1]] + old[e]
  <2>1. e \in DOMAIN new /\ new[e] <= old[e]
    BY DEF Tighter
  <2>2. g[e[2]] <= g[e[1]] + new[e]
    BY <1>1, <2>1 DEF IsSchedule
  <2>3. e[1] \in P /\ e[2] \in P /\ old[e] \in Int /\ new[e] \in Int
    BY <2>1, GraphParts
  <2>4. QED
    BY <2>1, <2>2, <2>3
<1>3. QED
  BY <1>2 DEF HasSchedule, IsSchedule

(* The edges that are left were there, and a schedule is still one.        *)
LEMMA RemovedEdges ==
  ASSUME NEW P, P \subseteq Timepoint, NEW s, NEW cs, Counted(s, cs), Linked(P, cs), NEW c,
         NEW t, Counted(t, Without(cs, c))
  PROVE  /\ Linked(P, Without(cs, c))
         /\ \A e \in DOMAIN t : e \in DOMAIN s
<1> DEFINE ds == Without(cs, c)
<1>1. DOMAIN ds \subseteq DOMAIN cs /\ \A k \in DOMAIN ds : ds[k] = cs[k]
  BY DEF Without
<1>2. Counted(t, ds)
  OBVIOUS
<1> HIDE DEF ds
<1>3. Linked(P, ds)
  BY <1>1 DEF Linked
<1>4. \A e : e \in DOMAIN s <=> \E k \in DOMAIN cs : e \in EdgesOf(cs[k])
  BY EdgesCounted
<1>5. \A e : e \in DOMAIN t <=> \E k \in DOMAIN ds : e \in EdgesOf(ds[k])
  BY <1>2, EdgesCounted
<1>6. \A e \in DOMAIN t : e \in DOMAIN s
  BY <1>1, <1>4, <1>5
<1>7. QED
  BY <1>3, <1>6 DEF ds

(* Two graphs that have the same matrix have the same distances.           *)
LEMMA SameMatrix ==
  ASSUME NEW P, NEW old, NEW new, NEW d, MatrixCorrect(P, old, d), MatrixCorrect(P, new, d),
         Diagonal(P, d), NEW p \in P, NEW f
  PROVE  /\ IsDistanceFrom(P, old, p, f) => IsDistanceFrom(P, new, p, f)
         /\ IsDistanceFrom(P, Reversed(old), p, f) => IsDistanceFrom(P, Reversed(new), p, f)
<1>1. ASSUME IsDistanceFrom(P, old, p, f) PROVE IsDistanceFrom(P, new, p, f)
  <2>1. IsDistanceFrom(P, old, p, Row(P, d, p)) /\ IsDistanceFrom(P, new, p, Row(P, d, p))
    BY DEF MatrixCorrect
  <2>2. f = Row(P, d, p)
    BY <1>1, <2>1, DistanceUnique
  <2>3. QED
    BY <2>1, <2>2
<1>2. ASSUME IsDistanceFrom(P, Reversed(old), p, f) PROVE IsDistanceFrom(P, Reversed(new), p, f)
  <2> DEFINE r == Row(P, Transposed(P, d), p)
  <2>1. IsDistanceFrom(P, Reversed(old), p, r) /\ IsDistanceFrom(P, Reversed(new), p, r)
    BY DEF MatrixCorrect
  <2> HIDE DEF r
  <2>2. f = r
    BY <1>2, <2>1, DistanceUnique
  <2>3. QED
    BY <2>1, <2>2
<1>3. QED
  BY <1>1, <1>2

(* A node without edges.                                                   *)
LEMMA NodeAdded ==
  ASSUME NEW P, NEW len, IsGraph(P, len), NEW p, p \notin P
  PROVE  /\ \A f : \A o \in P : IsDistanceFrom(P, len, o, f)
                       => IsDistanceFrom(P \cup {p}, len, o, With(f, p, Infinity))
         /\ HasSchedule(P \cup {p}, len) => HasSchedule(P, len)
         /\ \A g : IsSchedule(P, len, g) => IsSchedule(P \cup {p}, len, With(g, p, 0))
<1> DEFINE Q == P \cup {p}
<1>1. \A e \in DOMAIN len : e[1] \in P /\ e[2] \in P
  BY GraphParts
<1>2. ASSUME NEW o \in P, NEW f, IsDistanceFrom(P, len, o, f)
      PROVE  IsDistanceFrom(Q, len, o, With(f, p, Infinity))
  <2> DEFINE h == With(f, p, Infinity)
  <2>1. f \in [P -> Int] /\ \A q \in P : f[q] <= Infinity
    BY <1>2 DEF IsDistanceFrom, Distances0
  <2>2. h \in [Q -> Int] /\ h[p] = Infinity /\ \A q \in P : h[q] = f[q]
    BY <2>1, InfinityType DEF With
  <2> HIDE DEF h
  <2>3. h \in Distances0(Q)
    BY <2>1, <2>2, InfinityType DEF Distances0
  <2>4. h[o] <= 0 /\ Relaxed(len, h)
    BY <1>1, <1>2, <2>2 DEF IsDistanceFrom, Relaxed
  <2>5. ASSUME NEW k \in Distances0(Q), k[o] <= 0, Relaxed(len, k) PROVE Below(Q, k, h)
    <3> DEFINE j == [q \in P |-> k[q]]
    <3>1. j \in Distances0(P) /\ \A q \in P : j[q] = k[q]
      BY DEF Distances0
    <3> HIDE DEF j
    <3>2. j[o] <= 0 /\ Relaxed(len, j)
      BY <1>1, <2>5, <3>1 DEF Relaxed
    <3>3. Below(P, j, f)
      BY <1>2, <3>1, <3>2 DEF IsDistanceFrom
    <3>4. k[p] <= Infinity
      BY DEF Distances0
    <3>5. QED
      BY <2>2, <3>1, <3>3, <3>4 DEF Below
  <2>6. QED
    BY <2>3, <2>4, <2>5 DEF IsDistanceFrom, h
<1>3. ASSUME HasSchedule(Q, len) PROVE HasSchedule(P, len)
  <2>1. PICK g \in [Q -> Int] : IsSchedule(Q, len, g)
    BY <1>3 DEF HasSchedule
  <2> DEFINE j == [q \in P |-> g[q]]
  <2>2. j \in [P -> Int] /\ \A q \in P : j[q] = g[q]
    OBVIOUS
  <2> HIDE DEF j
  <2>3. IsSchedule(P, len, j)
    BY <1>1, <2>1, <2>2 DEF IsSchedule
  <2>4. QED
    BY <2>2, <2>3 DEF HasSchedule
<1>4. ASSUME NEW g, IsSchedule(P, len, g) PROVE IsSchedule(Q, len, With(g, p, 0))
  <2> DEFINE h == With(g, p, 0)
  <2>1. g \in [P -> Int]
    BY <1>4 DEF IsSchedule
  <2>2. h \in [Q -> Int] /\ \A q \in P : h[q] = g[q]
    BY <2>1 DEF With
  <2> HIDE DEF h
  <2>3. IsSchedule(Q, len, h)
    BY <1>1, <1>4, <2>2 DEF IsSchedule
  <2>4. QED
    BY <2>3 DEF h
<1>5. QED
  BY <1>2, <1>3, <1>4

LEMMA NodeDeleted ==
  ASSUME NEW P, NEW len, NEW p \in P, IsGraph(P \ {p}, len)
  PROVE  /\ \A f : \A o \in P \ {p} : IsDistanceFrom(P, len, o, f)
                             => IsDistanceFrom(P \ {p}, len, o, Without(f, p))
         /\ HasSchedule(P \ {p}, len) => HasSchedule(P, len)
         /\ \A g : IsSchedule(P, len, g) => IsSchedule(P \ {p}, len, Without(g, p))
<1> DEFINE Q == P \ {p}
<1>1. \A e \in DOMAIN len : e[1] \in Q /\ e[2] \in Q
  <2> HIDE DEF Q
  <2>1. IsGraph(Q, len)
    BY DEF Q
  <2>2. QED
    BY <2>1, GraphParts
<1>2. ASSUME NEW o \in Q, NEW f, IsDistanceFrom(P, len, o, f)
      PROVE  IsDistanceFrom(Q, len, o, Without(f, p))
  <2> DEFINE h == Without(f, p)
  <2>1. f \in [P -> Int] /\ \A q \in P : f[q] <= Infinity
    BY <1>2 DEF IsDistanceFrom, Distances0
  <2>2. h \in [Q -> Int] /\ \A q \in Q : h[q] = f[q]
    BY <2>1 DEF Without
  <2> HIDE DEF h
  <2>3. h \in Distances0(Q)
    BY <2>1, <2>2 DEF Distances0
  <2>4. h[o] <= 0 /\ Relaxed(len, h)
    BY <1>1, <1>2, <2>2 DEF IsDistanceFrom, Relaxed
  <2>5. ASSUME NEW k \in Distances0(Q), k[o] <= 0, Relaxed(len, k) PROVE Below(Q, k, h)
    <3> DEFINE j == With(k, p, Infinity)
    <3>1. k \in [Q -> Int] /\ \A q \in Q : k[q] <= Infinity
      BY DEF Distances0
    <3>2. j \in [P -> Int] /\ j[p] = Infinity /\ \A q \in Q : j[q] = k[q]
      BY <3>1, InfinityType DEF With
    <3> HIDE DEF j
    <3>3. j \in Distances0(P)
      BY <3>1, <3>2, InfinityType DEF Distances0
    <3>4. j[o] <= 0 /\ Relaxed(len, j)
      BY <1>1, <2>5, <3>2 DEF Relaxed
    <3>5. Below(P, j, f)
      BY <1>2, <3>3, <3>4 DEF IsDistanceFrom
    <3>6. QED
      BY <2>2, <3>2, <3>5 DEF Below
  <2>6. QED
    BY <2>3, <2>4, <2>5 DEF IsDistanceFrom, h
<1>3. ASSUME HasSchedule(Q, len) PROVE HasSchedule(P, len)
  <2>1. PICK g \in [Q -> Int] : IsSchedule(Q, len, g)
    BY <1>3 DEF HasSchedule
  <2> DEFINE j == With(g, p, 0)
  <2>2. j \in [P -> Int] /\ \A q \in Q : j[q] = g[q]
    BY DEF With
  <2> HIDE DEF j
  <2>3. IsSchedule(P, len, j)
    BY <1>1, <2>1, <2>2 DEF IsSchedule
  <2>4. QED
    BY <2>2, <2>3 DEF HasSchedule
<1>4. ASSUME NEW g, IsSchedule(P, len, g) PROVE IsSchedule(Q, len, Without(g, p))
  <2> DEFINE h == Without(g, p)
  <2>1. g \in [P -> Int]
    BY <1>4 DEF IsSchedule
  <2>2. h \in [Q -> Int] /\ \A q \in Q : h[q] = g[q]
    BY <2>1 DEF Without
  <2> HIDE DEF h
  <2>3. IsSchedule(Q, len, h)
    BY <1>1, <1>4, <2>2 DEF IsSchedule
  <2>4. QED
    BY <2>3 DEF h
<1>5. QED
  BY <1>2, <1>3, <1>4
-----------------------------------------------------------------------------
(***************************************************************************)
(* 9. The graph that is kept.                                              *)
(***************************************************************************)
Fields == {"timepoints", "specs", "upper", "lower", "potential",
           "consistent", "hasDeletions", "updated"}

(* What is true of the graph whether it is up to date or not.              *)
GraphOf(g, cs) ==
  /\ DOMAIN g = Fields
  /\ Origin \in g.timepoints /\ g.timepoints \subseteq Timepoint
  /\ Counted(g.specs, cs) /\ Linked(g.timepoints, cs)
  /\ g.upper \in Distances0(g.timepoints)
  /\ g.lower \in [g.timepoints -> Int] /\ Negated(g.lower) \in Distances0(g.timepoints)
  /\ g.potential \in [g.timepoints -> Int] /\ \A p \in g.timepoints : g.potential[p] <= 0
  /\ g.consistent \in BOOLEAN /\ g.hasDeletions \in BOOLEAN
  /\ g.updated \subseteq g.timepoints \ {Origin}

(* The bounds of a node are its distances from p and to p.                 *)
Exact(P, len, p, upper, lower) ==
  IsDistanceFrom(P, len, p, upper) /\ IsDistanceFrom(P, Reversed(len), p, Negated(lower))

(* There is no schedule, and one of the updated nodes has an edge into it. *)
Flagged(P, len, updated) ==
  ~HasSchedule(P, len) /\ \E p \in updated : \E e \in DOMAIN len : e[2] = p

Holds(g, len) ==
  /\ g.consistent => /\ IsSchedule(g.timepoints, len, g.potential)
                     /\ Exact(g.timepoints, len, Origin, g.upper, g.lower)
  /\ ~g.consistent => Flagged(g.timepoints, len, g.updated)

Kept(g) == ~g.hasDeletions => Holds(g, Lengths(g.specs))

IInv == DOMAIN constraints \subseteq Link /\ GraphOf(graph, constraints) /\ Kept(graph)

(* Between g and h, a bound that became tighter has been noticed.          *)
Noticed(g, h) ==
  \A p \in (g.timepoints \cap h.timepoints) \ {Origin} :
    g.lower[p] < h.lower[p] \/ h.upper[p] < g.upper[p] => p \in h.updated

LEMMA NegatedParts ==
  ASSUME NEW P, NEW d \in [P -> Int]
  PROVE  /\ Negated(d) \in [P -> Int] /\ Negated(Negated(d)) = d
         /\ \A p \in P : Negated(d)[p] = -d[p]
<1> DEFINE n == Negated(d)
<1>1. n \in [P -> Int] /\ \A p \in P : n[p] = -d[p]
  BY DEF Negated
<1> HIDE DEF n
<1>2. Negated(n) = d
  <2>1. Negated(n) = [p \in P |-> -n[p]]
    BY <1>1 DEF Negated
  <2>2. \A p \in P : -n[p] = d[p]
    BY <1>1
  <2>3. QED
    BY <2>1, <2>2
<1>3. QED
  BY <1>1, <1>2 DEF n

LEMMA GraphLengths ==
  ASSUME NEW g, NEW cs, GraphOf(g, cs)
  PROVE  /\ IsGraph(g.timepoints, Lengths(g.specs))
         /\ IsGraph(g.timepoints, Reversed(Lengths(g.specs)))
         /\ \E m \in Nat : /\ Small(g.timepoints, Lengths(g.specs), m)
                           /\ Small(g.timepoints, Reversed(Lengths(g.specs)), m)
         /\ \A e \in DOMAIN Lengths(g.specs) : Lengths(g.specs)[e] < Infinity
<1>1. g.timepoints \subseteq Timepoint /\ Counted(g.specs, cs) /\ Linked(g.timepoints, cs)
  BY DEF GraphOf
<1> DEFINE P == g.timepoints
           len == Lengths(g.specs)
<1>2. /\ IsGraph(P, len) /\ \E m \in Nat : Small(P, len, m)
      /\ \A e \in DOMAIN len : len[e] < Infinity
  BY <1>1, LengthsGraph
<1> HIDE DEF P, len
<1>3. QED
  BY <1>2, ReversedGraph DEF P, len

LEMMA BoundsFromExact ==
  ASSUME NEW g, NEW cs, GraphOf(g, cs), HasSchedule(g.timepoints, Lengths(g.specs)),
         NEW p \in g.timepoints, NEW h, h = BoundsFrom(g, p)
  PROVE  /\ GraphOf(h, cs)
         /\ h.timepoints = g.timepoints /\ h.specs = g.specs /\ h.potential = g.potential
         /\ h.consistent = g.consistent /\ h.hasDeletions = g.hasDeletions
         /\ Exact(g.timepoints, Lengths(g.specs), p, h.upper, h.lower)
         /\ g.updated \subseteq h.updated
         /\ \A q \in g.timepoints \ {p, Origin} :
              h.upper[q] < Infinity \/ h.lower[q] > -Infinity => q \in h.updated
<1> DEFINE P == g.timepoints
           len == Lengths(g.specs)
           fwd == Propagated(len, From(p, P)).d
           rev == Propagated(Reversed(len), From(p, P)).d
           bwd == Negated(rev)
           near == {q \in P \ {p, Origin} : fwd[q] < Infinity \/ bwd[q] > -Infinity}
<1>1. h = [g EXCEPT !.upper = fwd, !.lower = bwd, !.updated = @ \cup near]
  BY DEF BoundsFrom
<1>2. PICK m \in Nat : /\ IsGraph(P, len) /\ Small(P, len, m)
                       /\ IsGraph(P, Reversed(len)) /\ Small(P, Reversed(len), m)
  BY GraphLengths
<1>3. IsDistanceFrom(P, len, p, fwd)
  BY <1>2, FromArrives
<1>4. IsDistanceFrom(P, Reversed(len), p, rev)
  <2>1. HasSchedule(P, Reversed(len))
    BY <1>2, ReversedGraph
  <2> HIDE DEF len
  <2>2. QED
    BY <1>2, <2>1, FromArrives
<1>5. fwd \in Distances0(P) /\ rev \in Distances0(P)
  BY <1>3, <1>4 DEF IsDistanceFrom
<1> HIDE DEF fwd, rev, len
<1>6. bwd \in [P -> Int] /\ Negated(bwd) = rev
  BY <1>5, NegatedParts DEF Distances0
<1>7. /\ DOMAIN h = Fields
      /\ h.timepoints = g.timepoints /\ h.specs = g.specs /\ h.potential = g.potential
      /\ h.consistent = g.consistent /\ h.hasDeletions = g.hasDeletions
      /\ h.upper = fwd /\ h.lower = bwd /\ h.updated = g.updated \cup near
  <2> HIDE DEF bwd, near
  <2>1. DOMAIN g = Fields
    BY DEF GraphOf
  <2>2. QED
    BY <1>1, <2>1 DEF Fields
<1> HIDE DEF bwd
<1>8. near \subseteq P \ {Origin}
  OBVIOUS
<1>9. \A q \in P \ {p, Origin} : h.upper[q] < Infinity \/ h.lower[q] > -Infinity => q \in h.updated
  BY <1>7
<1> HIDE DEF near
<1>10. GraphOf(h, cs)
  BY <1>5, <1>6, <1>7, <1>8 DEF GraphOf
<1>11. Exact(P, len, p, h.upper, h.lower)
  BY <1>3, <1>4, <1>6, <1>7 DEF Exact
<1>12. QED
  BY <1>7, <1>9, <1>10, <1>11 DEF len

(* What the two kinds of propagation give when they have nothing to go by. *)
Restored(g, cs, h) ==
  /\ GraphOf(h, cs) /\ Holds(h, Lengths(h.specs)) /\ ~h.hasDeletions
  /\ h.timepoints = g.timepoints /\ h.specs = g.specs /\ Noticed(g, h)

LEMMA FullPropagateRestores ==
  ASSUME NEW g, NEW cs, GraphOf(g, cs)
  PROVE  Restored(g, cs, FullPropagate(g))
<1> DEFINE P == g.timepoints
           len == Lengths(g.specs)
           zero == [p \in P |-> 0]
           w == Wave(zero, P)
           bf == Propagated(len, w)
           ch == Changed(zero, bf.d)
           h == [g EXCEPT !.potential = bf.d, !.updated = ch,
                          !.consistent = Settled(bf), !.hasDeletions = FALSE]
           f == FullPropagate(g)
<1>1. f = IF h.consistent THEN BoundsFrom(h, Origin) ELSE h
  BY DEF FullPropagate
<1>2. PICK m \in Nat : IsGraph(P, len) /\ Small(P, len, m)
  BY GraphLengths
<1>3. /\ Origin \in P /\ P \subseteq Timepoint /\ DOMAIN g = Fields
      /\ g.upper \in Distances0(P) /\ Negated(g.lower) \in Distances0(P) /\ g.lower \in [P -> Int]
  BY DEF GraphOf
<1>4. /\ zero \in [P -> Int] /\ \A p \in P : zero[p] = 0
  OBVIOUS
<1> HIDE DEF zero
<1>5. IsWave(P, w) /\ w.d = zero /\ w.queue = P
  BY <1>4, WaveParts
<1> HIDE DEF w, len
<1>6. InBounds(P, w) /\ Loose(len, w)
  <2>1. \A e \in DOMAIN len : e[1] \in w.queue
    BY <1>2, <1>5, GraphParts
  <2>2. QED
    BY <1>4, <1>5, <2>1, InfinityType DEF InBounds, Loose
<1>7. Arrived(P, len, m, w, bf)
  BY <1>2, <1>6, PropagatedArrives DEF Small
<1> HIDE DEF bf
<1>8. bf.d \in [P -> Int] /\ \A p \in P : bf.d[p] <= 0
  BY <1>4, <1>5, <1>7 DEF Arrived, InBounds, IsWave, Below
<1>9. \A p : p \in ch <=> p \in P \ {Origin} /\ bf.d[p] # 0
  BY <1>4 DEF Changed
<1> HIDE DEF ch
<1>10. /\ DOMAIN h = Fields
       /\ h.timepoints = P /\ h.specs = g.specs /\ h.upper = g.upper /\ h.lower = g.lower
       /\ h.potential = bf.d /\ h.consistent = Settled(bf) /\ h.hasDeletions = FALSE
       /\ h.updated = ch
  BY <1>3 DEF Fields
<1> HIDE DEF h
<1>11. h.consistent \in BOOLEAN
  BY <1>10 DEF Settled
<1>12. GraphOf(h, cs)
  BY <1>3, <1>8, <1>9, <1>10, <1>11 DEF GraphOf
<1>13. CASE Settled(bf)
  <2>1. IsSchedule(P, len, bf.d)
    <3>1. Relaxed(len, bf.d)
      BY <1>7, <1>13 DEF Arrived
    <3>2. \A e \in DOMAIN len : bf.d[e[1]] < Infinity
      BY <1>2, <1>8, GraphParts, InfinityType
    <3>3. QED
      BY <1>8, <3>1, <3>2 DEF IsSchedule, Relaxed
  <2>2. HasSchedule(P, len)
    BY <1>8, <2>1 DEF HasSchedule
  <2>3. f = BoundsFrom(h, Origin)
    BY <1>1, <1>10, <1>13
  <2> HIDE DEF f
  <2>4. HasSchedule(h.timepoints, Lengths(h.specs)) /\ Origin \in h.timepoints
    BY <1>3, <1>10, <2>2 DEF len
  <2>5. /\ GraphOf(f, cs)
        /\ f.timepoints = h.timepoints /\ f.specs = h.specs /\ f.potential = h.potential
        /\ f.consistent = h.consistent /\ f.hasDeletions = h.hasDeletions
        /\ Exact(h.timepoints, Lengths(h.specs), Origin, f.upper, f.lower)
        /\ \A q \in h.timepoints \ {Origin, Origin} :
             f.upper[q] < Infinity \/ f.lower[q] > -Infinity => q \in f.updated
    BY <1>12, <2>3, <2>4, BoundsFromExact
  <2>6. Holds(f, len)
    BY <1>10, <1>13, <2>1, <2>5 DEF Holds, len
  <2>7. Noticed(g, f)
    <3> SUFFICES ASSUME NEW p \in P \ {Origin},
                        g.lower[p] < f.lower[p] \/ f.upper[p] < g.upper[p]
                 PROVE  p \in f.updated
      BY <1>10, <2>5 DEF Noticed
    <3>1. g.upper[p] \in Int /\ g.upper[p] <= Infinity
      BY <1>3 DEF Distances0
    <3>2. g.lower[p] \in Int /\ g.lower[p] >= -Infinity
      <4>1. Negated(g.lower)[p] = -g.lower[p] /\ Negated(g.lower)[p] <= Infinity
        BY <1>3, NegatedParts DEF Distances0
      <4>2. g.lower[p] \in Int
        BY <1>3
      <4>3. QED
        BY <4>1, <4>2, InfinityType
    <3>3. f.upper[p] \in Int /\ f.lower[p] \in Int
      BY <1>10, <2>5 DEF GraphOf, Distances0
    <3>4. f.upper[p] < Infinity \/ f.lower[p] > -Infinity
      BY <3>1, <3>2, <3>3, InfinityType
    <3>5. QED
      BY <1>10, <2>5, <3>4
  <2>8. QED
    BY <1>10, <2>5, <2>6, <2>7 DEF Restored, len, f
<1>14. CASE ~Settled(bf)
  <2>1. f = h
    BY <1>1, <1>10, <1>14
  <2> HIDE DEF f
  <2>2. ~HasSchedule(P, len)
    BY <1>7, <1>14 DEF Arrived
  <2>3. PICK p \in P \ {Origin} : bf.d[p] < w.d[p] /\ \E e \in DOMAIN len : e[2] = p
    BY <1>7, <1>14 DEF Arrived
  <2>4. p \in ch
    BY <1>4, <1>5, <1>9, <2>3
  <2>5. Holds(h, len)
    BY <1>10, <1>14, <2>2, <2>3, <2>4 DEF Holds, Flagged
  <2>6. Noticed(g, h)
    <3>1. \A q \in P : g.upper[q] \in Int /\ g.lower[q] \in Int
      BY <1>3 DEF Distances0
    <3>2. QED
      BY <1>10, <3>1 DEF Noticed
  <2>7. QED
    BY <1>10, <1>12, <2>1, <2>5, <2>6 DEF Restored, len, f
<1>15. QED
  BY <1>13, <1>14

LEMMA PropagateRestores ==
  ASSUME NEW g, NEW cs, GraphOf(g, cs), Kept(g)
  PROVE  Restored(g, cs, Propagate(g))
<1>1. CASE g.hasDeletions
  <2>1. Propagate(g) = FullPropagate(g)
    BY <1>1 DEF Propagate
  <2>2. QED
    BY <2>1, FullPropagateRestores
<1>2. CASE ~g.hasDeletions
  <2>1. Propagate(g) = g
    BY <1>2 DEF Propagate
  <2>2. \A p \in g.timepoints : g.upper[p] \in Int /\ g.lower[p] \in Int
    BY DEF GraphOf, Distances0
  <2>3. Noticed(g, g)
    BY <2>2 DEF Noticed
  <2>4. Holds(g, Lengths(g.specs))
    BY <1>2 DEF Kept
  <2>5. QED
    BY <1>2, <2>1, <2>3, <2>4 DEF Restored
<1>3. QED
  BY <1>1, <1>2

LEMMA IncPropagateKeeps ==
  ASSUME NEW g, NEW cs, GraphOf(g, cs), Kept(g), NEW t, NEW ds, Counted(t, ds),
         Linked(g.timepoints, ds), NEW x, NEW y, Tighter(Lengths(g.specs), Lengths(t), x, y),
         NEW h, h = IncPropagate([g EXCEPT !.specs = t], x, y)
  PROVE  /\ GraphOf(h, ds) /\ Kept(h) /\ Noticed(g, h)
         /\ h.timepoints = g.timepoints /\ h.specs = t
<1> DEFINE P == g.timepoints
           old == Lengths(g.specs)
           k == [g EXCEPT !.specs = t]
           len == Lengths(t)
           bf == Corrected(len, k.potential, x, y)
           fwd == Corrected(len, k.upper, x, y).d
           rev == Corrected(Reversed(len), Negated(k.lower), x, y).d
           bwd == Negated(rev)
           chp == Changed(k.potential, bf.d)
           chu == Changed(k.upper, fwd)
           chl == Changed(k.lower, bwd)
           l == [k EXCEPT !.potential = bf.d, !.consistent = Settled(bf),
                          !.updated = @ \cup chp]
           f == [l EXCEPT !.upper = fwd, !.lower = bwd, !.updated = (@ \cup chu) \cup chl]
<1>1. /\ DOMAIN k = Fields
      /\ k.timepoints = P /\ k.specs = t /\ k.upper = g.upper /\ k.lower = g.lower
      /\ k.potential = g.potential /\ k.consistent = g.consistent
      /\ k.hasDeletions = g.hasDeletions /\ k.updated = g.updated
  BY DEF GraphOf, Fields
<1>2. h = IF k.hasDeletions \/ ~k.consistent THEN k ELSE IF ~l.consistent THEN l ELSE f
  BY <1>1 DEF IncPropagate, Corrected
<1> HIDE DEF k
<1>3. /\ Origin \in P /\ P \subseteq Timepoint
      /\ g.upper \in Distances0(P) /\ Negated(g.lower) \in Distances0(P) /\ g.lower \in [P -> Int]
      /\ g.potential \in [P -> Int] /\ \A p \in P : g.potential[p] <= 0
      /\ g.updated \subseteq P \ {Origin}
  BY DEF GraphOf
<1>4. GraphOf(k, ds)
  BY <1>1, <1>3 DEF GraphOf
<1>5. PICK m \in Nat : /\ IsGraph(P, len) /\ Small(P, len, m)
                       /\ IsGraph(P, Reversed(len)) /\ Small(P, Reversed(len), m)
  <2> DEFINE n == Lengths(k.specs)
  <2>1. n = len
    BY <1>1
  <2>2. /\ IsGraph(k.timepoints, n) /\ IsGraph(k.timepoints, Reversed(n))
        /\ \E m \in Nat : Small(k.timepoints, n, m) /\ Small(k.timepoints, Reversed(n), m)
    BY <1>4, GraphLengths
  <2> HIDE DEF n, len
  <2>3. QED
    BY <1>1, <2>1, <2>2
<1>6. IsGraph(P, old) /\ IsGraph(P, Reversed(old))
  BY GraphLengths
<1>7. Tighter(old, len, x, y)
  OBVIOUS
<1> HIDE DEF old, len
<1>8. Tighter(Reversed(old), Reversed(len), x, y)
  BY <1>5, <1>6, <1>7, ReversedTighter
<1>9. \A p \in P : g.upper[p] \in Int /\ g.lower[p] \in Int
  BY <1>3 DEF Distances0
<1>10. CASE g.hasDeletions
  <2>1. h = k
    BY <1>1, <1>2, <1>10
  <2>2. Kept(k)
    BY <1>1, <1>10 DEF Kept
  <2>3. Noticed(g, k)
    BY <1>1, <1>9 DEF Noticed
  <2>4. QED
    BY <1>1, <1>4, <2>1, <2>2, <2>3
<1>11. CASE ~g.hasDeletions /\ ~g.consistent
  <2>1. h = k
    BY <1>1, <1>2, <1>11
  <2>2. ~HasSchedule(P, old) /\ \E p \in g.updated : \E e \in DOMAIN old : e[2] = p
    BY <1>11 DEF Kept, Holds, Flagged, old
  <2>3. ~HasSchedule(P, len)
    BY <1>5, <1>6, <1>7, <2>2, TighterSchedule
  <2>4. \E p \in g.updated : \E e \in DOMAIN len : e[2] = p
    BY <1>7, <2>2 DEF Tighter
  <2>5. Holds(k, len)
    BY <1>1, <1>11, <2>3, <2>4 DEF Holds, Flagged
  <2>6. Noticed(g, h)
    BY <1>1, <1>9, <2>1 DEF Noticed
  <2>7. QED
    BY <1>1, <1>4, <2>1, <2>5, <2>6 DEF Kept, len
<1>12. CASE ~g.hasDeletions /\ g.consistent
  <2>1. IsSchedule(P, old, g.potential) /\ Exact(P, old, Origin, g.upper, g.lower)
    BY <1>12 DEF Kept, Holds, old
  <2>2. g.potential \in Distances0(P)
    BY <1>3, InfinityType DEF Distances0
  <2>3. Relaxed(old, g.potential)
    BY <2>1 DEF IsSchedule, Relaxed
  <2>4. AlmostRelaxed(len, g.potential, x, y)
    BY <1>5, <1>6, <1>7, <2>2, <2>3, TighterRelaxed
  <2>5. /\ bf.d \in Distances0(P) /\ Below(P, bf.d, g.potential)
        /\ HasSchedule(P, len) => Settled(bf)
        /\ Settled(bf) => Relaxed(len, bf.d)
        /\ ~Settled(bf) => \E p \in P \ {Origin} :
                              bf.d[p] < g.potential[p] /\ \E e \in DOMAIN len : e[2] = p
    BY <1>1, <1>5, <2>2, <2>4, CorrectedArrives
  <2> HIDE DEF bf
  <2>6. bf.d \in [P -> Int] /\ \A p \in P : bf.d[p] <= 0 /\ bf.d[p] <= g.potential[p]
    BY <1>3, <2>5 DEF Distances0, Below
  <2>7. \A p : p \in chp <=> p \in P \ {Origin} /\ g.potential[p] # bf.d[p]
    BY <1>1, <1>3 DEF Changed
  <2>8. chp \subseteq P \ {Origin}
    BY <2>7
  <2> HIDE DEF chp
  <2>9. /\ DOMAIN l = Fields
        /\ l.timepoints = P /\ l.specs = t /\ l.upper = g.upper /\ l.lower = g.lower
        /\ l.potential = bf.d /\ l.consistent = Settled(bf)
        /\ l.hasDeletions = g.hasDeletions /\ l.updated = g.updated \cup chp
    BY <1>1 DEF Fields
  <2> HIDE DEF l
  <2>10. l.consistent \in BOOLEAN
    BY <2>9 DEF Settled
  <2>11. GraphOf(l, ds)
    BY <1>3, <1>4, <1>1, <2>6, <2>8, <2>9, <2>10 DEF GraphOf
  <2>12. CASE ~Settled(bf)
    <3>1. h = l
      BY <1>1, <1>2, <1>12, <2>9, <2>12
    <3>2. PICK p \in P \ {Origin} : bf.d[p] < g.potential[p] /\ \E e \in DOMAIN len : e[2] = p
      BY <2>5, <2>12
    <3>3. p \in chp
      BY <1>3, <2>6, <2>7, <3>2
    <3>4. Flagged(P, len, l.updated)
      BY <2>5, <2>9, <2>12, <3>2, <3>3 DEF Flagged
    <3>5. Holds(l, len)
      BY <2>9, <2>12, <3>4 DEF Holds
    <3>6. Noticed(g, l)
      BY <1>9, <2>9 DEF Noticed
    <3>7. QED
      BY <2>9, <2>11, <3>1, <3>5, <3>6 DEF Kept, len
  <2>13. CASE Settled(bf)
    <3>1. IsSchedule(P, len, bf.d)
      <4>1. Relaxed(len, bf.d)
        BY <2>5, <2>13
      <4>2. \A e \in DOMAIN len : bf.d[e[1]] < Infinity
        BY <1>5, <2>6, GraphParts, InfinityType
      <4>3. QED
        BY <2>6, <4>1, <4>2 DEF IsSchedule, Relaxed
    <3>2. HasSchedule(P, len)
      BY <2>6, <3>1 DEF HasSchedule
    <3>3. IsDistanceFrom(P, len, Origin, fwd)
      BY <1>1, <1>3, <1>5, <1>6, <1>7, <2>1, <3>2, CorrectedDistance DEF Exact
    <3>4. IsDistanceFrom(P, Reversed(len), Origin, rev)
      <4>1. HasSchedule(P, Reversed(len))
        BY <1>5, <3>2, ReversedGraph
      <4>2. QED
        BY <1>1, <1>3, <1>5, <1>6, <1>8, <2>1, <4>1, CorrectedDistance DEF Exact
    <3>5. fwd \in Distances0(P) /\ rev \in Distances0(P)
      BY <3>3, <3>4 DEF IsDistanceFrom
    <3> HIDE DEF fwd, rev
    <3>6. bwd \in [P -> Int] /\ Negated(bwd) = rev
      BY <3>5, NegatedParts DEF Distances0
    <3> HIDE DEF bwd
    <3>7. \A p : p \in chu <=> p \in P \ {Origin} /\ g.upper[p] # fwd[p]
      BY <1>1, <1>3 DEF Changed, Distances0
    <3>8. \A p : p \in chl <=> p \in P \ {Origin} /\ g.lower[p] # bwd[p]
      BY <1>1, <1>3 DEF Changed
    <3>9. chu \subseteq P \ {Origin} /\ chl \subseteq P \ {Origin}
      BY <3>7, <3>8
    <3> HIDE DEF chu, chl
    <3>10. h = f
      BY <1>1, <1>2, <1>12, <2>9, <2>13
    <3>11. /\ DOMAIN f = Fields
           /\ f.timepoints = P /\ f.specs = t /\ f.upper = fwd /\ f.lower = bwd
           /\ f.potential = bf.d /\ f.consistent = l.consistent
           /\ f.hasDeletions = g.hasDeletions /\ f.updated = (l.updated \cup chu) \cup chl
      BY <2>9 DEF Fields
    <3> HIDE DEF f
    <3>12. GraphOf(f, ds)
      BY <2>6, <2>9, <2>11, <3>5, <3>6, <3>9, <3>11 DEF GraphOf
    <3>13. Holds(f, len)
      BY <2>9, <2>13, <3>1, <3>3, <3>4, <3>6, <3>11 DEF Holds, Exact
    <3>14. Noticed(g, f)
      <4> SUFFICES ASSUME NEW p \in P \ {Origin},
                          g.lower[p] < f.lower[p] \/ f.upper[p] < g.upper[p]
                   PROVE  p \in f.updated
        BY <3>11 DEF Noticed
      <4>1. g.lower[p] # bwd[p] \/ g.upper[p] # fwd[p]
        BY <1>9, <3>11
      <4>2. QED
        BY <3>7, <3>8, <3>11, <4>1
    <3>15. QED
      BY <3>10, <3>11, <3>12, <3>13, <3>14 DEF Kept, len
  <2>14. QED
    BY <2>12, <2>13
<1>13. g.hasDeletions \in BOOLEAN /\ g.consistent \in BOOLEAN
  BY DEF GraphOf
<1>14. QED
  BY <1>10, <1>11, <1>12, <1>13
-----------------------------------------------------------------------------
(***************************************************************************)
(* 10. The searches.                                                       *)
(***************************************************************************)
(* dijkstra.  The nodes of A have been visited, and none of the queue is   *)
(* before them in its order.                                               *)
Settles(P, len, pot, A, w) ==
  /\ A \cap w.queue = {}
  /\ \A u \in A, q \in w.queue : w.d[u] - pot[u] <= w.d[q] - pot[q]
  /\ \A e \in DOMAIN len : e[1] \in A => w.d[e[2]] <= w.d[e[1]] + len[e]
  /\ \A p \in P : w.d[p] < Infinity => p \in A \cup w.queue

(* Some solution of the inequalities is as large at dst.                   *)
Attains(P, len, src, dst, d) ==
  \E f \in Distances0(P) : f[src] <= 0 /\ Relaxed(len, f) /\ f[dst] = d[dst]

Visiting(P, len, pot, S, w) ==
  \E A \in SUBSET P : Cardinality(A) = Cardinality(S) /\ Settles(P, len, pot, A, w)

Searching(k, S, w) ==
  /\ InBounds(k.P, w) /\ NotBelow(k.P, k.len, From(k.src, k.P), w) /\ w.d[k.src] <= 0
  /\ \/ w.queue = {} /\ Attains(k.P, k.len, k.src, k.dst, w.d)
     \/ Visiting(k.P, k.len, k.pot, S, w)

VisitOne(k, i, w) == Visited(k.len, k.pot, k.dst, w)

VisitLoop == INSTANCE FoldInduction WITH Op <- VisitOne, Pick <- LastOf, I <- Searching

LEMMA FirstOfQueue ==
  ASSUME NEW P, IsFiniteSet(P), NEW w, IsWave(P, w), w.queue # {}, NEW pot \in [P -> Int],
         NEW p, p = First(pot, w)
  PROVE  p \in w.queue /\ p \in P /\ \A q \in w.queue : w.d[p] - pot[p] <= w.d[q] - pot[q]
<1> DEFINE Q == w.queue
           f == [q \in Q |-> w.d[q] - pot[q]]
           F == {f[q] : q \in Q}
<1>1. Q \subseteq P /\ w.d \in [P -> Int]
  BY DEF IsWave
<1>2. IsFiniteSet(Q)
  BY <1>1, FS_Subset
<1>3. \A q \in Q : f[q] \in Int /\ f[q] = w.d[q] - pot[q]
  BY <1>1
<1> HIDE DEF f
<1>4. F # {} /\ \A x \in F : x \in Int
  BY <1>3
<1>5. IsFiniteSet(F)
  <2> HIDE DEF Q
  <2>1. QED
    BY <1>2, ValuesFinite
<1> HIDE DEF F
<1>6. Min(F) \in F /\ \A x \in F : Min(F) <= x
  BY <1>4, <1>5, LeastOf
<1>7. PICK q \in Q : f[q] = Min(F)
  BY <1>6 DEF F
<1>8. \A r \in Q : f[r] \in F
  BY DEF F
<1>9. \A r \in Q : w.d[q] - pot[q] <= w.d[r] - pot[r]
  BY <1>3, <1>6, <1>7, <1>8
<1>10. p \in Q /\ \A r \in Q : w.d[p] - pot[p] <= w.d[r] - pot[r]
  BY <1>9 DEF First
<1>11. QED
  BY <1>1, <1>10

(* The node that is visited is no nearer to the source than the search     *)
(* says, whatever the rest of the queue leads to.                          *)
LEMMA FirstAttains ==
  ASSUME NEW P, NEW len, IsGraph(P, len), NEW pot, IsSchedule(P, len, pot), NEW src \in P,
         NEW w, InBounds(P, w), w.d[src] <= 0, NEW A, Settles(P, len, pot, A, w),
         NEW p \in P, \A q \in w.queue : w.d[p] - pot[p] <= w.d[q] - pot[q]
  PROVE  Attains(P, len, src, p, w.d)
<1> DEFINE c == w.d[p] - pot[p]
           least(y) == IF w.d[y] <= c + pot[y] THEN w.d[y] ELSE c + pot[y]
           f == [y \in P |-> least(y)]
<1>1. \A y \in P : w.d[y] \in Int /\ w.d[y] <= Infinity /\ pot[y] \in Int
  BY DEF InBounds, IsWave, IsSchedule
<1>2. c \in Int
  BY <1>1
<1>3. c + pot[p] = w.d[p]
  BY <1>1
<1>4. \A q \in w.queue : c <= w.d[q] - pot[q] /\ q \in P
  BY DEF InBounds, IsWave
<1> HIDE DEF c
<1>5. \A y \in P : /\ f[y] = least(y) /\ f[y] \in Int /\ f[y] <= w.d[y] /\ f[y] <= c + pot[y]
                   /\ f[y] = w.d[y] \/ f[y] = c + pot[y]
  BY <1>1, <1>2
<1>6. f \in [P -> Int]
  BY <1>1, <1>2
<1> HIDE DEF f
<1>7. f \in Distances0(P)
  BY <1>1, <1>5, <1>6, InfinityType DEF Distances0
<1>8. f[src] <= 0
  BY <1>1, <1>5
<1>9. f[p] = w.d[p]
  BY <1>1, <1>3, <1>5
<1>10. ASSUME NEW e \in DOMAIN len, f[e[1]] < Infinity PROVE f[e[2]] <= f[e[1]] + len[e]
  <2> DEFINE u == e[1]
             v == e[2]
             l == len[e]
  <2>1. u \in P /\ v \in P /\ l \in Int
    BY GraphParts
  <2>2. pot[v] <= pot[u] + l
    BY DEF IsSchedule
  <2>3. u \in A => w.d[v] <= w.d[u] + l
    BY DEF Settles
  <2>4. w.d[u] < Infinity => u \in A \cup w.queue
    BY <2>1 DEF Settles
  <2>5. f[u] < Infinity
    BY <1>10
  <2> HIDE DEF u, v, l
  <2>6. CASE f[u] = c + pot[u]
    <3>1. f[v] <= c + pot[v]
      BY <1>5, <2>1
    <3>2. f[v] \in Int /\ pot[u] \in Int /\ pot[v] \in Int
      BY <1>1, <1>5, <2>1
    <3>3. f[v] <= f[u] + l
      BY <1>2, <2>1, <2>2, <2>6, <3>1, <3>2
    <3>4. QED
      BY <3>3 DEF u, v, l
  <2>7. CASE f[u] # c + pot[u]
    <3>1. f[u] = w.d[u] /\ w.d[u] < c + pot[u]
      BY <1>1, <1>2, <1>5, <2>1, <2>7
    <3>2. u \notin w.queue
      <4>1. ASSUME u \in w.queue PROVE FALSE
        <5>1. c <= w.d[u] - pot[u]
          BY <1>4, <4>1
        <5>2. QED
          BY <1>1, <1>2, <2>1, <3>1, <5>1
      <4>2. QED
        BY <4>1
    <3>3. u \in A
      BY <2>4, <2>5, <3>1, <3>2
    <3>4. w.d[v] <= w.d[u] + l
      BY <2>3, <3>3
    <3>5. f[v] <= f[u] + l
      <4>1. f[v] <= w.d[v] /\ f[v] \in Int /\ w.d[v] \in Int /\ f[u] \in Int
        BY <1>1, <1>5, <2>1
      <4>2. QED
        BY <2>1, <3>1, <3>4, <4>1
    <3>6. QED
      BY <3>5 DEF u, v, l
  <2>8. QED
    BY <2>6, <2>7
<1>11. Relaxed(len, f)
  BY <1>10 DEF Relaxed
<1>12. QED
  BY <1>7, <1>8, <1>9, <1>11 DEF Attains

LEMMA PoppedSettles ==
  ASSUME NEW P, NEW len, IsGraph(P, len), NEW pot, IsSchedule(P, len, pot), NEW start,
         NEW w, InBounds(P, w), NotBelow(P, len, start, w), NEW A, A \subseteq P,
         Settles(P, len, pot, A, w),
         NEW p \in w.queue, \A q \in w.queue : w.d[p] - pot[p] <= w.d[q] - pot[q],
         NEW y, y = Popped(len, w, p)
  PROVE  /\ InBounds(P, y) /\ NotBelow(P, len, start, y) /\ Below(P, y.d, w.d)
         /\ p \in P /\ p \notin A /\ Settles(P, len, pot, A \cup {p}, y)
<1> DEFINE x == Wave(w.d, {p})
           v == Sweep(len, x)
           Q == w.queue
           d == w.d
           f == v.d
           R == (Q \ {p}) \cup v.queue
           B == A \cup {p}
<1>1. y = Wave(f, R)
  BY DEF Popped
<1>2. d \in [P -> Int] /\ Q \subseteq P /\ p \in P
  BY DEF InBounds, IsWave
<1>3. IsWave(P, x) /\ x.d = d /\ x.queue = {p}
  BY <1>2, WaveParts
<1> HIDE DEF x
<1>4. InBounds(P, x) /\ NotBelow(P, len, start, x)
  BY <1>3 DEF InBounds, NotBelow
<1>5. Relaxes(P, len, x, v)
  BY <1>3, SweepRelaxes
<1>6. Lowers(P, len, x, v)
  BY <1>5 DEF Relaxes
<1> HIDE DEF v
<1>7. InBounds(P, v) /\ NotBelow(P, len, start, v)
  BY <1>4, <1>6, StaysInBounds, StaysNotBelow
<1>8. f \in [P -> Int] /\ v.queue \subseteq P
  BY <1>7 DEF InBounds, IsWave
<1>9. R \subseteq P
  BY <1>2, <1>8
<1>10. IsWave(P, y) /\ y.d = f /\ y.queue = R
  BY <1>1, <1>8, <1>9, WaveParts
<1>11. \A u \in P : /\ f[u] \in Int /\ d[u] \in Int /\ pot[u] \in Int /\ f[u] <= d[u]
                    /\ u \in v.queue <=> f[u] < d[u]
  BY <1>2, <1>3, <1>6, <1>8 DEF Lowers, IsSchedule
<1>12. \A u \in R : f[u] < Infinity
  <2>1. \A u \in Q : d[u] < Infinity
    BY DEF InBounds
  <2>2. \A u \in v.queue : f[u] < Infinity
    BY <1>7 DEF InBounds
  <2>3. QED
    BY <1>2, <1>11, <2>1, <2>2, InfinityType
<1>13. InBounds(P, y)
  BY <1>7, <1>10, <1>12 DEF InBounds
<1>14. NotBelow(P, len, start, y) /\ Below(P, y.d, w.d)
  BY <1>7, <1>10, <1>11 DEF NotBelow, Below
<1>15. p \notin A /\ \A u \in A : u \in P /\ u \notin Q
  BY DEF Settles
(* What is reached through p comes after p.                                *)
<1>16. ASSUME NEW q \in v.queue
       PROVE  q # p /\ d[p] - pot[p] <= f[q] - pot[q]
  <2>1. PICK e \in DOMAIN len : e[1] = p /\ e[2] = q /\ f[q] = d[p] + len[e]
    BY <1>3, <1>6 DEF Lowers
  <2>2. len[e] \in Int /\ e[1] # e[2]
    BY GraphParts
  <2>3. pot[q] <= pot[p] + len[e]
    BY <2>1 DEF IsSchedule
  <2>4. q \in P
    BY <1>8
  <2>5. QED
    BY <1>2, <1>11, <2>1, <2>2, <2>3, <2>4
<1>17. ASSUME NEW u \in B PROVE u \in P /\ u \notin v.queue /\ f[u] = d[u] /\ d[u] - pot[u] <= d[p] - pot[p]
  <2>1. u \in P /\ d[u] - pot[u] <= d[p] - pot[p]
    BY <1>2, <1>11, <1>15 DEF Settles
  <2>2. u \notin v.queue
    <3>1. ASSUME u \in v.queue PROVE FALSE
      <4>1. u # p /\ d[p] - pot[p] <= f[u] - pot[u] /\ f[u] < d[u]
        BY <1>11, <1>16, <2>1, <3>1
      <4>2. QED
        BY <1>2, <1>11, <2>1, <4>1
    <3>2. QED
      BY <3>1
  <2>3. f[u] = d[u]
    BY <1>11, <2>1, <2>2
  <2>4. QED
    BY <2>1, <2>2, <2>3
<1>18. ASSUME NEW q \in R PROVE d[p] - pot[p] <= f[q] - pot[q]
  <2>1. CASE q \in v.queue
    BY <1>16, <2>1
  <2>2. CASE q \notin v.queue
    <3>1. q \in Q /\ q \in P /\ f[q] = d[q]
      BY <1>2, <1>11, <2>2
    <3>2. QED
      BY <3>1
  <2>3. QED
    BY <2>1, <2>2
<1>19. B \cap R = {}
  BY <1>15, <1>17
<1>20. \A u \in B, q \in R : f[u] - pot[u] <= f[q] - pot[q]
  <2> SUFFICES ASSUME NEW u \in B, NEW q \in R PROVE f[u] - pot[u] <= f[q] - pot[q]
    OBVIOUS
  <2>1. /\ u \in P /\ q \in P /\ f[u] = d[u] /\ d[u] - pot[u] <= d[p] - pot[p]
        /\ d[p] - pot[p] <= f[q] - pot[q]
    BY <1>9, <1>17, <1>18
  <2>2. QED
    BY <1>2, <1>11, <2>1
<1>21. ASSUME NEW e \in DOMAIN len, e[1] \in B PROVE f[e[2]] <= f[e[1]] + len[e]
  <2>1. e[1] \in P /\ e[2] \in P /\ len[e] \in Int /\ f[e[1]] = d[e[1]]
    BY <1>17, <1>21, GraphParts
  <2>2. CASE e[1] \in A
    <3>1. d[e[2]] <= d[e[1]] + len[e]
      BY <2>2 DEF Settles
    <3>2. QED
      BY <1>11, <2>1, <3>1
  <2>3. CASE e[1] = p
    <3>1. f[e[2]] <= d[e[1]] + len[e]
      BY <1>3, <1>5, <2>3 DEF Relaxes
    <3>2. QED
      BY <2>1, <3>1
  <2>4. QED
    BY <1>21, <2>2, <2>3
<1>22. ASSUME NEW u \in P, f[u] < Infinity PROVE u \in B \cup R
  <2>1. CASE u \in v.queue
    BY <2>1
  <2>2. CASE u \notin v.queue
    <3>1. f[u] = d[u]
      BY <1>11, <2>2
    <3>2. u \in A \cup Q
      BY <1>22, <3>1 DEF Settles
    <3>3. QED
      BY <3>2
  <2>3. QED
    BY <2>1, <2>2
<1> HIDE DEF B, R, f
<1>23. Settles(P, len, pot, B, y)
  BY <1>10, <1>19, <1>20, <1>21, <1>22 DEF Settles
<1>24. QED
  BY <1>2, <1>13, <1>14, <1>15, <1>23 DEF B

LEMMA StaysSearching ==
  ASSUME NEW k, IsGraph(k.P, k.len), IsSchedule(k.P, k.len, k.pot), k.src \in k.P, k.dst \in k.P,
         NEW S, NEW T, IsFiniteSet(S), Cardinality(T) = Cardinality(S) + 1,
         NEW w, Searching(k, S, w)
  PROVE  Searching(k, T, Visited(k.len, k.pot, k.dst, w))
<1> DEFINE P == k.P
           len == k.len
           pot == k.pot
           src == k.src
           dst == k.dst
           start == From(src, P)
           p == First(pot, w)
           v == Visited(len, pot, dst, w)
<1>1. /\ IsGraph(P, len) /\ IsSchedule(P, len, pot) /\ src \in P /\ dst \in P
      /\ InBounds(P, w) /\ NotBelow(P, len, start, w) /\ w.d[src] <= 0
      /\ \/ w.queue = {} /\ Attains(P, len, src, dst, w.d)
         \/ Visiting(P, len, pot, S, w)
  BY DEF Searching
<1>2. SUFFICES /\ InBounds(P, v) /\ NotBelow(P, len, start, v) /\ v.d[src] <= 0
               /\ \/ v.queue = {} /\ Attains(P, len, src, dst, v.d)
                  \/ Visiting(P, len, pot, T, v)
  BY DEF Searching
<1>3. v = IF w.queue = {} THEN w ELSE IF p = dst THEN Wave(w.d, {}) ELSE Popped(len, w, p)
  BY DEF Visited, Settled
<1>4. IsFiniteSet(P) /\ pot \in [P -> Int] /\ IsWave(P, w)
  BY <1>1 DEF IsGraph, IsSchedule, InBounds
<1> HIDE DEF P, len, pot, src, dst, start, p, v
<1>5. CASE w.queue = {} /\ Attains(P, len, src, dst, w.d)
  BY <1>1, <1>3, <1>5
<1>6. CASE w.queue = {} /\ Visiting(P, len, pot, S, w)
  <2>1. PICK A \in SUBSET P : Settles(P, len, pot, A, w)
    BY <1>6 DEF Visiting
  <2>2. \A q \in w.queue : w.d[dst] - pot[dst] <= w.d[q] - pot[q]
    BY <1>6
  <2>3. Attains(P, len, src, dst, w.d)
    BY <1>1, <2>1, <2>2, FirstAttains
  <2>4. QED
    BY <1>1, <1>3, <1>6, <2>3
<1>7. CASE w.queue # {}
  <2>1. PICK A \in SUBSET P : Cardinality(A) = Cardinality(S) /\ Settles(P, len, pot, A, w)
    BY <1>1, <1>7 DEF Visiting
  <2>2. p \in w.queue /\ p \in P /\ \A q \in w.queue : w.d[p] - pot[p] <= w.d[q] - pot[q]
    BY <1>4, <1>7, FirstOfQueue DEF p
  <2>3. CASE p = dst
    <3>1. v = Wave(w.d, {})
      BY <1>3, <1>7, <2>3
    <3>2. w.d \in [P -> Int]
      BY <1>4 DEF IsWave
    <3>3. IsWave(P, v) /\ v.d = w.d /\ v.queue = {}
      BY <3>1, <3>2, WaveParts
    <3>4. Attains(P, len, src, dst, w.d)
      BY <1>1, <2>1, <2>2, <2>3, FirstAttains
    <3>5. InBounds(P, v) /\ NotBelow(P, len, start, v)
      BY <1>1, <3>3 DEF InBounds, NotBelow
    <3>6. QED
      BY <1>1, <3>3, <3>4, <3>5
  <2>4. CASE p # dst
    <3>1. v = Popped(len, w, p)
      BY <1>3, <1>7, <2>4
    <3>2. /\ InBounds(P, v) /\ NotBelow(P, len, start, v) /\ Below(P, v.d, w.d)
          /\ p \notin A /\ Settles(P, len, pot, A \cup {p}, v)
      BY <1>1, <2>1, <2>2, <3>1, PoppedSettles
    <3>3. IsFiniteSet(A)
      BY <1>4, FS_Subset
    <3>4. Cardinality(A \cup {p}) = Cardinality(A) + 1
      BY <3>2, <3>3, FS_AddElement
    <3>5. A \cup {p} \in SUBSET P
      BY <2>2
    <3>6. Visiting(P, len, pot, T, v)
      BY <2>1, <3>2, <3>4, <3>5 DEF Visiting
    <3>7. v.d[src] <= 0
      <4>1. v.d[src] <= w.d[src] /\ v.d[src] \in Int /\ w.d[src] \in Int
        BY <1>1, <3>2 DEF Below, InBounds, IsWave
      <4>2. QED
        BY <1>1, <4>1
    <3>8. QED
      BY <3>2, <3>6, <3>7
  <2>5. QED
    BY <2>3, <2>4
<1>8. QED
  BY <1>1, <1>5, <1>6, <1>7

LEMMA SearchEnds ==
  ASSUME NEW P, NEW len, IsGraph(P, len), NEW pot, IsSchedule(P, len, pot),
         NEW src \in P, NEW dst \in P, NEW g, g.timepoints = P, Lengths(g.specs) = len,
         g.potential = pot
  PROVE  \E w : /\ w.d = Dijkstra(g, src, dst)
                /\ Searching([P |-> P, len |-> len, pot |-> pot, src |-> src, dst |-> dst],
                             1 .. Cardinality(P), w)
<1> DEFINE k == [P |-> P, len |-> len, pot |-> pot, src |-> src, dst |-> dst]
           n == Cardinality(P)
           S == 1 .. n
           start == From(src, P)
           r == FoldLeft(LAMBDA w, i : Visited(len, pot, dst, w), start, Turns(n))
<1>1. Dijkstra(g, src, dst) = r.d
  BY DEF Dijkstra
<1>2. n \in Nat
  BY FS_CardinalityType DEF IsGraph
<1>3. /\ DOMAIN Turns(n) = S /\ IsFiniteSet(S)
      /\ \A T \in SUBSET S : T # {} => LastOf(T) \in T
      /\ \A T \in SUBSET S : T # {} => Cardinality(T) = Cardinality(T \ {LastOf(T)}) + 1
  <2> HIDE DEF n
  <2>1. QED
    BY <1>2, TurnsFinite
<1>4. r = VisitLoop!Fold(k, start, S)
  BY <1>3 DEF FoldLeft, VisitLoop!Fold, VisitLoop!MapThenFoldSet, MapThenFoldSet, VisitOne, LastOf
<1>5. k.P = P /\ k.len = len /\ k.pot = pot /\ k.src = src /\ k.dst = dst
  OBVIOUS
<1>6. /\ start.d = [q \in P |-> IF q = src THEN 0 ELSE Infinity] /\ start.queue = {src}
      /\ InBounds(P, start)
  BY FromParts
<1> HIDE DEF k, r, n, S, start
<1>7. VisitLoop!IsFiniteSet(S)
  BY <1>3, Zenon DEF VisitLoop!IsFiniteSet, IsFiniteSet
<1>8. VisitLoop!Picks(S)
  BY <1>3 DEF VisitLoop!Picks
<1>9. Searching(k, {}, start)
  <2>1. NotBelow(P, len, start, start)
    BY DEF NotBelow
  <2>2. start.d[src] <= 0
    BY <1>6
  <2>3. Settles(P, len, pot, {}, start)
    BY <1>6, InfinityType DEF Settles
  <2>4. Visiting(P, len, pot, {}, start)
    BY <2>3 DEF Visiting
  <2>5. QED
    BY <1>5, <1>6, <2>1, <2>2, <2>4 DEF Searching, start
<1>10. ASSUME NEW T \in SUBSET S, NEW v, T # {}, Searching(k, T \ {LastOf(T)}, v)
       PROVE  Searching(k, T, VisitOne(k, LastOf(T), v))
  <2>1. Cardinality(T) = Cardinality(T \ {LastOf(T)}) + 1 /\ IsFiniteSet(T \ {LastOf(T)})
    BY <1>3, <1>10, FS_Subset
  <2>2. Searching(k, T, Visited(k.len, k.pot, k.dst, v))
    BY <1>5, <1>10, <2>1, StaysSearching
  <2>3. QED
    BY <2>2 DEF VisitOne
<1>11. Searching(k, S, VisitLoop!Fold(k, start, S))
  BY ONLY <1>7, <1>8, <1>9, <1>10, VisitLoop!FoldKeeps
<1>12. QED
  BY <1>1, <1>4, <1>11 DEF k, S, n

(* So the distance to the target is exact.                                 *)
LEMMA DijkstraExact ==
  ASSUME NEW P, NEW len, IsGraph(P, len), NEW pot, IsSchedule(P, len, pot),
         NEW src \in P, NEW dst \in P, NEW g, g.timepoints = P, Lengths(g.specs) = len,
         g.potential = pot, NEW d, d = Dijkstra(g, src, dst)
  PROVE  /\ d \in Distances0(P)
         /\ \A D : IsDistanceFrom(P, len, src, D) => d[dst] = D[dst]
<1> DEFINE k == [P |-> P, len |-> len, pot |-> pot, src |-> src, dst |-> dst]
           n == Cardinality(P)
           start == From(src, P)
<1>1. PICK w : w.d = d /\ Searching(k, 1 .. n, w)
  BY SearchEnds
<1>2. k.P = P /\ k.len = len /\ k.pot = pot /\ k.src = src /\ k.dst = dst
  OBVIOUS
<1> HIDE DEF k
<1>3. /\ InBounds(P, w) /\ NotBelow(P, len, start, w) /\ w.d[src] <= 0
      /\ \/ w.queue = {} /\ Attains(P, len, src, dst, w.d)
         \/ Visiting(P, len, pot, 1 .. n, w)
  BY <1>1, <1>2 DEF Searching
<1>4. d \in Distances0(P) /\ w.queue \subseteq P
  BY <1>1, <1>3 DEF InBounds, IsWave, Distances0
<1>5. Attains(P, len, src, dst, d)
  <2>1. CASE Attains(P, len, src, dst, w.d)
    BY <1>1, <2>1
  <2>2. CASE Visiting(P, len, pot, 1 .. n, w)
    <3>1. IsFiniteSet(P) /\ n \in Nat
      BY FS_CardinalityType DEF IsGraph
    <3>2. Cardinality(1 .. n) = n
      <4> HIDE DEF n
      <4>1. QED
        BY <3>1, TurnsFinite
    <3>3. PICK A \in SUBSET P : Cardinality(A) = n /\ Settles(P, len, pot, A, w)
      BY <2>2, <3>2 DEF Visiting
    <3>4. A = P
      BY <3>1, <3>3, FS_Subset
    <3>5. w.queue = {}
      BY <1>4, <3>3, <3>4 DEF Settles
    <3>6. \A q \in w.queue : w.d[dst] - pot[dst] <= w.d[q] - pot[q]
      BY <3>5
    <3>7. Attains(P, len, src, dst, w.d)
      BY <1>3, <3>3, <3>6, FirstAttains
    <3>8. QED
      BY <1>1, <3>7
  <2>3. QED
    BY <1>3, <2>1, <2>2
<1>6. ASSUME NEW D, IsDistanceFrom(P, len, src, D) PROVE d[dst] = D[dst]
  <2>1. D \in Distances0(P) /\ D[src] <= 0 /\ Relaxed(len, D)
    BY <1>6 DEF IsDistanceFrom
  <2>2. D[dst] <= d[dst]
    <3>1. start.d = [q \in P |-> IF q = src THEN 0 ELSE Infinity]
      BY FromParts
    <3> HIDE DEF start
    <3>2. Below(P, D, start.d)
      BY <2>1, <3>1 DEF Below, Distances0
    <3>3. QED
      BY <1>1, <1>3, <2>1, <3>2 DEF NotBelow, Below
  <2>3. PICK f \in Distances0(P) : f[src] <= 0 /\ Relaxed(len, f) /\ f[dst] = d[dst]
    BY <1>5 DEF Attains
  <2>4. f[dst] <= D[dst]
    BY <1>6, <2>3 DEF IsDistanceFrom, Below
  <2>5. D[dst] \in Int /\ d[dst] \in Int
    BY <1>4, <2>1 DEF Distances0
  <2>6. QED
    BY <2>2, <2>3, <2>4, <2>5
<1>7. QED
  BY <1>4, <1>6
-----------------------------------------------------------------------------
(* boundedDijkstra.  An edge from a node that has been visited is kept, or *)
(* leads nowhere below the bound.                                          *)
Passes(len, bound, toGo, d, e) ==
  d[e[2]] <= d[e[1]] + len[e] \/ bound - toGo[e[2]] <= d[e[1]] + len[e]

Ignores(len, bound, toGo, w) ==
  \A e \in DOMAIN len : e[1] \notin w.queue /\ w.d[e[1]] < Infinity
                          => Passes(len, bound, toGo, w.d, e)

Bounding(k, S, w) ==
  /\ InBounds(k.P, w) /\ NotBelow(k.P, k.len, From(k.src, k.P), w) /\ w.d[k.src] <= 0
  /\ Chained(k.P, k.len, S, w) /\ Ignores(k.len, k.bound, k.toGo, w)

BoundOne(k, i, w) == Bounded(k.len, k.bound, k.toGo, w)

BoundLoop == INSTANCE FoldInduction WITH Op <- BoundOne, Pick <- LastOf, I <- Bounding

LEMMA BoundedLowers ==
  ASSUME NEW P, NEW len, IsGraph(P, len), NEW w, InBounds(P, w), NEW bound \in Int,
         NEW toGo \in [P -> Int], w.queue # {}, NEW v, v = Bounded(len, bound, toGo, w)
  PROVE  /\ Lowers(P, len, w, v)
         /\ Ignores(len, bound, toGo, w) => Ignores(len, bound, toGo, v)
<1> DEFINE x == Sweep(len, w)
           next == {p \in x.queue : x.d[p] + toGo[p] < bound}
           d == [p \in P |-> IF p \in next THEN x.d[p] ELSE w.d[p]]
<1>1. IsWave(P, w) /\ w.d \in [P -> Int] /\ w.queue \subseteq P
  BY DEF InBounds, IsWave
<1>2. Relaxes(P, len, w, x)
  BY <1>1, SweepRelaxes
<1>3. v = Wave(d, next)
  <2>1. DOMAIN w.d = P
    BY <1>1
  <2>2. v = Wave([p \in DOMAIN w.d |-> IF p \in next THEN x.d[p] ELSE w.d[p]], next)
    BY DEF Bounded, Settled
  <2>3. QED
    BY <2>1, <2>2
<1> HIDE DEF x
<1>4. /\ IsWave(P, x) /\ x.d \in [P -> Int] /\ x.queue \subseteq P
      /\ \A p \in P : x.d[p] <= w.d[p] /\ (p \in x.queue <=> x.d[p] < w.d[p])
      /\ \A p \in x.queue : \E e \in DOMAIN len :
           e[1] \in w.queue /\ e[2] = p /\ x.d[p] = w.d[e[1]] + len[e]
      /\ \A e \in DOMAIN len : e[1] \in w.queue => x.d[e[2]] <= w.d[e[1]] + len[e]
  BY <1>2 DEF Relaxes, Lowers, IsWave
<1>5. d \in [P -> Int] /\ next \subseteq P
  BY <1>1, <1>4
<1>6. \A p \in P : d[p] = IF p \in next THEN x.d[p] ELSE w.d[p]
  OBVIOUS
<1>7. \A p \in P : p \in next <=> p \in x.queue /\ x.d[p] + toGo[p] < bound
  BY <1>4
<1>8. \A p \in next : p \in P /\ p \in x.queue
  BY <1>4
<1> HIDE DEF d, next
<1>9. IsWave(P, v) /\ v.d = d /\ v.queue = next
  BY <1>3, <1>5, WaveParts
<1>10. \A p \in P : d[p] <= w.d[p] /\ (p \in next <=> d[p] < w.d[p])
  BY <1>1, <1>4, <1>6, <1>8
<1>11. ASSUME NEW p \in next
       PROVE  \E e \in DOMAIN len : e[1] \in w.queue /\ e[2] = p /\ d[p] = w.d[e[1]] + len[e]
  BY <1>4, <1>6, <1>8
<1>12. Lowers(P, len, w, v)
  BY <1>9, <1>10, <1>11 DEF Lowers
<1>13. ASSUME Ignores(len, bound, toGo, w), NEW e \in DOMAIN len, e[1] \notin next,
              d[e[1]] < Infinity
       PROVE  Passes(len, bound, toGo, d, e)
  <2> DEFINE a == e[1]
             b == e[2]
             l == len[e]
  <2>1. a \in P /\ b \in P /\ l \in Int /\ d[a] = w.d[a]
    BY <1>6, <1>13, GraphParts
  <2>2. /\ d[a] \in Int /\ d[b] \in Int /\ w.d[b] \in Int /\ x.d[b] \in Int /\ toGo[b] \in Int
        /\ d[b] <= w.d[b]
    BY <1>1, <1>4, <1>5, <1>10, <2>1
  <2>3. a \in w.queue => x.d[b] <= w.d[a] + l
    BY <1>4
  <2>4. a \notin w.queue => w.d[b] <= w.d[a] + l \/ bound - toGo[b] <= w.d[a] + l
    BY <1>13, <2>1 DEF Ignores, Passes
  <2> HIDE DEF a, b, l
  <2>5. d[b] <= d[a] + l \/ bound - toGo[b] <= d[a] + l
    <3>1. CASE a \notin w.queue
      BY <2>1, <2>2, <2>4, <3>1
    <3>2. CASE a \in w.queue /\ b \in next
      <4>1. d[b] = x.d[b]
        BY <1>6, <2>1, <3>2
      <4>2. QED
        BY <2>1, <2>3, <3>2, <4>1
    <3>3. CASE a \in w.queue /\ b \notin next /\ b \in x.queue
      <4>1. ~(x.d[b] + toGo[b] < bound)
        BY <1>7, <2>1, <3>3
      <4>2. QED
        BY <2>1, <2>2, <2>3, <3>3, <4>1
    <3>4. CASE a \in w.queue /\ b \notin next /\ b \notin x.queue
      <4>1. x.d[b] = w.d[b] /\ d[b] = w.d[b]
        BY <1>1, <1>4, <1>6, <2>1, <3>4
      <4>2. QED
        BY <2>1, <2>3, <3>4, <4>1
    <3>5. QED
      BY <3>1, <3>2, <3>3, <3>4
  <2>6. QED
    BY <2>5 DEF Passes, a, b, l
<1>14. Ignores(len, bound, toGo, w) => Ignores(len, bound, toGo, v)
  BY <1>9, <1>13 DEF Ignores
<1>15. QED
  BY <1>12, <1>14

LEMMA StaysBounding ==
  ASSUME NEW k, IsGraph(k.P, k.len), k.src \in k.P, k.bound \in Int, k.toGo \in [k.P -> Int],
         NEW S, NEW T, Cardinality(T) = Cardinality(S) + 1, NEW w, Bounding(k, S, w)
  PROVE  Bounding(k, T, Bounded(k.len, k.bound, k.toGo, w))
<1> DEFINE P == k.P
           len == k.len
           src == k.src
           start == From(src, P)
           v == Bounded(len, k.bound, k.toGo, w)
<1>1. /\ IsGraph(P, len) /\ src \in P
      /\ InBounds(P, w) /\ NotBelow(P, len, start, w) /\ w.d[src] <= 0
      /\ Chained(P, len, S, w) /\ Ignores(len, k.bound, k.toGo, w)
  BY DEF Bounding
<1>2. SUFFICES /\ InBounds(P, v) /\ NotBelow(P, len, start, v) /\ v.d[src] <= 0
               /\ Chained(P, len, T, v) /\ Ignores(len, k.bound, k.toGo, v)
  BY DEF Bounding
<1>3. CASE w.queue = {}
  <2>1. v = w
    BY <1>3 DEF Bounded, Settled
  <2> HIDE DEF v
  <2>2. Chained(P, len, T, w)
    BY <1>3 DEF Chained
  <2>3. QED
    BY <1>1, <2>1, <2>2
<1>4. CASE w.queue # {}
  <2>1. Lowers(P, len, w, v) /\ Ignores(len, k.bound, k.toGo, v)
    BY <1>1, <1>4, BoundedLowers
  <2> HIDE DEF v, P, len, src, start
  <2>2. InBounds(P, v) /\ NotBelow(P, len, start, v) /\ Chained(P, len, T, v)
    BY <1>1, <2>1, StaysInBounds, StaysNotBelow, StaysChained
  <2>3. v.d[src] <= 0
    <3>1. v.d[src] <= w.d[src] /\ v.d[src] \in Int /\ w.d[src] \in Int
      BY <1>1, <2>1, <2>2 DEF Lowers, InBounds, IsWave
    <3>2. QED
      BY <1>1, <3>1
  <2>4. QED
    BY <2>1, <2>2, <2>3
<1>5. QED
  BY <1>3, <1>4

(* Where there is a schedule, no queue lasts for as many sweeps as there   *)
(* are nodes.                                                              *)
LEMMA ChainedEnds ==
  ASSUME NEW P, NEW len, IsFiniteSet(P), HasSchedule(P, len), NEW w, IsWave(P, w), NEW S,
         Cardinality(S) = Cardinality(P), Chained(P, len, S, w)
  PROVE  w.queue = {}
<1> SUFFICES ASSUME NEW p \in w.queue PROVE FALSE
  OBVIOUS
<1>1. PICK g \in [P -> Int] : IsSchedule(P, len, g)
  BY DEF HasSchedule
<1>2. PICK A \in SUBSET P : Behind(P, w.d, g, p, A) /\ Cardinality(A) = Cardinality(P)
  BY <1>1 DEF Chained
<1>3. A \subseteq P \ {p} /\ p \in P
  BY <1>2 DEF Behind, IsWave
<1>4. /\ IsFiniteSet(P \ {p}) /\ Cardinality(P \ {p}) = Cardinality(P) - 1
      /\ Cardinality(P) \in Nat
  BY <1>3, FS_RemoveElement, FS_CardinalityType
<1>5. Cardinality(A) <= Cardinality(P) - 1
  BY <1>3, <1>4, FS_Subset
<1>6. QED
  BY <1>2, <1>4, <1>5

LEMMA BoundedEnds ==
  ASSUME NEW P, NEW len, IsGraph(P, len), HasSchedule(P, len), NEW src \in P, NEW bound \in Int,
         NEW toGo \in [P -> Int]
  PROVE  \E w : /\ w.d = BoundedDijkstra(len, P, src, bound, toGo) /\ w.queue = {}
                /\ InBounds(P, w) /\ NotBelow(P, len, From(src, P), w) /\ w.d[src] <= 0
                /\ Ignores(len, bound, toGo, w)
<1> DEFINE k == [P |-> P, len |-> len, src |-> src, bound |-> bound, toGo |-> toGo]
           n == Cardinality(P)
           S == 1 .. n
           start == From(src, P)
           r == FoldLeft(LAMBDA w, i : Bounded(len, bound, toGo, w), start, Turns(n))
<1>1. BoundedDijkstra(len, P, src, bound, toGo) = r.d
  BY DEF BoundedDijkstra
<1>2. n \in Nat /\ IsFiniteSet(P)
  BY FS_CardinalityType DEF IsGraph
<1>3. /\ DOMAIN Turns(n) = S /\ IsFiniteSet(S) /\ Cardinality(S) = n
      /\ \A T \in SUBSET S : T # {} => LastOf(T) \in T
      /\ \A T \in SUBSET S : T # {} => Cardinality(T) = Cardinality(T \ {LastOf(T)}) + 1
  <2> HIDE DEF n
  <2>1. QED
    BY <1>2, TurnsFinite
<1>4. r = BoundLoop!Fold(k, start, S)
  BY <1>3 DEF FoldLeft, BoundLoop!Fold, BoundLoop!MapThenFoldSet, MapThenFoldSet, BoundOne, LastOf
<1>5. k.P = P /\ k.len = len /\ k.src = src /\ k.bound = bound /\ k.toGo = toGo
  OBVIOUS
<1>6. /\ start.d = [q \in P |-> IF q = src THEN 0 ELSE Infinity] /\ start.queue = {src}
      /\ InBounds(P, start)
  BY FromParts
<1> HIDE DEF k, r, S, start
<1>7. BoundLoop!IsFiniteSet(S)
  BY <1>3, Zenon DEF BoundLoop!IsFiniteSet, IsFiniteSet
<1>8. BoundLoop!Picks(S)
  BY <1>3 DEF BoundLoop!Picks
<1>9. Bounding(k, {}, start)
  <2>1. NotBelow(P, len, start, start)
    BY DEF NotBelow
  <2>2. start.d[src] <= 0
    BY <1>6
  <2>3. Chained(P, len, {}, start)
    <3>1. \A g : \A p : Behind(P, start.d, g, p, {})
      BY DEF Behind
    <3>2. QED
      BY <3>1 DEF Chained
  <2>4. Ignores(len, bound, toGo, start)
    <3>1. \A e \in DOMAIN len : e[1] \notin start.queue => ~(start.d[e[1]] < Infinity)
      BY <1>6, GraphParts, InfinityType
    <3>2. QED
      BY <3>1 DEF Ignores
  <2>5. QED
    BY <1>5, <1>6, <2>1, <2>2, <2>3, <2>4 DEF Bounding, start
<1>10. ASSUME NEW T \in SUBSET S, NEW v, T # {}, Bounding(k, T \ {LastOf(T)}, v)
       PROVE  Bounding(k, T, BoundOne(k, LastOf(T), v))
  <2>1. Cardinality(T) = Cardinality(T \ {LastOf(T)}) + 1
    BY <1>3, <1>10
  <2>2. Bounding(k, T, Bounded(k.len, k.bound, k.toGo, v))
    BY <1>5, <1>10, <2>1, StaysBounding
  <2>3. QED
    BY <2>2 DEF BoundOne
<1>11. Bounding(k, S, BoundLoop!Fold(k, start, S))
  BY ONLY <1>7, <1>8, <1>9, <1>10, BoundLoop!FoldKeeps
<1>12. /\ InBounds(P, r) /\ NotBelow(P, len, start, r) /\ r.d[src] <= 0
       /\ Chained(P, len, S, r) /\ Ignores(len, bound, toGo, r)
  BY <1>4, <1>5, <1>11 DEF Bounding, start
<1>13. r.queue = {}
  BY <1>2, <1>3, <1>12, ChainedEnds DEF InBounds
<1>14. QED
  BY <1>1, <1>12, <1>13 DEF start

(* What is left of a distance falls along an edge by no more than it is    *)
(* long: bound - toGo is a schedule.                                       *)
Guides(P, len, toGo) ==
  toGo \in [P -> Int] /\ \A e \in DOMAIN len : toGo[e[1]] <= toGo[e[2]] + len[e]

(* Distances that leave the bound within reach are exact.                  *)
LEMMA BoundedExact ==
  ASSUME NEW P, NEW len, IsGraph(P, len), HasSchedule(P, len), NEW src \in P, NEW bound \in Int,
         NEW toGo, Guides(P, len, toGo), NEW D, IsDistanceFrom(P, len, src, D), NEW q \in P,
         NEW d, d = BoundedDijkstra(len, P, src, bound, toGo)
  PROVE  /\ d[q] \in Int /\ D[q] \in Int /\ D[q] <= d[q]
         /\ D[q] < bound - toGo[q] => d[q] = D[q]
<1>0. toGo \in [P -> Int]
  BY DEF Guides
<1>1. PICK w : /\ w.d = d /\ w.queue = {}
               /\ InBounds(P, w) /\ NotBelow(P, len, From(src, P), w) /\ w.d[src] <= 0
               /\ Ignores(len, bound, toGo, w)
  BY <1>0, BoundedEnds
<1> DEFINE least(y) == IF d[y] <= bound - toGo[y] THEN d[y] ELSE bound - toGo[y]
           f == [y \in P |-> least(y)]
<1>2. \A y \in P : d[y] \in Int /\ d[y] <= Infinity /\ toGo[y] \in Int
  BY <1>0, <1>1 DEF InBounds, IsWave
<1>3. D \in Distances0(P) /\ D[src] <= 0 /\ Relaxed(len, D) /\ \A y \in P : D[y] \in Int
  BY DEF IsDistanceFrom, Distances0
<1>4. D[q] <= d[q]
  <2> DEFINE start == From(src, P)
  <2>1. start.d = [y \in P |-> IF y = src THEN 0 ELSE Infinity]
    BY FromParts
  <2> HIDE DEF start
  <2>2. Below(P, D, start.d)
    BY <1>3, <2>1 DEF Below, Distances0
  <2>3. NotBelow(P, len, start, w)
    BY <1>1 DEF start
  <2>4. QED
    BY <1>1, <1>3, <2>2, <2>3 DEF NotBelow, Below
<1>5. \A y \in P : /\ f[y] \in Int /\ f[y] <= d[y] /\ f[y] <= bound - toGo[y]
                   /\ f[y] = d[y] \/ (f[y] = bound - toGo[y] /\ f[y] < d[y])
  BY <1>2
<1>6. f \in [P -> Int]
  BY <1>2
<1> HIDE DEF f
<1>7. f \in Distances0(P)
  BY <1>2, <1>5, <1>6, InfinityType DEF Distances0
<1>8. f[src] <= 0
  BY <1>1, <1>2, <1>5
<1>9. ASSUME NEW e \in DOMAIN len, f[e[1]] < Infinity PROVE f[e[2]] <= f[e[1]] + len[e]
  <2> DEFINE u == e[1]
             v == e[2]
             l == len[e]
  <2>1. u \in P /\ v \in P /\ l \in Int
    BY GraphParts
  <2>2. toGo[u] <= toGo[v] + l
    BY DEF Guides
  <2>3. d[u] < Infinity => d[v] <= d[u] + l \/ bound - toGo[v] <= d[u] + l
    BY <1>1 DEF Ignores, Passes
  <2>4. f[u] < Infinity
    BY <1>9
  <2> HIDE DEF u, v, l
  <2>5. f[v] <= f[u] + l
    <3>1. /\ f[v] \in Int /\ f[u] \in Int /\ f[v] <= d[v] /\ f[v] <= bound - toGo[v]
          /\ d[u] \in Int /\ d[v] \in Int /\ toGo[u] \in Int /\ toGo[v] \in Int
      BY <1>2, <1>5, <2>1
    <3>2. CASE f[u] = bound - toGo[u]
      BY <2>1, <2>2, <3>1, <3>2
    <3>3. CASE f[u] = d[u]
      BY <2>1, <2>3, <2>4, <3>1, <3>3
    <3>4. QED
      BY <1>5, <2>1, <3>2, <3>3
  <2>6. QED
    BY <2>5 DEF u, v, l
<1>10. Below(P, f, D)
  BY <1>7, <1>8, <1>9 DEF IsDistanceFrom, Relaxed
<1>11. f[q] <= D[q]
  BY <1>10 DEF Below
<1>12. ASSUME D[q] < bound - toGo[q] PROVE d[q] = D[q]
  BY <1>2, <1>3, <1>4, <1>5, <1>11, <1>12
<1>13. QED
  BY <1>2, <1>3, <1>4, <1>12
-----------------------------------------------------------------------------
(* isPropagationPath.  The potential that a node would get is no less than *)
(* its distance from the source allows.                                    *)
LEMMA DistanceClosed ==
  ASSUME NEW P, NEW len, NEW m, NEW p \in P, IsGraph(P, len), Small(P, len, m),
         HasSchedule(P, len), NEW D, IsDistanceFrom(P, len, p, D)
  PROVE  /\ Closed(len, D) /\ D \in [P -> Int] /\ D[p] <= 0
         /\ \A e \in DOMAIN len : D[e[1]] < Infinity => D[e[2]] <= D[e[1]] + len[e]
<1> DEFINE f == Propagated(len, From(p, P)).d
<1>1. IsDistanceFrom(P, len, p, f) /\ Closed(len, f)
  BY FromArrives
<1> HIDE DEF f
<1>2. f = D
  BY <1>1, DistanceUnique
<1>3. QED
  BY <1>1, <1>2 DEF IsDistanceFrom, Distances0, Relaxed

(* k is the network P, len with its distances D, start the potential that  *)
(* the source would have, and the target would get one below its own.      *)
IsSearch(k) ==
  /\ IsGraph(k.P, k.len) /\ k.edges \subseteq DOMAIN k.len
  /\ k.start \in Int /\ k.bound \in Int /\ k.targ \in k.P
  /\ k.pot \in [k.P -> Int] /\ k.pot[k.targ] = k.start + k.bound
  /\ Closed(k.len, k.D) /\ k.D \in [k.P -> Int]
  /\ \A e \in DOMAIN k.len : k.D[e[1]] < Infinity => k.D[e[2]] <= k.D[e[1]] + k.len[e]

Walk(k, w) ==
  /\ DOMAIN w = {"marked", "found", "stack", "d"}
  /\ w.stack \in Seq(k.P) /\ w.marked \subseteq k.P /\ w.d \in [k.P -> Int]
  /\ \A i \in 1 .. Len(w.stack) : w.stack[i] \in w.marked
  /\ \A x \in w.marked : k.D[x] < Infinity /\ k.D[x] + k.start <= w.d[x]
  /\ w.found => k.D[k.targ] < k.bound

Walking(k, S, w) == Walk(k, w)
WalkingFrom(k, S, w) == Walk(k.k, w) /\ k.from \in w.marked

FollowOne(k, i, w) == Follow(k.k.g, k.k.len, k.k.edges, k.k.targ, w, k.from, k.k.order[i])
ExpandOne(k, i, w) == Expand(k.g, k.len, k.edges, k.targ, w, k.order)

FollowLoop == INSTANCE FoldInduction WITH Op <- FollowOne, Pick <- LastOf, I <- WalkingFrom
ExpandLoop == INSTANCE FoldInduction WITH Op <- ExpandOne, Pick <- LastOf, I <- Walking

LEMMA Pushed ==
  ASSUME NEW P, NEW s \in Seq(P), NEW x \in P
  PROVE  /\ <<x>> \o s \in Seq(P) /\ Len(<<x>> \o s) = Len(s) + 1
         /\ (<<x>> \o s)[1] = x
         /\ \A i \in 1 .. Len(s) + 1 : i # 1 => (<<x>> \o s)[i] = s[i - 1] /\ i - 1 \in 1 .. Len(s)
<1>1. <<x>> \in Seq(P) /\ Len(<<x>>) = 1 /\ <<x>>[1] = x
  OBVIOUS
<1> DEFINE t == <<x>>
<1>2. t \in Seq(P) /\ Len(t) = 1 /\ t[1] = x
  BY <1>1
<1> HIDE DEF t
<1>3. /\ t \o s \in Seq(P) /\ Len(t \o s) = Len(t) + Len(s)
      /\ \A i \in 1 .. Len(t) + Len(s) : (t \o s)[i] = IF i <= Len(t) THEN t[i] ELSE s[i - Len(t)]
  BY <1>2, ConcatProperties
<1> DEFINE r == t \o s
<1>4. /\ r \in Seq(P) /\ Len(r) = Len(s) + 1 /\ Len(s) \in Nat
      /\ \A i \in 1 .. Len(s) + 1 : r[i] = IF i <= 1 THEN t[i] ELSE s[i - 1]
  BY <1>2, <1>3
<1> HIDE DEF r
<1>5. r[1] = x /\ \A i \in 1 .. Len(s) + 1 : i # 1 => r[i] = s[i - 1] /\ i - 1 \in 1 .. Len(s)
  BY <1>2, <1>4
<1>6. QED
  BY <1>4, <1>5 DEF r, t

LEMMA FollowKeeps ==
  ASSUME NEW k, IsSearch(k), k.g.potential = k.pot, NEW w, Walk(k, w), NEW from \in w.marked,
         NEW to, NEW v, v = Follow(k.g, k.len, k.edges, k.targ, w, from, to)
  PROVE  Walk(k, v) /\ from \in v.marked
<1> DEFINE P == k.P
           len == k.len
           D == k.D
           pot == k.pot
           targ == k.targ
           e == <<from, to>>
           d == w.d[from] + len[e]
<1>1. v = IF e \notin k.edges \/ w.found \/ to \in w.marked \/ d >= pot[to] THEN w
          ELSE IF to = targ THEN [w EXCEPT !.found = TRUE]
          ELSE [w EXCEPT !.marked = @ \cup {to}, !.d[to] = d, !.stack = <<to>> \o @]
  BY DEF Follow
<1>2. CASE v = w
  BY <1>2
<1>3. CASE v # w
  <2>1. e \in DOMAIN len /\ to \notin w.marked /\ ~(d >= pot[to])
    BY <1>1, <1>3 DEF IsSearch
  <2>2. e[1] = from /\ e[2] = to
    OBVIOUS
  <2>3. from \in P /\ to \in P /\ len[e] \in Int
    BY <2>1, <2>2, GraphParts DEF IsSearch
  <2>4. D[from] < Infinity /\ D[from] + k.start <= w.d[from]
    BY DEF Walk
  <2>5. D[to] < Infinity /\ D[to] <= D[from] + len[e]
    BY <2>1, <2>2, <2>4 DEF IsSearch, Closed
  <2>6. /\ w.d \in [P -> Int] /\ w.d[from] \in Int /\ pot[to] \in Int /\ k.start \in Int
        /\ D[to] \in Int /\ D[from] \in Int /\ k.bound \in Int
    BY <2>3 DEF Walk, IsSearch
  <2> HIDE DEF e
  <2>7. d \in Int /\ D[to] + k.start <= d /\ d < pot[to]
    BY <2>1, <2>3, <2>4, <2>5, <2>6
  <2> HIDE DEF d
  <2>8. CASE to = targ
    <3>1. v = [w EXCEPT !.found = TRUE]
      BY <1>1, <1>3, <2>8
    <3>2. pot[to] = k.start + k.bound
      BY <2>8 DEF IsSearch
    <3>3. D[targ] < k.bound
      BY <2>6, <2>7, <2>8, <3>2
    <3>4. /\ DOMAIN v = DOMAIN w /\ v.stack = w.stack /\ v.marked = w.marked /\ v.d = w.d
      BY <3>1 DEF Walk
    <3>5. QED
      BY <3>3, <3>4 DEF Walk
  <2>9. CASE to # targ
    <3>1. v = [w EXCEPT !.marked = @ \cup {to}, !.d[to] = d, !.stack = <<to>> \o @]
      BY <1>1, <1>3, <2>9
    <3>2. /\ DOMAIN v = DOMAIN w /\ v.stack = <<to>> \o w.stack /\ v.marked = w.marked \cup {to}
          /\ v.d = [w.d EXCEPT ![to] = d] /\ v.found = w.found
      BY <3>1 DEF Walk
    <3>3. v.d \in [P -> Int] /\ v.d[to] = d /\ \A x \in P : x # to => v.d[x] = w.d[x]
      BY <2>3, <2>6, <2>7, <3>2
    <3>4. v.stack \in Seq(P) /\ \A i \in 1 .. Len(v.stack) : v.stack[i] \in v.marked
      <4>1. w.stack \in Seq(P) /\ \A i \in 1 .. Len(w.stack) : w.stack[i] \in w.marked
        BY DEF Walk
      <4>2. /\ v.stack \in Seq(P) /\ Len(v.stack) = Len(w.stack) + 1 /\ v.stack[1] = to
            /\ \A i \in 1 .. Len(w.stack) + 1 :
                 i # 1 => v.stack[i] = w.stack[i - 1] /\ i - 1 \in 1 .. Len(w.stack)
        <5> DEFINE s == w.stack
                   r == <<to>> \o s
        <5>1. s \in Seq(P) /\ to \in P /\ v.stack = r
          BY <2>3, <3>2, <4>1
        <5> HIDE DEF s
        <5>2. /\ r \in Seq(P) /\ Len(r) = Len(s) + 1 /\ r[1] = to
              /\ \A i \in 1 .. Len(s) + 1 : i # 1 => r[i] = s[i - 1] /\ i - 1 \in 1 .. Len(s)
          BY ONLY <5>1, Pushed
        <5> HIDE DEF r
        <5>3. QED
          BY <5>1, <5>2 DEF s
      <4>3. ASSUME NEW i \in 1 .. Len(v.stack) PROVE v.stack[i] \in v.marked
        <5>1. CASE i = 1
          BY <3>2, <4>2, <5>1
        <5>2. CASE i # 1
          <6>1. v.stack[i] = w.stack[i - 1] /\ i - 1 \in 1 .. Len(w.stack)
            BY <4>2, <5>2
          <6>2. QED
            BY <3>2, <4>1, <6>1
        <5>3. QED
          BY <5>1, <5>2
      <4>4. QED
        BY <4>2, <4>3
    <3>5. \A x \in v.marked : D[x] < Infinity /\ D[x] + k.start <= v.d[x]
      <4>1. ASSUME NEW x \in w.marked PROVE x \in P /\ x # to /\ D[x] < Infinity /\ D[x] + k.start <= w.d[x]
        BY <2>1 DEF Walk
      <4>2. QED
        BY <2>5, <2>7, <3>2, <3>3, <4>1
    <3>6. v.marked \subseteq P
      BY <2>3, <3>2 DEF Walk
    <3>7. QED
      BY <3>2, <3>3, <3>4, <3>5, <3>6 DEF Walk
  <2>10. QED
    BY <2>8, <2>9
<1>4. QED
  BY <1>2, <1>3
(* The edges of the last of the nodes that are still to be looked at.      *)
LEMMA ExpandKeeps ==
  ASSUME NEW k, IsSearch(k), k.g.potential = k.pot, NEW n \in Nat, DOMAIN k.order = 1 .. n,
         NEW w, Walk(k, w)
  PROVE  Walk(k, Expand(k.g, k.len, k.edges, k.targ, w, k.order))
<1> DEFINE S == 1 .. n
           from == Head(w.stack)
           start == [w EXCEPT !.stack = Tail(@)]
           r == FoldLeft(LAMBDA v, to : Follow(k.g, k.len, k.edges, k.targ, v, from, to),
                         start, k.order)
           j == [k |-> k, from |-> from]
<1>1. Expand(k.g, k.len, k.edges, k.targ, w, k.order) =
        IF w.stack = << >> \/ w.found THEN w ELSE r
  BY DEF Expand
<1>2. SUFFICES ASSUME w.stack # << >> PROVE Walk(k, r)
  BY <1>1
<1>3. /\ IsFiniteSet(S) /\ \A T \in SUBSET S : T # {} => LastOf(T) \in T
  BY TurnsFinite
<1>4. j.k = k /\ j.from = from
  OBVIOUS
<1>5. r = FollowLoop!Fold(j, start, S)
  BY <1>4 DEF FoldLeft, FollowLoop!Fold, FollowLoop!MapThenFoldSet, MapThenFoldSet, FollowOne, LastOf
<1> HIDE DEF j, r, S
<1>6. Walk(k, start) /\ from \in start.marked
  <2> DEFINE s == w.stack
             t == Tail(s)
  <2>1. DOMAIN start = DOMAIN w /\ start.stack = t /\ start.marked = w.marked /\ start.d = w.d
        /\ start.found = w.found
    BY DEF Walk
  <2>2. s \in Seq(k.P) /\ s # << >> /\ \A i \in 1 .. Len(s) : s[i] \in w.marked
    BY <1>2 DEF Walk
  <2> HIDE DEF s
  <2>3. t \in Seq(k.P) /\ Len(t) = Len(s) - 1 /\ \A i \in 1 .. Len(t) : t[i] = s[i + 1]
    BY ONLY <2>2, HeadTailProperties
  <2>4. Head(s) = s[1] /\ Len(s) \in Nat /\ Len(s) > 0
    BY <2>2
  <2> HIDE DEF t
  <2>5. \A i \in 1 .. Len(t) : t[i] \in w.marked
    BY <2>2, <2>3, <2>4
  <2>6. Head(s) \in w.marked
    BY <2>2, <2>4
  <2> HIDE DEF start
  <2>7. QED
    BY <2>1, <2>3, <2>5, <2>6 DEF Walk, s
<1> HIDE DEF start
<1>7. FollowLoop!IsFiniteSet(S)
  BY <1>3, Zenon DEF FollowLoop!IsFiniteSet, IsFiniteSet
<1>8. FollowLoop!Picks(S)
  BY <1>3 DEF FollowLoop!Picks
<1>9. WalkingFrom(j, {}, start)
  BY <1>4, <1>6 DEF WalkingFrom
<1>10. ASSUME NEW T \in SUBSET S, NEW v, T # {}, WalkingFrom(j, T \ {LastOf(T)}, v)
       PROVE  WalkingFrom(j, T, FollowOne(j, LastOf(T), v))
  <2> DEFINE x == Follow(k.g, k.len, k.edges, k.targ, v, from, k.order[LastOf(T)])
  <2>1. Walk(k, v) /\ from \in v.marked
    BY <1>4, <1>10 DEF WalkingFrom
  <2> HIDE DEF from
  <2>2. Walk(k, x) /\ from \in x.marked
    BY <2>1, FollowKeeps
  <2>3. FollowOne(j, LastOf(T), v) = x
    BY <1>4 DEF FollowOne
  <2> HIDE DEF x
  <2>4. QED
    BY <1>4, <2>2, <2>3 DEF WalkingFrom
<1>11. WalkingFrom(j, S, FollowLoop!Fold(j, start, S))
  BY ONLY <1>7, <1>8, <1>9, <1>10, FollowLoop!FoldKeeps
<1>12. QED
  BY <1>4, <1>5, <1>11 DEF WalkingFrom

(* A path that is found is shorter than the bound.                         *)
LEMMA LessSound ==
  ASSUME NEW P, NEW g, g.timepoints = P, g.potential \in [P -> Int], NEW m,
         IsGraph(P, Lengths(g.specs)), Small(P, Lengths(g.specs), m),
         HasSchedule(P, Lengths(g.specs)),
         NEW src \in P, NEW targ \in P, NEW bound \in Int, NEW n \in Nat,
         NEW order, DOMAIN order = 1 .. n,
         NEW D, IsDistanceFrom(P, Lengths(g.specs), src, D),
         IsDistanceLessThan(g, src, targ, bound, order)
  PROVE  D[targ] < bound
<1> DEFINE len == Lengths(g.specs)
           edges == IF bound = 1 THEN {e \in DOMAIN len : len[e] = 0} ELSE DOMAIN len
           start == g.potential[targ] - bound
           begin == [marked |-> {src}, found |-> FALSE, stack |-> << src >>,
                     d |-> [g.potential EXCEPT ![src] = start]]
           end == FoldLeft(LAMBDA w, i : Expand(g, len, edges, targ, w, order), begin, order)
           S == 1 .. n
           k == [P |-> P, len |-> len, edges |-> edges, start |-> start, bound |-> bound,
                 targ |-> targ, pot |-> g.potential, D |-> D, g |-> g, order |-> order]
<1>1. (bound = 1 /\ src = targ) \/ end.found
  BY Zenon DEF IsDistanceLessThan
<1>2. /\ Closed(len, D) /\ D \in [P -> Int] /\ D[src] <= 0
      /\ \A e \in DOMAIN len : D[e[1]] < Infinity => D[e[2]] <= D[e[1]] + len[e]
  BY DistanceClosed
<1>0. IsGraph(P, len)
  OBVIOUS
<1> HIDE DEF len
<1>3. CASE bound = 1 /\ src = targ
  BY <1>2, <1>3
<1>4. CASE end.found
  <2>1. /\ k.P = P /\ k.len = len /\ k.edges = edges /\ k.start = start /\ k.bound = bound
        /\ k.targ = targ /\ k.pot = g.potential /\ k.D = D /\ k.g = g /\ k.order = order
    OBVIOUS
  <2>2. edges \subseteq DOMAIN len
    OBVIOUS
  <2>3. start \in Int /\ g.potential[targ] = start + bound
    OBVIOUS
  <2>4. end = ExpandLoop!Fold(k, begin, S)
    <3> HIDE DEF edges, begin
    <3>1. QED
      BY DEF FoldLeft, ExpandLoop!Fold, ExpandLoop!MapThenFoldSet, MapThenFoldSet, ExpandOne, LastOf
  <2>5. /\ DOMAIN begin = {"marked", "found", "stack", "d"} /\ begin.marked = {src}
        /\ begin.found = FALSE /\ begin.stack = <<src>>
        /\ begin.d = [g.potential EXCEPT ![src] = start]
    OBVIOUS
  <2>6. IsFiniteSet(S) /\ \A T \in SUBSET S : T # {} => LastOf(T) \in T
    BY TurnsFinite
  <2> HIDE DEF begin, k, edges, end, S, start
  <2>7. IsSearch(k)
    BY <1>0, <1>2, <2>1, <2>2, <2>3 DEF IsSearch
  <2>8. Walk(k, begin)
    <3>1. begin.stack \in Seq(P) /\ \A i \in 1 .. Len(begin.stack) : begin.stack[i] \in begin.marked
      <4> DEFINE t == <<src>>
      <4>1. t \in Seq(P) /\ Len(t) = 1 /\ t[1] = src
        OBVIOUS
      <4>2. begin.stack = t
        BY <2>5
      <4> HIDE DEF t
      <4>3. \A i \in 1 .. Len(t) : t[i] = src
        BY <4>1
      <4>4. QED
        BY <2>5, <4>1, <4>2, <4>3
    <3>2. begin.d \in [P -> Int] /\ begin.d[src] = start
      BY <2>3, <2>5
    <3>3. D[src] < Infinity /\ D[src] + start <= start
      BY <1>2, <2>3, InfinityType
    <3>4. QED
      BY <2>1, <2>5, <3>1, <3>2, <3>3 DEF Walk
  <2>9. ExpandLoop!IsFiniteSet(S)
    BY <2>6, Zenon DEF ExpandLoop!IsFiniteSet, IsFiniteSet
  <2>10. ExpandLoop!Picks(S)
    BY <2>6 DEF ExpandLoop!Picks
  <2>11. Walking(k, {}, begin)
    BY <2>8 DEF Walking
  <2>12. ASSUME NEW T \in SUBSET S, NEW v, T # {}, Walking(k, T \ {LastOf(T)}, v)
         PROVE  Walking(k, T, ExpandOne(k, LastOf(T), v))
    <3>1. Walk(k, v) /\ k.g.potential = k.pot /\ DOMAIN k.order = 1 .. n
      BY <2>1, <2>12 DEF Walking
    <3>2. Walk(k, Expand(k.g, k.len, k.edges, k.targ, v, k.order))
      BY <2>7, <3>1, ExpandKeeps
    <3>3. QED
      BY <3>2 DEF Walking, ExpandOne
  <2>13. Walking(k, S, ExpandLoop!Fold(k, begin, S))
    BY ONLY <2>9, <2>10, <2>11, <2>12, ExpandLoop!FoldKeeps
  <2>14. Walk(k, end)
    BY <2>4, <2>13 DEF Walking
  <2>15. QED
    BY <1>4, <2>1, <2>14 DEF Walk
<1>5. QED
  BY <1>1, <1>3, <1>4
-----------------------------------------------------------------------------
(***************************************************************************)
(* 11. Every action keeps the graph.                                       *)
(***************************************************************************)
Follows(g, h, ds) == GraphOf(h, ds) /\ Kept(h) /\ Noticed(g, h)

LEMMA NegatedWith ==
  ASSUME NEW P, NEW d \in [P -> Int], NEW p, p \notin P, NEW i \in Int
  PROVE  Negated(With(d, p, i)) = With(Negated(d), p, -i)
<1> DEFINE f == With(d, p, i)
           n == Negated(d)
<1>1. f \in [P \cup {p} -> Int] /\ f[p] = i /\ \A q \in P : f[q] = d[q]
  BY DEF With
<1>2. n \in [P -> Int] /\ \A q \in P : n[q] = -d[q]
  BY NegatedParts
<1> HIDE DEF f, n
<1>3. Negated(f) = [q \in P \cup {p} |-> -f[q]]
  BY <1>1 DEF Negated
<1>4. With(n, p, -i) = [q \in P \cup {p} |-> IF q = p THEN -i ELSE n[q]]
  BY <1>2 DEF With
<1>5. \A q \in P \cup {p} : -f[q] = IF q = p THEN -i ELSE n[q]
  BY <1>1, <1>2
<1>6. Negated(f) = With(n, p, -i)
  BY <1>3, <1>4, <1>5
<1>7. QED
  BY <1>6 DEF f, n

LEMMA NegatedWithout ==
  ASSUME NEW P, NEW d \in [P -> Int], NEW p
  PROVE  Negated(Without(d, p)) = Without(Negated(d), p)
<1> DEFINE f == Without(d, p)
           n == Negated(d)
<1>1. f \in [P \ {p} -> Int] /\ \A q \in P \ {p} : f[q] = d[q]
  BY DEF Without
<1>2. n \in [P -> Int] /\ \A q \in P : n[q] = -d[q]
  BY NegatedParts
<1> HIDE DEF f, n
<1>3. Negated(f) = [q \in P \ {p} |-> -f[q]]
  BY <1>1 DEF Negated
<1>4. Without(n, p) = [q \in P \ {p} |-> n[q]]
  BY <1>2 DEF Without
<1>5. \A q \in P \ {p} : -f[q] = n[q]
  BY <1>1, <1>2
<1>6. Negated(f) = Without(n, p)
  BY <1>3, <1>4, <1>5
<1>7. QED
  BY <1>6 DEF f, n

LEMMA AddedKeeps ==
  ASSUME NEW g, NEW cs, GraphOf(g, cs), Kept(g), NEW p \in Timepoint, p \notin g.timepoints,
         NEW h, h = [g EXCEPT !.timepoints = @ \cup {p}, !.upper = With(@, p, Infinity),
                              !.lower = With(@, p, -Infinity), !.potential = With(@, p, 0)]
  PROVE  Follows(g, h, cs) /\ h.timepoints = g.timepoints \cup {p}
<1> DEFINE P == g.timepoints
           Q == P \cup {p}
           up == With(g.upper, p, Infinity)
           low == With(g.lower, p, -Infinity)
           neg == With(Negated(g.lower), p, Infinity)
           pot == With(g.potential, p, 0)
           len == Lengths(g.specs)
<1>1. /\ g.upper \in Distances0(P) /\ g.upper \in [P -> Int]
      /\ g.lower \in [P -> Int] /\ Negated(g.lower) \in Distances0(P)
      /\ g.potential \in [P -> Int] /\ \A q \in P : g.potential[q] <= 0
  BY DEF GraphOf, Distances0
<1>2. /\ DOMAIN h = Fields /\ h.timepoints = Q /\ h.specs = g.specs
      /\ h.upper = up /\ h.lower = low /\ h.potential = pot
      /\ h.consistent = g.consistent /\ h.hasDeletions = g.hasDeletions /\ h.updated = g.updated
  <2> HIDE DEF up, low, pot
  <2>1. DOMAIN g = Fields
    BY DEF GraphOf
  <2>2. h = [g EXCEPT !.timepoints = Q, !.upper = up, !.lower = low, !.potential = pot]
    BY DEF up, low, pot
  <2>3. QED
    BY <2>1, <2>2 DEF Fields
<1>3. Infinity \in Int /\ -Infinity \in Int /\ -(-Infinity) = Infinity /\ 0 < Infinity
  BY InfinityType
<1>4. up \in [Q -> Int] /\ up[p] = Infinity /\ \A q \in P : up[q] = g.upper[q]
  BY <1>1, <1>3 DEF With
<1>5. /\ low \in [Q -> Int] /\ low[p] = -Infinity /\ \A q \in P : low[q] = g.lower[q]
      /\ Negated(low) = neg
  <2>1. Negated(low) = With(Negated(g.lower), p, -(-Infinity))
    <3>1. p \notin P /\ g.lower \in [P -> Int] /\ -Infinity \in Int
      BY <1>1, <1>3
    <3> DEFINE i == -Infinity
               d == g.lower
    <3>2. p \notin P /\ d \in [P -> Int] /\ i \in Int
      BY <3>1
    <3> HIDE DEF P, d, i
    <3>3. Negated(With(d, p, i)) = With(Negated(d), p, -i)
      BY ONLY <3>2, NegatedWith
    <3>4. QED
      BY <3>3 DEF d, i
  <2>2. /\ low \in [Q -> Int] /\ low[p] = -Infinity /\ \A q \in P : low[q] = g.lower[q]
    BY <1>1, <1>3 DEF With
  <2> HIDE DEF low
  <2>3. QED
    BY <1>3, <2>1, <2>2
<1>6. neg \in [Q -> Int] /\ neg[p] = Infinity /\ \A q \in P : neg[q] = Negated(g.lower)[q]
  <2>1. Negated(g.lower) \in [P -> Int]
    BY <1>1, NegatedParts
  <2>2. QED
    BY <1>3, <2>1 DEF With
<1>7. pot \in [Q -> Int] /\ pot[p] = 0 /\ \A q \in P : pot[q] = g.potential[q]
  BY <1>1 DEF With
<1> HIDE DEF up, low, neg, pot, len
<1>8. up \in Distances0(Q) /\ neg \in Distances0(Q) /\ \A q \in Q : pot[q] <= 0
  BY <1>1, <1>3, <1>4, <1>6, <1>7 DEF Distances0
<1>9. GraphOf(h, cs)
  <2>1. Linked(P, cs) => Linked(Q, cs)
    BY DEF Linked
  <2> HIDE DEF P
  <2>2. Origin \in P /\ P \subseteq Timepoint /\ g.updated \subseteq P \ {Origin}
    BY DEF GraphOf, P
  <2>3. QED
    BY <1>2, <1>4, <1>5, <1>7, <1>8, <2>1, <2>2 DEF GraphOf, P
<1>10. IsGraph(P, len) /\ IsGraph(P, Reversed(len))
  BY GraphLengths DEF len
<1>11. ASSUME Holds(g, len) PROVE Holds(h, len)
  <2>1. Origin \in P
    BY DEF GraphOf
  <2>2. ASSUME g.consistent
        PROVE  IsSchedule(Q, len, pot) /\ Exact(Q, len, Origin, up, low)
    <3>1. IsSchedule(P, len, g.potential) /\ IsDistanceFrom(P, len, Origin, g.upper)
          /\ IsDistanceFrom(P, Reversed(len), Origin, Negated(g.lower))
      BY <1>11, <2>2 DEF Holds, Exact
    <3>2. IsSchedule(Q, len, pot) /\ IsDistanceFrom(Q, len, Origin, up)
      BY <1>10, <2>1, <3>1, NodeAdded DEF pot, up
    <3>3. IsDistanceFrom(Q, Reversed(len), Origin, neg)
      BY <1>10, <2>1, <3>1, NodeAdded DEF neg
    <3>4. QED
      BY <1>5, <3>2, <3>3 DEF Exact
  <2>3. ASSUME ~g.consistent PROVE Flagged(Q, len, g.updated)
    <3>1. Flagged(P, len, g.updated)
      BY <1>11, <2>3 DEF Holds
    <3>2. HasSchedule(Q, len) => HasSchedule(P, len)
      BY <1>10, NodeAdded
    <3>3. QED
      BY <3>1, <3>2 DEF Flagged
  <2>4. QED
    BY <1>2, <2>2, <2>3 DEF Holds
<1>12. Kept(h)
  BY <1>2, <1>11 DEF Kept, len
<1>13. Noticed(g, h)
  <2>1. ASSUME NEW q \in P PROVE ~(g.lower[q] < low[q]) /\ ~(up[q] < g.upper[q])
    BY <1>1, <1>4, <1>5, <2>1
  <2>2. QED
    BY <1>2, <2>1 DEF Noticed
<1>14. QED
  BY <1>2, <1>9, <1>12, <1>13 DEF Follows

LEMMA DeletedKeeps ==
  ASSUME NEW g, NEW cs, GraphOf(g, cs), Kept(g), NEW p, p \in g.timepoints, p # Origin,
         NEW marker \in BOOLEAN, \A c \in DOMAIN cs : p # cs[c].head /\ p # cs[c].foot,
         NEW h, h = Deleted(g, p, marker)
  PROVE  Follows(g, h, cs) /\ h.timepoints = g.timepoints \ {p}
<1> DEFINE P == g.timepoints
           Q == P \ {p}
           up == Without(g.upper, p)
           low == Without(g.lower, p)
           neg == Without(Negated(g.lower), p)
           pot == Without(g.potential, p)
           len == Lengths(g.specs)
<1>1. /\ g.upper \in Distances0(P) /\ g.upper \in [P -> Int]
      /\ g.lower \in [P -> Int] /\ Negated(g.lower) \in Distances0(P)
      /\ Negated(g.lower) \in [P -> Int]
      /\ g.potential \in [P -> Int] /\ \A q \in P : g.potential[q] <= 0
  BY DEF GraphOf, Distances0
<1>2. /\ DOMAIN h = Fields /\ h.timepoints = Q /\ h.specs = g.specs
      /\ h.upper = up /\ h.lower = low /\ h.potential = pot
      /\ h.consistent = g.consistent /\ h.hasDeletions = (g.hasDeletions \/ marker)
      /\ h.updated = g.updated \ {p}
  <2> HIDE DEF up, low, pot
  <2>1. DOMAIN g = Fields
    BY DEF GraphOf
  <2>2. h = [g EXCEPT !.timepoints = Q, !.upper = up, !.lower = low, !.potential = pot,
                      !.updated = @ \ {p}, !.hasDeletions = @ \/ marker]
    BY DEF up, low, pot, Deleted
  <2>3. QED
    BY <2>1, <2>2 DEF Fields
<1>3. up \in [Q -> Int] /\ \A q \in Q : up[q] = g.upper[q]
  BY <1>1 DEF Without
<1>4. /\ low \in [Q -> Int] /\ \A q \in Q : low[q] = g.lower[q]
      /\ Negated(low) = neg
  <2>1. Negated(low) = neg
    BY <1>1, NegatedWithout, Zenon
  <2>2. low \in [Q -> Int] /\ \A q \in Q : low[q] = g.lower[q]
    BY <1>1 DEF Without
  <2>3. QED
    BY <2>1, <2>2
<1>5. neg \in [Q -> Int] /\ \A q \in Q : neg[q] = Negated(g.lower)[q]
  BY <1>1 DEF Without
<1>6. pot \in [Q -> Int] /\ \A q \in Q : pot[q] = g.potential[q]
  BY <1>1 DEF Without
<1> HIDE DEF up, low, neg, pot, len
<1>7. up \in Distances0(Q) /\ neg \in Distances0(Q) /\ \A q \in Q : pot[q] <= 0
  BY <1>1, <1>3, <1>5, <1>6 DEF Distances0
<1>8. GraphOf(h, cs)
  <2>1. Linked(P, cs) => Linked(Q, cs)
    BY DEF Linked
  <2>2. g.hasDeletions \/ marker \in BOOLEAN
    OBVIOUS
  <2> HIDE DEF P
  <2>3. Origin \in P /\ P \subseteq Timepoint /\ g.updated \subseteq P \ {Origin}
    BY DEF GraphOf, P
  <2>4. h.updated \subseteq Q \ {Origin} /\ Origin \in Q /\ Q \subseteq Timepoint
    BY <1>2, <2>3
  <2>5. h.hasDeletions \in BOOLEAN /\ h.consistent \in BOOLEAN
    BY <1>2, <2>2 DEF GraphOf
  <2>6. Counted(g.specs, cs) /\ Linked(P, cs)
    BY DEF GraphOf, P
  <2> HIDE DEF Q
  <2>7. QED
    BY <1>2, <1>3, <1>4, <1>6, <1>7, <2>1, <2>4, <2>5, <2>6 DEF GraphOf
<1>9. IsGraph(Q, len) /\ IsGraph(Q, Reversed(len)) /\ IsGraph(P, len)
  <2>1. IsGraph(h.timepoints, Lengths(h.specs)) /\ IsGraph(h.timepoints, Reversed(Lengths(h.specs)))
    BY <1>8, GraphLengths
  <2>2. QED
    BY <1>2, <2>1, GraphLengths DEF len
<1>10. ASSUME Holds(g, len) PROVE Holds(h, len)
  <2>1. Origin \in Q
    BY DEF GraphOf
  <2>2. ASSUME g.consistent
        PROVE  IsSchedule(Q, len, pot) /\ Exact(Q, len, Origin, up, low)
    <3>1. IsSchedule(P, len, g.potential) /\ IsDistanceFrom(P, len, Origin, g.upper)
          /\ IsDistanceFrom(P, Reversed(len), Origin, Negated(g.lower))
      BY <1>10, <2>2 DEF Holds, Exact
    <3>2. IsSchedule(Q, len, pot) /\ IsDistanceFrom(Q, len, Origin, up)
      BY <1>9, <2>1, <3>1, NodeDeleted DEF pot, up
    <3>3. IsDistanceFrom(Q, Reversed(len), Origin, neg)
      BY <1>9, <2>1, <3>1, NodeDeleted DEF neg
    <3>4. QED
      BY <1>4, <3>2, <3>3 DEF Exact
  <2>3. ASSUME ~g.consistent PROVE Flagged(Q, len, h.updated)
    <3>1. Flagged(P, len, g.updated)
      BY <1>10, <2>3 DEF Holds
    <3>2. HasSchedule(Q, len) => HasSchedule(P, len)
      BY <1>9, NodeDeleted
    <3>3. PICK q \in g.updated : \E e \in DOMAIN len : e[2] = q
      BY <3>1 DEF Flagged
    <3>4. q \in Q
      BY <1>9, <3>3, GraphParts
    <3>5. q \in h.updated
      BY <1>2, <3>3, <3>4
    <3>6. QED
      BY <3>1, <3>2, <3>3, <3>5 DEF Flagged
  <2>4. QED
    BY <1>2, <2>2, <2>3 DEF Holds
<1>11. Kept(h)
  BY <1>2, <1>10 DEF Kept, len
<1>12. Noticed(g, h)
  <2>1. ASSUME NEW q \in Q PROVE ~(g.lower[q] < low[q]) /\ ~(up[q] < g.upper[q])
    BY <1>1, <1>3, <1>4, <2>1
  <2>2. QED
    BY <1>2, <2>1 DEF Noticed
<1>13. QED
  BY <1>2, <1>8, <1>11, <1>12 DEF Follows

LEMMA ConstraintKeeps ==
  ASSUME NEW g, NEW cs, GraphOf(g, cs), Kept(g), NEW x, Abstract!IsLink(x),
         x.head \in g.timepoints, x.foot \in g.timepoints, NEW c, Replaces(cs, c, x),
         NEW t, Counted(t, With(cs, c, x)),
         NEW h, h = IncPropagate([g EXCEPT !.specs = t], x.head, x.foot)
  PROVE  Follows(g, h, With(cs, c, x)) /\ h.timepoints = g.timepoints
<1>1. /\ g.timepoints \subseteq Timepoint /\ Counted(g.specs, cs) /\ Linked(g.timepoints, cs)
  BY DEF GraphOf
<1>2. /\ Linked(g.timepoints, With(cs, c, x))
      /\ Tighter(Lengths(g.specs), Lengths(t), x.head, x.foot)
  BY <1>1, WithTighter
<1> DEFINE ds == With(cs, c, x)
           u == x.head
           v == x.foot
<1>3. /\ Counted(t, ds) /\ Linked(g.timepoints, ds) /\ Tighter(Lengths(g.specs), Lengths(t), u, v)
      /\ h = IncPropagate([g EXCEPT !.specs = t], u, v)
  BY <1>2
<1> HIDE DEF ds, u, v
<1>4. GraphOf(h, ds) /\ Kept(h) /\ Noticed(g, h) /\ h.timepoints = g.timepoints
  BY <1>3, IncPropagateKeeps
<1>5. QED
  BY <1>4 DEF Follows, ds

LEMMA AddKeeps ==
  ASSUME NEW g, NEW cs, GraphOf(g, cs), Kept(g), NEW x, Abstract!IsLink(x),
         x.head \in g.timepoints, x.foot \in g.timepoints, NEW c, c \notin DOMAIN cs,
         NEW h, h = IncPropagate([g EXCEPT !.specs = AddEdges(@, x)], x.head, x.foot)
  PROVE  Follows(g, h, With(cs, c, x)) /\ h.timepoints = g.timepoints
<1> DEFINE t == AddEdges(g.specs, x)
<1>1. Counted(g.specs, cs)
  BY DEF GraphOf
<1>2. Counted(t, With(cs, c, x)) /\ Replaces(cs, c, x)
  BY <1>1, CountedAdd DEF Replaces
<1>3. h = IncPropagate([g EXCEPT !.specs = t], x.head, x.foot)
  OBVIOUS
<1> HIDE DEF t
<1>4. QED
  BY <1>2, <1>3, ConstraintKeeps

LEMMA NarrowKeeps ==
  ASSUME NEW g, NEW cs, GraphOf(g, cs), Kept(g), NEW x, Abstract!IsLink(x),
         x.head \in g.timepoints, x.foot \in g.timepoints, NEW c \in DOMAIN cs,
         Replaces(cs, c, x),
         NEW h, h = IncPropagate([g EXCEPT !.specs = RemoveEdges(AddEdges(@, x), cs[c])],
                                 x.head, x.foot)
  PROVE  Follows(g, h, With(cs, c, x)) /\ h.timepoints = g.timepoints
<1> DEFINE t == RemoveEdges(AddEdges(g.specs, x), cs[c])
<1>1. Counted(g.specs, cs)
  BY DEF GraphOf
<1>2. Counted(t, With(cs, c, x))
  BY <1>1, CountedNarrow
<1>3. h = IncPropagate([g EXCEPT !.specs = t], x.head, x.foot)
  OBVIOUS
<1> HIDE DEF t
<1>4. QED
  BY <1>2, <1>3, ConstraintKeeps

(* The matrix of the constraints is that of the graph.                     *)
LEMMA GraphMatrix ==
  ASSUME NEW P, P # {}, P \subseteq Timepoint, NEW s, NEW cs, Counted(s, cs), Linked(P, cs)
  PROVE  MatrixCorrect(P, Lengths(s), Network!Distances(P, Shapes0(cs)))
<1>1. IsGraph(P, Lengths(s)) /\ \E m \in Nat : Small(P, Lengths(s), m)
  BY LengthsGraph
<1>2. IsMatrixOf(P, Lengths(s), BaseMatrix(P, Shapes0(cs)))
  BY LengthsMatrix
<1> DEFINE len == Lengths(s)
           C == Shapes0(cs)
<1>3. IsGraph(P, len) /\ \E m \in Nat : Small(P, len, m)
  BY <1>1
<1>4. IsMatrixOf(P, len, BaseMatrix(P, C))
  BY <1>2
<1> HIDE DEF len, C
<1>5. MatrixCorrect(P, len, Network!Distances(P, C))
  BY <1>3, <1>4, DistancesComplete
<1>6. QED
  BY <1>5 DEF len, C

(* What is asked of a removal after which nothing is propagated.           *)
Redundant(P, cs, c) ==
  LET d == Network!Distances(P, Shapes0(Without(cs, c)))
  IN  Diagonal(P, d) /\ d = Network!Distances(P, Shapes0(cs))

RemovedFrom(g, cs, c, mark) ==
  [g EXCEPT !.specs = RemoveEdges(@, cs[c]), !.hasDeletions = @ \/ mark]

LEMMA RemoveKeeps ==
  ASSUME NEW g, NEW cs, GraphOf(g, cs), Kept(g), NEW c \in DOMAIN cs, NEW mark \in BOOLEAN,
         mark \/ Redundant(g.timepoints, cs, c),
         NEW h, h = RemovedFrom(g, cs, c, mark)
  PROVE  Follows(g, h, Without(cs, c)) /\ h.timepoints = g.timepoints
<1> DEFINE P == g.timepoints
           ds == Without(cs, c)
           s == g.specs
           t == RemoveEdges(s, cs[c])
<1>1. Counted(s, cs) /\ Linked(P, cs) /\ P \subseteq Timepoint /\ Origin \in P /\ DOMAIN g = Fields
  BY DEF GraphOf
<1>2. Counted(t, ds)
  BY <1>1, CountedRemove
<1>3. Linked(P, ds) /\ \A e \in DOMAIN t : e \in DOMAIN s
  BY <1>1, <1>2, RemovedEdges
<1>4. /\ DOMAIN h = Fields /\ h.timepoints = P /\ h.specs = t
      /\ h.upper = g.upper /\ h.lower = g.lower /\ h.potential = g.potential
      /\ h.consistent = g.consistent /\ h.hasDeletions = (g.hasDeletions \/ mark)
      /\ h.updated = g.updated
  <2> HIDE DEF t
  <2>1. h = [g EXCEPT !.specs = t, !.hasDeletions = @ \/ mark]
    BY DEF RemovedFrom, t, s
  <2>2. QED
    BY <1>1, <2>1 DEF Fields
<1> HIDE DEF t, ds, s
<1>5. GraphOf(h, ds)
  <2>1. h.hasDeletions \in BOOLEAN
    BY <1>4
  <2>2. QED
    BY <1>2, <1>3, <1>4, <2>1 DEF GraphOf
<1>6. ASSUME ~g.hasDeletions, ~mark PROVE Holds(h, Lengths(t))
  <2> DEFINE d == Network!Distances(P, Shapes0(ds))
             old == Lengths(s)
             new == Lengths(t)
  <2>1. Diagonal(P, d) /\ d = Network!Distances(P, Shapes0(cs))
    BY <1>6 DEF Redundant, ds
  <2>2. MatrixCorrect(P, old, d)
    <3> HIDE DEF P
    <3>1. MatrixCorrect(P, Lengths(s), Network!Distances(P, Shapes0(cs)))
      BY <1>1, GraphMatrix
    <3>2. QED
      BY <2>1, <3>1
  <2>3. MatrixCorrect(P, new, d)
    <3> HIDE DEF P
    <3>1. QED
      BY <1>1, <1>2, <1>3, GraphMatrix
  <2>4. Holds(g, old)
    BY <1>6 DEF Kept, s
  <2> HIDE DEF d, old, new
  <2>5. HasSchedule(P, old)
    BY <2>1, <2>2 DEF MatrixCorrect
  <2>6. /\ g.consistent /\ IsSchedule(P, old, g.potential)
        /\ IsDistanceFrom(P, old, Origin, g.upper)
        /\ IsDistanceFrom(P, Reversed(old), Origin, Negated(g.lower))
    BY <2>4, <2>5 DEF Holds, Exact, Flagged
  <2>7. IsSchedule(P, new, g.potential)
    <3>1. g.potential \in [P -> Int]
      BY DEF GraphOf
    <3> HIDE DEF P
    <3>2. \A e \in DOMAIN s : g.potential[e[2]] <= g.potential[e[1]] + e[3]
      BY <1>1, <2>6, <3>1, ScheduleSpecs DEF old
    <3>3. \A e \in DOMAIN t : g.potential[e[2]] <= g.potential[e[1]] + e[3]
      BY <1>3, <3>2
    <3>4. QED
      BY <1>1, <1>2, <1>3, <3>1, <3>3, ScheduleSpecs DEF new
  <2>8. /\ IsDistanceFrom(P, new, Origin, g.upper)
        /\ IsDistanceFrom(P, Reversed(new), Origin, Negated(g.lower))
    <3> HIDE DEF P
    <3>1. QED
      BY <1>1, <2>1, <2>2, <2>3, <2>6, SameMatrix
  <2>9. QED
    BY <1>4, <2>6, <2>7, <2>8 DEF Holds, Exact, new
<1>7. Kept(h)
  BY <1>4, <1>6 DEF Kept
<1>8. Noticed(g, h)
  <2>1. \A q \in P : g.lower[q] \in Int /\ g.upper[q] \in Int
    BY DEF GraphOf, Distances0
  <2>2. QED
    BY <1>4, <2>1 DEF Noticed
<1>9. QED
  BY <1>4, <1>5, <1>7, <1>8 DEF Follows, ds

LEMMA ResetKeeps ==
  ASSUME NEW g, NEW cs, GraphOf(g, cs), Kept(g), g.consistent,
         NEW h, h = [g EXCEPT !.updated = {}]
  PROVE  Follows(g, h, cs)
<1>1. /\ DOMAIN h = Fields /\ h.timepoints = g.timepoints /\ h.specs = g.specs
      /\ h.upper = g.upper /\ h.lower = g.lower /\ h.potential = g.potential
      /\ h.consistent = g.consistent /\ h.hasDeletions = g.hasDeletions
      /\ h.updated = {}
  <2>1. DOMAIN g = Fields
    BY DEF GraphOf
  <2>2. QED
    BY <2>1 DEF Fields
<1>2. GraphOf(h, cs)
  BY <1>1 DEF GraphOf
<1>3. Kept(h)
  BY <1>1 DEF Kept, Holds
<1>4. Noticed(g, h)
  <2>1. \A q \in g.timepoints : g.lower[q] \in Int /\ g.upper[q] \in Int
    BY DEF GraphOf, Distances0
  <2>2. QED
    BY <1>1, <2>1 DEF Noticed
<1>5. QED
  BY <1>2, <1>3, <1>4 DEF Follows

(* After a question nothing is left to propagate.                          *)
LEMMA QuestionKeeps ==
  ASSUME NEW g, NEW cs, NEW h, Restored(g, cs, h)
  PROVE  Follows(g, h, cs)
BY DEF Restored, Follows, Kept

LEMMA SearchKeeps ==
  ASSUME NEW g, NEW cs, NEW h, Restored(g, cs, h), h.consistent,
         NEW R, R \subseteq h.timepoints \ {Origin},
         NEW k, k = [h EXCEPT !.updated = @ \cup R]
  PROVE  Follows(g, k, cs)
<1>0. GraphOf(h, cs) /\ Holds(h, Lengths(h.specs)) /\ ~h.hasDeletions /\ Noticed(g, h)
  BY DEF Restored
<1>1. /\ DOMAIN k = Fields /\ k.timepoints = h.timepoints /\ k.specs = h.specs
      /\ k.upper = h.upper /\ k.lower = h.lower /\ k.potential = h.potential
      /\ k.consistent = h.consistent /\ k.hasDeletions = h.hasDeletions
      /\ k.updated = h.updated \cup R
  <2>1. DOMAIN h = Fields
    BY <1>0 DEF GraphOf
  <2>2. QED
    BY <2>1 DEF Fields
<1>2. GraphOf(k, cs)
  BY <1>0, <1>1 DEF GraphOf
<1>3. Kept(k)
  BY <1>0, <1>1 DEF Kept, Holds
<1>4. Noticed(g, k)
  BY <1>0, <1>1 DEF Noticed
<1>5. QED
  BY <1>2, <1>3, <1>4 DEF Follows

LEMMA ExactOnce ==
  ASSUME NEW P, NEW len, NEW p \in P, NEW u, NEW l \in [P -> Int], NEW v, NEW m \in [P -> Int],
         Exact(P, len, p, u, l), Exact(P, len, p, v, m)
  PROVE  u = v /\ l = m
<1>1. u = v
  BY DistanceUnique DEF Exact
<1>2. Negated(l) = Negated(m)
  <2> DEFINE rev == Reversed(len)
  <2>1. IsDistanceFrom(P, rev, p, Negated(l)) /\ IsDistanceFrom(P, rev, p, Negated(m))
    BY DEF Exact
  <2> HIDE DEF rev
  <2>2. QED
    BY <2>1, DistanceUnique
<1>3. Negated(Negated(l)) = l /\ Negated(Negated(m)) = m
  BY NegatedParts
<1>4. QED
  BY <1>1, <1>2, <1>3

(* There, where p has taken the place of the origin, and back again.       *)
LEMMA ManyKeeps ==
  ASSUME NEW g, NEW cs, NEW f, Restored(g, cs, f), f.consistent, NEW p \in f.timepoints,
         NEW h, h = BoundsFrom(f, p), NEW k, k = BoundsFrom(h, Origin)
  PROVE  /\ Follows(g, k, cs) /\ k.timepoints = g.timepoints
         /\ Exact(f.timepoints, Lengths(f.specs), p, h.upper, h.lower)
<1> DEFINE P == f.timepoints
           len == Lengths(f.specs)
<1>1. /\ GraphOf(f, cs) /\ Holds(f, len) /\ ~f.hasDeletions /\ Noticed(g, f)
      /\ f.timepoints = g.timepoints /\ f.specs = g.specs
  BY DEF Restored
<1>2. IsSchedule(P, len, f.potential) /\ Exact(P, len, Origin, f.upper, f.lower)
  BY <1>1 DEF Holds
<1>3. HasSchedule(P, len)
  BY <1>2 DEF HasSchedule, IsSchedule
<1>4. /\ GraphOf(h, cs) /\ h.timepoints = P /\ h.specs = f.specs /\ h.potential = f.potential
      /\ h.consistent = f.consistent /\ h.hasDeletions = f.hasDeletions
      /\ Exact(P, len, p, h.upper, h.lower) /\ f.updated \subseteq h.updated
  <2> HIDE DEF P, len
  <2>1. HasSchedule(f.timepoints, Lengths(f.specs))
    BY <1>3 DEF P, len
  <2>2. GraphOf(f, cs) /\ p \in f.timepoints
    BY <1>1
  <2>3. /\ GraphOf(h, cs)
        /\ h.timepoints = f.timepoints /\ h.specs = f.specs /\ h.potential = f.potential
        /\ h.consistent = f.consistent /\ h.hasDeletions = f.hasDeletions
        /\ Exact(f.timepoints, Lengths(f.specs), p, h.upper, h.lower)
        /\ f.updated \subseteq h.updated
    BY ONLY <2>1, <2>2, h = BoundsFrom(f, p), BoundsFromExact
  <2>4. QED
    BY <2>3 DEF P, len
<1>5. Origin \in h.timepoints
  BY <1>4 DEF GraphOf
<1>6. /\ GraphOf(k, cs) /\ k.timepoints = P /\ k.specs = f.specs /\ k.potential = f.potential
      /\ k.consistent = f.consistent /\ k.hasDeletions = f.hasDeletions
      /\ Exact(P, len, Origin, k.upper, k.lower) /\ h.updated \subseteq k.updated
  <2>1. HasSchedule(h.timepoints, Lengths(h.specs))
    BY <1>3, <1>4
  <2>2. /\ GraphOf(k, cs)
        /\ k.timepoints = h.timepoints /\ k.specs = h.specs /\ k.potential = h.potential
        /\ k.consistent = h.consistent /\ k.hasDeletions = h.hasDeletions
        /\ Exact(h.timepoints, Lengths(h.specs), Origin, k.upper, k.lower)
        /\ h.updated \subseteq k.updated
    BY ONLY <1>4, <1>5, <2>1, k = BoundsFrom(h, Origin), BoundsFromExact
  <2>3. QED
    BY <1>4, <2>2
<1>7. Kept(k)
  BY <1>1, <1>2, <1>6 DEF Kept, Holds
<1>8. f.lower \in [P -> Int] /\ k.lower \in [P -> Int] /\ Origin \in P
  BY <1>1, <1>6 DEF GraphOf
<1>9. k.upper = f.upper /\ k.lower = f.lower
  <2> HIDE DEF P, len
  <2>1. QED
    BY <1>2, <1>6, <1>8, ExactOnce
<1>10. Noticed(g, k)
  BY <1>1, <1>4, <1>6, <1>9 DEF Noticed
<1>11. QED
  BY <1>1, <1>4, <1>6, <1>7, <1>10 DEF Follows
-----------------------------------------------------------------------------
(* The inductive invariant.                                                *)
Advances ==
  /\ DOMAIN constraints' \subseteq Link
  /\ Follows(graph, graph', constraints')

LEMMA Asking ==
  ASSUME IInv
  PROVE  Restored(graph, constraints, Propagate(graph))
BY PropagateRestores DEF IInv

LEMMA Questions ==
  ASSUME IInv, graph' = Propagate(graph), UNCHANGED constraints
  PROVE  Advances
<1>1. Follows(graph, graph', constraints)
  BY Asking, QuestionKeeps
<1>2. QED
  BY <1>1 DEF Advances, IInv

LEMMA AddTimepointAdvances ==
  ASSUME IInv, NEW p \in Timepoint, AddTimepoint(p)
  PROVE  Advances
<1>1. /\ p \notin graph.timepoints /\ UNCHANGED constraints
      /\ graph' = [graph EXCEPT !.timepoints = @ \cup {p}, !.upper = With(@, p, Infinity),
                                !.lower = With(@, p, -Infinity), !.potential = With(@, p, 0)]
  BY DEF AddTimepoint
<1>2. GraphOf(graph, constraints) /\ Kept(graph) /\ DOMAIN constraints \subseteq Link
  BY DEF IInv
<1>3. Follows(graph, graph', constraints)
  BY ONLY <1>1, <1>2, p \in Timepoint, AddedKeeps
<1>4. QED
  BY <1>1, <1>2, <1>3 DEF Advances

LEMMA DeleteTimepointAdvances ==
  ASSUME IInv, NEW p \in Timepoint, NEW marker \in BOOLEAN, DeleteTimepoint(p, marker)
  PROVE  Advances
<1>1. /\ p \in graph.timepoints /\ p # Origin /\ UNCHANGED constraints
      /\ \A c \in DOMAIN constraints : p # constraints[c].head /\ p # constraints[c].foot
      /\ graph' = Deleted(graph, p, marker)
  BY DEF DeleteTimepoint
<1>2. GraphOf(graph, constraints) /\ Kept(graph) /\ DOMAIN constraints \subseteq Link
  BY DEF IInv
<1>3. Follows(graph, graph', constraints)
  BY <1>1, <1>2, DeletedKeeps
<1>4. QED
  BY <1>1, <1>2, <1>3 DEF Advances

LEMMA WithDomain ==
  ASSUME NEW cs, DOMAIN cs \subseteq Link, NEW c \in Link, NEW x
  PROVE  DOMAIN With(cs, c, x) \subseteq Link /\ DOMAIN Without(cs, c) \subseteq Link
BY DEF With, Without

LEMMA AddConstraintAdvances ==
  ASSUME IInv, NEW c \in Link, NEW x \in Shapes, AddTemporalConstraint(c, x)
  PROVE  Advances
<1>1. /\ c \notin DOMAIN constraints /\ x.head \in graph.timepoints /\ x.foot \in graph.timepoints
      /\ constraints' = With(constraints, c, x)
      /\ graph' = IncPropagate([graph EXCEPT !.specs = AddEdges(@, x)], x.head, x.foot)
  BY DEF AddTemporalConstraint
<1>2. GraphOf(graph, constraints) /\ Kept(graph) /\ DOMAIN constraints \subseteq Link
  BY DEF IInv
<1>3. Abstract!IsLink(x)
  BY ClientAssumption
<1>4. Follows(graph, graph', With(constraints, c, x))
  BY <1>1, <1>2, <1>3, AddKeeps
<1>5. QED
  BY <1>1, <1>2, <1>4, WithDomain DEF Advances

LEMMA NarrowAdvances ==
  ASSUME IInv, NEW c \in Link, NEW x \in Shapes, NarrowTemporalConstraint(c, x)
  PROVE  Advances
<1>1. /\ c \in DOMAIN constraints /\ Replaces(constraints, c, x)
      /\ constraints[c].head = x.head /\ constraints[c].foot = x.foot
      /\ constraints' = With(constraints, c, x)
      /\ graph' = IncPropagate([graph EXCEPT !.specs =
                                  RemoveEdges(AddEdges(@, x), constraints[c])], x.head, x.foot)
  BY DEF NarrowTemporalConstraint, Replaces
<1>2. GraphOf(graph, constraints) /\ Kept(graph) /\ DOMAIN constraints \subseteq Link
  BY DEF IInv
<1>3. Abstract!IsLink(x)
  BY ClientAssumption
<1>4. x.head \in graph.timepoints /\ x.foot \in graph.timepoints
  BY <1>1, <1>2 DEF GraphOf, Linked
<1>5. Follows(graph, graph', With(constraints, c, x))
  BY <1>1, <1>2, <1>3, <1>4, NarrowKeeps
<1>6. QED
  BY <1>1, <1>2, <1>5, WithDomain DEF Advances

LEMMA ImpliedRedundant ==
  ASSUME NEW c, Implied(c)
  PROVE  Redundant(graph.timepoints, constraints, c)
<1> DEFINE P == graph.timepoints
           others == {constraints[k] : k \in DOMAIN constraints \ {c}}
           all == {constraints[k] : k \in DOMAIN constraints}
           d == Network!Distances(P, others)
<1>1. Network!Satisfiable(P, d) /\ d = Network!Distances(P, all)
  BY DEF Implied
<1>2. Shapes0(Without(constraints, c)) = others
  <2> DEFINE f == Without(constraints, c)
  <2>1. DOMAIN f = DOMAIN constraints \ {c} /\ \A k \in DOMAIN f : f[k] = constraints[k]
    BY DEF Without
  <2> HIDE DEF f
  <2>2. {f[k] : k \in DOMAIN f} = others
    BY <2>1
  <2>3. QED
    BY <2>2 DEF f, Shapes0
<1>3. Shapes0(constraints) = all
  BY DEF Shapes0
<1> HIDE DEF P, others, all, d
<1>4. Diagonal(P, d)
  BY <1>1 DEF Network!Satisfiable, Diagonal, At
<1>5. QED
  BY <1>1, <1>2, <1>3, <1>4 DEF Redundant, P, d

LEMMA RemoveAdvances ==
  ASSUME IInv, NEW c \in Link, NEW mark \in BOOLEAN, RemoveTemporalConstraint(c, mark)
  PROVE  Advances
<1>1. /\ c \in DOMAIN constraints /\ (mark \/ Implied(c))
      /\ constraints' = Without(constraints, c)
      /\ graph' = RemovedFrom(graph, constraints, c, mark)
  BY Zenon DEF RemoveTemporalConstraint, Removed, RemovedFrom
<1>2. GraphOf(graph, constraints) /\ Kept(graph) /\ DOMAIN constraints \subseteq Link
  BY DEF IInv
<1>3. mark \/ Redundant(graph.timepoints, constraints, c)
  BY <1>1, ImpliedRedundant
<1>4. Follows(graph, graph', Without(constraints, c))
  BY <1>1, <1>2, <1>3, RemoveKeeps
<1>5. QED
  BY <1>1, <1>2, <1>4, WithDomain DEF Advances

LEMMA SearchAdvances ==
  ASSUME IInv, NEW p, NEW q, NEW exact, CalcDistanceBounds(p, q, exact)
  PROVE  Advances
<1> DEFINE g == Propagate(graph)
           R == Reached(Dijkstra(g, p, q), p) \cup Reached(Dijkstra(g, q, p), q)
<1>1. /\ p \in graph.timepoints /\ q \in graph.timepoints /\ UNCHANGED constraints
      /\ graph' = IF g.consistent /\ exact
                  THEN [g EXCEPT !.updated = @ \cup Reached(Dijkstra(g, p, q), p)
                                               \cup Reached(Dijkstra(g, q, p), q)]
                  ELSE g
  BY DEF CalcDistanceBounds
<1>2. Restored(graph, constraints, g)
  BY Asking
<1> HIDE DEF g
<1>3. CASE graph' = g
  BY <1>1, <1>3, Questions DEF g
<1>4. CASE g.consistent /\ graph' = [g EXCEPT !.updated = @ \cup R]
  <2> DEFINE P == g.timepoints
             len == Lengths(g.specs)
  <2>1. /\ GraphOf(g, constraints) /\ Holds(g, len) /\ P = graph.timepoints
    BY <1>2 DEF Restored
  <2>2. IsSchedule(P, len, g.potential) /\ IsGraph(P, len)
    BY <1>4, <2>1, GraphLengths DEF Holds
  <2> HIDE DEF len
  <2>3. Dijkstra(g, p, q) \in Distances0(P) /\ Dijkstra(g, q, p) \in Distances0(P)
    BY <1>1, <2>1, <2>2, DijkstraExact DEF len
  <2>4. ASSUME NEW d \in Distances0(P), NEW s PROVE Reached(d, s) \subseteq P \ {Origin}
    BY DEF Reached, Distances0
  <2>5. R \subseteq P \ {Origin}
    BY <2>3, <2>4
  <2> HIDE DEF R
  <2>6. Follows(graph, graph', constraints)
    BY <1>2, <1>4, <2>5, SearchKeeps
  <2>7. QED
    BY <1>1, <2>6 DEF Advances, IInv
<1>5. [g EXCEPT !.updated = @ \cup Reached(Dijkstra(g, p, q), p) \cup Reached(Dijkstra(g, q, p), q)]
        = [g EXCEPT !.updated = @ \cup R]
  <2> DEFINE a == Reached(Dijkstra(g, p, q), p)
             b == Reached(Dijkstra(g, q, p), q)
  <2> HIDE DEF a, b
  <2>1. [g EXCEPT !.updated = @ \cup a \cup b] = [g EXCEPT !.updated = @ \cup (a \cup b)]
    <3>1. g.updated \cup a \cup b = g.updated \cup (a \cup b)
      OBVIOUS
    <3>2. QED
      BY <3>1, Zenon
  <2>2. QED
    BY <2>1 DEF a, b
<1>6. QED
  BY <1>1, <1>3, <1>4, <1>5

LEMMA ManyAdvances ==
  ASSUME IInv, NEW p, NEW q, CalcManyDistanceBounds(p, q)
  PROVE  Advances
<1> DEFINE g == Propagate(graph)
           h == BoundsFrom(g, p)
<1>1. /\ p \in graph.timepoints /\ UNCHANGED constraints
      /\ g.consistent /\ graph' = BoundsFrom(h, Origin)
  BY DEF CalcManyDistanceBounds
<1>2. Restored(graph, constraints, g) /\ h = BoundsFrom(g, p)
  BY Asking
<1> HIDE DEF g, h
<1>3. g.timepoints = graph.timepoints
  BY <1>2 DEF Restored
<1>4. Follows(graph, graph', constraints)
  BY <1>1, <1>2, <1>3, ManyKeeps
<1>5. QED
  BY <1>1, <1>4 DEF Advances, IInv

LEMMA SignsAdvances ==
  ASSUME IInv, NEW p, NEW targets, NEW q, CalcDistanceSigns(p, targets, q)
  PROVE  Advances
<1>1. graph' = Propagate(graph) /\ UNCHANGED constraints
  BY DEF CalcDistanceSigns
<1>2. QED
  BY <1>1, Questions

LEMMA ResetAdvances ==
  ASSUME IInv, ResetUpdatedTimepoints
  PROVE  Advances
<1>1. /\ graph.consistent /\ graph' = [graph EXCEPT !.updated = {}] /\ UNCHANGED constraints
  BY DEF ResetUpdatedTimepoints
<1>2. GraphOf(graph, constraints) /\ Kept(graph)
  BY DEF IInv
<1>3. Follows(graph, graph', constraints)
  BY <1>1, <1>2, ResetKeeps
<1>4. QED
  BY <1>1, <1>3 DEF Advances, IInv

LEMMA NextAdvances ==
  ASSUME IInv, Next
  PROVE  Advances
<1>1. ASSUME NEW p \in Timepoint, AddTimepoint(p) PROVE Advances
  BY <1>1, AddTimepointAdvances
<1>2. ASSUME NEW p \in Timepoint, GetTimepointBounds(p) PROVE Advances
  BY <1>2, Questions DEF GetTimepointBounds
<1>3. ASSUME NEW p \in Timepoint, NEW marker \in BOOLEAN, DeleteTimepoint(p, marker)
      PROVE  Advances
  BY <1>3, DeleteTimepointAdvances
<1>4. ASSUME NEW p, NEW q, NEW exact, CalcDistanceBounds(p, q, exact) PROVE Advances
  BY <1>4, SearchAdvances
<1>5. ASSUME NEW p, NEW q, CalcManyDistanceBounds(p, q) PROVE Advances
  BY <1>5, ManyAdvances
<1>6. ASSUME NEW p, NEW targets, NEW q, CalcDistanceSigns(p, targets, q) PROVE Advances
  BY <1>6, SignsAdvances
<1>7. ASSUME NEW p, NEW q, NEW bound, AskIsDistanceLessThan(p, q, bound) PROVE Advances
  BY <1>7, Questions DEF AskIsDistanceLessThan
<1>8. ASSUME NEW p, NEW q, NEW bound, AskIsDistancePossiblyLessThan(p, q, bound) PROVE Advances
  BY <1>8, Questions DEF AskIsDistancePossiblyLessThan
<1>9. ASSUME NEW c \in Link, NEW shape \in Shapes, AddTemporalConstraint(c, shape)
      PROVE  Advances
  BY <1>9, AddConstraintAdvances
<1>10. ASSUME NEW c \in Link, NEW shape \in Shapes, NarrowTemporalConstraint(c, shape)
       PROVE  Advances
  BY <1>10, NarrowAdvances
<1>11. ASSUME NEW c \in Link, NEW mark \in BOOLEAN, RemoveTemporalConstraint(c, mark)
       PROVE  Advances
  BY <1>11, RemoveAdvances
<1>12. ASSUME ResetUpdatedTimepoints PROVE Advances
  BY <1>12, ResetAdvances
<1>13. QED
  BY <1>1, <1>2, <1>3, <1>4, <1>5, <1>6, <1>7, <1>8, <1>9, <1>10, <1>11, <1>12 DEF Next

LEMMA StepAdvances ==
  ASSUME IInv, [Next]_vars
  PROVE  IInv' /\ (Next => Noticed(graph, graph'))
<1>1. CASE Next
  BY <1>1, NextAdvances DEF Advances, Follows, IInv
<1>2. CASE UNCHANGED vars
  <2>1. IInv'
    BY <1>2 DEF vars, IInv
  <2>2. Noticed(graph, graph')
    <3>1. \A q \in graph.timepoints : graph.lower[q] \in Int /\ graph.upper[q] \in Int
      BY DEF IInv, GraphOf, Distances0
    <3>2. QED
      BY <1>2, <3>1 DEF vars, Noticed
  <2>3. QED
    BY <2>1, <2>2
<1>3. QED
  BY <1>1, <1>2

LEMMA NewGraphKept ==
  ASSUME NEW g, g = NewGraph, NEW cs, cs = << >>
  PROVE  DOMAIN cs \subseteq Link /\ GraphOf(g, cs) /\ Kept(g)
<1> DEFINE P == {Origin}
           zero == [p \in P |-> 0]
           none == EmptyBag
           len == Lengths(none)
           rev == Reversed(len)
<1>1. /\ DOMAIN g = Fields /\ g.timepoints = P /\ g.specs = none
      /\ g.upper = zero /\ g.lower = zero /\ g.potential = zero
      /\ g.consistent = TRUE /\ g.hasDeletions = FALSE /\ g.updated = {}
  BY DEF NewGraph, Fields
<1>2. DOMAIN cs = {}
  OBVIOUS
<1>3. DOMAIN none = {} /\ IsABag(none) /\ BagToSet(none) = {}
  BY DEF EmptyBag, SetToBag, IsABag, BagToSet
<1> HIDE DEF none
<1>4. DOMAIN len = {}
  BY <1>3 DEF Lengths
<1> HIDE DEF len
<1>5. DOMAIN rev = {}
  BY <1>4 DEF Reversed
<1>6. zero \in [P -> Int] /\ \A p \in P : zero[p] = 0
  OBVIOUS
<1>7. Negated(zero) = zero
  <2>0. zero \in [P -> Int] /\ \A q \in P : zero[q] = 0
    BY <1>6
  <2> HIDE DEF zero, P
  <2>1. Negated(zero) = [q \in P |-> -zero[q]]
    BY <2>0 DEF Negated
  <2>2. \A q \in P : -zero[q] = zero[q]
    BY <2>0
  <2>3. QED
    BY <2>0, <2>1, <2>2
<1> HIDE DEF zero, rev
<1>8. zero \in Distances0(P)
  BY <1>6, InfinityType DEF Distances0
<1>9. Origin \in Timepoint
  BY NetworkAssumption DEF Abstract!ProperNetwork
<1>10. Counted(none, cs) /\ Linked(P, cs)
  <2>1. IsFiniteSet({}) /\ Cardinality({}) = 0
    BY FS_EmptySet
  <2>2. ASSUME NEW e PROVE Copies(none, e) = Cardinality(Holding(cs, e))
    <3>1. Copies(none, e) = 0 /\ Holding(cs, e) = {}
      BY <1>2, <1>3 DEF Copies, Holding
    <3>2. QED
      BY <2>1, <3>1
  <2>3. IsSpecs(none) /\ IsFiniteSet(DOMAIN cs)
    BY <1>2, <1>3, <2>1 DEF IsSpecs
  <2>4. QED
    BY <1>2, <2>2, <2>3 DEF Counted, Linked
<1>11. GraphOf(g, cs)
  <2>1. /\ g.upper \in Distances0(P) /\ g.lower \in [P -> Int] /\ Negated(g.lower) \in Distances0(P)
        /\ g.potential \in [P -> Int] /\ \A q \in P : g.potential[q] <= 0
    BY <1>1, <1>6, <1>7, <1>8
  <2>2. /\ Origin \in P /\ P \subseteq Timepoint /\ g.updated \subseteq P \ {Origin}
        /\ g.consistent \in BOOLEAN /\ g.hasDeletions \in BOOLEAN
    BY <1>1, <1>9
  <2> HIDE DEF P
  <2>3. QED
    BY <1>1, <1>10, <2>1, <2>2 DEF GraphOf
<1>12. IsSchedule(P, len, zero)
  BY <1>4, <1>6 DEF IsSchedule
<1>13. ASSUME NEW l, DOMAIN l = {} PROVE IsDistanceFrom(P, l, Origin, zero)
  <2>1. \A h \in Distances0(P) : h[Origin] <= 0 => Below(P, h, zero)
    BY <1>6 DEF Distances0, Below
  <2>2. \A h : Relaxed(l, h)
    BY <1>13 DEF Relaxed
  <2>3. zero[Origin] <= 0
    BY <1>6
  <2> HIDE DEF P
  <2>4. QED
    BY <1>8, <2>1, <2>2, <2>3 DEF IsDistanceFrom
<1>14. Exact(P, len, Origin, zero, zero)
  BY <1>4, <1>5, <1>7, <1>13 DEF Exact, rev
<1>15. Kept(g)
  BY <1>1, <1>12, <1>14 DEF Kept, Holds, len
<1>16. QED
  BY <1>2, <1>11, <1>15

(* The graph that the code keeps is always the graph of the constraints    *)
(* that are in the network, and unless a deletion is still to be looked at *)
(* its potentials are a schedule and its bounds are distances, or it has   *)
(* no schedule and a time point shows where.                               *)
THEOREM Inductive == Spec => []IInv
<1>1. Init => IInv
  BY NewGraphKept DEF Init, IInv
<1>2. IInv /\ [Next]_vars => IInv'
  BY StepAdvances
<1>3. QED
  BY <1>1, <1>2, PTL DEF Spec

(* The values of the state, among them that the lengths of the edges are   *)
(* finite in number and between nodes of the graph, whatever constraints   *)
(* addTemporalConstraint, narrow and remove are called with.               *)
THEOREM TypeCorrect == Spec => []TypeOK
<1>1. IInv => TypeOK
  <2> SUFFICES ASSUME IInv PROVE TypeOK
    OBVIOUS
  <2> DEFINE P == graph.timepoints
             s == graph.specs
  <2>1. GraphOf(graph, constraints) /\ DOMAIN constraints \subseteq Link
    BY DEF IInv
  <2>2. Counted(s, constraints) /\ Linked(P, constraints)
    BY <2>1 DEF GraphOf
  <2>3. IsABag(s) /\ BagToSet(s) = DOMAIN s
    BY <2>2 DEF Counted, IsSpecs, BagToSet
  <2>4. ASSUME NEW e \in DOMAIN s PROVE e \in P \X P \X Distance
    <3> HIDE DEF P, s
    <3>1. IsLength(P, e)
      BY <2>2, SpecLengths
    <3>2. e = <<e[1], e[2], e[3]>> /\ e[1] \in P /\ e[2] \in P /\ e[3] \in Distance
      BY <3>1 DEF IsLength, Distance
    <3> DEFINE a == e[1]
               b == e[2]
               l == e[3]
    <3>3. e = <<a, b, l>> /\ a \in P /\ b \in P /\ l \in Distance
      BY ONLY <3>2, Zenon
    <3> HIDE DEF a, b, l
    <3>4. QED
      BY ONLY <3>3
  <2>5. DOMAIN s \subseteq P \X P \X Distance
    BY <2>4, Zenon
  <2>6. GraphType
    BY <2>1, <2>3, <2>5 DEF GraphOf, GraphType, Distances0, Distance
  <2>7. \A c \in DOMAIN constraints : Abstract!IsLink(constraints[c])
    BY <2>2 DEF Linked
  <2>8. QED
    BY <2>1, <2>6, <2>7 DEF TypeOK
<1>2. QED
  BY <1>1, Inductive, PTL

(* The potentials are a schedule while the graph is up to date: what       *)
(* incBellmanFord leaves when it does not give up.                         *)
THEOREM PotentialsAreFeasible == Spec => []PotentialsFeasible
<1>1. IInv => PotentialsFeasible
  <2> SUFFICES ASSUME IInv, UpToDate
               PROVE  \A e \in BagToSet(graph.specs) :
                        graph.potential[e[2]] <= graph.potential[e[1]] + e[3]
    BY DEF PotentialsFeasible
  <2> DEFINE P == graph.timepoints
             s == graph.specs
             pot == graph.potential
  <2>1. GraphOf(graph, constraints) /\ Kept(graph) /\ graph.consistent /\ ~graph.hasDeletions
    BY DEF IInv, UpToDate
  <2>2. Counted(s, constraints) /\ Linked(P, constraints) /\ P \subseteq Timepoint
        /\ pot \in [P -> Int]
    BY <2>1 DEF GraphOf
  <2>3. IsSchedule(P, Lengths(s), pot)
    BY <2>1 DEF Kept, Holds
  <2>4. BagToSet(s) = DOMAIN s
    BY DEF BagToSet
  <2> HIDE DEF P, s, pot
  <2>5. \A e \in DOMAIN s : pot[e[2]] <= pot[e[1]] + e[3]
    BY <2>2, <2>3, ScheduleSpecs
  <2>6. QED
    BY <2>4, <2>5 DEF s, pot
<1>2. QED
  BY <1>1, Inductive, PTL

(* An inconsistency leaves a time point that it can be traced from: one of *)
(* those that the propagation went on lowering is not the origin.          *)
THEOREM InconsistencyIsTraceable == Spec => []InconsistencyTraceable
<1>1. IInv => InconsistencyTraceable
  BY DEF IInv, Kept, Holds, Flagged, InconsistencyTraceable
<1>2. QED
  BY <1>1, Inductive, PTL

(* A bound that becomes tighter, by an addition or after deletions, is     *)
(* among the updated ones: what fullPropagate forgets it finds again.      *)
THEOREM TighteningIsNoticed == Spec => TighteningNoticed
<1> DEFINE A == \A p \in (graph.timepoints \cap graph'.timepoints) \ {Origin} :
                  graph.lower[p] < graph'.lower[p] \/ graph'.upper[p] < graph.upper[p]
                    => p \in graph'.updated
<1>1. IInv /\ [Next]_vars => [A]_vars
  BY StepAdvances DEF Noticed
<1>2. Spec => [][A]_vars
  <2> HIDE DEF A
  <2>1. QED
    BY <1>1, Inductive, PTL DEF Spec
<1>3. QED
  BY <1>2 DEF TighteningNoticed
-----------------------------------------------------------------------------
(***************************************************************************)
(* 12. The answers are true.                                               *)
(***************************************************************************)
LEMMA ScheduleBelow ==
  ASSUME NEW P, NEW len, IsGraph(P, len), NEW g, IsSchedule(P, len, g), NEW x \in P,
         NEW D, IsDistanceFrom(P, len, x, D), NEW y \in P
  PROVE  D[y] \in Int /\ (D[y] < Infinity => g[y] - g[x] <= D[y])
<1> DEFINE of(z) == IF g[z] - g[x] <= Infinity THEN g[z] - g[x] ELSE Infinity
           h == [z \in P |-> of(z)]
<1>1. g \in [P -> Int] /\ \A e \in DOMAIN len : g[e[2]] <= g[e[1]] + len[e]
  BY DEF IsSchedule
<1>2. \A z \in P : /\ h[z] \in Int /\ h[z] <= Infinity /\ h[z] <= g[z] - g[x]
                   /\ g[z] \in Int
                   /\ h[z] < Infinity => h[z] = g[z] - g[x]
  BY <1>1, InfinityType
<1>3. h \in [P -> Int]
  BY <1>1, InfinityType
<1> HIDE DEF h
<1>4. h \in Distances0(P) /\ h[x] <= 0
  BY <1>2, <1>3 DEF Distances0
<1>5. Relaxed(len, h)
  <2>1. ASSUME NEW e \in DOMAIN len, h[e[1]] < Infinity PROVE h[e[2]] <= h[e[1]] + len[e]
    <3>1. e[1] \in P /\ e[2] \in P /\ len[e] \in Int
      BY GraphParts
    <3>2. g[e[2]] <= g[e[1]] + len[e] /\ h[e[2]] <= g[e[2]] - g[x] /\ h[e[1]] = g[e[1]] - g[x]
          /\ g[e[1]] \in Int /\ g[e[2]] \in Int /\ g[x] \in Int /\ h[e[2]] \in Int
      BY <1>1, <1>2, <2>1, <3>1
    <3>3. QED
      BY <3>1, <3>2
  <2>2. QED
    BY <2>1 DEF Relaxed
<1>6. h[y] <= D[y] /\ D[y] \in Int
  BY <1>4, <1>5 DEF IsDistanceFrom, Below, Distances0
<1>7. QED
  BY <1>2, <1>6, InfinityType

(* What is reached from v is reached from x, and by way of v.              *)
LEMMA Triangle ==
  ASSUME NEW P, NEW len, NEW m, IsGraph(P, len), Small(P, len, m), HasSchedule(P, len),
         NEW x \in P, NEW v \in P, NEW D, IsDistanceFrom(P, len, x, D),
         NEW E, IsDistanceFrom(P, len, v, E), D[v] < Infinity, NEW y \in P, E[y] < Infinity
  PROVE  D[y] < Infinity /\ D[y] <= D[v] + E[y]
<1> DEFINE of(z) == IF D[z] < Infinity /\ D[z] - D[v] <= Infinity THEN D[z] - D[v] ELSE Infinity
           h == [z \in P |-> of(z)]
<1>1. /\ Closed(len, D) /\ D \in [P -> Int]
      /\ \A e \in DOMAIN len : D[e[1]] < Infinity => D[e[2]] <= D[e[1]] + len[e]
  BY DistanceClosed
<1>2. \A z \in P : /\ h[z] \in Int /\ h[z] <= Infinity /\ D[z] \in Int
                   /\ D[z] < Infinity => h[z] <= D[z] - D[v]
                   /\ h[z] < Infinity => D[z] < Infinity /\ h[z] = D[z] - D[v]
  BY <1>1, InfinityType
<1>3. h \in [P -> Int]
  BY <1>1, InfinityType
<1> HIDE DEF h
<1>4. h \in Distances0(P) /\ h[v] <= 0
  BY <1>2, <1>3 DEF Distances0
<1>5. Relaxed(len, h)
  <2>1. ASSUME NEW e \in DOMAIN len, h[e[1]] < Infinity PROVE h[e[2]] <= h[e[1]] + len[e]
    <3>1. e[1] \in P /\ e[2] \in P /\ len[e] \in Int
      BY GraphParts
    <3>2. D[e[1]] < Infinity /\ h[e[1]] = D[e[1]] - D[v]
      BY <1>2, <2>1, <3>1
    <3>3. D[e[2]] < Infinity /\ D[e[2]] <= D[e[1]] + len[e]
      BY <1>1, <3>2 DEF Closed
    <3>4. /\ h[e[2]] <= D[e[2]] - D[v] /\ h[e[2]] \in Int
          /\ D[e[1]] \in Int /\ D[e[2]] \in Int /\ D[v] \in Int
      BY <1>2, <3>1, <3>3
    <3>5. QED
      BY <3>1, <3>2, <3>3, <3>4
  <2>2. QED
    BY <2>1 DEF Relaxed
<1>6. h[y] <= E[y] /\ E[y] \in Int
  BY <1>4, <1>5 DEF IsDistanceFrom, Below, Distances0
<1>7. h[y] < Infinity
  BY <1>2, <1>6, InfinityType
<1>8. QED
  BY <1>2, <1>6, <1>7

(* The truth of SimpleTemporalNetwork, in terms of the graph.              *)
RowsTrue(P, len, d) ==
  \A x \in P :
    /\ IsDistanceFrom(P, len, x, Row(P, d, x))
    /\ \A D : IsDistanceFrom(P, len, x, D) => \A y \in P : At(d, x, y) = D[y]
    /\ \A D : IsDistanceFrom(P, Reversed(len), x, D) => \A y \in P : At(d, y, x) = D[y]

LEMMA TrueDistances ==
  ASSUME NEW P, P # {}, P \subseteq Timepoint, NEW s, NEW cs, Counted(s, cs), Linked(P, cs),
         NEW d, d = Network!Distances(P, Shapes0(cs))
  PROVE  /\ Diagonal(P, d) <=> HasSchedule(P, Lengths(s))
         /\ HasSchedule(P, Lengths(s)) => RowsTrue(P, Lengths(s), d)
<1> DEFINE len == Lengths(s)
           rev == Reversed(len)
<1>1. MatrixCorrect(P, len, d)
  BY GraphMatrix
<1> HIDE DEF len, rev
<1>2. IsMatrix(P, d) /\ (Diagonal(P, d) <=> HasSchedule(P, len))
  BY <1>1 DEF MatrixCorrect
<1>3. ASSUME HasSchedule(P, len), NEW x \in P
      PROVE  /\ IsDistanceFrom(P, len, x, Row(P, d, x))
             /\ IsDistanceFrom(P, rev, x, Row(P, Transposed(P, d), x))
  BY <1>1, <1>2, <1>3 DEF MatrixCorrect, rev
<1>4. ASSUME HasSchedule(P, len), NEW x \in P, NEW D, IsDistanceFrom(P, len, x, D), NEW y \in P
      PROVE  At(d, x, y) = D[y]
  <2>1. IsDistanceFrom(P, len, x, Row(P, d, x))
    BY <1>3, <1>4
  <2> DEFINE f == Row(P, d, x)
  <2>2. f[y] = At(d, x, y)
    BY <1>2, MatrixAt
  <2>3. IsDistanceFrom(P, len, x, f)
    BY <2>1
  <2> HIDE DEF f
  <2>4. f = D
    BY <1>4, <2>3, DistanceUnique
  <2>5. QED
    BY <2>2, <2>4
<1>5. ASSUME HasSchedule(P, len), NEW x \in P, NEW D, IsDistanceFrom(P, rev, x, D), NEW y \in P
      PROVE  At(d, y, x) = D[y]
  <2>1. IsDistanceFrom(P, rev, x, Row(P, Transposed(P, d), x))
    BY <1>3, <1>5
  <2> DEFINE t == Transposed(P, d)
             f == Row(P, t, x)
  <2>2. IsMatrix(P, t) /\ At(t, x, y) = At(d, y, x)
    BY <1>2, TransposedParts
  <2>3. IsDistanceFrom(P, rev, x, f)
    BY <2>1
  <2> HIDE DEF t
  <2>4. f[y] = At(t, x, y)
    BY <2>2, MatrixAt
  <2> HIDE DEF f
  <2>5. f = D
    BY <1>5, <2>3, DistanceUnique
  <2>6. QED
    BY <2>2, <2>4, <2>5
<1>6. QED
  BY <1>2, <1>3, <1>4, <1>5 DEF RowsTrue, len, rev

(* A graph that is up to date and consistent, and the true distances d.    *)
Ready(f, cs, d) ==
  /\ GraphOf(f, cs) /\ Holds(f, Lengths(f.specs)) /\ f.consistent
  /\ d = Network!Distances(f.timepoints, Shapes0(cs))

LEMMA ReadyParts ==
  ASSUME NEW f, NEW cs, NEW d, Ready(f, cs, d), NEW P, P = f.timepoints,
         NEW len, len = Lengths(f.specs)
  PROVE  /\ IsGraph(P, len) /\ IsGraph(P, Reversed(len)) /\ \E m \in Nat : Small(P, len, m)
         /\ IsSchedule(P, len, f.potential) /\ f.potential \in [P -> Int]
         /\ HasSchedule(P, len) /\ HasSchedule(P, Reversed(len))
         /\ Exact(P, len, Origin, f.upper, f.lower) /\ f.lower \in [P -> Int]
         /\ Origin \in P /\ Diagonal(P, d)
<1>1. GraphOf(f, cs) /\ Holds(f, len) /\ f.consistent
  BY DEF Ready
<1>2. /\ Counted(f.specs, cs) /\ Linked(P, cs) /\ P # {} /\ P \subseteq Timepoint
      /\ Origin \in P /\ f.lower \in [P -> Int]
  BY <1>1 DEF GraphOf
<1>3. IsGraph(P, len) /\ IsGraph(P, Reversed(len)) /\ \E m \in Nat : Small(P, len, m)
  BY <1>1, GraphLengths
<1>4. IsSchedule(P, len, f.potential) /\ Exact(P, len, Origin, f.upper, f.lower)
  BY <1>1 DEF Holds
<1>5. f.potential \in [P -> Int] /\ HasSchedule(P, len)
  BY <1>4 DEF IsSchedule, HasSchedule
<1>6. HasSchedule(P, Reversed(len))
  BY <1>3, <1>5, ReversedGraph
<1>7. Diagonal(P, d)
  <2>1. d = Network!Distances(P, Shapes0(cs))
    BY DEF Ready
  <2>2. Diagonal(P, d) <=> HasSchedule(P, Lengths(f.specs))
    BY ONLY <1>2, <2>1, TrueDistances
  <2>3. QED
    BY <1>5, <2>2
<1>8. QED
  BY <1>2, <1>3, <1>4, <1>5, <1>6, <1>7

LEMMA ReadyRows ==
  ASSUME NEW f, NEW cs, NEW d, Ready(f, cs, d)
  PROVE  RowsTrue(f.timepoints, Lengths(f.specs), d)
<1> DEFINE P == f.timepoints
<1>1. /\ Counted(f.specs, cs) /\ Linked(P, cs) /\ P # {} /\ P \subseteq Timepoint
      /\ d = Network!Distances(P, Shapes0(cs))
  BY DEF GraphOf, Ready
<1>2. HasSchedule(P, Lengths(f.specs))
  BY ReadyParts
<1>3. QED
  BY ONLY <1>1, <1>2, TrueDistances

LEMMA ReadyDistances ==
  ASSUME NEW f, NEW cs, NEW d, Ready(f, cs, d), NEW P, P = f.timepoints,
         NEW len, len = Lengths(f.specs), NEW x \in P
  PROVE  /\ IsDistanceFrom(P, len, x, Row(P, d, x)) /\ \A y \in P : Row(P, d, x)[y] = At(d, x, y)
         /\ \A D : IsDistanceFrom(P, len, x, D) => \A y \in P : At(d, x, y) = D[y]
         /\ \A D : IsDistanceFrom(P, Reversed(len), x, D) => \A y \in P : At(d, y, x) = D[y]
         /\ \A y \in P : At(d, x, y) \in Int /\ At(d, x, y) <= Infinity
<1>1. /\ IsDistanceFrom(P, len, x, Row(P, d, x))
      /\ \A D : IsDistanceFrom(P, len, x, D) => \A y \in P : At(d, x, y) = D[y]
      /\ \A D : IsDistanceFrom(P, Reversed(len), x, D) => \A y \in P : At(d, y, x) = D[y]
  BY ReadyRows DEF RowsTrue
<1>2. \A y \in P : Row(P, d, x)[y] = At(d, x, y)
  BY DEF Row
<1>3. ASSUME NEW y \in P PROVE At(d, x, y) \in Int /\ At(d, x, y) <= Infinity
  <2> DEFINE r == Row(P, d, x)
  <2>1. r \in Distances0(P) /\ r[y] = At(d, x, y)
    BY <1>1, <1>2 DEF IsDistanceFrom
  <2> HIDE DEF r
  <2>2. QED
    BY <2>1 DEF Distances0
<1>4. QED
  BY <1>1, <1>2, <1>3

(* What getTimepointBounds and calcDistanceBounds of several read off.     *)
LEMMA ExactTrue ==
  ASSUME NEW f, NEW cs, NEW d, Ready(f, cs, d), NEW p \in f.timepoints, NEW q \in f.timepoints,
         NEW u, NEW l \in [f.timepoints -> Int], Exact(f.timepoints, Lengths(f.specs), p, u, l)
  PROVE  u[q] = At(d, p, q) /\ l[q] = -At(d, q, p)
<1> DEFINE P == f.timepoints
           len == Lengths(f.specs)
           n == Negated(l)
<1>1. IsDistanceFrom(P, len, p, u) /\ IsDistanceFrom(P, Reversed(len), p, n)
  BY DEF Exact
<1>2. n[q] = -l[q] /\ l[q] \in Int
  BY NegatedParts
<1>3. At(d, p, q) = u[q] /\ At(d, q, p) = n[q]
  <2>1. RowsTrue(P, len, d)
    BY ReadyRows
  <2> HIDE DEF P, len, n
  <2>2. p \in P /\ q \in P
    BY DEF P
  <2>3. QED
    BY <1>1, <2>1, <2>2 DEF RowsTrue
<1> HIDE DEF n
<1>4. QED
  BY <1>2, <1>3

LEMMA SearchTrue ==
  ASSUME NEW f, NEW cs, NEW d, Ready(f, cs, d), NEW p \in f.timepoints, NEW q \in f.timepoints
  PROVE  Dijkstra(f, p, q)[q] = At(d, p, q)
<1> DEFINE P == f.timepoints
           len == Lengths(f.specs)
           r == Row(P, d, p)
           D == Dijkstra(f, p, q)
<1>1. IsDistanceFrom(P, len, p, r) /\ r[q] = At(d, p, q)
  BY ReadyDistances
<1>2. IsGraph(P, len) /\ IsSchedule(P, len, f.potential)
  BY ReadyParts
<1> HIDE DEF r, D
<1>3. D[q] = r[q]
  BY <1>1, <1>2, DijkstraExact DEF D
<1>4. QED
  BY <1>1, <1>3 DEF D

(* An edge is no shorter than the distance.                                *)
EdgeOf(len, x, y) == IF <<x, y>> \in DOMAIN len THEN len[<<x, y>>] ELSE Infinity

LEMMA EdgeOuter ==
  ASSUME NEW f, NEW cs, NEW d, Ready(f, cs, d), NEW p \in f.timepoints, NEW q \in f.timepoints
  PROVE  /\ EdgeOf(Lengths(f.specs), p, q) \in Int
         /\ At(d, p, q) <= EdgeOf(Lengths(f.specs), p, q)
<1> DEFINE P == f.timepoints
           len == Lengths(f.specs)
           r == Row(P, d, p)
           e == <<p, q>>
<1>1. IsDistanceFrom(P, len, p, r) /\ r[q] = At(d, p, q) /\ At(d, p, q) <= Infinity
  BY ReadyDistances
<1>2. IsGraph(P, len)
  BY ReadyParts
<1>3. e[1] = p /\ e[2] = q
  OBVIOUS
<1> HIDE DEF P, len, r, e
<1>4. CASE e \in DOMAIN len
  <2>1. len[e] \in Int
    BY <1>2, <1>4, GraphParts
  <2>2. r[p] <= 0 /\ r \in [P -> Int] /\ (r[p] < Infinity => r[q] <= r[p] + len[e])
    BY <1>1, <1>3, <1>4 DEF IsDistanceFrom, Relaxed, Distances0
  <2>3. r[q] <= len[e]
    BY <2>1, <2>2, InfinityType DEF P
  <2>4. QED
    BY <1>1, <1>4, <2>1, <2>3 DEF EdgeOf, e, len
<1>5. CASE e \notin DOMAIN len
  BY <1>1, <1>5, InfinityType DEF EdgeOf, e, len
<1>6. QED
  BY <1>4, <1>5

(* No two distances, there and back, are negative together.                *)
LEMMA ThereAndBack ==
  ASSUME NEW f, NEW cs, NEW d, Ready(f, cs, d), NEW p \in f.timepoints, NEW q \in f.timepoints
  PROVE  At(d, p, q) < Infinity /\ At(d, q, p) < Infinity => At(d, p, q) + At(d, q, p) >= 0
<1> DEFINE P == f.timepoints
           len == Lengths(f.specs)
           pot == f.potential
           a == At(d, p, q)
           b == At(d, q, p)
<1>1. IsGraph(P, len) /\ IsSchedule(P, len, pot) /\ pot \in [P -> Int]
  BY ReadyParts
<1>2. /\ IsDistanceFrom(P, len, p, Row(P, d, p)) /\ Row(P, d, p)[q] = a
      /\ IsDistanceFrom(P, len, q, Row(P, d, q)) /\ Row(P, d, q)[p] = b
      /\ a \in Int /\ b \in Int /\ a <= Infinity /\ b <= Infinity
  BY ReadyDistances
<1> HIDE DEF len, pot, a, b
<1>3. a < Infinity => pot[q] - pot[p] <= a
  BY <1>1, <1>2, ScheduleBelow
<1>4. b < Infinity => pot[p] - pot[q] <= b
  BY <1>1, <1>2, ScheduleBelow
<1>5. pot[p] \in Int /\ pot[q] \in Int
  BY <1>1
<1>6. a < Infinity /\ b < Infinity => a + b >= 0
  BY <1>2, <1>3, <1>4, <1>5
<1>7. QED
  BY <1>6 DEF a, b

(* isDistanceLessThan: yes is to be relied on.                             *)
LEMMA LessTrue ==
  ASSUME NEW f, NEW cs, NEW d, Ready(f, cs, d), NEW p \in f.timepoints, NEW q \in f.timepoints,
         NEW bound \in Int, NEW n \in Nat, NEW order, DOMAIN order = 1 .. n,
         IsDistanceLessThan(f, p, q, bound, order)
  PROVE  At(d, p, q) < bound
<1> DEFINE P == f.timepoints
           len == Lengths(f.specs)
           r == Row(P, d, p)
<1>1. IsDistanceFrom(P, len, p, r) /\ r[q] = At(d, p, q)
  BY ReadyDistances
<1>2. /\ f.potential \in [P -> Int] /\ IsGraph(P, len) /\ HasSchedule(P, len)
      /\ \E m \in Nat : Small(P, len, m)
  BY ReadyParts
<1>3. PICK m \in Nat : Small(P, len, m)
  BY <1>2
<1> HIDE DEF r
<1>4. r[q] < bound
  BY <1>1, <1>2, <1>3, LessSound
<1>5. QED
  BY <1>1, <1>4

(* isDistancePossiblyLessThan: no is.  The potentials are a schedule, and  *)
(* what is near to the origin is near to it by way of dest.                *)
LEMMA PossiblyTrue ==
  ASSUME NEW f, NEW cs, NEW d, Ready(f, cs, d), NEW src \in f.timepoints,
         NEW dest \in f.timepoints, NEW bound \in Int, bound < Infinity,
         ~IsDistancePossiblyLessThan(f, src, dest, bound)
  PROVE  At(d, src, dest) >= bound
<1> DEFINE P == f.timepoints
           len == Lengths(f.specs)
           pot == f.potential
           a == At(d, src, dest)
<1>1. /\ IsGraph(P, len) /\ IsSchedule(P, len, pot) /\ pot \in [P -> Int]
      /\ HasSchedule(P, len) /\ \E m \in Nat : Small(P, len, m)
      /\ Exact(P, len, Origin, f.upper, f.lower) /\ f.lower \in [P -> Int] /\ Origin \in P
  BY ReadyParts
<1>2. /\ IsDistanceFrom(P, len, src, Row(P, d, src)) /\ Row(P, d, src)[dest] = a
      /\ Row(P, d, src)[Origin] = At(d, src, Origin)
      /\ IsDistanceFrom(P, len, dest, Row(P, d, dest))
      /\ Row(P, d, dest)[Origin] = At(d, dest, Origin)
      /\ a \in Int /\ a <= Infinity /\ At(d, src, Origin) \in Int /\ At(d, dest, Origin) \in Int
      /\ At(d, src, Origin) <= Infinity
  BY <1>1, ReadyDistances
<1>3. f.lower[src] = -At(d, src, Origin) /\ f.lower[dest] = -At(d, dest, Origin)
  BY <1>1, ExactTrue
<1>4. \/ pot[dest] >= pot[src] + bound
      \/ /\ f.lower[dest] > -Infinity
         /\ \/ ~(f.lower[src] > -Infinity)
            \/ f.lower[dest] >= f.lower[src] + bound
  <2>1. /\ pot[dest] \in Int /\ pot[src] \in Int /\ f.lower[dest] \in Int /\ f.lower[src] \in Int
    BY <1>1
  <2>2. QED
    BY <2>1 DEF IsDistancePossiblyLessThan
<1>5. CASE pot[dest] >= pot[src] + bound
  <2> HIDE DEF len, pot, a
  <2>1. a < Infinity => pot[dest] - pot[src] <= a
    BY <1>1, <1>2, ScheduleBelow
  <2>2. pot[dest] \in Int /\ pot[src] \in Int
    BY <1>1
  <2>3. a >= bound
    BY <1>2, <1>5, <2>1, <2>2, InfinityType
  <2>4. QED
    BY <2>3 DEF a
<1>6. CASE /\ f.lower[dest] > -Infinity
           /\ \/ ~(f.lower[src] > -Infinity)
              \/ f.lower[dest] >= f.lower[src] + bound
  <2> DEFINE D == Row(P, d, src)
             E == Row(P, d, dest)
             b == At(d, src, Origin)
             c == At(d, dest, Origin)
  <2>1. PICK m \in Nat : Small(P, len, m)
    BY <1>1
  <2>2. /\ IsDistanceFrom(P, len, src, D) /\ D[dest] = a /\ D[Origin] = b
        /\ IsDistanceFrom(P, len, dest, E) /\ E[Origin] = c
        /\ a \in Int /\ b \in Int /\ c \in Int /\ a <= Infinity /\ b <= Infinity
    BY <1>2
  <2>3. /\ -c > -Infinity
        /\ ~(-b > -Infinity) \/ -c >= -b + bound
    BY <1>3, <1>6
  <2> HIDE DEF len, a, b, c, D, E
  <2>4. c < Infinity
    BY <2>2, <2>3, InfinityType
  <2>5. a < Infinity => b < Infinity /\ b <= a + c
    BY <1>1, <2>1, <2>2, <2>4, Triangle
  <2>6. a >= bound
    BY <2>2, <2>3, <2>5, InfinityType
  <2>7. QED
    BY <2>6 DEF a
<1>7. QED
  BY <1>4, <1>5, <1>6

(* calcDistanceSigns: exact where it is not positive.                      *)
Sign(said, exact) == said \in Int /\ IF exact <= 0 THEN said = exact ELSE said > 0

LEMMA SignsOneWay ==
  ASSUME NEW P, NEW len, IsGraph(P, len), HasSchedule(P, len), NEW p \in P, NEW q \in P,
         NEW toGo, Guides(P, len, toGo), toGo[q] <= 0, NEW D, IsDistanceFrom(P, len, p, D)
  PROVE  Sign(BoundedDijkstra(len, P, p, 1, toGo)[q], D[q])
<1> DEFINE b == BoundedDijkstra(len, P, p, 1, toGo)
<1>1. b = BoundedDijkstra(len, P, p, 1, toGo)
  OBVIOUS
<1> HIDE DEF b
<1>2. /\ b[q] \in Int /\ D[q] \in Int /\ D[q] <= b[q]
      /\ D[q] < 1 - toGo[q] => b[q] = D[q]
  BY <1>1, BoundedExact
<1>3. toGo[q] \in Int
  BY DEF Guides
<1>4. Sign(b[q], D[q])
  BY <1>2, <1>3 DEF Sign
<1>5. QED
  BY <1>1, <1>4

LEMMA SignsTrue ==
  ASSUME NEW f, NEW cs, NEW d, Ready(f, cs, d), NEW p \in f.timepoints, NEW targets,
         targets \subseteq f.timepoints, NEW q \in targets,
         NEW lowest, lowest = Min({f.potential[t] : t \in targets}),
         NEW highest, highest = Max({f.potential[t] : t \in targets})
  PROVE  /\ Sign(BoundedDijkstra(Lengths(f.specs), f.timepoints, p, 1,
                                 [t \in f.timepoints |-> lowest - f.potential[t]])[q],
                 At(d, p, q))
         /\ Sign(BoundedDijkstra(Reversed(Lengths(f.specs)), f.timepoints, p, 1,
                                 [t \in f.timepoints |-> f.potential[t] - highest])[q],
                 At(d, q, p))
<1> DEFINE P == f.timepoints
           len == Lengths(f.specs)
           rev == Reversed(len)
           pot == f.potential
           V == {pot[t] : t \in targets}
           ahead == [t \in P |-> lowest - pot[t]]
           behind == [t \in P |-> pot[t] - highest]
           there == BoundedDijkstra(len, P, p, 1, ahead)[q]
           back == BoundedDijkstra(rev, P, p, 1, behind)[q]
<1>1. /\ IsGraph(P, len) /\ IsGraph(P, rev) /\ HasSchedule(P, len) /\ HasSchedule(P, rev)
      /\ IsSchedule(P, len, pot) /\ pot \in [P -> Int]
      /\ Exact(P, len, Origin, f.upper, f.lower)
  BY ReadyParts
<1>2. lowest \in Int /\ highest \in Int /\ lowest <= pot[q] /\ pot[q] <= highest
  <2>1. IsFiniteSet(targets)
    BY <1>1, FS_Subset DEF IsGraph
  <2>2. IsFiniteSet(V) /\ pot[q] \in V /\ \A x \in V : x \in Int
    <3>1. IsFiniteSet(V)
      BY <2>1, ValuesFinite
    <3>2. \A t \in targets : t \in P
      OBVIOUS
    <3>3. QED
      BY <1>1, <3>1, <3>2
  <2>3. lowest = Min(V) /\ highest = Max(V)
    OBVIOUS
  <2> HIDE DEF V, pot
  <2>4. Min(V) \in V /\ Min(V) <= pot[q]
    BY <2>2, LeastOf
  <2>5. Max(V) \in V /\ pot[q] <= Max(V)
    BY <2>2, GreatestOf
  <2>6. QED
    BY <2>2, <2>3, <2>4, <2>5
<1>3. q \in P
  OBVIOUS
<1>4. Guides(P, len, ahead) /\ ahead[q] <= 0
  <2>1. ahead \in [P -> Int] /\ ahead[q] = lowest - pot[q] /\ pot[q] \in Int
    BY <1>1, <1>2, <1>3
  <2>2. ASSUME NEW e \in DOMAIN len PROVE ahead[e[1]] <= ahead[e[2]] + len[e]
    <3>1. e[1] \in P /\ e[2] \in P /\ len[e] \in Int
      BY <1>1, GraphParts
    <3>2. pot[e[2]] <= pot[e[1]] + len[e]
      BY <1>1 DEF IsSchedule
    <3>3. ahead[e[1]] = lowest - pot[e[1]] /\ ahead[e[2]] = lowest - pot[e[2]]
      BY <3>1
    <3>4. pot[e[1]] \in Int /\ pot[e[2]] \in Int
      BY <1>1, <3>1
    <3> HIDE DEF ahead, len, pot
    <3>5. QED
      BY <1>2, <3>1, <3>2, <3>3, <3>4
  <2> HIDE DEF ahead, len, pot
  <2>3. QED
    BY <1>2, <2>1, <2>2 DEF Guides
<1>5. Guides(P, rev, behind) /\ behind[q] <= 0
  <2>1. behind \in [P -> Int] /\ behind[q] = pot[q] - highest /\ pot[q] \in Int
    BY <1>1, <1>2, <1>3
  <2>2. ASSUME NEW e \in DOMAIN rev PROVE behind[e[1]] <= behind[e[2]] + rev[e]
    <3> DEFINE g == <<e[2], e[1]>>
    <3>1. g \in DOMAIN len /\ rev[e] = len[g] /\ e[1] \in P /\ e[2] \in P /\ len[g] \in Int
      BY <1>1, ReversedParts, GraphParts
    <3>2. pot[e[1]] <= pot[e[2]] + len[g]
      BY <1>1, <3>1 DEF IsSchedule
    <3>3. behind[e[1]] = pot[e[1]] - highest /\ behind[e[2]] = pot[e[2]] - highest
      BY <3>1
    <3>4. pot[e[1]] \in Int /\ pot[e[2]] \in Int
      BY <1>1, <3>1
    <3> HIDE DEF behind, len, rev, pot, g
    <3>5. QED
      BY <1>2, <3>1, <3>2, <3>3, <3>4
  <2> HIDE DEF behind, rev, pot
  <2>3. QED
    BY <1>2, <2>1, <2>2 DEF Guides
<1>6. Sign(there, At(d, p, q))
  <2> DEFINE r == Row(P, d, p)
  <2>1. IsDistanceFrom(P, len, p, r) /\ r[q] = At(d, p, q)
    BY <1>3, ReadyDistances
  <2> HIDE DEF r, ahead, len
  <2>2. Sign(BoundedDijkstra(len, P, p, 1, ahead)[q], r[q])
    BY <1>1, <1>3, <1>4, <2>1, SignsOneWay
  <2>3. QED
    BY <2>1, <2>2
<1>7. Sign(back, At(d, q, p))
  <2>1. PICK D : IsDistanceFrom(P, rev, p, D) /\ D[q] = At(d, q, p)
    <3>1. \E m \in Nat : Small(P, rev, m)
      BY GraphLengths DEF Ready
    <3>2. PICK m \in Nat : Small(P, rev, m)
      BY <3>1
    <3> DEFINE D == Propagated(rev, From(p, P)).d
    <3> HIDE DEF rev
    <3>3. IsDistanceFrom(P, rev, p, D)
      BY <1>1, <3>2, FromArrives
    <3> HIDE DEF D
    <3>4. D[q] = At(d, q, p)
      <4>1. RowsTrue(P, len, d)
        BY ReadyRows
      <4> HIDE DEF P, len
      <4>2. p \in P
        BY DEF P
      <4>3. QED
        BY <1>3, <3>3, <4>1, <4>2 DEF RowsTrue, rev
    <3>5. QED
      BY <3>3, <3>4
  <2> HIDE DEF behind, rev
  <2>2. Sign(BoundedDijkstra(rev, P, p, 1, behind)[q], D[q])
    BY <1>1, <1>3, <1>5, <2>1, SignsOneWay
  <2>3. QED
    BY <2>1, <2>2
<1>8. QED
  BY <1>6, <1>7

-----------------------------------------------------------------------------
(* The steps of SimpleTemporalNetwork.                                     *)
LEMMA SatisfiableDiagonal ==
  ASSUME NEW P, NEW d
  PROVE  Network!Satisfiable(P, d) <=> Diagonal(P, d)
BY DEF Network!Satisfiable, Diagonal, At

LEMMA TruthOfGraph ==
  Network!Truth = Network!Distances(graph.timepoints, Shapes0(constraints))
BY DEF Network!Truth, Network!Current, Shapes0, timepoints

(* After propagate(): the graph is ready to be asked, or there is no       *)
(* schedule.                                                               *)
LEMMA Propagated0 ==
  ASSUME IInv, NEW g, g = Propagate(graph)
  PROVE  /\ g.timepoints = graph.timepoints /\ g.consistent \in BOOLEAN
         /\ g.consistent => Ready(g, constraints, Network!Truth)
         /\ g.consistent <=> Diagonal(graph.timepoints, Network!Truth)
<1> DEFINE d == Network!Truth
<1>1. Restored(graph, constraints, g)
  BY Asking
<1>2. /\ GraphOf(g, constraints) /\ Holds(g, Lengths(g.specs))
      /\ g.timepoints = graph.timepoints /\ g.consistent \in BOOLEAN
  BY <1>1 DEF Restored, GraphOf
<1>3. d = Network!Distances(g.timepoints, Shapes0(constraints))
  BY <1>2, TruthOfGraph
<1> HIDE DEF d
<1>4. ASSUME g.consistent PROVE Ready(g, constraints, d)
  BY <1>2, <1>3, <1>4 DEF Ready
<1>5. ASSUME g.consistent PROVE Diagonal(g.timepoints, d)
  BY <1>4, <1>5, ReadyParts
<1>6. ASSUME ~g.consistent PROVE ~Diagonal(g.timepoints, d)
  <2>1. ~HasSchedule(g.timepoints, Lengths(g.specs))
    BY <1>2, <1>6 DEF Holds, Flagged
  <2>2. /\ Counted(g.specs, constraints) /\ Linked(g.timepoints, constraints)
        /\ g.timepoints # {} /\ g.timepoints \subseteq Timepoint
    BY <1>2 DEF GraphOf
  <2>3. Diagonal(g.timepoints, d) <=> HasSchedule(g.timepoints, Lengths(g.specs))
    BY <1>3, <2>2, TrueDistances
  <2>4. QED
    BY <2>1, <2>3
<1>7. QED
  BY <1>2, <1>4, <1>5, <1>6 DEF d

LEMMA TrueBoundsAre ==
  ASSUME NEW d, NEW p, NEW q
  PROVE  /\ Diagonal(graph.timepoints, d)
              => Network!TrueBounds(d, p, q) = <<-At(d, q, p), At(d, p, q)>>
         /\ ~Diagonal(graph.timepoints, d)
              => Network!TrueBounds(d, p, q) = Network!Inconsistent
BY SatisfiableDiagonal DEF Network!TrueBounds, At, timepoints

LEMMA BoundsStep ==
  ASSUME IInv, NEW p \in graph.timepoints, NEW q \in graph.timepoints,
         UNCHANGED constraints, graph'.timepoints = graph.timepoints, NEW b,
         reply' = [answer |-> "bounds", of |-> <<p, q>>, bounds |-> b],
         b = Network!TrueBounds(Network!Truth, p, q)
  PROVE  Network!AskBounds
<1>1. /\ reply'.answer = "bounds" /\ reply'.of = <<p, q>>
      /\ reply'.bounds = Network!TrueBounds(Network!Truth, p, q)
  OBVIOUS
<1>2. reply'.of[1] = p /\ reply'.of[2] = q /\ reply'.of \in timepoints \X timepoints
  BY <1>1 DEF timepoints
<1>3. Network!Replies("bounds")
  BY <1>1, <1>2 DEF Network!Replies, timepoints
<1>4. QED
  BY <1>1, <1>2, <1>3 DEF Network!AskBounds

LEMMA TimepointBoundsTrue ==
  ASSUME IInv, NEW p \in Timepoint, GetTimepointBounds(p)
  PROVE  Network!AskBounds
<1> DEFINE d == Network!Truth
           g == Propagate(graph)
           b == IF g.consistent THEN <<g.lower[p], g.upper[p]>> ELSE Network!Inconsistent
<1>1. /\ p \in graph.timepoints /\ graph' = g /\ UNCHANGED constraints
      /\ reply' = [answer |-> "bounds", of |-> <<Origin, p>>, bounds |-> b]
  BY DEF GetTimepointBounds
<1>2. g = Propagate(graph)
  OBVIOUS
<1> HIDE DEF g
<1>3. /\ g.timepoints = graph.timepoints
      /\ g.consistent => Ready(g, constraints, d)
      /\ g.consistent <=> Diagonal(graph.timepoints, d)
  BY <1>2, Propagated0
<1>4. Origin \in graph.timepoints
  BY DEF IInv, GraphOf
<1> HIDE DEF d
<1>5. b = Network!TrueBounds(d, Origin, p)
  <2>1. CASE g.consistent
    <3>1. Exact(g.timepoints, Lengths(g.specs), Origin, g.upper, g.lower)
          /\ g.lower \in [g.timepoints -> Int]
      BY <1>3, <2>1, ReadyParts
    <3>2. g.upper[p] = At(d, Origin, p) /\ g.lower[p] = -At(d, p, Origin)
      BY <1>1, <1>3, <1>4, <2>1, <3>1, ExactTrue
    <3>3. QED
      BY <1>3, <2>1, <3>2, TrueBoundsAre
  <2>2. CASE ~g.consistent
    BY <1>3, <2>2, TrueBoundsAre
  <2>3. QED
    BY <2>1, <2>2
<1> HIDE DEF b
<1>6. QED
  BY <1>1, <1>3, <1>4, <1>5, BoundsStep DEF d

LEMMA ManyTrue ==
  ASSUME IInv, NEW p, NEW q, CalcManyDistanceBounds(p, q)
  PROVE  Network!AskBounds
<1> DEFINE d == Network!Truth
           g == Propagate(graph)
           h == BoundsFrom(g, p)
           k == BoundsFrom(h, Origin)
           b == <<h.lower[q], h.upper[q]>>
<1>1. /\ p \in graph.timepoints /\ q \in graph.timepoints /\ UNCHANGED constraints
      /\ g.consistent /\ graph' = k
      /\ reply' = [answer |-> "bounds", of |-> <<p, q>>, bounds |-> b]
  BY DEF CalcManyDistanceBounds
<1>2. g = Propagate(graph) /\ h = BoundsFrom(g, p) /\ k = BoundsFrom(h, Origin)
  OBVIOUS
<1> HIDE DEF k, h, g
<1>3. /\ g.timepoints = graph.timepoints /\ Ready(g, constraints, d)
      /\ Diagonal(graph.timepoints, d) /\ Restored(graph, constraints, g)
  BY <1>1, <1>2, Propagated0, Asking
<1>4. /\ k.timepoints = graph.timepoints
      /\ Exact(g.timepoints, Lengths(g.specs), p, h.upper, h.lower)
  BY <1>1, <1>2, <1>3, ManyKeeps
<1>5. h.lower \in [g.timepoints -> Int]
  <2>1. GraphOf(g, constraints) /\ HasSchedule(g.timepoints, Lengths(g.specs))
    BY <1>3, ReadyParts DEF Ready
  <2>2. GraphOf(h, constraints) /\ h.timepoints = g.timepoints
    BY <1>1, <1>2, <1>3, <2>1, BoundsFromExact
  <2>3. QED
    BY <2>2 DEF GraphOf
<1> HIDE DEF d
<1>6. h.upper[q] = At(d, p, q) /\ h.lower[q] = -At(d, q, p)
  BY <1>1, <1>3, <1>4, <1>5, ExactTrue
<1>7. b = Network!TrueBounds(d, p, q)
  BY <1>3, <1>6, TrueBoundsAre
<1> HIDE DEF b
<1>8. QED
  BY <1>1, <1>4, <1>7, BoundsStep DEF d

LEMMA SearchBoundsTrue ==
  ASSUME IInv, NEW p, NEW q, NEW exact \in BOOLEAN, CalcDistanceBounds(p, q, exact)
  PROVE  Network!AskBounds \/ Network!AskOuterBounds
<1> DEFINE d == Network!Truth
           g == Propagate(graph)
           there == Dijkstra(g, p, q)
           back == Dijkstra(g, q, p)
           len == Lengths(g.specs)
           b == IF ~g.consistent THEN Network!Inconsistent
                ELSE IF exact THEN <<-back[p], there[q]>>
                ELSE <<-EdgeOf(len, q, p), EdgeOf(len, p, q)>>
           true == Network!TrueBounds(d, p, q)
<1>1. /\ p \in graph.timepoints /\ q \in graph.timepoints /\ UNCHANGED constraints
      /\ reply' = [answer |-> IF exact THEN "bounds" ELSE "outer", of |-> <<p, q>>, bounds |-> b]
  BY DEF CalcDistanceBounds, EdgeOf
<1>2. graph'.timepoints = graph.timepoints
  <2>1. g.timepoints = graph.timepoints
    BY Propagated0
  <2>2. \/ graph' = g
        \/ graph' = [g EXCEPT !.updated = @ \cup Reached(there, p) \cup Reached(back, q)]
    BY DEF CalcDistanceBounds
  <2>3. DOMAIN g = Fields
    BY Asking DEF Restored, GraphOf
  <2> HIDE DEF g, there, back
  <2>4. QED
    BY <2>1, <2>2, <2>3 DEF Fields
<1>3. g = Propagate(graph)
  OBVIOUS
<1> HIDE DEF g
<1>4. /\ g.timepoints = graph.timepoints /\ g.consistent \in BOOLEAN
      /\ g.consistent => Ready(g, constraints, d)
      /\ g.consistent <=> Diagonal(graph.timepoints, d)
  BY <1>3, Propagated0
<1> HIDE DEF d
<1>5. ~g.consistent => true = Network!Inconsistent /\ b = Network!Inconsistent
  BY <1>4, TrueBoundsAre
<1>6. g.consistent => true = <<-At(d, q, p), At(d, p, q)>>
  BY <1>4, TrueBoundsAre
<1>7. CASE exact
  <2>1. b = true
    <3>1. ASSUME g.consistent PROVE there[q] = At(d, p, q) /\ back[p] = At(d, q, p)
      BY <1>1, <1>4, <3>1, SearchTrue
    <3> HIDE DEF there, back, true
    <3>2. QED
      BY <1>5, <1>6, <1>7, <3>1
  <2> HIDE DEF b
  <2>2. Network!AskBounds
    BY <1>1, <1>2, <1>7, <2>1, BoundsStep DEF d
  <2>3. QED
    BY <2>2
<1>8. CASE ~exact
  <2>1. /\ reply'.answer = "outer" /\ reply'.of = <<p, q>> /\ reply'.bounds = b
    BY <1>1, <1>8
  <2>2. IF true = Network!Inconsistent THEN b = true ELSE b[1] <= true[1] /\ true[2] <= b[2]
    <3>1. CASE ~g.consistent
      BY <1>5, <3>1
    <3>2. CASE g.consistent
      <4>1. /\ EdgeOf(len, p, q) \in Int /\ At(d, p, q) <= EdgeOf(len, p, q)
            /\ EdgeOf(len, q, p) \in Int /\ At(d, q, p) <= EdgeOf(len, q, p)
            /\ At(d, p, q) < Infinity /\ At(d, q, p) < Infinity => At(d, p, q) + At(d, q, p) >= 0
        BY <1>1, <1>4, <3>2, EdgeOuter, ThereAndBack
      <4>2. At(d, p, q) \in Int /\ At(d, q, p) \in Int
        BY <1>1, <1>4, <3>2, ReadyDistances
      <4>3. true = <<-At(d, q, p), At(d, p, q)>> /\ b = <<-EdgeOf(len, q, p), EdgeOf(len, p, q)>>
        BY <1>6, <1>8, <3>2
      <4>4. true # <<2, -2>>
        <5> DEFINE x == At(d, p, q)
                   y == At(d, q, p)
        <5> HIDE DEF x, y, true
        <5>1. x \in Int /\ y \in Int /\ (x < Infinity /\ y < Infinity => x + y >= 0)
          BY <4>1, <4>2 DEF x, y
        <5>2. true[1] = -y /\ true[2] = x
          BY <4>3 DEF x, y
        <5>3. QED
          BY <5>1, <5>2, InfinityType
      <4>5. b[1] <= true[1] /\ true[2] <= b[2]
        <5> HIDE DEF true, b, len
        <5>1. /\ true[1] = -At(d, q, p) /\ true[2] = At(d, p, q)
              /\ b[1] = -EdgeOf(len, q, p) /\ b[2] = EdgeOf(len, p, q)
          BY <4>3
        <5>2. QED
          BY <4>1, <4>2, <5>1
      <4> HIDE DEF true, b
      <4>6. QED
        BY <4>4, <4>5 DEF Network!Inconsistent
    <3>3. QED
      BY <1>4, <3>1, <3>2
  <2>3. reply'.of[1] = p /\ reply'.of[2] = q /\ reply'.of \in timepoints \X timepoints
    BY <1>1, <2>1 DEF timepoints
  <2>4. Network!Replies("outer")
    BY <1>1, <1>2, <2>1, <2>3 DEF Network!Replies, timepoints
  <2> HIDE DEF b
  <2>5. Network!AskOuterBounds
    BY <2>1, <2>2, <2>3, <2>4 DEF Network!AskOuterBounds, d
  <2>6. QED
    BY <2>5
<1>9. QED
  BY <1>7, <1>8

LEMMA SignsAreTrue ==
  ASSUME IInv, NEW p, NEW targets, NEW q \in targets, CalcDistanceSigns(p, targets, q)
  PROVE  Network!AskSigns
<1> DEFINE d == Network!Truth
           g == Propagate(graph)
           len == Lengths(g.specs)
           lowest == Min({g.potential[t] : t \in targets})
           highest == Max({g.potential[t] : t \in targets})
           ahead == [t \in g.timepoints |-> lowest - g.potential[t]]
           behind == [t \in g.timepoints |-> g.potential[t] - highest]
           back == BoundedDijkstra(Reversed(len), g.timepoints, p, 1, behind)[q]
           there == BoundedDijkstra(len, g.timepoints, p, 1, ahead)[q]
           true == Network!TrueBounds(d, p, q)
<1>1. /\ p \in graph.timepoints /\ targets \subseteq graph.timepoints /\ UNCHANGED constraints
      /\ g.consistent /\ graph' = g
      /\ reply' = [answer |-> "signs", of |-> <<p, q>>, bounds |-> <<-back, there>>]
  BY DEF CalcDistanceSigns
<1>2. g = Propagate(graph)
  OBVIOUS
<1> HIDE DEF g
<1>3. /\ g.timepoints = graph.timepoints /\ Ready(g, constraints, d)
      /\ Diagonal(graph.timepoints, d)
  BY <1>1, <1>2, Propagated0
<1> HIDE DEF d
<1>4. Sign(there, At(d, p, q)) /\ Sign(back, At(d, q, p))
  <2>1. lowest = Min({g.potential[t] : t \in targets})
        /\ highest = Max({g.potential[t] : t \in targets})
    OBVIOUS
  <2> HIDE DEF lowest, highest
  <2>2. QED
    BY <1>1, <1>3, <2>1, SignsTrue
<1>5. true[1] = -At(d, q, p) /\ true[2] = At(d, p, q)
  BY <1>3, TrueBoundsAre
<1>6. At(d, p, q) \in Int /\ At(d, q, p) \in Int
  BY <1>1, <1>3, ReadyDistances
<1>7. back \in Int
  BY <1>4 DEF Sign
<1> HIDE DEF there, back, true
<1>8. /\ reply'.answer = "signs" /\ reply'.of = <<p, q>>
      /\ reply'.bounds[1] = -back /\ reply'.bounds[2] = there
  BY <1>1
<1>9. reply'.of[1] = p /\ reply'.of[2] = q /\ reply'.of \in timepoints \X timepoints
  BY <1>1, <1>8 DEF timepoints
<1>10. Network!Replies("signs")
  BY <1>1, <1>3, <1>8, <1>9 DEF Network!Replies, timepoints
<1>11. Sign(-reply'.bounds[1], -true[1]) /\ Sign(reply'.bounds[2], true[2])
  <2>1. -reply'.bounds[1] = back /\ -true[1] = At(d, q, p)
    BY <1>5, <1>6, <1>7, <1>8
  <2>2. QED
    BY <1>4, <1>5, <1>8, <2>1
<1>12. QED
  BY <1>9, <1>10, <1>11 DEF Network!AskSigns, Sign, true, d

LEMMA LessIsTrue ==
  ASSUME IInv, NEW p, NEW q, NEW bound \in Asked, AskIsDistanceLessThan(p, q, bound)
  PROVE  Network!AskLess
<1> DEFINE d == Network!Truth
           g == Propagate(graph)
<1>1. PICK order \in Orders :
        /\ p \in graph.timepoints /\ q \in graph.timepoints /\ UNCHANGED constraints
        /\ g.consistent /\ graph' = g
        /\ reply' = [answer |-> "less", of |-> <<p, q>>, bound |-> bound,
                     yes |-> IsDistanceLessThan(g, p, q, bound, order)]
  BY DEF AskIsDistanceLessThan
<1>2. g = Propagate(graph)
  OBVIOUS
<1> HIDE DEF g
<1>3. g.timepoints = graph.timepoints /\ Ready(g, constraints, d)
  BY <1>1, <1>2, Propagated0
<1> HIDE DEF d
<1>4. bound \in Int
  BY ClientAssumption, BoundBelow
<1>5. Cardinality(Timepoint) \in Nat /\ DOMAIN order = 1 .. Cardinality(Timepoint)
  BY NetworkAssumption, SameSets, FS_CardinalityType DEF Abstract!ProperNetwork, Orders, SetToSeqs
<1>6. IsDistanceLessThan(g, p, q, bound, order) => At(d, p, q) < bound
  BY <1>1, <1>3, <1>4, <1>5, LessTrue
<1>7. /\ reply'.answer = "less" /\ reply'.of = <<p, q>> /\ reply'.bound = bound
      /\ reply'.yes => d[reply'.of] < reply'.bound
  BY <1>1, <1>6 DEF At
<1>8. Network!Replies("less")
  BY <1>1, <1>3, <1>7 DEF Network!Replies, timepoints
<1>9. QED
  BY <1>7, <1>8 DEF Network!AskLess, d

LEMMA PossiblyIsTrue ==
  ASSUME IInv, NEW p, NEW q, NEW bound \in Asked, AskIsDistancePossiblyLessThan(p, q, bound)
  PROVE  Network!AskPossiblyLess
<1> DEFINE d == Network!Truth
           g == Propagate(graph)
<1>1. /\ p \in graph.timepoints /\ q \in graph.timepoints /\ UNCHANGED constraints
      /\ g.consistent /\ graph' = g
      /\ reply' = [answer |-> "possibly", of |-> <<p, q>>, bound |-> bound,
                   yes |-> IsDistancePossiblyLessThan(g, p, q, bound)]
  BY DEF AskIsDistancePossiblyLessThan
<1>2. g = Propagate(graph)
  OBVIOUS
<1> HIDE DEF g
<1>3. g.timepoints = graph.timepoints /\ Ready(g, constraints, d)
  BY <1>1, <1>2, Propagated0
<1> HIDE DEF d
<1>4. bound \in Int /\ bound < Infinity
  BY ClientAssumption, BoundBelow
<1>5. ~IsDistancePossiblyLessThan(g, p, q, bound) => At(d, p, q) >= bound
  BY <1>1, <1>3, <1>4, PossiblyTrue
<1>6. /\ reply'.answer = "possibly" /\ reply'.of = <<p, q>> /\ reply'.bound = bound
      /\ ~reply'.yes => d[reply'.of] >= reply'.bound
  BY <1>1, <1>5 DEF At
<1>7. Network!Replies("possibly")
  BY <1>1, <1>3, <1>6 DEF Network!Replies, timepoints
<1>8. QED
  BY <1>6, <1>7 DEF Network!AskPossiblyLess, d

(* Changes.                                                                *)
LEMMA AddTimepointSimulates ==
  ASSUME IInv, NEW p \in Timepoint, AddTimepoint(p)
  PROVE  Network!AddTimepoint
<1>1. /\ p \notin graph.timepoints /\ UNCHANGED constraints /\ reply' = Network!Nothing
      /\ graph' = [graph EXCEPT !.timepoints = @ \cup {p}, !.upper = With(@, p, Infinity),
                                !.lower = With(@, p, -Infinity), !.potential = With(@, p, 0)]
  BY DEF AddTimepoint, NoReply
<1>2. DOMAIN graph = Fields
  BY DEF IInv, GraphOf
<1>3. graph'.timepoints = graph.timepoints \cup {p}
  BY <1>1, <1>2 DEF Fields
<1>4. QED
  BY <1>1, <1>3 DEF Network!AddTimepoint, Network!Change, timepoints

LEMMA DeleteTimepointSimulates ==
  ASSUME IInv, NEW p \in Timepoint, NEW marker \in BOOLEAN, DeleteTimepoint(p, marker)
  PROVE  Network!DeleteTimepoint
<1>1. /\ p \in graph.timepoints \ {Origin} /\ UNCHANGED constraints
      /\ reply' = Network!Nothing
      /\ \A c \in DOMAIN constraints : p \notin {constraints[c].head, constraints[c].foot}
      /\ graph' = Deleted(graph, p, marker)
  BY DEF DeleteTimepoint, NoReply
<1>2. DOMAIN graph = Fields
  BY DEF IInv, GraphOf
<1>3. graph'.timepoints = graph.timepoints \ {p}
  BY <1>1, <1>2 DEF Fields, Deleted
<1>4. \A l \in Network!Current : p \notin {l.head, l.foot}
  BY <1>1 DEF Network!Current
<1>5. QED
  BY <1>1, <1>3, <1>4 DEF Network!DeleteTimepoint, Network!Change, timepoints

(* cs becomes ds at c only.                                                *)
ChangedAt(c, cs, ds) ==
  \A k \in Link \ {c} :
    IF k \in DOMAIN cs THEN k \in DOMAIN ds /\ ds[k] = cs[k] ELSE k \notin DOMAIN ds

LEMMA WithChangesAt ==
  ASSUME NEW c \in Link, NEW cs, NEW x
  PROVE  /\ ChangedAt(c, cs, With(cs, c, x)) /\ With(cs, c, x)[c] = x
         /\ ChangedAt(c, cs, Without(cs, c)) /\ c \notin DOMAIN Without(cs, c)
BY DEF ChangedAt, With, Without

LEMMA ConstrainSimulates ==
  ASSUME NEW c \in Link, ChangedAt(c, constraints, constraints'),
         graph'.timepoints = graph.timepoints, reply' = Network!Nothing,
         c \in DOMAIN constraints' =>
           /\ Abstract!IsLink(constraints'[c])
           /\ constraints'[c].head \in graph.timepoints
           /\ constraints'[c].foot \in graph.timepoints
           /\ c \in DOMAIN constraints => Network!Tightened(constraints[c], constraints'[c])
  PROVE  Network!Constrain
<1>1. \A k \in Link \ {c} :
        IF k \in DOMAIN constraints
        THEN k \in DOMAIN constraints' /\ constraints'[k] = constraints[k]
        ELSE k \notin DOMAIN constraints'
  BY DEF ChangedAt
<1>2. \A x : Abstract!IsLink(x) => Network!IsLink(x)
  BY DEF Abstract!IsLink, Network!IsLink
<1>3. QED
  BY <1>1, <1>2 DEF Network!Constrain, Network!Change, timepoints

(* incPropagate keeps the time points.                                     *)
LEMMA SameTimepoints ==
  ASSUME NEW g, DOMAIN g = Fields, NEW s, NEW x, NEW y
  PROVE  IncPropagate([g EXCEPT !.specs = s], x, y).timepoints = g.timepoints
<1> DEFINE f == [g EXCEPT !.specs = s]
<1>1. DOMAIN f = Fields /\ f.timepoints = g.timepoints
  BY DEF Fields
<1> HIDE DEF f
<1>2. IncPropagate(f, x, y).timepoints = f.timepoints
  BY <1>1 DEF IncPropagate, Fields
<1>3. QED
  BY <1>1, <1>2 DEF f

LEMMA AddSimulates ==
  ASSUME IInv, NEW c \in Link, NEW x \in Shapes, AddTemporalConstraint(c, x)
  PROVE  Network!Constrain
<1>1. /\ c \notin DOMAIN constraints /\ x.head \in graph.timepoints /\ x.foot \in graph.timepoints
      /\ constraints' = With(constraints, c, x) /\ reply' = Network!Nothing
      /\ graph' = IncPropagate([graph EXCEPT !.specs = AddEdges(@, x)], x.head, x.foot)
  BY DEF AddTemporalConstraint, NoReply
<1>2. DOMAIN graph = Fields
  BY DEF IInv, GraphOf
<1>3. graph'.timepoints = graph.timepoints
  BY <1>1, <1>2, SameTimepoints
<1>4. Abstract!IsLink(x)
  BY ClientAssumption
<1>5. ChangedAt(c, constraints, constraints') /\ constraints'[c] = x
  BY <1>1, WithChangesAt
<1>6. QED
  BY <1>1, <1>3, <1>4, <1>5, ConstrainSimulates

LEMMA NarrowSimulates ==
  ASSUME IInv, NEW c \in Link, NEW x \in Shapes, NarrowTemporalConstraint(c, x)
  PROVE  Network!Constrain
<1>1. /\ c \in DOMAIN constraints
      /\ x.head = constraints[c].head /\ x.foot = constraints[c].foot
      /\ constraints[c].lb <= x.lb /\ x.ub <= constraints[c].ub
      /\ constraints' = With(constraints, c, x) /\ reply' = Network!Nothing
      /\ graph' = IncPropagate([graph EXCEPT !.specs =
                                  RemoveEdges(AddEdges(@, x), constraints[c])], x.head, x.foot)
  BY DEF NarrowTemporalConstraint, NoReply
<1>2. /\ DOMAIN graph = Fields
      /\ constraints[c].head \in graph.timepoints /\ constraints[c].foot \in graph.timepoints
  BY <1>1 DEF IInv, GraphOf, Linked
<1>3. graph'.timepoints = graph.timepoints
  BY <1>1, <1>2, SameTimepoints
<1>4. Abstract!IsLink(x)
  BY ClientAssumption
<1>5. ChangedAt(c, constraints, constraints') /\ constraints'[c] = x
  BY <1>1, WithChangesAt
<1>6. Network!Tightened(constraints[c], x)
  BY <1>1 DEF Network!Tightened
<1>7. QED
  BY <1>1, <1>2, <1>3, <1>4, <1>5, <1>6, ConstrainSimulates

LEMMA RemoveSimulates ==
  ASSUME IInv, NEW c \in Link, NEW mark \in BOOLEAN, RemoveTemporalConstraint(c, mark)
  PROVE  Network!Constrain
<1>1. /\ constraints' = Without(constraints, c) /\ reply' = Network!Nothing
      /\ graph' = [graph EXCEPT !.specs = RemoveEdges(@, constraints[c]),
                                !.hasDeletions = @ \/ mark]
  BY Zenon DEF RemoveTemporalConstraint, Removed, NoReply
<1>2. DOMAIN graph = Fields
  BY DEF IInv, GraphOf
<1>3. graph'.timepoints = graph.timepoints
  <2> DEFINE s == RemoveEdges(graph.specs, constraints[c])
             b == graph.hasDeletions \/ mark
  <2>1. graph' = [graph EXCEPT !.specs = s, !.hasDeletions = b]
    BY <1>1, Zenon
  <2> HIDE DEF s, b
  <2>2. QED
    BY <1>2, <2>1 DEF Fields
<1>4. ChangedAt(c, constraints, constraints') /\ c \notin DOMAIN constraints'
  BY <1>1, WithChangesAt
<1>5. QED
  BY <1>1, <1>3, <1>4, ConstrainSimulates

(* Every step is a step of the abstract network, or none.                  *)
LEMMA StepSimulates ==
  ASSUME IInv, [Next]_vars
  PROVE  [Network!Next]_(Network!vars)
<1>1. ASSUME NEW p \in Timepoint, AddTimepoint(p) PROVE Network!Next
  BY <1>1, AddTimepointSimulates DEF Network!Next
<1>2. ASSUME NEW p \in Timepoint, GetTimepointBounds(p) PROVE Network!Next
  BY <1>2, TimepointBoundsTrue DEF Network!Next
<1>3. ASSUME NEW p \in Timepoint, NEW marker \in BOOLEAN, DeleteTimepoint(p, marker)
      PROVE  Network!Next
  BY <1>3, DeleteTimepointSimulates DEF Network!Next
<1>4. ASSUME NEW p, NEW q, NEW exact \in BOOLEAN, CalcDistanceBounds(p, q, exact)
      PROVE  Network!Next
  BY <1>4, SearchBoundsTrue DEF Network!Next
<1>5. ASSUME NEW p, NEW q, CalcManyDistanceBounds(p, q) PROVE Network!Next
  BY <1>5, ManyTrue DEF Network!Next
<1>6. ASSUME NEW p, NEW targets, NEW q \in targets, CalcDistanceSigns(p, targets, q)
      PROVE  Network!Next
  BY <1>6, SignsAreTrue DEF Network!Next
<1>7. ASSUME NEW p, NEW q, NEW bound \in Asked, AskIsDistanceLessThan(p, q, bound)
      PROVE  Network!Next
  BY <1>7, LessIsTrue DEF Network!Next
<1>8. ASSUME NEW p, NEW q, NEW bound \in Asked, AskIsDistancePossiblyLessThan(p, q, bound)
      PROVE  Network!Next
  BY <1>8, PossiblyIsTrue DEF Network!Next
<1>9. ASSUME NEW c \in Link, NEW shape \in Shapes, AddTemporalConstraint(c, shape)
      PROVE  Network!Next
  BY <1>9, AddSimulates DEF Network!Next
<1>10. ASSUME NEW c \in Link, NEW shape \in Shapes, NarrowTemporalConstraint(c, shape)
       PROVE  Network!Next
  BY <1>10, NarrowSimulates DEF Network!Next
<1>11. ASSUME NEW c \in Link, NEW mark \in BOOLEAN, RemoveTemporalConstraint(c, mark)
       PROVE  Network!Next
  BY <1>11, RemoveSimulates DEF Network!Next
<1>12. ASSUME ResetUpdatedTimepoints PROVE UNCHANGED Network!vars
  <2>1. graph' = [graph EXCEPT !.updated = {}] /\ UNCHANGED <<constraints, reply>>
    BY <1>12 DEF ResetUpdatedTimepoints
  <2>2. DOMAIN graph = Fields
    BY DEF IInv, GraphOf
  <2>3. graph'.timepoints = graph.timepoints
    BY <2>1, <2>2 DEF Fields
  <2>4. QED
    BY <2>1, <2>3 DEF Network!vars, timepoints
<1>13. ASSUME UNCHANGED vars PROVE UNCHANGED Network!vars
  BY <1>13 DEF vars, Network!vars, timepoints
<1>14. QED
  BY <1>1, <1>2, <1>3, <1>4, <1>5, <1>6, <1>7, <1>8, <1>9, <1>10, <1>11, <1>12, <1>13
     DEF Next

(* TemporalNetwork implements SimpleTemporalNetwork: whatever was added,   *)
(* narrowed, removed and asked before, in whatever order, an answer is     *)
(* about the constraints that are in the network and no others.  The       *)
(* bounds of a time point and of a distance are the true ones, the signs   *)
(* are right where they decide an order, the cheap bounds are too wide     *)
(* only, "less" and "not possibly less" are to be relied on, and a network *)
(* is called inconsistent exactly when it has no schedule.                 *)
THEOREM AnswersTrue == Spec => AnswersAreTrue
<1>1. Init => Network!Init
  BY DEF Init, NewGraph, Network!Init, timepoints
<1>2. IInv /\ [Next]_vars => [Network!Next]_(Network!vars)
  BY StepSimulates
<1>3. Spec => []IInv
  BY Inductive
<1>4. QED
  BY <1>1, <1>2, <1>3, PTL DEF Spec, AnswersAreTrue, Network!Spec
=============================================================================
