----------------------- MODULE ConstraintLibraryProofs -----------------------
(***************************************************************************)
(* What the classes that compute in one pass promise, proved for any       *)
(* domains.  First the operations on one domain, then each class, then the *)
(* constraint among others that restrict and relax its variables.          *)
(***************************************************************************)
EXTENDS ConstraintLibraryProperties, FiniteSetTheorems, TLAPS

(***************************************************************************)
(* 1. Finite sets of numbers, and domains.                                 *)
(***************************************************************************)
LEMMA MinimalSet ==
  ASSUME NEW S, IsFiniteSet(S), NEW X, X \subseteq SUBSET S, X # {}
  PROVE  \E s \in X : \A t \in X : t \subseteq s => t = s
<1>1. FiniteSubsetsOf(S) = SUBSET S
  BY FS_FiniteSubsetsOfFinite
<1>2. IsWellFoundedOn(StrictSubsetOrdering(S), SUBSET S)
  BY <1>1, FS_StrictSubsetOrderingWellFounded
<1>3. PICK s \in X : \A t \in X : ~(<<t, s>> \in StrictSubsetOrdering(S))
  BY <1>2, WFMin
<1>4. QED
  BY <1>3 DEF StrictSubsetOrdering

(* A set of integers that is finite has a least element, by the least of   *)
(* its initial segments, and a greatest one.                               *)
LEMMA LeastOf ==
  ASSUME NEW S, IsFiniteSet(S), S # {}, \A x \in S : x \in Int
  PROVE  Min(S) \in S /\ \A x \in S : Min(S) <= x
<1> DEFINE below(m) == {x \in S : x <= m}
           X == {below(m) : m \in S}
<1>1. X \subseteq SUBSET S /\ X # {}
  OBVIOUS
<1>2. PICK s \in X : \A t \in X : t \subseteq s => t = s
  <2> HIDE DEF X
  <2>1. QED
    BY ONLY IsFiniteSet(S), <1>1, MinimalSet
<1>3. PICK m \in S : s = below(m)
  BY <1>2
<1>4. ASSUME NEW x \in S, x < m PROVE FALSE
  <2>1. below(x) \in X
    OBVIOUS
  <2>4. below(x) \subseteq below(m)
    <3>1. \A y \in S : y \in Int
      OBVIOUS
    <3>2. \A y \in S : y <= x => y <= m
      BY <1>4, <3>1
    <3>3. QED
      BY <3>2
  <2>2. m \in below(m) /\ m \notin below(x)
    BY <1>4
  <2>3. QED
    BY <1>2, <1>3, <2>1, <2>2, <2>4
<1>5. \E y \in S : \A x \in S : y <= x
  BY <1>4
<1>6. QED
  BY <1>5, Zenon DEF Min

LEMMA GreatestOf ==
  ASSUME NEW S, IsFiniteSet(S), S # {}, \A x \in S : x \in Int
  PROVE  Max(S) \in S /\ \A x \in S : x <= Max(S)
<1> DEFINE above(m) == {x \in S : x >= m}
           X == {above(m) : m \in S}
<1>1. X \subseteq SUBSET S /\ X # {}
  OBVIOUS
<1>2. PICK s \in X : \A t \in X : t \subseteq s => t = s
  <2> HIDE DEF X
  <2>1. QED
    BY ONLY IsFiniteSet(S), <1>1, MinimalSet
<1>3. PICK m \in S : s = above(m)
  BY <1>2
<1>4. ASSUME NEW x \in S, x > m PROVE FALSE
  <2>1. above(x) \in X
    OBVIOUS
  <2>4. above(x) \subseteq above(m)
    <3>1. \A y \in S : y \in Int
      OBVIOUS
    <3>2. \A y \in S : y >= x => y >= m
      BY <1>4, <3>1
    <3>3. QED
      BY <3>2
  <2>2. m \in above(m) /\ m \notin above(x)
    BY <1>4
  <2>3. QED
    BY <1>2, <1>3, <2>1, <2>2, <2>4
<1>5. \E y \in S : \A x \in S : y >= x
  BY <1>4
<1>6. QED
  BY <1>5, Zenon DEF Max

(* A domain, told by its values alone: SMT needs no bounds for it.         *)
Proper(d) ==
  /\ d \in [kind : Kind, values : SUBSET Int] /\ IsFiniteSet(d.values)
  /\ IsInterval(d) =>
       \A a, b \in d.values : \A v \in Int : a <= v /\ v <= b => v \in d.values

(* The bounds of a domain, and what they say of its values.                *)
LEMMA Ends ==
  ASSUME NEW d, Proper(d), d.values # {}
  PROVE  /\ Lower(d) \in Int /\ Lower(d) \in d.values
         /\ Upper(d) \in Int /\ Upper(d) \in d.values
         /\ \A v \in d.values : v \in Int /\ Lower(d) <= v /\ v <= Upper(d)
         /\ IsInterval(d) =>
              \A v \in Int : Lower(d) <= v /\ v <= Upper(d) => v \in d.values
<1>1. IsFiniteSet(d.values) /\ \A v \in d.values : v \in Int
  BY DEF Proper
<1>2. Lower(d) \in d.values /\ \A v \in d.values : Lower(d) <= v
  BY <1>1, LeastOf DEF Lower
<1>3. Upper(d) \in d.values /\ \A v \in d.values : v <= Upper(d)
  BY <1>1, GreatestOf DEF Upper
<1>4. IsInterval(d) => \A v \in Int : Lower(d) <= v /\ v <= Upper(d) => v \in d.values
  BY <1>2, <1>3 DEF Proper
<1>5. QED
  BY <1>1, <1>2, <1>3, <1>4

LEMMA ProperIsDomain ==
  ASSUME NEW d, Proper(d)
  PROVE  IsDomain(d)
<1>1. ASSUME IsInterval(d), d.values # {} PROVE d.values = Lower(d) .. Upper(d)
  <2>1. Lower(d) \in Int /\ Upper(d) \in Int
    BY <1>1, Ends
  <2>2. \A v \in d.values : v \in Int /\ Lower(d) <= v /\ v <= Upper(d)
    BY <1>1, Ends
  <2>3. \A v \in Int : Lower(d) <= v /\ v <= Upper(d) => v \in d.values
    BY <1>1, Ends
  <2>4. ASSUME NEW v PROVE v \in d.values <=> v \in Lower(d) .. Upper(d)
    BY <2>1, <2>2, <2>3
  <2>5. QED
    BY <2>4
<1>2. d \in [kind : Kind, values : SUBSET Int] /\ IsFiniteSet(d.values)
  BY DEF Proper
<1>3. QED
  BY <1>1, <1>2 DEF IsDomain, IsEmpty

LEMMA DomainIsProper ==
  ASSUME NEW d, IsDomain(d)
  PROVE  Proper(d)
<1>1. d \in [kind : Kind, values : SUBSET Int] /\ IsFiniteSet(d.values)
  BY DEF IsDomain
<1>2. ASSUME IsInterval(d), NEW a \in d.values, NEW b \in d.values, NEW v \in Int, a <= v, v <= b
      PROVE  v \in d.values
  <2>1. d.values = Lower(d) .. Upper(d)
    BY <1>2 DEF IsDomain, IsEmpty
  <2>2. \A w \in d.values : w \in Int
    BY <1>1
  <2>3. Lower(d) \in d.values /\ Upper(d) \in d.values
    BY <1>1, <1>2, <2>2, LeastOf, GreatestOf DEF Lower, Upper
  <2>4. Lower(d) <= a /\ b <= Upper(d) /\ Lower(d) \in Int /\ Upper(d) \in Int /\ a \in Int /\ b \in Int
    BY <1>2, <2>1, <2>2, <2>3
  <2>5. QED
    BY <1>2, <2>1, <2>4
<1>3. QED
  BY <1>1, <1>2 DEF Proper

(* A domain with one value.                                                *)
LEMMA Single ==
  ASSUME NEW d, Proper(d)
  PROVE  /\ IsSingleton(d) <=> \E v \in Int : d.values = {v}
         /\ IsSingleton(d) => d.values = {Lower(d)} /\ Lower(d) \in Int
         /\ IsSingleton(d) => Upper(d) = Lower(d)
         /\ IsSingleton(d) => d.values # {}
         /\ \A v \in Int : d.values = {v} => Lower(d) = v /\ Upper(d) = v
<1>1. IsFiniteSet(d.values) /\ d.values \subseteq Int
  BY DEF Proper
<1>2. IsSingleton(d) <=> \E v : d.values = {v}
  BY <1>1, FS_Singleton DEF IsSingleton
<1>3. ASSUME NEW v, d.values = {v} PROVE v \in Int /\ Lower(d) = v /\ Upper(d) = v
  BY <1>1, <1>3, Ends
<1>4. IsSingleton(d) => \E v \in Int : d.values = {v} /\ Lower(d) = v /\ Upper(d) = v
  BY <1>2, <1>3
<1>5. (\E v \in Int : d.values = {v}) => IsSingleton(d)
  BY <1>2
<1>6. QED
  BY <1>3, <1>4, <1>5

(* What is left of a domain when it is cut: some of its values.            *)
PartOf(e, d) == Proper(e) /\ e.kind = d.kind /\ e.values \subseteq d.values

LEMMA PartOfItself ==
  ASSUME NEW d, Proper(d)
  PROVE  PartOf(d, d)
BY DEF PartOf

LEMMA PartOfPart ==
  ASSUME NEW d, NEW e, NEW f, PartOf(e, d), PartOf(f, e)
  PROVE  PartOf(f, d)
BY DEF PartOf

LEMMA Kinds == \A d : Proper(d) => d.kind \in Kind
BY DEF Proper

(* Any values of an enumeration are one, and so are those of an interval   *)
(* that lie next to each other.                                            *)
LEMMA Fewer ==
  ASSUME NEW d, Proper(d), NEW S, S \subseteq d.values,
         IsInterval(d) => \A a, b \in S : \A v \in d.values : a <= v /\ v <= b => v \in S
  PROVE  PartOf([d EXCEPT !.values = S], d) /\ [d EXCEPT !.values = S].values = S
<1> DEFINE e == [d EXCEPT !.values = S]
<1>1. e.values = S /\ e.kind = d.kind /\ e \in [kind : Kind, values : SUBSET Int]
  BY DEF Proper
<1>2. IsFiniteSet(e.values)
  BY <1>1, FS_Subset DEF Proper
<1> HIDE DEF e
<1>3. ASSUME IsInterval(e), NEW a \in e.values, NEW b \in e.values, NEW v \in Int, a <= v, v <= b
      PROVE  v \in e.values
  <2>1. IsInterval(d)
    BY <1>1, <1>3 DEF IsInterval
  <2>2. v \in d.values
    BY <1>1, <1>3, <2>1 DEF Proper
  <2>3. QED
    BY <1>1, <1>3, <2>1, <2>2
<1>4. QED
  BY <1>1, <1>2, <1>3 DEF PartOf, Proper, e

LEMMA Cut ==
  ASSUME NEW d, Proper(d), NEW lb \in Int, NEW ub \in Int
  PROVE  /\ PartOf(IntersectBounds(d, lb, ub), d)
         /\ IntersectBounds(d, lb, ub).values = {v \in d.values : lb <= v /\ v <= ub}
<1> DEFINE S == {v \in d.values : lb <= v /\ v <= ub}
<1>1. IntersectBounds(d, lb, ub) = [d EXCEPT !.values = S]
  BY DEF IntersectBounds
<1>2. S \subseteq d.values
  OBVIOUS
<1>3. \A a, b \in S : \A v \in d.values : a <= v /\ v <= b => v \in S
  <2>1. \A v \in d.values : v \in Int
    BY DEF Proper
  <2>2. QED
    BY <2>1
<1> HIDE DEF S
<1>4. PartOf([d EXCEPT !.values = S], d) /\ [d EXCEPT !.values = S].values = S
  BY <1>2, <1>3, Fewer
<1>5. QED
  BY <1>1, <1>4 DEF S

LEMMA Nothing ==
  ASSUME NEW d, Proper(d)
  PROVE  PartOf(Emptied(d), d) /\ Emptied(d).values = {}
BY Fewer DEF Emptied

(* The values of d that e has too; of an interval those within the bounds. *)
LEMMA Meet ==
  ASSUME NEW d, Proper(d), NEW e, Proper(e)
  PROVE  /\ PartOf(Intersect(d, e), d)
         /\ d.values \cap e.values \subseteq Intersect(d, e).values
         /\ d.values = {} \/ e.values = {} => Intersect(d, e).values = {}
         /\ Intersect(d, e).values # {} => e.values # {} /\ d.values # {}
         /\ \A v \in Intersect(d, e).values : Lower(e) <= v /\ v <= Upper(e)
<1>1. CASE d.values = {} \/ e.values = {}
  <2>1. Intersect(d, e) = Emptied(d)
    BY <1>1 DEF Intersect, IsEmpty
  <2>2. QED
    BY <1>1, <2>1, Nothing
<1>2. CASE d.values # {} /\ e.values # {} /\ IsInterval(d)
  <2>1. Intersect(d, e) = IntersectBounds(d, Lower(e), Upper(e))
    BY <1>2 DEF Intersect, IsEmpty
  <2>2. Lower(e) \in Int /\ Upper(e) \in Int /\ \A v \in e.values : Lower(e) <= v /\ v <= Upper(e)
    BY <1>2, Ends
  <2>3. PartOf(IntersectBounds(d, Lower(e), Upper(e)), d)
        /\ IntersectBounds(d, Lower(e), Upper(e)).values = {v \in d.values : Lower(e) <= v /\ v <= Upper(e)}
    BY <2>2, Cut
  <2>4. QED
    BY <1>2, <2>1, <2>2, <2>3
<1>3. CASE d.values # {} /\ e.values # {} /\ ~IsInterval(d)
  <2>1. Intersect(d, e) = [d EXCEPT !.values = d.values \cap e.values]
    BY <1>3 DEF Intersect, IsEmpty
  <2>2. PartOf(Intersect(d, e), d) /\ Intersect(d, e).values = d.values \cap e.values
    BY <1>3, <2>1, Fewer
  <2>3. \A v \in e.values : Lower(e) <= v /\ v <= Upper(e)
    BY <1>3, Ends
  <2>4. QED
    BY <1>3, <2>2, <2>3
<1>4. QED
  BY <1>1, <1>2, <1>3

(* Whether two domains have a value in common; for intervals, whether      *)
(* their bounds overlap.                                                   *)
LEMMA Overlap ==
  ASSUME NEW d, Proper(d), d.values # {}, NEW e, Proper(e), e.values # {}
  PROVE  d.values \cap e.values # {} => Intersects(d, e)
<1>1. ASSUME NEW v \in d.values, v \in e.values PROVE Lower(e) <= Upper(d) /\ Lower(d) <= Upper(e)
  <2>1. /\ Lower(d) <= v /\ v <= Upper(d) /\ Lower(d) \in Int /\ Upper(d) \in Int /\ v \in Int
        /\ Lower(e) <= v /\ v <= Upper(e) /\ Lower(e) \in Int /\ Upper(e) \in Int
    BY <1>1, Ends
  <2>2. QED
    BY <2>1
<1>2. QED
  BY <1>1 DEF Intersects

(* A value is taken out, unless it is inside an interval.                  *)
LEMMA Removed ==
  ASSUME NEW d, Proper(d), NEW v
  PROVE  /\ PartOf(Without(d, v), d)
         /\ d.values \ {v} \subseteq Without(d, v).values
         /\ v \in Without(d, v).values =>
              /\ Without(d, v) = d /\ IsInterval(d)
              /\ Lower(d) < v /\ v < Upper(d) /\ Lower(d) \in d.values /\ Upper(d) \in d.values
<1>1. CASE d.values = {}
  BY <1>1, PartOfItself DEF Without, IsEmpty
<1>2. CASE d.values # {} /\ IsInterval(d) /\ v \notin Bounds(d)
  <2>1. Without(d, v) = d
    BY <1>2 DEF Without, IsEmpty
  <2>2. PartOf(d, d)
    BY PartOfItself
  <2>3. v \in d.values => Lower(d) < v /\ v < Upper(d) /\ Lower(d) \in d.values /\ Upper(d) \in d.values
    BY <1>2, Ends DEF Bounds
  <2>4. QED
    BY <1>2, <2>1, <2>2, <2>3
<1>3. CASE d.values # {} /\ (IsInterval(d) => v \in Bounds(d))
  <2>1. Without(d, v) = [d EXCEPT !.values = d.values \ {v}]
    BY <1>3 DEF Without, IsEmpty
  <2>2. ASSUME IsInterval(d), NEW a \in d.values \ {v}, NEW b \in d.values \ {v}, NEW w \in d.values,
               a <= w, w <= b
        PROVE  w \in d.values \ {v}
    <3>1. v \in {Lower(d), Upper(d)}
      BY <1>3, <2>2 DEF Bounds
    <3>2. /\ a \in Int /\ b \in Int /\ w \in Int /\ Lower(d) \in Int /\ Upper(d) \in Int
          /\ Lower(d) <= a /\ b <= Upper(d)
      BY <1>3, <2>2, Ends
    <3>3. QED
      BY <2>2, <3>1, <3>2
  <2>3. PartOf(Without(d, v), d) /\ Without(d, v).values = d.values \ {v}
    <3> DEFINE S == d.values \ {v}
    <3>1. S \subseteq d.values /\ (IsInterval(d) => \A a, b \in S : \A w \in d.values : a <= w /\ w <= b => w \in S)
      BY <2>2
    <3> HIDE DEF S
    <3>2. PartOf([d EXCEPT !.values = S], d) /\ [d EXCEPT !.values = S].values = S
      BY <3>1, Fewer
    <3>3. QED
      BY <2>1, <3>2 DEF S
  <2>4. QED
    BY <2>3
<1>4. QED
  BY <1>1, <1>2, <1>3

(***************************************************************************)
(* 2. The domains of a scope, and what is left of them.                    *)
(***************************************************************************)
Records == [kind : Kind, values : SUBSET Int]

Scoped(D, n) ==
  /\ n \in Nat /\ D \in [1 .. n -> Records]
  /\ \A i \in 1 .. n : Proper(D[i])

Narrowed(D, E) == E \in [DOMAIN D -> Records] /\ \A i \in DOMAIN D : PartOf(E[i], D[i])

Chosen(t, D) == \A i \in DOMAIN D : t[i] \in D[i].values

LEMMA NarrowedItself ==
  ASSUME NEW n, NEW D, Scoped(D, n)
  PROVE  Narrowed(D, D)
BY PartOfItself DEF Scoped, Narrowed

LEMMA NarrowedTwice ==
  ASSUME NEW D, NEW E, NEW F, Narrowed(D, E), Narrowed(E, F)
  PROVE  Narrowed(D, F)
<1>1. DOMAIN E = DOMAIN D
  BY DEF Narrowed
<1>2. ASSUME NEW i \in DOMAIN D PROVE PartOf(F[i], D[i])
  BY <1>1, PartOfPart DEF Narrowed
<1>3. QED
  BY <1>1, <1>2 DEF Narrowed

(* Each variable is left alone or cut.                                     *)
LEMMA Cuts ==
  ASSUME NEW n, NEW D, Scoped(D, n), NEW E, E \in [1 .. n -> Records],
         \A i \in 1 .. n : E[i] = D[i] \/ PartOf(E[i], D[i])
  PROVE  Narrowed(D, E)
<1>1. \A i \in 1 .. n : PartOf(D[i], D[i])
  BY PartOfItself DEF Scoped
<1>2. QED
  BY <1>1 DEF Narrowed, Scoped

Replaced(D, x, X) == [D EXCEPT ![x] = X]

LEMMA OneCut ==
  ASSUME NEW n, NEW D, Scoped(D, n), NEW x \in 1 .. n, NEW X, PartOf(X, D[x]),
         NEW E, E = Replaced(D, x, X)
  PROVE  Narrowed(D, E) /\ E[x] = X /\ \A i \in 1 .. n : i # x => E[i] = D[i]
<1>1. D \in [1 .. n -> Records] /\ X \in Records
  BY DEF Scoped, PartOf, Proper, Records
<1>2. E \in [1 .. n -> Records] /\ E[x] = X /\ \A i \in 1 .. n : i # x => E[i] = D[i]
  BY <1>1 DEF Replaced
<1>3. ASSUME NEW i \in 1 .. n PROVE E[i] = D[i] \/ PartOf(E[i], D[i])
  <2>1. CASE i = x
    BY <1>2, <2>1
  <2>2. QED
    BY <1>2, <2>1
<1>4. Narrowed(D, E)
  BY <1>2, <1>3, Cuts
<1>5. QED
  BY <1>2, <1>4

LEMMA Pair ==
  ASSUME NEW D, Scoped(D, 2), NEW X, PartOf(X, D[1]), NEW Y, PartOf(Y, D[2]),
         NEW E, E = <<X, Y>>
  PROVE  Narrowed(D, E) /\ E[1] = X /\ E[2] = Y
<1>1. X \in Records /\ Y \in Records
  BY DEF PartOf, Proper, Records
<1>2. E \in [1 .. 2 -> Records] /\ E[1] = X /\ E[2] = Y
  BY <1>1
<1>3. PartOf(E[1], D[1]) /\ PartOf(E[2], D[2])
  BY <1>2
<1>4. \A i \in 1 .. 2 : PartOf(E[i], D[i])
  BY <1>3
<1>5. QED
  BY <1>2, <1>4 DEF Narrowed, Scoped

LEMMA Triple ==
  ASSUME NEW D, Scoped(D, 3), NEW X, PartOf(X, D[1]), NEW Y, PartOf(Y, D[2]), NEW Z, PartOf(Z, D[3]),
         NEW E, E = <<X, Y, Z>>
  PROVE  Narrowed(D, E) /\ E[1] = X /\ E[2] = Y /\ E[3] = Z
<1>1. X \in Records /\ Y \in Records /\ Z \in Records
  BY DEF PartOf, Proper, Records
<1>2. E \in [1 .. 3 -> Records] /\ E[1] = X /\ E[2] = Y /\ E[3] = Z
  BY <1>1
<1>3. PartOf(E[1], D[1]) /\ PartOf(E[2], D[2]) /\ PartOf(E[3], D[3])
  BY <1>2
<1>4. \A i \in 1 .. 3 : PartOf(E[i], D[i])
  BY <1>3
<1>5. QED
  BY <1>2, <1>4 DEF Narrowed, Scoped

(* What is left of a scope is again one.                                   *)
LEMMA StillScoped ==
  ASSUME NEW n, NEW D, Scoped(D, n), NEW E, Narrowed(D, E)
  PROVE  Scoped(E, n)
BY DEF Scoped, Narrowed, PartOf

(***************************************************************************)
(* 3. The classes: each cuts the domains, loses no solution, and leaves    *)
(* one value of each only where the relation holds of them.                *)
(***************************************************************************)
LEMMA LessThanEqualCuts ==
  ASSUME NEW n, NEW D, Scoped(D, n), NEW x \in 1 .. n, NEW y \in 1 .. n, x # y,
         D[x].values # {}, D[y].values # {}, NEW E, E = LessThanEqual(D, x, y)
  PROVE  /\ Narrowed(D, E)
         /\ \A i \in 1 .. n : i # x /\ i # y => E[i] = D[i]
         /\ \A a \in D[x].values, b \in D[y].values :
              a <= b => a \in E[x].values /\ b \in E[y].values
         /\ E[x].values # {} /\ E[y].values # {} =>
              Lower(E[x]) <= Lower(E[y]) /\ Upper(E[x]) <= Upper(E[y])
<1> DEFINE X == IntersectBounds(D[x], Lower(D[x]), Upper(D[y]))
           Y == IF IsEmpty(X) THEN D[y] ELSE IntersectBounds(D[y], Lower(X), Upper(D[y]))
<1>1. /\ Proper(D[x]) /\ D[x].values # {} /\ Proper(D[y]) /\ D[y].values # {}
      /\ Lower(D[x]) \in Int /\ Upper(D[y]) \in Int /\ Upper(D[y]) \in D[y].values
      /\ \A v \in D[x].values : v \in Int /\ Lower(D[x]) <= v
      /\ \A v \in D[y].values : v \in Int /\ v <= Upper(D[y])
  BY Ends DEF Scoped
<1>2. PartOf(X, D[x]) /\ X.values = {v \in D[x].values : v <= Upper(D[y])}
  BY <1>1, Cut
<1>3. X.values # {} => Lower(X) \in Int /\ Lower(X) \in X.values /\ Upper(X) \in X.values
                       /\ \A v \in X.values : Lower(X) <= v
  BY <1>2, Ends DEF PartOf
<1>4. PartOf(Y, D[y]) /\ (X.values # {} => Y.values = {v \in D[y].values : Lower(X) <= v})
  BY <1>1, <1>2, <1>3, Cut, PartOfItself DEF IsEmpty
<1> HIDE DEF X, Y
<1>5. E = [D EXCEPT ![x] = X, ![y] = Y]
  BY DEF LessThanEqual, X, Y
<1>6. Narrowed(D, E) /\ E[x] = X /\ E[y] = Y /\ \A i \in 1 .. n : i # x /\ i # y => E[i] = D[i]
  <2>1. D \in [1 .. n -> Records] /\ X \in Records /\ Y \in Records
    BY <1>2, <1>4 DEF Scoped, PartOf, Proper, Records
  <2>2. /\ E \in [1 .. n -> Records] /\ E[x] = X /\ E[y] = Y
        /\ \A i \in 1 .. n : i # x /\ i # y => E[i] = D[i]
    BY <1>5, <2>1
  <2>3. ASSUME NEW i \in 1 .. n PROVE E[i] = D[i] \/ PartOf(E[i], D[i])
    <3>1. CASE i = x
      BY <1>2, <2>2, <3>1
    <3>2. CASE i = y
      BY <1>4, <2>2, <3>2
    <3>3. QED
      BY <2>2, <3>1, <3>2
  <2>4. Narrowed(D, E)
    BY <2>2, <2>3, Cuts
  <2>5. QED
    BY <2>2, <2>4
<1>7. ASSUME NEW a \in D[x].values, NEW b \in D[y].values, a <= b PROVE a \in X.values /\ b \in Y.values
  <2>1. a \in X.values
    BY <1>1, <1>2, <1>7
  <2>2. QED
    BY <1>1, <1>3, <1>4, <1>7, <2>1
<1>8. ASSUME X.values # {}, Y.values # {} PROVE Lower(X) <= Lower(Y) /\ Upper(X) <= Upper(Y)
  <2>1. /\ Lower(Y) \in Y.values /\ Upper(Y) \in Int /\ \A v \in Y.values : v <= Upper(Y)
    BY <1>4, <1>8, Ends DEF PartOf
  <2>2. Lower(X) <= Upper(D[y]) /\ Upper(X) <= Upper(D[y]) /\ Upper(X) \in Int
    BY <1>1, <1>2, <1>3, <1>8
  <2>3. Upper(D[y]) \in Y.values
    BY <1>1, <1>4, <1>8, <2>2
  <2>4. QED
    BY <1>1, <1>3, <1>4, <1>8, <2>1, <2>2, <2>3
<1>9. \A a \in D[x].values, b \in D[y].values :
        a <= b => a \in E[x].values /\ b \in E[y].values
  BY <1>6, <1>7
<1>10. E[x].values # {} /\ E[y].values # {} =>
         Lower(E[x]) <= Lower(E[y]) /\ Upper(E[x]) <= Upper(E[y])
  BY <1>6, <1>8
<1>11. QED
  BY <1>6, <1>9, <1>10

LEMMA LessThanCuts ==
  ASSUME NEW n, NEW D, Scoped(D, n), NEW x \in 1 .. n, NEW y \in 1 .. n, x # y,
         D[x].values # {}, D[y].values # {}, NEW E, E = LessThan(D, x, y)
  PROVE  /\ Narrowed(D, E)
         /\ \A i \in 1 .. n : i # x /\ i # y => E[i] = D[i]
         /\ \A a \in D[x].values, b \in D[y].values :
              a < b => a \in E[x].values /\ b \in E[y].values
         /\ E[x].values # {} /\ E[y].values # {} =>
              Lower(E[x]) < Lower(E[y]) /\ Upper(E[x]) < Upper(E[y])
<1> DEFINE X == IntersectBounds(D[x], Lower(D[x]), Upper(D[y]) - 1)
           Y == IF IsEmpty(X) THEN D[y] ELSE IntersectBounds(D[y], Lower(X) + 1, Upper(D[y]))
<1>1. /\ Proper(D[x]) /\ D[x].values # {} /\ Proper(D[y]) /\ D[y].values # {}
      /\ Lower(D[x]) \in Int /\ Upper(D[y]) \in Int /\ Upper(D[y]) \in D[y].values
      /\ \A v \in D[x].values : v \in Int /\ Lower(D[x]) <= v
      /\ \A v \in D[y].values : v \in Int /\ v <= Upper(D[y])
  BY Ends DEF Scoped
<1>2. PartOf(X, D[x]) /\ X.values = {v \in D[x].values : v <= Upper(D[y]) - 1}
  BY <1>1, Cut
<1>3. X.values # {} => Lower(X) \in Int /\ Lower(X) \in X.values /\ Upper(X) \in X.values
                       /\ \A v \in X.values : Lower(X) <= v
  BY <1>2, Ends DEF PartOf
<1>4. PartOf(Y, D[y]) /\ (X.values # {} => Y.values = {v \in D[y].values : Lower(X) + 1 <= v})
  BY <1>1, <1>2, <1>3, Cut, PartOfItself DEF IsEmpty
<1> HIDE DEF X, Y
<1>5. E = [D EXCEPT ![x] = X, ![y] = Y]
  BY DEF LessThan, X, Y
<1>6. Narrowed(D, E) /\ E[x] = X /\ E[y] = Y /\ \A i \in 1 .. n : i # x /\ i # y => E[i] = D[i]
  <2>1. D \in [1 .. n -> Records] /\ X \in Records /\ Y \in Records
    BY <1>2, <1>4 DEF Scoped, PartOf, Proper, Records
  <2>2. /\ E \in [1 .. n -> Records] /\ E[x] = X /\ E[y] = Y
        /\ \A i \in 1 .. n : i # x /\ i # y => E[i] = D[i]
    BY <1>5, <2>1
  <2>3. ASSUME NEW i \in 1 .. n PROVE E[i] = D[i] \/ PartOf(E[i], D[i])
    <3>1. CASE i = x
      BY <1>2, <2>2, <3>1
    <3>2. CASE i = y
      BY <1>4, <2>2, <3>2
    <3>3. QED
      BY <2>2, <3>1, <3>2
  <2>4. Narrowed(D, E)
    BY <2>2, <2>3, Cuts
  <2>5. QED
    BY <2>2, <2>4
<1>7. ASSUME NEW a \in D[x].values, NEW b \in D[y].values, a < b PROVE a \in X.values /\ b \in Y.values
  <2>1. a \in X.values
    BY <1>1, <1>2, <1>7
  <2>2. QED
    BY <1>1, <1>3, <1>4, <1>7, <2>1
<1>8. ASSUME X.values # {}, Y.values # {} PROVE Lower(X) < Lower(Y) /\ Upper(X) < Upper(Y)
  <2>1. /\ Lower(Y) \in Y.values /\ Upper(Y) \in Int /\ \A v \in Y.values : v <= Upper(Y)
    BY <1>4, <1>8, Ends DEF PartOf
  <2>2. Lower(X) + 1 <= Upper(D[y]) /\ Upper(X) + 1 <= Upper(D[y]) /\ Upper(X) \in Int
    BY <1>1, <1>2, <1>3, <1>8
  <2>3. Upper(D[y]) \in Y.values
    BY <1>1, <1>4, <1>8, <2>2
  <2>4. QED
    BY <1>1, <1>3, <1>4, <1>8, <2>1, <2>2, <2>3
<1>9. \A a \in D[x].values, b \in D[y].values :
        a < b => a \in E[x].values /\ b \in E[y].values
  BY <1>6, <1>7
<1>10. E[x].values # {} /\ E[y].values # {} =>
         Lower(E[x]) < Lower(E[y]) /\ Upper(E[x]) < Upper(E[y])
  BY <1>6, <1>8
<1>11. QED
  BY <1>6, <1>9, <1>10

(* The second of two variables loses the only value of the first.          *)
LEMMA CheckAndRemoveCuts ==
  ASSUME NEW n, NEW D, Scoped(D, n), NEW x \in 1 .. n, NEW y \in 1 .. n, x # y,
         NEW E, E = CheckAndRemove(D, x, y)
  PROVE  /\ Narrowed(D, E)
         /\ \A i \in 1 .. n : i # y => E[i] = D[i]
         /\ \A a \in D[x].values, b \in D[y].values : a # b => b \in E[y].values
         /\ \A a \in Int : D[x].values = {a} /\ a \in E[y].values =>
              /\ E = D /\ IsInterval(D[y]) /\ Lower(D[y]) < a /\ a < Upper(D[y])
              /\ Lower(D[y]) \in D[y].values /\ Upper(D[y]) \in D[y].values
         /\ E # D => IsSingleton(D[x])
<1>1. CASE ~IsSingleton(D[x])
  <2>1. E = D
    BY <1>1 DEF CheckAndRemove
  <2>2. \A a \in Int : D[x].values # {a}
    BY <1>1, Single DEF Scoped
  <2>3. QED
    BY <2>1, <2>2, NarrowedItself
<1>2. CASE IsSingleton(D[x])
  <2> DEFINE a == Lower(D[x])
             Y == Without(D[y], a)
  <2>1. D[x].values = {a}
    BY <1>2, Single DEF Scoped
  <2>2. /\ PartOf(Y, D[y]) /\ D[y].values \ {a} \subseteq Y.values
        /\ a \in Y.values =>
             /\ Y = D[y] /\ IsInterval(D[y])
             /\ Lower(D[y]) < a /\ a < Upper(D[y])
             /\ Lower(D[y]) \in D[y].values /\ Upper(D[y]) \in D[y].values
    BY Removed DEF Scoped
  <2>3. E = Replaced(D, y, Y)
    BY <1>2 DEF CheckAndRemove, TheValue, Replaced
  <2> HIDE DEF a, Y
  <2>4. Narrowed(D, E) /\ E[y] = Y /\ \A i \in 1 .. n : i # y => E[i] = D[i]
    <3>1. PartOf(Y, D[y])
      BY <2>2
    <3>2. QED
      BY <2>3, <3>1, OneCut
  <2>5. Y = D[y] => E = D
    <3>1. SUFFICES ASSUME Y = D[y] PROVE E = D
      OBVIOUS
    <3>2. \A i \in 1 .. n : E[i] = D[i]
      BY <2>4, <3>1
    <3>3. D \in [1 .. n -> Records] /\ E \in [1 .. n -> Records]
      <4>1. D \in [1 .. n -> Records] /\ DOMAIN D = 1 .. n
        BY DEF Scoped
      <4>2. QED
        BY <2>4, <4>1 DEF Narrowed
    <3>4. E = [i \in 1 .. n |-> E[i]] /\ D = [i \in 1 .. n |-> D[i]]
      BY <3>3
    <3>5. QED
      BY <3>2, <3>4
  <2>6. \A b \in D[x].values, c \in D[y].values : b # c => c \in E[y].values
    BY <2>1, <2>2, <2>4
  <2>7. ASSUME NEW b \in Int, D[x].values = {b}, b \in E[y].values
        PROVE  /\ E = D /\ IsInterval(D[y]) /\ Lower(D[y]) < b /\ b < Upper(D[y])
               /\ Lower(D[y]) \in D[y].values /\ Upper(D[y]) \in D[y].values
    <3>1. b = a
      BY <2>1, <2>7
    <3>2. QED
      BY <2>2, <2>4, <2>5, <2>7, <3>1
  <2>8. QED
    BY <1>2, <2>4, <2>6, <2>7
<1>3. QED
  BY <1>1, <1>2

LEMMA ThreeValues ==
  ASSUME NEW d, Proper(d), NEW a \in d.values, NEW b \in d.values, NEW c \in d.values, a < b, b < c
  PROVE  Cardinality(d.values) > 2
<1>1. IsFiniteSet(d.values) /\ a \in Int /\ b \in Int /\ c \in Int
  BY DEF Proper
<1>2. a # b /\ a # c /\ b # c
  BY <1>1
<1>3. Cardinality(d.values \ {a}) = Cardinality(d.values) - 1 /\ IsFiniteSet(d.values \ {a})
  BY <1>1, FS_RemoveElement
<1>4. b \in d.values \ {a} /\ c \in (d.values \ {a}) \ {b}
  BY <1>2
<1>5. /\ Cardinality((d.values \ {a}) \ {b}) = Cardinality(d.values \ {a}) - 1
      /\ IsFiniteSet((d.values \ {a}) \ {b})
  BY <1>3, <1>4, FS_RemoveElement
<1>6. Cardinality((d.values \ {a}) \ {b}) \in Nat /\ Cardinality((d.values \ {a}) \ {b}) # 0
  BY <1>4, <1>5, FS_CardinalityType, FS_EmptySet
<1>7. Cardinality(d.values) \in Nat
  BY <1>1, FS_CardinalityType
<1>8. QED
  BY <1>3, <1>5, <1>6, <1>7

LEMMA SubsetOfRight ==
  ASSUME NEW D, Scoped(D, 2), ~SomeEmpty(D), NEW E, E = SubsetOf(D)
  PROVE  /\ Narrowed(D, E)
         /\ \A a \in D[1].values, b \in D[2].values : a = b => a \in E[1].values /\ b \in E[2].values
         /\ \A v \in E[1].values : Lower(E[2]) <= v /\ v <= Upper(E[2])
<1> DEFINE X == Intersect(D[1], D[2])
<1>1. /\ PartOf(X, D[1]) /\ D[1].values \cap D[2].values \subseteq X.values
      /\ \A v \in X.values : Lower(D[2]) <= v /\ v <= Upper(D[2])
  BY Meet DEF Scoped
<1> HIDE DEF X
<1>2. E = Replaced(D, 1, X)
  BY DEF SubsetOf, Replaced, X
<1>3. Narrowed(D, E) /\ E[1] = X /\ E[2] = D[2]
  <2>1. 2 \in Nat /\ 1 \in 1 .. 2 /\ 2 \in 1 .. 2 /\ 2 # 1 /\ PartOf(X, D[1])
    BY <1>1
  <2>2. QED
    BY <1>2, <2>1, OneCut
<1>4. \A a \in D[1].values, b \in D[2].values : a = b => a \in E[1].values /\ b \in E[2].values
  BY <1>1, <1>3
<1>5. \A v \in E[1].values : Lower(E[2]) <= v /\ v <= Upper(E[2])
  BY <1>1, <1>3
<1>6. QED
  BY <1>3, <1>4, <1>5

(* A domain with one value, and one that has not got it or that is too     *)
(* wide to become two.                                                     *)
Apart(d, e) ==
  \A a \in Int : d.values = {a} => a \notin e.values \/ (IsInterval(e) /\ Cardinality(e.values) > 2)

LEMMA NotEqualRight ==
  ASSUME NEW D, Scoped(D, 2), NEW E, E = NotEqual(D)
  PROVE  /\ Narrowed(D, E)
         /\ \A a \in D[1].values, b \in D[2].values : a # b => a \in E[1].values /\ b \in E[2].values
         /\ Apart(E[1], E[2]) /\ Apart(E[2], E[1])
<1> DEFINE F == CheckAndRemove(D, 1, 2)
           G == CheckAndRemove(D, 2, 1)
<1>0. 1 \in 1 .. 2 /\ 2 \in 1 .. 2 /\ 1 # 2 /\ 2 # 1 /\ Proper(D[1]) /\ Proper(D[2])
  BY DEF Scoped
<1>1. /\ Narrowed(D, F) /\ F[1] = D[1]
      /\ \A a \in D[1].values, b \in D[2].values : a # b => b \in F[2].values
      /\ \A a \in Int : D[1].values = {a} /\ a \in F[2].values =>
           /\ F = D /\ IsInterval(D[2]) /\ Lower(D[2]) < a /\ a < Upper(D[2])
           /\ Lower(D[2]) \in D[2].values /\ Upper(D[2]) \in D[2].values
      /\ F # D => IsSingleton(D[1])
  BY <1>0, CheckAndRemoveCuts
<1>2. /\ Narrowed(D, G) /\ G[2] = D[2]
      /\ \A a \in D[2].values, b \in D[1].values : a # b => b \in G[1].values
      /\ \A a \in Int : D[2].values = {a} /\ a \in G[1].values =>
           /\ G = D /\ IsInterval(D[1]) /\ Lower(D[1]) < a /\ a < Upper(D[1])
           /\ Lower(D[1]) \in D[1].values /\ Upper(D[1]) \in D[1].values
      /\ G # D => IsSingleton(D[2])
  BY <1>0, CheckAndRemoveCuts
<1> HIDE DEF F, G
<1>3. CASE F # D
  <2>1. E = F
    BY <1>3 DEF NotEqual, F
  <2>2. PICK a \in Int : D[1].values = {a}
    BY <1>0, <1>1, <1>3, Single
  <2>3. a \notin F[2].values
    BY <1>1, <1>3, <2>2
  <2>4. Apart(E[1], E[2])
    BY <1>1, <2>1, <2>2, <2>3 DEF Apart
  <2>5. Apart(E[2], E[1])
    BY <1>1, <2>1, <2>2, <2>3 DEF Apart
  <2>6. \A b \in D[1].values, c \in D[2].values : b # c => b \in E[1].values /\ c \in E[2].values
    BY <1>1, <2>1
  <2>7. QED
    BY <1>1, <2>1, <2>4, <2>5, <2>6
<1>4. CASE F = D
  <2>1. E = G
    BY <1>4 DEF NotEqual, F, G
  <2>2. ASSUME NEW a \in Int, D[2].values = {a}, a \in G[1].values
        PROVE  G[1] = D[1] /\ IsInterval(D[1]) /\ Cardinality(D[1].values) > 2
    BY <1>0, <1>2, <2>2, ThreeValues
  <2>3. Apart(E[2], E[1])
    BY <1>2, <2>1, <2>2 DEF Apart
  <2>4. ASSUME NEW a \in Int, G[1].values = {a}, a \in D[2].values
        PROVE  IsInterval(D[2]) /\ Cardinality(D[2].values) > 2
    <3>1. CASE G = D
      BY <1>0, <1>1, <1>4, <2>4, <3>1, ThreeValues
    <3>2. CASE G # D
      <4>1. PICK b \in Int : D[2].values = {b}
        BY <1>0, <1>2, <3>2, Single
      <4>2. b \notin G[1].values
        BY <1>2, <3>2, <4>1
      <4>3. QED
        BY <2>4, <4>1, <4>2
    <3>3. QED
      BY <3>1, <3>2
  <2>5. Apart(E[1], E[2])
    BY <1>2, <2>1, <2>4 DEF Apart
  <2>6. \A b \in D[1].values, c \in D[2].values : b # c => b \in E[1].values /\ c \in E[2].values
    BY <1>2, <2>1
  <2>7. QED
    BY <1>2, <2>1, <2>3, <2>5, <2>6
<1>5. QED
  BY <1>3, <1>4

LEMMA UnaryRight ==
  ASSUME NEW D, Scoped(D, 1), NEW E, E = Unary(D, Source)
  PROVE  /\ Narrowed(D, E)
         /\ \A a \in D[1].values : a \in Source.values => a \in E[1].values
         /\ E[1].values \subseteq Source.values
<1> DEFINE X == Intersect(D[1], Source)
<1>1. Proper(Source) /\ IsInterval(Source) /\ Source.values # {}
  BY LibraryAssumption, DomainIsProper DEF LibraryAssumption, IsEmpty
<1>2. /\ PartOf(X, D[1]) /\ D[1].values \cap Source.values \subseteq X.values
      /\ \A v \in X.values : Lower(Source) <= v /\ v <= Upper(Source)
  BY <1>1, Meet DEF Scoped
<1> HIDE DEF X
<1>3. X.values \subseteq Source.values
  <2>1. \A v \in X.values : v \in Int
    BY <1>2 DEF PartOf, Proper
  <2>2. QED
    BY <1>1, <1>2, <2>1, Ends
<1>4. E = Replaced(D, 1, X)
  BY DEF Unary, Replaced, X
<1>5. Narrowed(D, E) /\ E[1] = X
  <2>1. 1 \in 1 .. 1 /\ PartOf(X, D[1])
    BY <1>2
  <2>2. QED
    BY <1>4, <2>1, OneCut
<1>6. QED
  BY <1>2, <1>3, <1>5

LEMMA WithinBoundsRight ==
  ASSUME NEW D, Scoped(D, 3), ~SomeEmpty(D), NEW E, E = WithinBounds(D)
  PROVE  /\ Narrowed(D, E)
         /\ \A a \in D[1].values, b \in D[2].values, c \in D[3].values :
              b <= a /\ a <= c => a \in E[1].values /\ b \in E[2].values /\ c \in E[3].values
         /\ \A a, b, c \in Int :
              E[1].values = {a} /\ E[2].values = {b} /\ E[3].values = {c} => b <= a /\ a <= c
<1> DEFINE X == IntersectBounds(D[1], Lower(D[2]), Upper(D[3]))
<1>1. /\ Proper(D[1]) /\ Proper(D[2]) /\ Proper(D[3])
      /\ D[2].values # {} /\ D[3].values # {}
  BY DEF Scoped, SomeEmpty, IsEmpty
<1>2. /\ Lower(D[2]) \in D[2].values /\ Upper(D[3]) \in D[3].values
      /\ \A v \in D[2].values : v \in Int /\ Lower(D[2]) <= v
      /\ \A v \in D[3].values : v \in Int /\ v <= Upper(D[3])
      /\ \A v \in D[1].values : v \in Int
  BY <1>1, Ends DEF Proper
<1>3. PartOf(X, D[1]) /\ X.values = {v \in D[1].values : Lower(D[2]) <= v /\ v <= Upper(D[3])}
  BY <1>1, <1>2, Cut
<1> HIDE DEF X
<1>4. E = Replaced(D, 1, X)
  BY DEF WithinBounds, Replaced, X
<1>5. Narrowed(D, E) /\ E[1] = X /\ E[2] = D[2] /\ E[3] = D[3]
  <2>1. 1 \in 1 .. 3 /\ 2 \in 1 .. 3 /\ 3 \in 1 .. 3 /\ 2 # 1 /\ 3 # 1 /\ PartOf(X, D[1])
    BY <1>3
  <2>2. QED
    BY <1>4, <2>1, OneCut
<1>6. \A a \in D[1].values, b \in D[2].values, c \in D[3].values :
        b <= a /\ a <= c => a \in E[1].values /\ b \in E[2].values /\ c \in E[3].values
  BY <1>2, <1>3, <1>5
<1>7. \A a, b, c \in Int :
        E[1].values = {a} /\ E[2].values = {b} /\ E[3].values = {c} => b <= a /\ a <= c
  BY <1>2, <1>3, <1>5
<1>8. QED
  BY <1>5, <1>6, <1>7

LEMMA NegateRight ==
  ASSUME NEW D, Scoped(D, 2), ~SomeEmpty(D), IsInterval(D[1]), IsInterval(D[2]),
         NEW E, E = Negate(D)
  PROVE  /\ Narrowed(D, E)
         /\ \A a \in D[1].values, b \in D[2].values : a = -b => a \in E[1].values /\ b \in E[2].values
         /\ \A a, b \in Int : E[1].values = {a} /\ E[2].values = {b} => a = -b
<1> DEFINE X == IntersectBounds(D[1], -Upper(D[2]), -Lower(D[2]))
           Y == IntersectBounds(D[2], -Upper(D[1]), -Lower(D[1]))
<1>1. Proper(D[1]) /\ D[1].values # {} /\ Proper(D[2]) /\ D[2].values # {}
  BY DEF Scoped, SomeEmpty, IsEmpty
<1>2. /\ Lower(D[1]) \in Int /\ Upper(D[1]) \in Int
      /\ \A v \in D[1].values : v \in Int /\ Lower(D[1]) <= v /\ v <= Upper(D[1])
  BY <1>1, Ends
<1>3. /\ Lower(D[2]) \in Int /\ Upper(D[2]) \in Int
      /\ \A v \in D[2].values : v \in Int /\ Lower(D[2]) <= v /\ v <= Upper(D[2])
      /\ \A v \in Int : Lower(D[2]) <= v /\ v <= Upper(D[2]) => v \in D[2].values
  BY <1>1, Ends
<1>4. -Upper(D[2]) \in Int /\ -Lower(D[2]) \in Int /\ -Upper(D[1]) \in Int /\ -Lower(D[1]) \in Int
  BY <1>2, <1>3
<1>5. PartOf(X, D[1]) /\ X.values = {v \in D[1].values : -Upper(D[2]) <= v /\ v <= -Lower(D[2])}
  BY <1>1, <1>4, Cut
<1>6. PartOf(Y, D[2]) /\ Y.values = {v \in D[2].values : -Upper(D[1]) <= v /\ v <= -Lower(D[1])}
  BY <1>1, <1>4, Cut
<1> HIDE DEF X, Y
<1>7. ASSUME NEW a \in D[1].values, NEW b \in D[2].values, a = -b
      PROVE  a \in X.values /\ b \in Y.values
  BY <1>2, <1>3, <1>5, <1>6, <1>7
<1>8. CASE X.values = {}
  <2>1. E = Replaced(D, 1, X)
    BY <1>8 DEF Negate, Replaced, IsEmpty, X
  <2>2. Narrowed(D, E) /\ E[1] = X
    <3>1. 1 \in 1 .. 2 /\ PartOf(X, D[1])
      BY <1>5
    <3>2. QED
      BY <2>1, <3>1, OneCut
  <2>3. QED
    BY <1>7, <1>8, <2>2
<1>9. CASE X.values # {}
  <2>1. E = <<X, Y>>
    BY <1>9 DEF Negate, IsEmpty, X, Y
  <2>2. Narrowed(D, E) /\ E[1] = X /\ E[2] = Y
    BY <1>5, <1>6, <2>1, Pair
  <2>3. ASSUME NEW a \in Int, NEW b \in Int, X.values = {a}, Y.values = {b} PROVE a = -b
    <3>1. -a \in Y.values
      BY <1>2, <1>3, <1>5, <1>6, <2>3
    <3>2. QED
      BY <2>3, <3>1
  <2>4. QED
    BY <1>7, <2>2, <2>3
<1>10. QED
  BY <1>8, <1>9

(* The less and the greater of two numbers.                                *)
LEMMA OfTwo ==
  ASSUME NEW a \in Int, NEW b \in Int
  PROVE  /\ Min({a, b}) \in {a, b} /\ Min({a, b}) <= a /\ Min({a, b}) <= b
         /\ Max({a, b}) \in {a, b} /\ a <= Max({a, b}) /\ b <= Max({a, b})
<1>1. IsFiniteSet({a} \cup {b}) /\ {a} \cup {b} = {a, b}
  BY FS_Singleton, FS_AddElement
<1>2. {a, b} # {} /\ \A x \in {a, b} : x \in Int
  OBVIOUS
<1>3. QED
  BY <1>1, <1>2, LeastOf, GreatestOf

LEMMA AddEqualRight ==
  ASSUME NEW D, Scoped(D, 3), ~SomeEmpty(D), \A i \in 1 .. 3 : IsInterval(D[i]),
         NEW E, E = AddEqual(D)
  PROVE  /\ Narrowed(D, E)
         /\ \A a \in D[1].values, b \in D[2].values, c \in D[3].values :
              a + b = c => a \in E[1].values /\ b \in E[2].values /\ c \in E[3].values
         /\ \A a, b, c \in Int :
              E[1].values = {a} /\ E[2].values = {b} /\ E[3].values = {c} => a + b = c
<1> DEFINE zMax == Min({Upper(D[3]), Upper(D[1]) + Upper(D[2])})
           zMin == Max({Lower(D[3]), Lower(D[1]) + Lower(D[2])})
           Z == IntersectBounds(D[3], zMin, zMax)
           xMax == Min({Upper(D[1]), zMax - Lower(D[2])})
           xMin == Max({Lower(D[1]), zMin - Upper(D[2])})
           X == IntersectBounds(D[1], xMin, xMax)
           yMax == Min({Upper(D[2]), zMax - xMin})
           yMin == Max({Lower(D[2]), zMin - xMax})
           Y == IntersectBounds(D[2], yMin, yMax)
           whole == IsInterval(Z) => {yMax + xMin, yMin + xMax} \subseteq Z.values
           W == IF whole THEN Z ELSE Emptied(Z)
<1>1. \A i \in 1 .. 3 : Proper(D[i]) /\ D[i].values # {} /\ IsInterval(D[i])
  BY DEF Scoped, SomeEmpty, IsEmpty
<1>2. \A i \in 1 .. 3 :
        /\ Lower(D[i]) \in Int /\ Upper(D[i]) \in Int
        /\ \A v \in D[i].values : v \in Int /\ Lower(D[i]) <= v /\ v <= Upper(D[i])
        /\ \A v \in Int : Lower(D[i]) <= v /\ v <= Upper(D[i]) => v \in D[i].values
  BY <1>1, Ends
<1>3. /\ zMax \in Int /\ zMax \in {Upper(D[3]), Upper(D[1]) + Upper(D[2])}
      /\ zMax <= Upper(D[3]) /\ zMax <= Upper(D[1]) + Upper(D[2])
      /\ zMin \in Int /\ zMin \in {Lower(D[3]), Lower(D[1]) + Lower(D[2])}
      /\ zMin >= Lower(D[3]) /\ zMin >= Lower(D[1]) + Lower(D[2])
  <2>1. /\ Upper(D[3]) \in Int /\ Upper(D[1]) + Upper(D[2]) \in Int
        /\ Lower(D[3]) \in Int /\ Lower(D[1]) + Lower(D[2]) \in Int
    BY <1>2
  <2> DEFINE p == Upper(D[1]) + Upper(D[2])
             q == Lower(D[1]) + Lower(D[2])
  <2> HIDE DEF p, q
  <2>2. Min({Upper(D[3]), p}) \in {Upper(D[3]), p} /\ Min({Upper(D[3]), p}) <= Upper(D[3]) /\ Min({Upper(D[3]), p}) <= p
    BY <2>1, OfTwo DEF p
  <2>3. Max({Lower(D[3]), q}) \in {Lower(D[3]), q} /\ Lower(D[3]) <= Max({Lower(D[3]), q}) /\ q <= Max({Lower(D[3]), q})
    BY <2>1, OfTwo DEF q
  <2>4. QED
    BY <2>1, <2>2, <2>3 DEF p, q
<1>4. /\ xMax \in Int /\ xMax \in {Upper(D[1]), zMax - Lower(D[2])}
      /\ xMax <= Upper(D[1]) /\ xMax <= zMax - Lower(D[2])
      /\ xMin \in Int /\ xMin \in {Lower(D[1]), zMin - Upper(D[2])}
      /\ xMin >= Lower(D[1]) /\ xMin >= zMin - Upper(D[2])
  <2> DEFINE p == zMax - Lower(D[2])
             q == zMin - Upper(D[2])
  <2> HIDE DEF zMax, zMin
  <2>1. p \in Int /\ q \in Int /\ Upper(D[1]) \in Int /\ Lower(D[1]) \in Int
    BY <1>2, <1>3
  <2> HIDE DEF p, q
  <2>2. Min({Upper(D[1]), p}) \in {Upper(D[1]), p} /\ Min({Upper(D[1]), p}) <= Upper(D[1]) /\ Min({Upper(D[1]), p}) <= p
    BY <2>1, OfTwo
  <2>3. Max({Lower(D[1]), q}) \in {Lower(D[1]), q} /\ Lower(D[1]) <= Max({Lower(D[1]), q}) /\ q <= Max({Lower(D[1]), q})
    BY <2>1, OfTwo
  <2>4. QED
    BY <2>1, <2>2, <2>3 DEF p, q
<1>5. /\ yMax \in Int /\ yMax \in {Upper(D[2]), zMax - xMin}
      /\ yMax <= Upper(D[2]) /\ yMax <= zMax - xMin
      /\ yMin \in Int /\ yMin \in {Lower(D[2]), zMin - xMax}
      /\ yMin >= Lower(D[2]) /\ yMin >= zMin - xMax
  <2> HIDE DEF zMax, zMin, xMax, xMin
  <2> DEFINE p == zMax - xMin
             q == zMin - xMax
  <2>1. p \in Int /\ q \in Int /\ Upper(D[2]) \in Int /\ Lower(D[2]) \in Int
    BY <1>2, <1>3, <1>4
  <2> HIDE DEF p, q
  <2>2. Min({Upper(D[2]), p}) \in {Upper(D[2]), p} /\ Min({Upper(D[2]), p}) <= Upper(D[2]) /\ Min({Upper(D[2]), p}) <= p
    BY <2>1, OfTwo
  <2>3. Max({Lower(D[2]), q}) \in {Lower(D[2]), q} /\ Lower(D[2]) <= Max({Lower(D[2]), q}) /\ q <= Max({Lower(D[2]), q})
    BY <2>1, OfTwo
  <2>4. QED
    BY <2>1, <2>2, <2>3 DEF p, q
<1>6. E = IF IsEmpty(Z) THEN Replaced(D, 3, Z)
          ELSE IF IsEmpty(X) THEN <<X, D[2], Z>>
          ELSE IF IsEmpty(Y) THEN <<X, Y, Z>>
          ELSE <<X, Y, W>>
  BY DEF AddEqual, Replaced
<1> HIDE DEF zMax, zMin, xMax, xMin, yMax, yMin
<1>7. /\ PartOf(X, D[1]) /\ X.values = {v \in D[1].values : xMin <= v /\ v <= xMax}
      /\ PartOf(Y, D[2]) /\ Y.values = {v \in D[2].values : yMin <= v /\ v <= yMax}
      /\ PartOf(Z, D[3]) /\ Z.values = {v \in D[3].values : zMin <= v /\ v <= zMax}
  BY <1>1, <1>3, <1>4, <1>5, Cut
<1> HIDE DEF X, Y, Z, W
<1>8. IsInterval(Z) /\ Proper(Z)
  BY <1>1, <1>7 DEF IsInterval, PartOf
<1>9. PartOf(Emptied(Z), D[3]) /\ Emptied(Z).values = {}
  <2>1. PartOf(Emptied(Z), Z) /\ Emptied(Z).values = {}
    BY <1>8, Nothing
  <2>2. QED
    BY <1>7, <2>1, PartOfPart
<1>10. PartOf(W, D[3])
  BY <1>7, <1>9 DEF W
<1>11. ASSUME NEW a \in D[1].values, NEW b \in D[2].values, NEW c \in D[3].values, a + b = c
       PROVE  a \in X.values /\ b \in Y.values /\ c \in Z.values /\ whole
  <2>1. /\ a \in Int /\ Lower(D[1]) <= a /\ a <= Upper(D[1])
        /\ b \in Int /\ Lower(D[2]) <= b /\ b <= Upper(D[2])
        /\ c \in Int /\ Lower(D[3]) <= c /\ c <= Upper(D[3])
        /\ Lower(D[1]) \in Int /\ Upper(D[1]) \in Int /\ Lower(D[2]) \in Int /\ Upper(D[2]) \in Int
        /\ Lower(D[3]) \in Int /\ Upper(D[3]) \in Int
    BY <1>2
  <2>2. zMin <= c /\ c <= zMax
    BY <1>3, <1>11, <2>1
  <2>3. xMin <= a /\ a <= xMax
    BY <1>3, <1>4, <1>11, <2>1, <2>2
  <2>4. yMin <= b /\ b <= yMax
    BY <1>3, <1>4, <1>5, <1>11, <2>1, <2>2, <2>3
  <2>5. /\ zMin <= yMax + xMin /\ yMax + xMin <= zMax /\ yMax + xMin \in Int
        /\ zMin <= yMin + xMax /\ yMin + xMax <= zMax /\ yMin + xMax \in Int
    BY <1>3, <1>4, <1>5, <2>1, <2>2
  <2>6. \A v \in Int : zMin <= v /\ v <= zMax => v \in D[3].values
    BY <1>2, <1>3, <2>1
  <2>7. QED
    BY <1>7, <2>2, <2>3, <2>4, <2>5, <2>6
<1>12. ASSUME NEW a \in Int, NEW b \in Int, NEW c \in Int,
              X.values = {a}, Y.values = {b}, Z.values = {c}, whole
       PROVE  a + b = c
  <2>1. /\ Lower(D[1]) \in Int /\ Upper(D[1]) \in Int /\ Lower(D[2]) \in Int /\ Upper(D[2]) \in Int
        /\ \A v \in Int : Lower(D[1]) <= v /\ v <= Upper(D[1]) => v \in D[1].values
        /\ \A v \in Int : Lower(D[2]) <= v /\ v <= Upper(D[2]) => v \in D[2].values
    BY <1>2
  <2>2. xMin <= a /\ a <= xMax /\ yMin <= b /\ b <= yMax
    BY <1>7, <1>12
  <2>3. xMin \in D[1].values /\ xMax \in D[1].values /\ yMin \in D[2].values /\ yMax \in D[2].values
    BY <1>4, <1>5, <2>1, <2>2
  <2>4. xMin \in X.values /\ xMax \in X.values /\ yMin \in Y.values /\ yMax \in Y.values
    BY <1>4, <1>5, <1>7, <2>2, <2>3
  <2>5. xMin = a /\ yMax = b
    BY <1>12, <2>4
  <2>6. yMax + xMin = c
    BY <1>8, <1>12
  <2>7. QED
    BY <2>5, <2>6
<1>13. CASE Z.values = {}
  <2>1. E = Replaced(D, 3, Z)
    BY <1>6, <1>13 DEF IsEmpty
  <2>2. Narrowed(D, E) /\ E[3] = Z
    <3>1. 3 \in 1 .. 3 /\ PartOf(Z, D[3])
      BY <1>7
    <3>2. QED
      BY <2>1, <3>1, OneCut
  <2>3. QED
    BY <1>11, <1>13, <2>2
<1>14. CASE Z.values # {} /\ X.values = {}
  <2>1. E = <<X, D[2], Z>>
    BY <1>6, <1>14 DEF IsEmpty
  <2>2. Narrowed(D, E) /\ E[1] = X
    BY <1>1, <1>7, <2>1, Triple, PartOfItself
  <2>3. QED
    BY <1>11, <1>14, <2>2
<1>15. CASE Z.values # {} /\ X.values # {} /\ Y.values = {}
  <2>1. E = <<X, Y, Z>>
    BY <1>6, <1>15 DEF IsEmpty
  <2>2. Narrowed(D, E) /\ E[2] = Y
    BY <1>7, <2>1, Triple
  <2>3. QED
    BY <1>11, <1>15, <2>2
<1>16. CASE Z.values # {} /\ X.values # {} /\ Y.values # {}
  <2>1. E = <<X, Y, W>>
    BY <1>6, <1>16 DEF IsEmpty
  <2>2. Narrowed(D, E) /\ E[1] = X /\ E[2] = Y /\ E[3] = W
    BY <1>7, <1>10, <2>1, Triple
  <2>3. \A a \in D[1].values, b \in D[2].values, c \in D[3].values :
          a + b = c => a \in E[1].values /\ b \in E[2].values /\ c \in E[3].values
    BY <1>11, <2>2 DEF W
  <2>4. \A c \in Int : W.values = {c} => whole /\ W = Z
    BY <1>9 DEF W
  <2>5. \A a, b, c \in Int :
          E[1].values = {a} /\ E[2].values = {b} /\ E[3].values = {c} => a + b = c
    BY <1>12, <2>2, <2>4
  <2>6. QED
    BY <2>2, <2>3, <2>5
<1>17. QED
  BY <1>13, <1>14, <1>15, <1>16

LEMMA AbsoluteValueRight ==
  ASSUME NEW D, Scoped(D, 2), ~SomeEmpty(D), IsInterval(D[1]), IsInterval(D[2]),
         NEW E, E = AbsoluteValue(D)
  PROVE  /\ Narrowed(D, E)
         /\ \A a \in D[1].values, b \in D[2].values :
              a = Absolute(b) => a \in E[1].values /\ b \in E[2].values
         /\ \A a, b \in Int : E[1].values = {a} /\ E[2].values = {b} => a = Absolute(b)
<1> DEFINE y == D[2]
           sizes == {Absolute(v) : v \in Bounds(y)}
           lo == IF Lower(y) <= 0 /\ Upper(y) >= 0 THEN 0 ELSE Min(sizes)
           hi == Max(sizes)
           X == IntersectBounds(D[1], lo, hi)
           lb == Lower(X)
           ub == Upper(X)
           Y == IF lb = 0 /\ {-ub, ub} \subseteq y.values THEN IntersectBounds(y, -ub, ub) ELSE y
           above == {lb, ub} \cap Y.values # {}
           below == {-lb, -ub} \cap Y.values # {}
           P == IntersectBounds(Y, lb, ub)
           N == IntersectBounds(Y, -ub, -lb)
<1>1. Proper(D[1]) /\ D[1].values # {} /\ Proper(y) /\ y.values # {} /\ IsInterval(y)
  BY DEF Scoped, SomeEmpty, IsEmpty
<1>2. /\ Lower(y) \in Int /\ Upper(y) \in Int /\ Lower(y) <= Upper(y)
      /\ \A v \in y.values : v \in Int /\ Lower(y) <= v /\ v <= Upper(y)
      /\ \A v \in Int : Lower(y) <= v /\ v <= Upper(y) => v \in y.values
  <2>1. Lower(y) \in y.values
    BY <1>1, Ends
  <2>2. QED
    BY <1>1, <2>1, Ends
<1>3. sizes = {Absolute(Lower(y)), Absolute(Upper(y))}
  BY DEF Bounds
<1>4. /\ Absolute(Lower(y)) \in Int /\ Absolute(Upper(y)) \in Int
      /\ \A v \in Int : Absolute(v) = IF v < 0 THEN -v ELSE v
  BY <1>2 DEF Absolute
<1>5. /\ Min(sizes) \in sizes /\ Max(sizes) \in sizes
      /\ Min(sizes) <= Absolute(Lower(y)) /\ Min(sizes) <= Absolute(Upper(y))
      /\ Max(sizes) >= Absolute(Lower(y)) /\ Max(sizes) >= Absolute(Upper(y))
  <2> HIDE DEF sizes, y
  <2> DEFINE p == Absolute(Lower(y))
             q == Absolute(Upper(y))
  <2>1. p \in Int /\ q \in Int /\ sizes = {p, q}
    BY <1>3, <1>4
  <2> HIDE DEF p, q
  <2>2. QED
    BY <2>1, OfTwo DEF p, q
<1> HIDE DEF sizes
<1>6. /\ lo \in Int /\ hi \in Int /\ lo >= 0
      /\ \A v \in y.values : lo <= Absolute(v) /\ Absolute(v) <= hi
      /\ \A w \in Int : lo <= w /\ w <= hi => w \in y.values \/ -w \in y.values
  <2>0. hi \in {Absolute(Lower(y)), Absolute(Upper(y))} /\ Min(sizes) \in {Absolute(Lower(y)), Absolute(Upper(y))}
    BY <1>3, <1>5
  <2>1. hi \in Int /\ lo \in Int /\ lo >= 0
    BY <1>2, <1>4, <2>0
  <2>2. ASSUME NEW v \in y.values PROVE lo <= Absolute(v) /\ Absolute(v) <= hi
    <3>1. v \in Int /\ Lower(y) <= v /\ v <= Upper(y)
      BY <1>2
    <3>2. QED
      BY <1>2, <1>4, <1>5, <2>0, <3>1
  <2>3. ASSUME NEW w \in Int, lo <= w, w <= hi PROVE w \in y.values \/ -w \in y.values
    <3>1. \/ Lower(y) <= w /\ w <= Upper(y)
          \/ Lower(y) <= -w /\ -w <= Upper(y)
      BY <1>2, <1>4, <1>5, <2>0, <2>3
    <3>2. QED
      BY <1>2, <3>1
  <2>4. QED
    BY <2>1, <2>2, <2>3
<1> HIDE DEF lo, hi
<1>7. PartOf(X, D[1]) /\ X.values = {v \in D[1].values : lo <= v /\ v <= hi}
  BY <1>1, <1>6, Cut
<1>8. \A a \in D[1].values, b \in y.values : a = Absolute(b) => a \in X.values
  BY <1>6, <1>7
<1>9. CASE X.values = {}
  <2>1. E = <<X, y>> \/ E = <<X, Emptied(y)>>
    BY <1>9 DEF AbsoluteValue, IsEmpty, lo, hi, sizes
  <2> HIDE DEF X
  <2>2. Narrowed(D, E) /\ E[1] = X
    <3>1. PartOf(X, D[1]) /\ PartOf(y, D[2]) /\ PartOf(Emptied(y), D[2])
      BY <1>1, <1>7, PartOfItself, Nothing
    <3>2. QED
      BY <2>1, <3>1, Pair
  <2>3. QED
    BY <1>8, <1>9, <2>2
<1>10. CASE X.values # {}
  <2>1. E = <<X, IF above /\ ~below THEN P ELSE IF below /\ ~above THEN N ELSE Y>>
    BY <1>10 DEF AbsoluteValue, IsEmpty, lo, hi, sizes
  <2> HIDE DEF X
  <2>2. /\ lb \in Int /\ ub \in Int /\ lb \in X.values /\ ub \in X.values /\ 0 <= lb /\ lb <= ub /\ lo <= lb /\ ub <= hi
        /\ \A v \in X.values : v \in Int /\ lb <= v /\ v <= ub
    <3>1. /\ lb \in Int /\ ub \in Int /\ lb \in X.values /\ ub \in X.values
          /\ \A v \in X.values : v \in Int /\ lb <= v /\ v <= ub
      BY <1>7, <1>10, Ends DEF PartOf
    <3>2. QED
      BY <1>6, <1>7, <3>1
  <2> HIDE DEF lb, ub
  <2>3. PartOf(Y, y) /\ (Y.values = y.values \/ (lb = 0 /\ Y.values = {v \in y.values : -ub <= v /\ v <= ub}))
    <3>1. -ub \in Int
      BY <2>2
    <3>2. CASE lb = 0 /\ {-ub, ub} \subseteq y.values
      <4>1. Y = IntersectBounds(y, -ub, ub)
        BY <3>2
      <4>2. PartOf(Y, y) /\ Y.values = {v \in y.values : -ub <= v /\ v <= ub}
        BY <1>1, <2>2, <3>1, <4>1, Cut
      <4>3. QED
        BY <3>2, <4>2
    <3>3. CASE ~(lb = 0 /\ {-ub, ub} \subseteq y.values)
      <4>1. Y = y
        BY <3>3
      <4>2. QED
        BY <1>1, <4>1, PartOfItself
    <3>4. QED
      BY <3>2, <3>3
  <2>4. Proper(Y) /\ IsInterval(Y) /\ \A v \in Y.values : v \in Int
    BY <1>1, <2>3 DEF PartOf, Proper, IsInterval
  <2>5. \A u, w \in Y.values : \A v \in Int : u <= v /\ v <= w => v \in Y.values
    BY <2>4 DEF Proper
  <2> HIDE DEF Y
  <2>6. /\ PartOf(P, Y) /\ P.values = {v \in Y.values : lb <= v /\ v <= ub}
        /\ PartOf(N, Y) /\ N.values = {v \in Y.values : -ub <= v /\ v <= -lb}
    <3>1. -ub \in Int /\ -lb \in Int
      BY <2>2
    <3>2. QED
      BY <2>2, <2>4, <3>1, Cut
  <2>7. PartOf(P, y) /\ PartOf(N, y)
    BY <2>3, <2>6, PartOfPart
  <2> HIDE DEF P, N
  <2>8. above => \E w \in Y.values : w = lb \/ w = ub
    OBVIOUS
  <2>9. below => \E w \in Y.values : w = -lb \/ w = -ub
    OBVIOUS
  <2>10. lb \in Y.values \/ ub \in Y.values => above
    OBVIOUS
  <2>11. -lb \in Y.values \/ -ub \in Y.values => below
    OBVIOUS
  <2> DEFINE Z == IF above /\ ~below THEN P ELSE IF below /\ ~above THEN N ELSE Y
  <2>12. (above /\ ~below /\ Z = P) \/ (below /\ ~above /\ Z = N) \/ ((above <=> below) /\ Z = Y)
    OBVIOUS
  <2>13. E = <<X, Z>>
    BY <2>1
  <2> HIDE DEF above, below, Z
  <2>14. PartOf(Z, D[2])
    BY <2>3, <2>7, <2>12
  <2>15. Narrowed(D, E) /\ E[1] = X /\ E[2] = Z
    BY <1>7, <2>13, <2>14, Pair
  <2>16. ASSUME NEW a \in D[1].values, NEW b \in D[2].values, a = Absolute(b)
         PROVE  a \in X.values /\ b \in Z.values
    <3>1. a \in X.values /\ a \in Int /\ lb <= a /\ a <= ub /\ b \in Int /\ a = IF b < 0 THEN -b ELSE b
      BY <1>2, <1>4, <1>8, <2>2, <2>16
    <3>2. b \in Y.values
      BY <2>2, <2>3, <2>16, <3>1
    <3>3. ASSUME above, ~below PROVE b >= 0
      <4>1. PICK w \in Y.values : w = lb \/ w = ub
        BY <2>8, <3>3
      <4>2. b < 0 => b <= -lb /\ -lb <= w /\ -lb \in Int
        BY <2>2, <3>1, <4>1
      <4>3. b < 0 => -lb \in Y.values
        BY <2>5, <3>2, <4>2
      <4>4. QED
        BY <2>11, <3>1, <3>3, <4>3
    <3>4. ASSUME below, ~above PROVE b < 0
      <4>1. PICK w \in Y.values : w = -lb \/ w = -ub
        BY <2>9, <3>4
      <4>2. b >= 0 => lb <= b /\ w <= lb
        BY <2>2, <3>1, <4>1
      <4>3. b >= 0 => lb \in Y.values
        BY <2>2, <2>5, <3>2, <4>2
      <4>4. ~(b >= 0)
        BY <2>10, <3>4, <4>3
      <4>5. QED
        BY <3>1, <4>4
    <3>5. above /\ ~below => b \in P.values
      BY <2>6, <3>1, <3>2, <3>3
    <3>6. below /\ ~above => b \in N.values
      BY <2>2, <2>6, <3>1, <3>2, <3>4
    <3>7. b \in Z.values
      <4>1. CASE above /\ ~below /\ Z = P
        BY <3>5, <4>1
      <4>2. CASE below /\ ~above /\ Z = N
        BY <3>6, <4>2
      <4>3. CASE (above <=> below) /\ Z = Y
        BY <3>2, <4>3
      <4>4. QED
        BY <2>12, <4>1, <4>2, <4>3
    <3>8. QED
      BY <3>1, <3>7
  <2>17. ASSUME NEW a \in Int, NEW b \in Int, X.values = {a}, Z.values = {b}
         PROVE  a = Absolute(b)
    <3>1. lb = a /\ ub = a /\ a >= 0 /\ -a \in Int
      BY <2>2, <2>17
    <3>2. CASE above /\ ~below /\ Z = P
      <4>1. b = a
        BY <2>6, <2>17, <3>1, <3>2
      <4>2. QED
        BY <1>4, <3>1, <4>1
    <3>3. CASE below /\ ~above /\ Z = N
      <4>1. b = -a
        BY <2>6, <2>17, <3>1, <3>3
      <4>2. QED
        BY <1>4, <3>1, <4>1
    <3>4. CASE (above <=> below) /\ Z = Y
      <4>1. a \in y.values \/ -a \in y.values
        BY <1>6, <2>2, <3>1
      <4>2. a \in Y.values \/ -a \in Y.values
        BY <2>3, <3>1, <4>1
      <4>3. a \in Y.values /\ -a \in Y.values
        BY <2>8, <2>9, <2>10, <2>11, <3>1, <3>4, <4>2
      <4>4. QED
        BY <1>4, <2>17, <3>1, <3>4, <4>3
    <3>5. QED
      BY <2>12, <3>2, <3>3, <3>4
  <2>18. \A a \in D[1].values, b \in D[2].values :
           a = Absolute(b) => a \in E[1].values /\ b \in E[2].values
    BY <2>15, <2>16
  <2>19. \A a, b \in Int : E[1].values = {a} /\ E[2].values = {b} => a = Absolute(b)
    BY <2>15, <2>17
  <2>20. QED
    BY <2>15, <2>18, <2>19
<1>11. QED
  BY <1>9, <1>10

(* A first variable that tells whether something holds.                    *)
LEMMA Truth ==
  ASSUME NEW d, Proper(d)
  PROVE  (IsTrue(d) <=> d.values = {1})
         /\ (IsFalse(d) <=> \E v \in Int : v # 1 /\ d.values = {v})
         /\ (IsCondition(d) => (IsFalse(d) <=> d.values = {0}))
<1>1. IsTrue(d) <=> IsSingleton(d) /\ Lower(d) = 1
  BY DEF IsTrue, BooleanOf, TheValue
<1>2. IsFalse(d) <=> IsSingleton(d) /\ Lower(d) # 1
  BY DEF IsFalse, BooleanOf, TheValue
<1>3. IsTrue(d) <=> d.values = {1}
  BY <1>1, Single
<1>4. IsFalse(d) <=> \E v \in Int : v # 1 /\ d.values = {v}
  BY <1>2, Single
<1>5. IsCondition(d) => (IsFalse(d) <=> d.values = {0})
  BY <1>4 DEF IsCondition
<1>6. QED
  BY <1>3, <1>4, <1>5

LEMMA Told ==
  ASSUME NEW d, Proper(d), IsCondition(d), NEW v \in {0, 1}
  PROVE  /\ PartOf(Without(d, v), d) /\ Without(d, v).values = d.values \ {v}
         /\ Proper(Without(d, v)) /\ IsCondition(Without(d, v))
<1>1. v \notin Without(d, v).values
  <2>1. Lower(d) \in {0, 1} /\ Upper(d) \in {0, 1} => ~(Lower(d) < v /\ v < Upper(d))
    OBVIOUS
  <2>2. QED
    BY <2>1, Removed DEF IsCondition
<1>2. PartOf(Without(d, v), d) /\ Without(d, v).values = d.values \ {v}
  BY <1>1, Removed DEF PartOf
<1>3. QED
  BY <1>2 DEF PartOf, IsCondition, IsInterval

(* What is left of three variables that are tested, whatever is left of    *)
(* the first of them.                                                      *)
LEMMA FirstCut ==
  ASSUME NEW D, Scoped(D, 3), NEW X, PartOf(X, D[1]), NEW E, E = Replaced(D, 1, X)
  PROVE  /\ Narrowed(D, E) /\ E[1] = X /\ E[2] = D[2] /\ E[3] = D[3]
         /\ Scoped(E, 3)
<1>1. 1 \in 1 .. 3 /\ 2 \in 1 .. 3 /\ 3 \in 1 .. 3 /\ 2 # 1 /\ 3 # 1
  OBVIOUS
<1>2. Narrowed(D, E) /\ E[1] = X /\ E[2] = D[2] /\ E[3] = D[3]
  BY <1>1, OneCut
<1>3. QED
  BY <1>2, StillScoped

LEMMA TestEQRight ==
  ASSUME NEW D, Scoped(D, 3), ~SomeEmpty(D), IsCondition(D[1]),
         NEW E, E = TestEQ(D)
  PROVE  /\ Narrowed(D, E)
         /\ \A a \in D[1].values, b \in D[2].values, c \in D[3].values :
              (a = 1 <=> b = c) => a \in E[1].values /\ b \in E[2].values /\ c \in E[3].values
         /\ \A a, b, c \in Int :
              E[1].values = {a} /\ E[2].values = {b} /\ E[3].values = {c} => (a = 1 <=> b = c)
<1> DEFINE test == IF ~Intersects(D[2], D[3]) THEN Without(D[1], 1)
                   ELSE IF IsSingleton(D[2]) /\ IsSingleton(D[3]) THEN Without(D[1], 0)
                   ELSE D[1]
           x == Intersect(D[2], D[3])
           y == Intersect(D[3], x)
<1>1. \A i \in 1 .. 3 : Proper(D[i]) /\ D[i].values # {}
  BY DEF Scoped, SomeEmpty, IsEmpty
<1>2. /\ PartOf(Without(D[1], 1), D[1]) /\ Without(D[1], 1).values = D[1].values \ {1}
      /\ PartOf(Without(D[1], 0), D[1]) /\ Without(D[1], 0).values = D[1].values \ {0}
  BY <1>1, Told
<1>3. ~Intersects(D[2], D[3]) => D[2].values \cap D[3].values = {}
  BY <1>1, Overlap
<1>4. ASSUME Intersects(D[2], D[3]), NEW b \in Int, NEW c \in Int, D[2].values = {b}, D[3].values = {c}
      PROVE  b = c
  <2>1. Lower(D[2]) = b /\ Upper(D[2]) = b /\ Lower(D[3]) = c /\ Upper(D[3]) = c
    BY <1>1, <1>4, Single
  <2>2. QED
    BY <1>4, <2>1 DEF Intersects
<1>5. /\ \A b \in Int : IsSingleton(D[2]) /\ b \in D[2].values => D[2].values = {b}
      /\ \A c \in Int : IsSingleton(D[3]) /\ c \in D[3].values => D[3].values = {c}
  BY <1>1, Single
<1>6. \A i \in 1 .. 3 : \A v \in D[i].values : v \in Int
  BY <1>1 DEF Proper
<1>7. /\ PartOf(test, D[1])
      /\ \A a \in D[1].values, b \in D[2].values, c \in D[3].values :
           (a = 1 <=> b = c) => a \in test.values
  <2>1. CASE ~Intersects(D[2], D[3])
    BY <1>2, <1>3, <2>1
  <2>2. CASE Intersects(D[2], D[3]) /\ IsSingleton(D[2]) /\ IsSingleton(D[3])
    BY <1>2, <1>4, <1>5, <1>6, <2>2
  <2>3. CASE Intersects(D[2], D[3]) /\ ~(IsSingleton(D[2]) /\ IsSingleton(D[3]))
    BY <1>1, <2>3, PartOfItself
  <2>4. QED
    BY <2>1, <2>2, <2>3
<1>8. Proper(test) /\ (IsTrue(test) <=> test.values = {1})
  BY <1>7, Truth DEF PartOf
<1>9. /\ PartOf(x, D[2]) /\ D[2].values \cap D[3].values \subseteq x.values
      /\ PartOf(y, D[3]) /\ D[3].values \cap x.values \subseteq y.values
      /\ \A v \in y.values : Lower(x) <= v /\ v <= Upper(x)
      /\ Proper(x)
  <2>1. PartOf(x, D[2]) /\ D[2].values \cap D[3].values \subseteq x.values
    BY <1>1, Meet
  <2> HIDE DEF x
  <2>2. Proper(x)
    BY <2>1 DEF PartOf
  <2>3. /\ PartOf(y, D[3]) /\ D[3].values \cap x.values \subseteq y.values
        /\ \A v \in y.values : Lower(x) <= v /\ v <= Upper(x)
    BY <1>1, <2>2, Meet
  <2>4. QED
    BY <2>1, <2>2, <2>3
<1>10. E = IF ~IsTrue(test) THEN Replaced(D, 1, test)
           ELSE IF IsEmpty(x) THEN <<test, x, D[3]>> ELSE <<test, x, y>>
  BY DEF TestEQ, Replaced
<1>11. CASE ~IsTrue(test)
  <2>1. ASSUME NEW a \in Int, NEW b \in Int, NEW c \in Int,
               test.values = {a}, D[2].values = {b}, D[3].values = {c}
        PROVE  a # 1 /\ b # c
    <3>1. a # 1
      BY <1>8, <1>11, <2>1
    <3>2. IsSingleton(D[2]) /\ IsSingleton(D[3]) /\ a \in test.values /\ test.values \subseteq {0, 1}
      BY <1>1, <1>7, <2>1, Single DEF PartOf, IsCondition
    <3>3. Intersects(D[2], D[3]) => 0 \notin test.values
      BY <1>2, <3>2
    <3>4. ~Intersects(D[2], D[3])
      BY <3>1, <3>2, <3>3
    <3>5. QED
      BY <1>3, <2>1, <3>1, <3>4
  <2> HIDE DEF test, x, y
  <2>2. E = Replaced(D, 1, test)
    BY <1>10, <1>11
  <2>3. Narrowed(D, E) /\ E[1] = test /\ E[2] = D[2] /\ E[3] = D[3]
    BY <1>7, <2>2, FirstCut
  <2>4. QED
    BY <1>7, <2>1, <2>3
<1> HIDE DEF test, x, y
<1>12. CASE IsTrue(test) /\ x.values = {}
  <2>1. E = <<test, x, D[3]>>
    BY <1>10, <1>12 DEF IsEmpty
  <2>2. Narrowed(D, E) /\ E[1] = test /\ E[2] = x /\ E[3] = D[3]
    BY <1>1, <1>7, <1>9, <2>1, Triple, PartOfItself
  <2>3. \A a \in D[1].values, b \in D[2].values, c \in D[3].values :
          (a = 1 <=> b = c) => a \in E[1].values /\ b \in E[2].values /\ c \in E[3].values
    BY <1>7, <1>8, <1>9, <1>12, <2>2
  <2>4. QED
    BY <1>12, <2>2, <2>3
<1>13. CASE IsTrue(test) /\ x.values # {}
  <2>1. E = <<test, x, y>>
    BY <1>10, <1>13 DEF IsEmpty
  <2>2. Narrowed(D, E) /\ E[1] = test /\ E[2] = x /\ E[3] = y
    BY <1>7, <1>9, <2>1, Triple
  <2>3. \A a \in D[1].values, b \in D[2].values, c \in D[3].values :
          (a = 1 <=> b = c) => a \in E[1].values /\ b \in E[2].values /\ c \in E[3].values
    BY <1>7, <1>8, <1>9, <1>13, <2>2
  <2>4. ASSUME NEW b \in Int, NEW c \in Int, x.values = {b}, y.values = {c} PROVE b = c
    <3>1. Lower(x) = b /\ Upper(x) = b
      BY <1>9, <2>4, Single
    <3>2. QED
      BY <1>9, <2>4, <3>1
  <2>5. \A a, b, c \in Int :
          E[1].values = {a} /\ E[2].values = {b} /\ E[3].values = {c} => (a = 1 <=> b = c)
    BY <1>8, <1>13, <2>2, <2>4
  <2>6. QED
    BY <2>2, <2>3, <2>5
<1>14. QED
  BY <1>11, <1>12, <1>13

LEMMA TestNEQRight ==
  ASSUME NEW D, Scoped(D, 3), ~SomeEmpty(D), IsCondition(D[1]),
         NEW E, E = TestNEQ(D)
  PROVE  /\ Narrowed(D, E)
         /\ \A a \in D[1].values, b \in D[2].values, c \in D[3].values :
              (a = 1 <=> b # c) => a \in E[1].values /\ b \in E[2].values /\ c \in E[3].values
         /\ \A a, b, c \in Int :
              E[1].values = {a} /\ E[2].values = {b} /\ E[3].values = {c} => (a = 1 <=> b # c)
<1> DEFINE test == IF ~(IsSingleton(D[2]) /\ IsSingleton(D[3])) THEN D[1]
                   ELSE IF Intersects(D[2], D[3]) THEN Without(D[1], 1)
                   ELSE Without(D[1], 0)
           F == Replaced(D, 1, test)
           G == CheckAndRemove(F, 2, 3)
           H == CheckAndRemove(G, 3, 2)
           y == Intersect(D[3], D[2])
           x == Intersect(D[2], y)
<1>1. \A i \in 1 .. 3 : Proper(D[i]) /\ D[i].values # {}
  BY DEF Scoped, SomeEmpty, IsEmpty
<1>2. /\ PartOf(Without(D[1], 1), D[1]) /\ Without(D[1], 1).values = D[1].values \ {1}
      /\ PartOf(Without(D[1], 0), D[1]) /\ Without(D[1], 0).values = D[1].values \ {0}
  BY <1>1, Told
<1>3. ~Intersects(D[2], D[3]) => D[2].values \cap D[3].values = {}
  BY <1>1, Overlap
<1>4. ASSUME Intersects(D[2], D[3]), NEW b \in Int, NEW c \in Int, D[2].values = {b}, D[3].values = {c}
      PROVE  b = c
  <2>1. Lower(D[2]) = b /\ Upper(D[2]) = b /\ Lower(D[3]) = c /\ Upper(D[3]) = c
    BY <1>1, <1>4, Single
  <2>2. QED
    BY <1>4, <2>1 DEF Intersects
<1>5. /\ \A b \in Int : IsSingleton(D[2]) /\ b \in D[2].values => D[2].values = {b}
      /\ \A c \in Int : IsSingleton(D[3]) /\ c \in D[3].values => D[3].values = {c}
  BY <1>1, Single
<1>6. \A i \in 1 .. 3 : \A v \in D[i].values : v \in Int
  BY <1>1 DEF Proper
<1>7. /\ PartOf(test, D[1])
      /\ \A a \in D[1].values, b \in D[2].values, c \in D[3].values :
           (a = 1 <=> b # c) => a \in test.values
  <2>1. CASE ~(IsSingleton(D[2]) /\ IsSingleton(D[3]))
    BY <1>1, <2>1, PartOfItself
  <2>2. CASE IsSingleton(D[2]) /\ IsSingleton(D[3]) /\ Intersects(D[2], D[3])
    BY <1>2, <1>4, <1>5, <1>6, <2>2
  <2>3. CASE IsSingleton(D[2]) /\ IsSingleton(D[3]) /\ ~Intersects(D[2], D[3])
    BY <1>2, <1>3, <2>3
  <2>4. QED
    BY <2>1, <2>2, <2>3
<1>8. /\ Proper(test) /\ IsCondition(test) /\ (IsTrue(test) <=> test.values = {1})
      /\ (IsFalse(test) <=> test.values = {0})
  <2>1. Proper(test) /\ IsCondition(test)
    BY <1>7 DEF PartOf, IsCondition, IsInterval
  <2>2. QED
    BY <2>1, Truth
<1>9. E = CASE IsTrue(test) -> H
            [] IsFalse(test) -> <<test, x, y>>
            [] OTHER -> F
  BY DEF TestNEQ, Replaced
<1>10. ~(IsTrue(test) /\ IsFalse(test))
  BY DEF IsTrue, IsFalse
<1> HIDE DEF test
<1>11. Narrowed(D, F) /\ F[1] = test /\ F[2] = D[2] /\ F[3] = D[3] /\ Scoped(F, 3)
  BY <1>7, FirstCut
<1>12. CASE IsTrue(test)
  <2>1. E = H
    BY <1>9, <1>10, <1>12
  <2>2. 1 \in 1 .. 3 /\ 2 \in 1 .. 3 /\ 3 \in 1 .. 3 /\ 2 # 1 /\ 3 # 1 /\ 2 # 3 /\ 1 # 2 /\ 1 # 3
    OBVIOUS
  <2> HIDE DEF F
  <2>3. /\ Narrowed(F, G) /\ G[1] = test /\ G[2] = D[2]
        /\ \A b \in D[2].values, c \in D[3].values : b # c => c \in G[3].values
        /\ \A b \in Int : D[2].values = {b} /\ b \in G[3].values =>
             G = F /\ Lower(D[3]) < b /\ Lower(D[3]) \in D[3].values
    BY <1>11, <2>2, CheckAndRemoveCuts
  <2>4. Scoped(G, 3) /\ Narrowed(D, G)
    BY <1>11, <2>3, StillScoped, NarrowedTwice
  <2> HIDE DEF G
  <2>5. /\ Narrowed(G, H) /\ H[1] = test /\ H[3] = G[3]
        /\ \A c \in G[3].values, b \in D[2].values : c # b => b \in H[2].values
        /\ \A c \in Int : G[3].values = {c} /\ c \in H[2].values => H = G
        /\ H # G => IsSingleton(G[3])
    BY <2>2, <2>3, <2>4, CheckAndRemoveCuts
  <2> HIDE DEF H
  <2>6. Narrowed(D, E)
    BY <2>1, <2>4, <2>5, NarrowedTwice
  <2>7. \A a \in D[1].values, b \in D[2].values, c \in D[3].values :
          (a = 1 <=> b # c) => a \in E[1].values /\ b \in E[2].values /\ c \in E[3].values
    <3> SUFFICES ASSUME NEW a \in D[1].values, NEW b \in D[2].values, NEW c \in D[3].values, a = 1 <=> b # c
                 PROVE  a \in E[1].values /\ b \in E[2].values /\ c \in E[3].values
      OBVIOUS
    <3>1. a \in test.values /\ a = 1
      BY <1>7, <1>8, <1>12
    <3>2. c \in G[3].values
      BY <2>3, <3>1
    <3>3. b \in H[2].values
      BY <2>5, <3>1, <3>2
    <3>4. QED
      BY <2>1, <2>5, <3>1, <3>2, <3>3
  <2>8. ASSUME NEW b \in Int, NEW c \in Int, H[2].values = {b}, H[3].values = {c} PROVE b # c
    <3>1. SUFFICES ASSUME b = c PROVE FALSE
      OBVIOUS
    <3>2. G[3].values = {b} /\ H = G /\ D[2].values = {b}
      BY <2>3, <2>5, <2>8, <3>1
    <3>3. F[3].values = {b} /\ Lower(D[3]) < b /\ Lower(D[3]) \in D[3].values
      BY <2>3, <3>2
    <3>4. QED
      BY <1>11, <3>3
  <2>9. \A a, b, c \in Int :
          E[1].values = {a} /\ E[2].values = {b} /\ E[3].values = {c} => (a = 1 <=> b # c)
    BY <1>8, <1>12, <2>1, <2>5, <2>8
  <2>10. QED
    BY <2>6, <2>7, <2>9
<1>13. CASE IsFalse(test)
  <2>1. E = <<test, x, y>>
    BY <1>9, <1>10, <1>13
  <2>2. PartOf(y, D[3]) /\ D[3].values \cap D[2].values \subseteq y.values
    BY <1>1, Meet
  <2> HIDE DEF y
  <2>3. Proper(y)
    BY <2>2 DEF PartOf
  <2>4. /\ PartOf(x, D[2]) /\ D[2].values \cap y.values \subseteq x.values
        /\ \A v \in x.values : Lower(y) <= v /\ v <= Upper(y)
    BY <1>1, <2>3, Meet
  <2> HIDE DEF x
  <2>5. Narrowed(D, E) /\ E[1] = test /\ E[2] = x /\ E[3] = y
    BY <1>7, <2>1, <2>2, <2>4, Triple
  <2>6. \A a \in D[1].values, b \in D[2].values, c \in D[3].values :
          (a = 1 <=> b # c) => a \in E[1].values /\ b \in E[2].values /\ c \in E[3].values
    <3> SUFFICES ASSUME NEW a \in D[1].values, NEW b \in D[2].values, NEW c \in D[3].values, a = 1 <=> b # c
                 PROVE  a \in E[1].values /\ b \in E[2].values /\ c \in E[3].values
      OBVIOUS
    <3>1. a \in test.values /\ a = 0
      BY <1>7, <1>8, <1>13
    <3>2. QED
      BY <2>2, <2>4, <2>5, <3>1
  <2>7. ASSUME NEW b \in Int, NEW c \in Int, x.values = {b}, y.values = {c} PROVE b = c
    <3>1. Lower(y) = c /\ Upper(y) = c
      BY <2>3, <2>7, Single
    <3>2. QED
      BY <2>4, <2>7, <3>1
  <2>8. \A a, b, c \in Int :
          E[1].values = {a} /\ E[2].values = {b} /\ E[3].values = {c} => (a = 1 <=> b # c)
    BY <1>8, <1>13, <2>5, <2>7
  <2>9. QED
    BY <2>5, <2>6, <2>8
<1>14. CASE ~IsTrue(test) /\ ~IsFalse(test)
  <2>1. E = F
    BY <1>9, <1>14
  <2> HIDE DEF F
  <2>2. \A a \in Int : test.values # {a}
    BY <1>8, <1>14 DEF IsCondition
  <2>3. \A a \in D[1].values, b \in D[2].values, c \in D[3].values :
          (a = 1 <=> b # c) => a \in E[1].values /\ b \in E[2].values /\ c \in E[3].values
    BY <1>7, <1>11, <2>1
  <2>4. QED
    BY <1>11, <2>1, <2>2, <2>3
<1>15. QED
  BY <1>12, <1>13, <1>14

LEMMA TestLessThanRight ==
  ASSUME NEW D, Scoped(D, 3), ~SomeEmpty(D), IsCondition(D[1]),
         NEW E, E = TestLessThan(D)
  PROVE  /\ Narrowed(D, E)
         /\ \A a \in D[1].values, b \in D[2].values, c \in D[3].values :
              (a = 1 <=> b < c) => a \in E[1].values /\ b \in E[2].values /\ c \in E[3].values
         /\ \A a, b, c \in Int :
              E[1].values = {a} /\ E[2].values = {b} /\ E[3].values = {c} => (a = 1 <=> b < c)
<1> DEFINE test == IF Upper(D[2]) < Lower(D[3]) THEN Without(D[1], 0)
                   ELSE IF Lower(D[2]) >= Upper(D[3]) THEN Without(D[1], 1) ELSE D[1]
           G == Replaced(D, 1, test)
<1>1. \A i \in 1 .. 3 : Proper(D[i]) /\ D[i].values # {}
  BY DEF Scoped, SomeEmpty, IsEmpty
<1>2. /\ PartOf(Without(D[1], 1), D[1]) /\ Without(D[1], 1).values = D[1].values \ {1}
      /\ PartOf(Without(D[1], 0), D[1]) /\ Without(D[1], 0).values = D[1].values \ {0}
  BY <1>1, Told
<1>3. \A i \in 1 .. 3 : /\ Lower(D[i]) \in Int /\ Upper(D[i]) \in Int
                        /\ \A v \in D[i].values : v \in Int /\ Lower(D[i]) <= v /\ v <= Upper(D[i])
  BY <1>1, Ends
<1>4. /\ PartOf(test, D[1])
      /\ \A a \in D[1].values, b \in D[2].values, c \in D[3].values :
           (a = 1 <=> b < c) => a \in test.values
  <2>1. CASE Upper(D[2]) < Lower(D[3])
    BY <1>2, <1>3, <2>1
  <2>2. CASE ~(Upper(D[2]) < Lower(D[3])) /\ Lower(D[2]) >= Upper(D[3])
    BY <1>2, <1>3, <2>2
  <2>3. CASE ~(Upper(D[2]) < Lower(D[3])) /\ ~(Lower(D[2]) >= Upper(D[3]))
    BY <1>1, <2>3, PartOfItself
  <2>4. QED
    BY <2>1, <2>2, <2>3
<1>5. /\ Proper(test) /\ IsCondition(test) /\ (IsTrue(test) <=> test.values = {1})
      /\ (IsFalse(test) <=> test.values = {0})
  <2>1. Proper(test) /\ IsCondition(test)
    BY <1>4 DEF PartOf, IsCondition, IsInterval
  <2>2. QED
    BY <2>1, Truth
<1>6. E = CASE IsTrue(test) -> LessThan(G, 2, 3)
            [] IsFalse(test) -> LessThanEqual(G, 3, 2)
            [] OTHER -> G
  BY DEF TestLessThan, Replaced
<1>7. ~(IsTrue(test) /\ IsFalse(test))
  BY DEF IsTrue, IsFalse
<1> HIDE DEF test
<1>8. Narrowed(D, G) /\ G[1] = test /\ G[2] = D[2] /\ G[3] = D[3] /\ Scoped(G, 3)
  BY <1>4, FirstCut
<1> HIDE DEF G
<1>9. /\ 1 \in 1 .. 3 /\ 2 \in 1 .. 3 /\ 3 \in 1 .. 3 /\ 2 # 3 /\ 1 # 2 /\ 1 # 3
      /\ G[2].values # {} /\ G[3].values # {}
  BY <1>1, <1>8
<1>10. CASE IsTrue(test)
  <2>1. E = LessThan(G, 2, 3)
    BY <1>6, <1>7, <1>10
  <2>2. /\ Narrowed(G, E) /\ E[1] = test
        /\ \A b \in D[2].values, c \in D[3].values : b < c => b \in E[2].values /\ c \in E[3].values
        /\ E[2].values # {} /\ E[3].values # {} => Lower(E[2]) < Lower(E[3])
    <3>1. /\ Narrowed(G, E)
          /\ \A i \in 1 .. 3 : i # 2 /\ i # 3 => E[i] = G[i]
          /\ \A b \in G[2].values, c \in G[3].values : b < c => b \in E[2].values /\ c \in E[3].values
          /\ E[2].values # {} /\ E[3].values # {} => Lower(E[2]) < Lower(E[3])
      BY <1>8, <1>9, <2>1, LessThanCuts
    <3>2. QED
      BY <1>8, <1>9, <3>1
  <2>3. Narrowed(D, E) /\ Scoped(E, 3)
    BY <1>8, <2>2, NarrowedTwice, StillScoped
  <2>4. ASSUME NEW b \in Int, NEW c \in Int, E[2].values = {b}, E[3].values = {c} PROVE b < c
    <3>1. Lower(E[2]) = b /\ Lower(E[3]) = c
      BY <1>9, <2>3, <2>4, Single DEF Scoped
    <3>2. QED
      BY <2>2, <2>4, <3>1
  <2>5. \A a \in D[1].values, b \in D[2].values, c \in D[3].values :
          (a = 1 <=> b < c) => a \in E[1].values /\ b \in E[2].values /\ c \in E[3].values
    BY <1>4, <1>5, <1>10, <2>2
  <2>6. \A a, b, c \in Int :
          E[1].values = {a} /\ E[2].values = {b} /\ E[3].values = {c} => (a = 1 <=> b < c)
    BY <1>5, <1>10, <2>2, <2>4
  <2>7. QED
    BY <2>3, <2>5, <2>6
<1>11. CASE IsFalse(test)
  <2>1. E = LessThanEqual(G, 3, 2)
    BY <1>6, <1>7, <1>11
  <2>2. /\ Narrowed(G, E) /\ E[1] = test
        /\ \A c \in D[3].values, b \in D[2].values : c <= b => c \in E[3].values /\ b \in E[2].values
        /\ E[3].values # {} /\ E[2].values # {} => Lower(E[3]) <= Lower(E[2])
    <3>1. /\ Narrowed(G, E)
          /\ \A i \in 1 .. 3 : i # 3 /\ i # 2 => E[i] = G[i]
          /\ \A c \in G[3].values, b \in G[2].values : c <= b => c \in E[3].values /\ b \in E[2].values
          /\ E[3].values # {} /\ E[2].values # {} => Lower(E[3]) <= Lower(E[2])
      BY <1>8, <1>9, <2>1, LessThanEqualCuts
    <3>2. QED
      BY <1>8, <1>9, <3>1
  <2>3. Narrowed(D, E) /\ Scoped(E, 3)
    BY <1>8, <2>2, NarrowedTwice, StillScoped
  <2>4. ASSUME NEW b \in Int, NEW c \in Int, E[2].values = {b}, E[3].values = {c} PROVE ~(b < c)
    <3>1. Lower(E[2]) = b /\ Lower(E[3]) = c
      BY <1>9, <2>3, <2>4, Single DEF Scoped
    <3>2. QED
      BY <2>2, <2>4, <3>1
  <2>5. \A a \in D[1].values, b \in D[2].values, c \in D[3].values :
          (a = 1 <=> b < c) => a \in E[1].values /\ b \in E[2].values /\ c \in E[3].values
    <3> SUFFICES ASSUME NEW a \in D[1].values, NEW b \in D[2].values, NEW c \in D[3].values, a = 1 <=> b < c
                 PROVE  a \in E[1].values /\ b \in E[2].values /\ c \in E[3].values
      OBVIOUS
    <3>1. a \in test.values /\ a = 0 /\ b \in Int /\ c \in Int
      BY <1>3, <1>4, <1>5, <1>11
    <3>2. c <= b
      BY <3>1
    <3>3. QED
      BY <2>2, <3>1, <3>2
  <2>6. \A a, b, c \in Int :
          E[1].values = {a} /\ E[2].values = {b} /\ E[3].values = {c} => (a = 1 <=> b < c)
    BY <1>5, <1>11, <2>2, <2>4
  <2>7. QED
    BY <2>3, <2>5, <2>6
<1>12. CASE ~IsTrue(test) /\ ~IsFalse(test)
  <2>1. E = G
    BY <1>6, <1>12
  <2>2. \A a \in Int : test.values # {a}
    BY <1>5, <1>12 DEF IsCondition
  <2>3. \A a \in D[1].values, b \in D[2].values, c \in D[3].values :
          (a = 1 <=> b < c) => a \in E[1].values /\ b \in E[2].values /\ c \in E[3].values
    BY <1>4, <1>8, <2>1
  <2>4. QED
    BY <1>8, <2>1, <2>2, <2>3
<1>13. QED
  BY <1>10, <1>11, <1>12

LEMMA TestLEQRight ==
  ASSUME NEW D, Scoped(D, 3), ~SomeEmpty(D), IsCondition(D[1]),
         NEW E, E = TestLEQ(D)
  PROVE  /\ Narrowed(D, E)
         /\ \A a \in D[1].values, b \in D[2].values, c \in D[3].values :
              (a = 1 <=> b <= c) => a \in E[1].values /\ b \in E[2].values /\ c \in E[3].values
         /\ \A a, b, c \in Int :
              E[1].values = {a} /\ E[2].values = {b} /\ E[3].values = {c} => (a = 1 <=> b <= c)
<1> DEFINE test == IF Upper(D[2]) <= Lower(D[3]) THEN Without(D[1], 0)
                   ELSE IF Lower(D[2]) > Upper(D[3]) THEN Without(D[1], 1) ELSE D[1]
           G == Replaced(D, 1, test)
<1>1. \A i \in 1 .. 3 : Proper(D[i]) /\ D[i].values # {}
  BY DEF Scoped, SomeEmpty, IsEmpty
<1>2. /\ PartOf(Without(D[1], 1), D[1]) /\ Without(D[1], 1).values = D[1].values \ {1}
      /\ PartOf(Without(D[1], 0), D[1]) /\ Without(D[1], 0).values = D[1].values \ {0}
  BY <1>1, Told
<1>3. \A i \in 1 .. 3 : /\ Lower(D[i]) \in Int /\ Upper(D[i]) \in Int
                        /\ \A v \in D[i].values : v \in Int /\ Lower(D[i]) <= v /\ v <= Upper(D[i])
  BY <1>1, Ends
<1>4. /\ PartOf(test, D[1])
      /\ \A a \in D[1].values, b \in D[2].values, c \in D[3].values :
           (a = 1 <=> b <= c) => a \in test.values
  <2>1. CASE Upper(D[2]) <= Lower(D[3])
    BY <1>2, <1>3, <2>1
  <2>2. CASE ~(Upper(D[2]) <= Lower(D[3])) /\ Lower(D[2]) > Upper(D[3])
    BY <1>2, <1>3, <2>2
  <2>3. CASE ~(Upper(D[2]) <= Lower(D[3])) /\ ~(Lower(D[2]) > Upper(D[3]))
    BY <1>1, <2>3, PartOfItself
  <2>4. QED
    BY <2>1, <2>2, <2>3
<1>5. /\ Proper(test) /\ IsCondition(test) /\ (IsTrue(test) <=> test.values = {1})
      /\ (IsFalse(test) <=> test.values = {0})
  <2>1. Proper(test) /\ IsCondition(test)
    BY <1>4 DEF PartOf, IsCondition, IsInterval
  <2>2. QED
    BY <2>1, Truth
<1>6. E = CASE IsTrue(test) -> LessThanEqual(G, 2, 3)
            [] IsFalse(test) -> LessThan(G, 3, 2)
            [] OTHER -> G
  BY DEF TestLEQ, Replaced
<1>7. ~(IsTrue(test) /\ IsFalse(test))
  BY DEF IsTrue, IsFalse
<1> HIDE DEF test
<1>8. Narrowed(D, G) /\ G[1] = test /\ G[2] = D[2] /\ G[3] = D[3] /\ Scoped(G, 3)
  BY <1>4, FirstCut
<1> HIDE DEF G
<1>9. /\ 1 \in 1 .. 3 /\ 2 \in 1 .. 3 /\ 3 \in 1 .. 3 /\ 2 # 3 /\ 1 # 2 /\ 1 # 3
      /\ G[2].values # {} /\ G[3].values # {}
  BY <1>1, <1>8
<1>10. CASE IsTrue(test)
  <2>1. E = LessThanEqual(G, 2, 3)
    BY <1>6, <1>7, <1>10
  <2>2. /\ Narrowed(G, E) /\ E[1] = test
        /\ \A b \in D[2].values, c \in D[3].values : b <= c => b \in E[2].values /\ c \in E[3].values
        /\ E[2].values # {} /\ E[3].values # {} => Lower(E[2]) <= Lower(E[3])
    <3>1. /\ Narrowed(G, E)
          /\ \A i \in 1 .. 3 : i # 2 /\ i # 3 => E[i] = G[i]
          /\ \A b \in G[2].values, c \in G[3].values : b <= c => b \in E[2].values /\ c \in E[3].values
          /\ E[2].values # {} /\ E[3].values # {} => Lower(E[2]) <= Lower(E[3])
      BY <1>8, <1>9, <2>1, LessThanEqualCuts
    <3>2. QED
      BY <1>8, <1>9, <3>1
  <2>3. Narrowed(D, E) /\ Scoped(E, 3)
    BY <1>8, <2>2, NarrowedTwice, StillScoped
  <2>4. ASSUME NEW b \in Int, NEW c \in Int, E[2].values = {b}, E[3].values = {c} PROVE b <= c
    <3>1. Lower(E[2]) = b /\ Lower(E[3]) = c
      BY <1>9, <2>3, <2>4, Single DEF Scoped
    <3>2. QED
      BY <2>2, <2>4, <3>1
  <2>5. \A a \in D[1].values, b \in D[2].values, c \in D[3].values :
          (a = 1 <=> b <= c) => a \in E[1].values /\ b \in E[2].values /\ c \in E[3].values
    BY <1>4, <1>5, <1>10, <2>2
  <2>6. \A a, b, c \in Int :
          E[1].values = {a} /\ E[2].values = {b} /\ E[3].values = {c} => (a = 1 <=> b <= c)
    BY <1>5, <1>10, <2>2, <2>4
  <2>7. QED
    BY <2>3, <2>5, <2>6
<1>11. CASE IsFalse(test)
  <2>1. E = LessThan(G, 3, 2)
    BY <1>6, <1>7, <1>11
  <2>2. /\ Narrowed(G, E) /\ E[1] = test
        /\ \A c \in D[3].values, b \in D[2].values : c < b => c \in E[3].values /\ b \in E[2].values
        /\ E[3].values # {} /\ E[2].values # {} => Lower(E[3]) < Lower(E[2])
    <3>1. /\ Narrowed(G, E)
          /\ \A i \in 1 .. 3 : i # 3 /\ i # 2 => E[i] = G[i]
          /\ \A c \in G[3].values, b \in G[2].values : c < b => c \in E[3].values /\ b \in E[2].values
          /\ E[3].values # {} /\ E[2].values # {} => Lower(E[3]) < Lower(E[2])
      BY <1>8, <1>9, <2>1, LessThanCuts
    <3>2. QED
      BY <1>8, <1>9, <3>1
  <2>3. Narrowed(D, E) /\ Scoped(E, 3)
    BY <1>8, <2>2, NarrowedTwice, StillScoped
  <2>4. ASSUME NEW b \in Int, NEW c \in Int, E[2].values = {b}, E[3].values = {c} PROVE ~(b <= c)
    <3>1. Lower(E[2]) = b /\ Lower(E[3]) = c
      BY <1>9, <2>3, <2>4, Single DEF Scoped
    <3>2. QED
      BY <2>2, <2>4, <3>1
  <2>5. \A a \in D[1].values, b \in D[2].values, c \in D[3].values :
          (a = 1 <=> b <= c) => a \in E[1].values /\ b \in E[2].values /\ c \in E[3].values
    <3> SUFFICES ASSUME NEW a \in D[1].values, NEW b \in D[2].values, NEW c \in D[3].values, a = 1 <=> b <= c
                 PROVE  a \in E[1].values /\ b \in E[2].values /\ c \in E[3].values
      OBVIOUS
    <3>1. a \in test.values /\ a = 0 /\ b \in Int /\ c \in Int
      BY <1>3, <1>4, <1>5, <1>11
    <3>2. c < b
      BY <3>1
    <3>3. QED
      BY <2>2, <3>1, <3>2
  <2>6. \A a, b, c \in Int :
          E[1].values = {a} /\ E[2].values = {b} /\ E[3].values = {c} => (a = 1 <=> b <= c)
    BY <1>5, <1>11, <2>2, <2>4
  <2>7. QED
    BY <2>3, <2>5, <2>6
<1>12. CASE ~IsTrue(test) /\ ~IsFalse(test)
  <2>1. E = G
    BY <1>6, <1>12
  <2>2. \A a \in Int : test.values # {a}
    BY <1>5, <1>12 DEF IsCondition
  <2>3. \A a \in D[1].values, b \in D[2].values, c \in D[3].values :
          (a = 1 <=> b <= c) => a \in E[1].values /\ b \in E[2].values /\ c \in E[3].values
    BY <1>4, <1>8, <2>1
  <2>4. QED
    BY <1>8, <2>1, <2>2, <2>3
<1>13. QED
  BY <1>10, <1>11, <1>12

LEMMA TestSingletonRight ==
  ASSUME NEW D, Scoped(D, 2), ~SomeEmpty(D), IsCondition(D[1]),
         NEW E, E = TestSingleton(D)
  PROVE  /\ Narrowed(D, E)
         /\ \A a \in D[1].values, b \in D[2].values : a = 1 => a \in E[1].values /\ b \in E[2].values
         /\ \A a, b \in Int : E[1].values = {a} /\ E[2].values = {b} => a = 1
<1> DEFINE X == Without(D[1], 0)
<1>1. Proper(D[1]) /\ Proper(D[2]) /\ 2 \in 1 .. 2 /\ 1 \in 1 .. 2 /\ 2 # 1
  BY DEF Scoped
<1>2. PartOf(X, D[1]) /\ X.values = D[1].values \ {0}
  BY <1>1, Told
<1> HIDE DEF X
<1>3. CASE IsSingleton(D[2])
  <2>1. E = Replaced(D, 1, X)
    BY <1>3 DEF TestSingleton, Replaced, X
  <2>2. Narrowed(D, E) /\ E[1] = X /\ E[2] = D[2]
    BY <1>1, <1>2, <2>1, OneCut
  <2>3. QED
    BY <1>2, <2>2 DEF IsCondition
<1>4. CASE ~IsSingleton(D[2])
  <2>1. E = D
    BY <1>4 DEF TestSingleton
  <2>2. \A b \in Int : D[2].values # {b}
    BY <1>1, <1>4, Single
  <2>3. QED
    BY <2>1, <2>2, NarrowedItself
<1>5. QED
  BY <1>3, <1>4

(* Three conditions: their values, and what becomes of them.               *)
LEMMA Conditions ==
  ASSUME NEW D, Scoped(D, 3), ~SomeEmpty(D), NEW i \in 1 .. 3, IsCondition(D[i])
  PROVE  /\ Proper(D[i]) /\ PartOf(D[i], D[i])
         /\ D[i].values = {0} \/ D[i].values = {1} \/ D[i].values = {0, 1}
         /\ (IsTrue(D[i]) <=> D[i].values = {1}) /\ (IsFalse(D[i]) <=> D[i].values = {0})
         /\ (IsSingleton(D[i]) <=> D[i].values # {0, 1})
         /\ \A v \in {0, 1} :
              /\ PartOf(Without(D[i], v), D[i]) /\ Without(D[i], v).values = D[i].values \ {v}
              /\ PartOf(IntersectBounds(D[i], v, v), D[i])
              /\ IntersectBounds(D[i], v, v).values = D[i].values \cap {v}
<1>1. Proper(D[i]) /\ PartOf(D[i], D[i]) /\ D[i].values # {} /\ D[i].values \subseteq {0, 1}
  BY PartOfItself DEF Scoped, SomeEmpty, IsEmpty, IsCondition
<1>2. D[i].values = {0} \/ D[i].values = {1} \/ D[i].values = {0, 1}
  BY <1>1
<1>3. (IsTrue(D[i]) <=> D[i].values = {1}) /\ (IsFalse(D[i]) <=> D[i].values = {0})
  BY <1>1, Truth
<1>4. IsSingleton(D[i]) <=> D[i].values # {0, 1}
  <2>1. IsSingleton(D[i]) <=> \E v \in Int : D[i].values = {v}
    BY <1>1, Single
  <2>2. QED
    BY <1>2, <2>1
<1>5. ASSUME NEW v \in {0, 1}
      PROVE  /\ PartOf(Without(D[i], v), D[i]) /\ Without(D[i], v).values = D[i].values \ {v}
             /\ PartOf(IntersectBounds(D[i], v, v), D[i])
             /\ IntersectBounds(D[i], v, v).values = D[i].values \cap {v}
  <2>1. PartOf(Without(D[i], v), D[i]) /\ Without(D[i], v).values = D[i].values \ {v}
    BY <1>1, Told
  <2>2. /\ PartOf(IntersectBounds(D[i], v, v), D[i])
        /\ IntersectBounds(D[i], v, v).values = {w \in D[i].values : v <= w /\ w <= v}
    BY <1>1, Cut
  <2>3. {w \in D[i].values : v <= w /\ w <= v} = D[i].values \cap {v}
    BY <1>1
  <2>4. QED
    BY <2>1, <2>2, <2>3
<1>6. QED
  BY <1>1, <1>2, <1>3, <1>4, <1>5

LEMMA TestOrRight ==
  ASSUME NEW D, Scoped(D, 3), ~SomeEmpty(D), \A i \in 1 .. 3 : IsCondition(D[i]),
         NEW E, E = TestOr(D)
  PROVE  /\ Narrowed(D, E)
         /\ \A a \in D[1].values, b \in D[2].values, c \in D[3].values :
              (a = 1 <=> 1 \in {b, c}) => a \in E[1].values /\ b \in E[2].values /\ c \in E[3].values
         /\ \A a, b, c \in Int :
              E[1].values = {a} /\ E[2].values = {b} /\ E[3].values = {c} => (a = 1 <=> 1 \in {b, c})
<1> DEFINE test == IF ~(IsSingleton(D[2]) /\ IsSingleton(D[3])) THEN D[1]
                   ELSE IF IsFalse(D[2]) /\ IsFalse(D[3]) THEN Without(D[1], 1)
                   ELSE Without(D[1], 0)
<1>1. \A i \in 1 .. 3 :
        /\ Proper(D[i]) /\ PartOf(D[i], D[i])
        /\ D[i].values = {0} \/ D[i].values = {1} \/ D[i].values = {0, 1}
        /\ (IsTrue(D[i]) <=> D[i].values = {1}) /\ (IsFalse(D[i]) <=> D[i].values = {0})
        /\ (IsSingleton(D[i]) <=> D[i].values # {0, 1})
        /\ PartOf(Without(D[i], 0), D[i]) /\ Without(D[i], 0).values = D[i].values \ {0}
        /\ PartOf(Without(D[i], 1), D[i]) /\ Without(D[i], 1).values = D[i].values \ {1}
  <2> HIDE DEF test
  <2>1. QED
    BY Conditions
<1>2. /\ PartOf(test, D[1])
      /\ \A a \in D[1].values, b \in D[2].values, c \in D[3].values :
           (a = 1 <=> 1 \in {b, c}) => a \in test.values
  <2>1. CASE ~(IsSingleton(D[2]) /\ IsSingleton(D[3]))
    BY <1>1, <2>1
  <2>2. CASE IsSingleton(D[2]) /\ IsSingleton(D[3]) /\ IsFalse(D[2]) /\ IsFalse(D[3])
    <3>1. D[2].values = {0} /\ D[3].values = {0}
      BY <1>1, <2>2
    <3>2. test = Without(D[1], 1)
      BY <2>2
    <3>3. QED
      BY <1>1, <3>1, <3>2
  <2>3. CASE IsSingleton(D[2]) /\ IsSingleton(D[3]) /\ ~(IsFalse(D[2]) /\ IsFalse(D[3]))
    <3>1. D[2].values = {1} \/ D[3].values = {1}
      BY <1>1, <2>3
    <3>2. test = Without(D[1], 0)
      BY <2>3
    <3>3. QED
      BY <1>1, <3>1, <3>2
  <2>4. QED
    BY <2>1, <2>2, <2>3
<1>3. /\ Proper(test) /\ test.values \subseteq {0, 1} /\ (IsTrue(test) <=> test.values = {1})
      /\ (IsFalse(test) <=> test.values = {0})
  <2>1. Proper(test) /\ IsCondition(test)
    BY <1>2 DEF PartOf, IsCondition, IsInterval
  <2>2. QED
    BY <2>1, Truth DEF IsCondition
<1>4. E = IF IsTrue(test) /\ IsFalse(D[2]) THEN <<test, D[2], Without(D[3], 0)>>
          ELSE IF IsTrue(test) /\ IsFalse(D[3]) THEN <<test, Without(D[2], 0), D[3]>>
          ELSE IF IsFalse(test) THEN <<test, Without(D[2], 1), Without(D[3], 1)>>
          ELSE Replaced(D, 1, test)
  BY DEF TestOr, Replaced
<1> HIDE DEF test
<1>5. CASE IsTrue(test) /\ IsFalse(D[2])
  <2>1. E = <<test, D[2], Without(D[3], 0)>>
    BY <1>4, <1>5
  <2>2. Narrowed(D, E) /\ E[1] = test /\ E[2] = D[2] /\ E[3] = Without(D[3], 0)
    BY <1>1, <1>2, <2>1, Triple
  <2>3. test.values = {1} /\ D[2].values = {0} /\ E[3].values = D[3].values \ {0}
    BY <1>1, <1>3, <1>5, <2>2
  <2>4. QED
    BY <1>1, <1>2, <2>2, <2>3
<1>6. CASE IsTrue(test) /\ ~IsFalse(D[2]) /\ IsFalse(D[3])
  <2>1. E = <<test, Without(D[2], 0), D[3]>>
    BY <1>4, <1>6
  <2>2. Narrowed(D, E) /\ E[1] = test /\ E[2] = Without(D[2], 0) /\ E[3] = D[3]
    BY <1>1, <1>2, <2>1, Triple
  <2>3. test.values = {1} /\ D[3].values = {0} /\ E[2].values = D[2].values \ {0}
    BY <1>1, <1>3, <1>6, <2>2
  <2>4. QED
    BY <1>1, <1>2, <2>2, <2>3
<1>7. CASE IsFalse(test)
  <2>1. ~IsTrue(test)
    BY <1>7 DEF IsTrue, IsFalse
  <2>2. E = <<test, Without(D[2], 1), Without(D[3], 1)>>
    BY <1>4, <1>7, <2>1
  <2>3. Narrowed(D, E) /\ E[1] = test /\ E[2] = Without(D[2], 1) /\ E[3] = Without(D[3], 1)
    BY <1>1, <1>2, <2>2, Triple
  <2>4. test.values = {0} /\ E[2].values = D[2].values \ {1} /\ E[3].values = D[3].values \ {1}
    BY <1>1, <1>3, <1>7, <2>3
  <2>5. QED
    BY <1>1, <1>2, <2>3, <2>4
<1>8. CASE ~IsFalse(test) /\ ~(IsTrue(test) /\ (IsFalse(D[2]) \/ IsFalse(D[3])))
  <2>1. E = Replaced(D, 1, test)
    BY <1>4, <1>8
  <2>2. Narrowed(D, E) /\ E[1] = test /\ E[2] = D[2] /\ E[3] = D[3]
    BY <1>2, <2>1, FirstCut
  <2>3. ASSUME NEW a \in Int, NEW b \in Int, NEW c \in Int,
               test.values = {a}, D[2].values = {b}, D[3].values = {c}
        PROVE  a = 1 <=> 1 \in {b, c}
    <3>1. a = 1 /\ D[2].values # {0}
      BY <1>1, <1>3, <1>8, <2>3
    <3>2. QED
      BY <1>1, <2>3, <3>1
  <2>4. QED
    BY <1>2, <2>2, <2>3
<1>9. QED
  BY <1>5, <1>6, <1>7, <1>8

LEMMA TestAndRight ==
  ASSUME NEW D, Scoped(D, 3), ~SomeEmpty(D), \A i \in 1 .. 3 : IsCondition(D[i]),
         NEW E, E = TestAnd(D)
  PROVE  /\ Narrowed(D, E)
         /\ \A a \in D[1].values, b \in D[2].values, c \in D[3].values :
              (a = 1 <=> b = 1 /\ c = 1) => a \in E[1].values /\ b \in E[2].values /\ c \in E[3].values
         /\ \A a, b, c \in Int :
              E[1].values = {a} /\ E[2].values = {b} /\ E[3].values = {c} => (a = 1 <=> b = 1 /\ c = 1)
<1> DEFINE known == IsSingleton(D[2]) /\ IsSingleton(D[3])
           both == IsTrue(D[2]) /\ IsTrue(D[3])
           One(i) == IntersectBounds(D[i], 1, 1)
           Zero(i) == IntersectBounds(D[i], 0, 0)
           test == CASE ~known -> D[1] [] both -> One(1) [] OTHER -> Zero(1)
           y == IF IsTrue(D[2]) THEN Zero(3) ELSE D[3]
           x == IF IsTrue(y) THEN Zero(2) ELSE D[2]
<1>1. \A i \in 1 .. 3 :
        /\ Proper(D[i]) /\ PartOf(D[i], D[i])
        /\ D[i].values = {0} \/ D[i].values = {1} \/ D[i].values = {0, 1}
        /\ (IsTrue(D[i]) <=> D[i].values = {1}) /\ (IsFalse(D[i]) <=> D[i].values = {0})
        /\ (IsSingleton(D[i]) <=> D[i].values # {0, 1})
        /\ PartOf(One(i), D[i]) /\ One(i).values = D[i].values \cap {1}
        /\ PartOf(Zero(i), D[i]) /\ Zero(i).values = D[i].values \cap {0}
  BY Conditions
<1>2. E = CASE IsTrue(test) -> <<test, One(2), One(3)>>
            [] IsFalse(test) -> <<test, x, y>>
            [] OTHER -> Replaced(D, 1, test)
  BY DEF TestAnd, Replaced
<1> HIDE DEF One, Zero
<1>3. /\ PartOf(test, D[1])
      /\ \A a \in D[1].values, b \in D[2].values, c \in D[3].values :
           (a = 1 <=> b = 1 /\ c = 1) => a \in test.values
  <2>1. CASE ~known
    <3>1. ~both
      BY <2>1 DEF IsTrue
    <3>2. test = D[1]
      BY <2>1, <3>1
    <3>3. QED
      BY <1>1, <3>2
  <2>2. CASE known /\ both
    <3>1. D[2].values = {1} /\ D[3].values = {1}
      BY <1>1, <2>2
    <3>2. test = One(1)
      BY <2>2
    <3>3. QED
      BY <1>1, <3>1, <3>2
  <2>3. CASE known /\ ~both
    <3>1. D[2].values = {0} \/ D[3].values = {0}
      BY <1>1, <2>3
    <3>2. test = Zero(1)
      BY <2>3
    <3>3. QED
      BY <1>1, <3>1, <3>2
  <2>4. QED
    BY <2>1, <2>2, <2>3
<1>4. /\ Proper(test) /\ test.values \subseteq {0, 1} /\ (IsTrue(test) <=> test.values = {1})
      /\ (IsFalse(test) <=> test.values = {0})
  <2>1. Proper(test) /\ IsCondition(test)
    BY <1>3 DEF PartOf, IsCondition, IsInterval
  <2>2. QED
    BY <2>1, Truth DEF IsCondition
<1>5. ~(IsTrue(test) /\ IsFalse(test))
  BY DEF IsTrue, IsFalse
<1> HIDE DEF test
<1>6. CASE IsTrue(test)
  <2>1. E = <<test, One(2), One(3)>>
    BY <1>2, <1>5, <1>6
  <2>2. Narrowed(D, E) /\ E[1] = test /\ E[2] = One(2) /\ E[3] = One(3)
    BY <1>1, <1>3, <2>1, Triple
  <2>3. test.values = {1} /\ E[2].values = D[2].values \cap {1} /\ E[3].values = D[3].values \cap {1}
    BY <1>1, <1>4, <1>6, <2>2
  <2>4. QED
    BY <1>1, <1>3, <2>2, <2>3
<1>7. CASE IsFalse(test)
  <2>1. E = <<test, x, y>>
    BY <1>2, <1>5, <1>7
  <2>2. /\ PartOf(y, D[3])
        /\ D[2].values = {1} => y.values = D[3].values \cap {0}
        /\ D[2].values # {1} => y.values = D[3].values
    <3>1. CASE IsTrue(D[2])
      <4>1. y = Zero(3)
        BY <3>1
      <4>2. QED
        BY <1>1, <3>1, <4>1
    <3>2. CASE ~IsTrue(D[2])
      <4>1. y = D[3]
        BY <3>2
      <4>2. QED
        BY <1>1, <3>2, <4>1
    <3>3. QED
      BY <3>1, <3>2
  <2> HIDE DEF y
  <2>3. IsTrue(y) <=> y.values = {1}
    BY <2>2, Truth DEF PartOf
  <2>4. /\ PartOf(x, D[2])
        /\ y.values = {1} => x.values = D[2].values \cap {0}
        /\ y.values # {1} => x.values = D[2].values
    <3>1. CASE IsTrue(y)
      <4>1. x = Zero(2)
        BY <3>1
      <4>2. QED
        BY <1>1, <2>3, <3>1, <4>1
    <3>2. CASE ~IsTrue(y)
      <4>1. x = D[2]
        BY <3>2
      <4>2. QED
        BY <1>1, <2>3, <3>2, <4>1
    <3>3. QED
      BY <3>1, <3>2
  <2> HIDE DEF x
  <2>5. Narrowed(D, E) /\ E[1] = test /\ E[2] = x /\ E[3] = y
    BY <1>3, <2>1, <2>2, <2>4, Triple
  <2>6. test.values = {0}
    BY <1>4, <1>7
  <2>7. ASSUME NEW a \in D[1].values, NEW b \in D[2].values, NEW c \in D[3].values, a = 1 <=> b = 1 /\ c = 1
        PROVE  a \in test.values /\ b \in x.values /\ c \in y.values
    <3>1. a \in test.values /\ a = 0 /\ b \in {0, 1} /\ c \in {0, 1}
      BY <1>1, <1>3, <2>6, <2>7
    <3>2. c \in y.values
      BY <2>2, <2>7, <3>1
    <3>3. b \in x.values
      BY <2>4, <2>7, <3>1, <3>2
    <3>4. QED
      BY <3>1, <3>2, <3>3
  <2>8. ASSUME NEW b \in Int, NEW c \in Int, x.values = {b}, y.values = {c} PROVE ~(b = 1 /\ c = 1)
    BY <2>2, <2>4, <2>8
  <2>9. \A a \in D[1].values, b \in D[2].values, c \in D[3].values :
          (a = 1 <=> b = 1 /\ c = 1) => a \in E[1].values /\ b \in E[2].values /\ c \in E[3].values
    BY <2>5, <2>7
  <2>10. \A a, b, c \in Int :
           E[1].values = {a} /\ E[2].values = {b} /\ E[3].values = {c} => (a = 1 <=> b = 1 /\ c = 1)
    BY <2>5, <2>6, <2>8
  <2>11. QED
    BY <2>5, <2>9, <2>10
<1>8. CASE ~IsTrue(test) /\ ~IsFalse(test)
  <2>1. E = Replaced(D, 1, test)
    BY <1>2, <1>8
  <2>2. Narrowed(D, E) /\ E[1] = test /\ E[2] = D[2] /\ E[3] = D[3]
    BY <1>3, <2>1, FirstCut
  <2>3. \A a \in Int : test.values # {a}
    BY <1>4, <1>8
  <2>4. QED
    BY <1>3, <2>2, <2>3
<1>9. QED
  BY <1>6, <1>7, <1>8

(* What is computed when the arguments are known, and nothing before.      *)
LEMMA ComputedRight ==
  ASSUME NEW n, NEW D, Scoped(D, n), NEW z \in 1 .. n, NEW args, args \subseteq 1 .. n, z \notin args,
         NEW v, (\A i \in args : IsSingleton(D[i])) => v \in Int,
         NEW E, E = Computed(D, z, args, v)
  PROVE  /\ Narrowed(D, E) /\ \A i \in 1 .. n : i # z => E[i] = D[i]
         /\ (\A i \in args : IsSingleton(D[i])) => E[z].values = D[z].values \cap {v}
         /\ ~(\A i \in args : IsSingleton(D[i])) => E = D
<1> DEFINE known == \A i \in args : IsSingleton(D[i])
           Z == IntersectBounds(D[z], v, v)
<1>1. CASE known
  <2>1. PartOf(Z, D[z]) /\ Z.values = {w \in D[z].values : v <= w /\ w <= v} /\ v \in Int
    BY <1>1, Cut DEF Scoped
  <2>2. Z.values = D[z].values \cap {v}
    <3>1. \A w \in D[z].values : w \in Int
      BY DEF Scoped, Proper
    <3>2. QED
      BY <2>1, <3>1
  <2> HIDE DEF Z
  <2>3. E = Replaced(D, z, Z)
    BY <1>1 DEF Computed, Replaced, Z
  <2>4. Narrowed(D, E) /\ E[z] = Z /\ \A i \in 1 .. n : i # z => E[i] = D[i]
    BY <2>1, <2>3, OneCut
  <2>5. QED
    BY <1>1, <2>2, <2>4
<1>2. CASE ~known
  <2>1. E = D
    BY <1>2 DEF Computed
  <2>2. QED
    BY <1>2, <2>1, NarrowedItself
<1>3. QED
  BY <1>1, <1>2

(* One value of each argument is the value that is computed with.          *)
LEMMA Arguments ==
  ASSUME NEW n, NEW D, Scoped(D, n), NEW i \in 1 .. n
  PROVE  /\ IsSingleton(D[i]) => TheValue(D[i]) \in Int /\ D[i].values = {TheValue(D[i])}
         /\ \A a \in Int : D[i].values = {a} => IsSingleton(D[i]) /\ TheValue(D[i]) = a
<1>1. Proper(D[i])
  BY DEF Scoped
<1>2. QED
  BY <1>1, Single DEF TheValue

LEMMA SquareOfDifferenceRight ==
  ASSUME NEW D, Scoped(D, 3), NEW E, E = SquareOfDifference(D)
  PROVE  /\ Narrowed(D, E)
         /\ \A a \in D[1].values, b \in D[2].values, c \in D[3].values :
              c = (a - b) * (a - b) => a \in E[1].values /\ b \in E[2].values /\ c \in E[3].values
         /\ \A a, b, c \in Int :
              E[1].values = {a} /\ E[2].values = {b} /\ E[3].values = {c} => c = (a - b) * (a - b)
<1> DEFINE p == TheValue(D[1])
           q == TheValue(D[2])
           v == (p - q) * (p - q)
           known == \A i \in {1, 2} : IsSingleton(D[i])
<1>1. /\ known => p \in Int /\ D[1].values = {p} /\ q \in Int /\ D[2].values = {q}
      /\ \A a, b \in Int : D[1].values = {a} /\ D[2].values = {b} => known /\ p = a /\ q = b
  <2>1. 1 \in 1 .. 3 /\ 2 \in 1 .. 3
    OBVIOUS
  <2>2. QED
    BY <2>1, Arguments
<1> HIDE DEF p, q
<1>2. known => v \in Int
  BY <1>1, OfTwo
<1>3. E = Computed(D, 3, {1, 2}, v)
  BY DEF SquareOfDifference, p, q
<1> HIDE DEF v
<1>4. /\ Narrowed(D, E) /\ \A i \in 1 .. 3 : i # 3 => E[i] = D[i]
      /\ known => E[3].values = D[3].values \cap {v}
      /\ ~known => E = D
  <2>1. 3 \in 1 .. 3 /\ {1, 2} \subseteq 1 .. 3 /\ 3 \notin {1, 2}
    OBVIOUS
  <2>2. QED
    BY <1>2, <1>3, <2>1, ComputedRight
<1>5. E[1] = D[1] /\ E[2] = D[2]
  BY <1>4
<1> HIDE DEF known
<1>6. ASSUME NEW a \in D[1].values, NEW b \in D[2].values, NEW c \in D[3].values, c = (a - b) * (a - b)
      PROVE  a \in E[1].values /\ b \in E[2].values /\ c \in E[3].values
  <2>1. CASE known
    <3>1. a = p /\ b = q
      BY <1>1, <2>1
    <3>2. c = v
      BY <1>6, <3>1 DEF v
    <3>3. QED
      BY <1>4, <1>5, <2>1, <3>2
  <2>2. QED
    BY <1>4, <2>1
<1>7. ASSUME NEW a \in Int, NEW b \in Int, NEW c \in Int,
             E[1].values = {a}, E[2].values = {b}, E[3].values = {c}
      PROVE  c = (a - b) * (a - b)
  <2>1. known /\ p = a /\ q = b
    BY <1>1, <1>5, <1>7
  <2>2. c = v
    BY <1>4, <1>7, <2>1
  <2>3. QED
    BY <2>1, <2>2 DEF v
<1>8. QED
  BY <1>4, <1>6, <1>7

LEMMA MaxRight ==
  ASSUME NEW D, Scoped(D, 3), NEW E, E = MaxOf(D)
  PROVE  /\ Narrowed(D, E)
         /\ \A a \in D[1].values, b \in D[2].values, c \in D[3].values :
              a = Max({b, c}) => a \in E[1].values /\ b \in E[2].values /\ c \in E[3].values
         /\ \A a, b, c \in Int :
              E[1].values = {a} /\ E[2].values = {b} /\ E[3].values = {c} => a = Max({b, c})
<1> DEFINE p == TheValue(D[2])
           q == TheValue(D[3])
           v == Max({p, q})
           known == \A i \in {2, 3} : IsSingleton(D[i])
<1>1. /\ known => p \in Int /\ D[2].values = {p} /\ q \in Int /\ D[3].values = {q}
      /\ \A a, b \in Int : D[2].values = {a} /\ D[3].values = {b} => known /\ p = a /\ q = b
  <2>1. 2 \in 1 .. 3 /\ 3 \in 1 .. 3
    OBVIOUS
  <2>2. QED
    BY <2>1, Arguments
<1> HIDE DEF p, q
<1>2. known => v \in Int
  BY <1>1, OfTwo
<1>3. E = Computed(D, 1, {2, 3}, v)
  BY DEF MaxOf, p, q
<1> HIDE DEF v
<1>4. /\ Narrowed(D, E) /\ \A i \in 1 .. 3 : i # 1 => E[i] = D[i]
      /\ known => E[1].values = D[1].values \cap {v}
      /\ ~known => E = D
  <2>1. 1 \in 1 .. 3 /\ {2, 3} \subseteq 1 .. 3 /\ 1 \notin {2, 3}
    OBVIOUS
  <2>2. QED
    BY <1>2, <1>3, <2>1, ComputedRight
<1>5. E[2] = D[2] /\ E[3] = D[3]
  BY <1>4
<1> HIDE DEF known
<1>6. ASSUME NEW a \in D[1].values, NEW b \in D[2].values, NEW c \in D[3].values, a = Max({b, c})
      PROVE  a \in E[1].values /\ b \in E[2].values /\ c \in E[3].values
  <2>1. CASE known
    <3>1. b = p /\ c = q
      BY <1>1, <2>1
    <3>2. a = v
      BY <1>6, <3>1 DEF v
    <3>3. QED
      BY <1>4, <1>5, <2>1, <3>2
  <2>2. QED
    BY <1>4, <2>1
<1>7. ASSUME NEW a \in Int, NEW b \in Int, NEW c \in Int,
             E[1].values = {a}, E[2].values = {b}, E[3].values = {c}
      PROVE  a = Max({b, c})
  <2>1. known /\ p = b /\ q = c
    BY <1>1, <1>5, <1>7
  <2>2. a = v
    BY <1>4, <1>7, <2>1
  <2>3. QED
    BY <2>1, <2>2 DEF v
<1>8. QED
  BY <1>4, <1>6, <1>7

LEMMA MinRight ==
  ASSUME NEW D, Scoped(D, 3), NEW E, E = MinOf(D)
  PROVE  /\ Narrowed(D, E)
         /\ \A a \in D[1].values, b \in D[2].values, c \in D[3].values :
              a = Min({b, c}) => a \in E[1].values /\ b \in E[2].values /\ c \in E[3].values
         /\ \A a, b, c \in Int :
              E[1].values = {a} /\ E[2].values = {b} /\ E[3].values = {c} => a = Min({b, c})
<1> DEFINE p == TheValue(D[2])
           q == TheValue(D[3])
           v == Min({p, q})
           known == \A i \in {2, 3} : IsSingleton(D[i])
<1>1. /\ known => p \in Int /\ D[2].values = {p} /\ q \in Int /\ D[3].values = {q}
      /\ \A a, b \in Int : D[2].values = {a} /\ D[3].values = {b} => known /\ p = a /\ q = b
  <2>1. 2 \in 1 .. 3 /\ 3 \in 1 .. 3
    OBVIOUS
  <2>2. QED
    BY <2>1, Arguments
<1> HIDE DEF p, q
<1>2. known => v \in Int
  BY <1>1, OfTwo
<1>3. E = Computed(D, 1, {2, 3}, v)
  BY DEF MinOf, p, q
<1> HIDE DEF v
<1>4. /\ Narrowed(D, E) /\ \A i \in 1 .. 3 : i # 1 => E[i] = D[i]
      /\ known => E[1].values = D[1].values \cap {v}
      /\ ~known => E = D
  <2>1. 1 \in 1 .. 3 /\ {2, 3} \subseteq 1 .. 3 /\ 1 \notin {2, 3}
    OBVIOUS
  <2>2. QED
    BY <1>2, <1>3, <2>1, ComputedRight
<1>5. E[2] = D[2] /\ E[3] = D[3]
  BY <1>4
<1> HIDE DEF known
<1>6. ASSUME NEW a \in D[1].values, NEW b \in D[2].values, NEW c \in D[3].values, a = Min({b, c})
      PROVE  a \in E[1].values /\ b \in E[2].values /\ c \in E[3].values
  <2>1. CASE known
    <3>1. b = p /\ c = q
      BY <1>1, <2>1
    <3>2. a = v
      BY <1>6, <3>1 DEF v
    <3>3. QED
      BY <1>4, <1>5, <2>1, <3>2
  <2>2. QED
    BY <1>4, <2>1
<1>7. ASSUME NEW a \in Int, NEW b \in Int, NEW c \in Int,
             E[1].values = {a}, E[2].values = {b}, E[3].values = {c}
      PROVE  a = Min({b, c})
  <2>1. known /\ p = b /\ q = c
    BY <1>1, <1>5, <1>7
  <2>2. a = v
    BY <1>4, <1>7, <2>1
  <2>3. QED
    BY <2>1, <2>2 DEF v
<1>8. QED
  BY <1>4, <1>6, <1>7

LEMMA AbsRight ==
  ASSUME NEW D, Scoped(D, 2), NEW E, E = AbsOf(D)
  PROVE  /\ Narrowed(D, E)
         /\ \A a \in D[1].values, b \in D[2].values :
              a = Absolute(b) => a \in E[1].values /\ b \in E[2].values
         /\ \A a, b \in Int : E[1].values = {a} /\ E[2].values = {b} => a = Absolute(b)
<1> DEFINE q == TheValue(D[2])
           v == Absolute(q)
           known == \A i \in {2} : IsSingleton(D[i])
<1>1. /\ known => q \in Int /\ D[2].values = {q}
      /\ \A b \in Int : D[2].values = {b} => known /\ q = b
  <2>1. 2 \in 1 .. 2
    OBVIOUS
  <2>2. QED
    BY <2>1, Arguments
<1> HIDE DEF q
<1>2. known => v \in Int
  BY <1>1 DEF Absolute
<1>3. E = Computed(D, 1, {2}, v)
  BY DEF AbsOf, q
<1> HIDE DEF v
<1>4. /\ Narrowed(D, E) /\ E[2] = D[2]
      /\ known => E[1].values = D[1].values \cap {v}
      /\ ~known => E = D
  <2>1. 1 \in 1 .. 2 /\ 2 \in 1 .. 2 /\ 2 # 1 /\ {2} \subseteq 1 .. 2 /\ 1 \notin {2}
    OBVIOUS
  <2>2. QED
    BY <1>2, <1>3, <2>1, ComputedRight
<1> HIDE DEF known
<1>5. ASSUME NEW a \in D[1].values, NEW b \in D[2].values, a = Absolute(b)
      PROVE  a \in E[1].values /\ b \in E[2].values
  <2>1. CASE known
    BY <1>1, <1>4, <1>5, <2>1 DEF v
  <2>2. QED
    BY <1>4, <2>1
<1>6. ASSUME NEW a \in Int, NEW b \in Int, E[1].values = {a}, E[2].values = {b}
      PROVE  a = Absolute(b)
  <2>1. known /\ q = b
    BY <1>1, <1>4, <1>6
  <2>2. QED
    BY <1>4, <1>6, <2>1 DEF v
<1>7. QED
  BY <1>4, <1>5, <1>6

(***************************************************************************)
(* 4. One execution of a class.                                            *)
(***************************************************************************)
LEMMA FilterOf ==
  ASSUME NEW D
  PROVE  /\ Filter("SubsetOf", D) = SubsetOf(D)
         /\ Filter("LessThanEqual", D) = LessThanEqual(D, 1, 2)
         /\ Filter("LessThan", D) = LessThan(D, 1, 2)
         /\ Filter("NotEqual", D) = NotEqual(D)
         /\ Filter("Unary", D) = Unary(D, Source)
         /\ Filter("AddEqual", D) = AddEqual(D)
         /\ Filter("WithinBounds", D) = WithinBounds(D)
         /\ Filter("SquareOfDifference", D) = SquareOfDifference(D)
         /\ Filter("Max", D) = MaxOf(D)
         /\ Filter("Min", D) = MinOf(D)
         /\ Filter("TestEQ", D) = TestEQ(D)
         /\ Filter("TestNEQ", D) = TestNEQ(D)
         /\ Filter("TestLessThan", D) = TestLessThan(D)
         /\ Filter("TestLEQ", D) = TestLEQ(D)
         /\ Filter("TestOr", D) = TestOr(D)
         /\ Filter("TestAnd", D) = TestAnd(D)
         /\ Filter("Negate", D) = Negate(D)
         /\ Filter("AbsoluteValue", D) = AbsoluteValue(D)
         /\ Filter("Abs", D) = AbsOf(D)
         /\ Filter("TestSingleton", D) = TestSingleton(D)
BY DEF Filter

LEMMA RelationOf ==
  ASSUME NEW t
  PROVE  /\ Relation("SubsetOf", t) <=> (AllSame(t))
         /\ Relation("LessThanEqual", t) <=> (t[1] <= t[2])
         /\ Relation("LessThan", t) <=> (t[1] < t[2])
         /\ Relation("NotEqual", t) <=> (t[1] # t[2])
         /\ Relation("Unary", t) <=> (t[1] \in Source.values)
         /\ Relation("AddEqual", t) <=> (t[1] + t[2] = t[3])
         /\ Relation("WithinBounds", t) <=> (t[2] <= t[1] /\ t[1] <= t[3])
         /\ Relation("SquareOfDifference", t) <=> (t[3] = (t[1] - t[2]) * (t[1] - t[2]))
         /\ Relation("Max", t) <=> (t[1] = Max({t[2], t[3]}))
         /\ Relation("Min", t) <=> (t[1] = Min({t[2], t[3]}))
         /\ Relation("TestEQ", t) <=> (t[1] = 1 <=> t[2] = t[3])
         /\ Relation("TestNEQ", t) <=> (t[1] = 1 <=> t[2] # t[3])
         /\ Relation("TestLessThan", t) <=> (t[1] = 1 <=> t[2] < t[3])
         /\ Relation("TestLEQ", t) <=> (t[1] = 1 <=> t[2] <= t[3])
         /\ Relation("TestOr", t) <=> (t[1] = 1 <=> 1 \in {t[2], t[3]})
         /\ Relation("TestAnd", t) <=> (t[1] = 1 <=> t[2] = 1 /\ t[3] = 1)
         /\ Relation("Negate", t) <=> (t[1] = -t[2])
         /\ Relation("AbsoluteValue", t) <=> (t[1] = Absolute(t[2]))
         /\ Relation("Abs", t) <=> (t[1] = Absolute(t[2]))
         /\ Relation("TestSingleton", t) <=> (t[1] = 1)
BY DEF Relation

(* What is true of the domains when a class has nothing to do.             *)
AtRest(c, D) ==
  CASE c = "SubsetOf" -> \A v \in D[1].values : Lower(D[2]) <= v /\ v <= Upper(D[2])
    [] c = "LessThanEqual" -> Lower(D[1]) <= Lower(D[2]) /\ Upper(D[1]) <= Upper(D[2])
    [] c = "LessThan" -> Lower(D[1]) < Lower(D[2]) /\ Upper(D[1]) < Upper(D[2])
    [] c = "NotEqual" -> Apart(D[1], D[2]) /\ Apart(D[2], D[1])
    [] c = "Unary" -> D[1].values \subseteq Source.values
    [] OTHER -> (\A i \in DOMAIN D : IsSingleton(D[i])) => \A t \in Tuples(D) : Relation(c, t)

LEMMA AtRestOf ==
  ASSUME NEW D
  PROVE  /\ AtRest("SubsetOf", D) <=> \A v \in D[1].values : Lower(D[2]) <= v /\ v <= Upper(D[2])
         /\ AtRest("LessThanEqual", D) <=> (Lower(D[1]) <= Lower(D[2]) /\ Upper(D[1]) <= Upper(D[2]))
         /\ AtRest("LessThan", D) <=> (Lower(D[1]) < Lower(D[2]) /\ Upper(D[1]) < Upper(D[2]))
         /\ AtRest("NotEqual", D) <=> (Apart(D[1], D[2]) /\ Apart(D[2], D[1]))
         /\ AtRest("Unary", D) <=> D[1].values \subseteq Source.values
         /\ \A c : c \notin Ignoring =>
              (AtRest(c, D) <=> ((\A i \in DOMAIN D : IsSingleton(D[i])) => \A t \in Tuples(D) : Relation(c, t)))
<1>1. /\ AtRest("SubsetOf", D) <=> \A v \in D[1].values : Lower(D[2]) <= v /\ v <= Upper(D[2])
      /\ AtRest("LessThanEqual", D) <=> (Lower(D[1]) <= Lower(D[2]) /\ Upper(D[1]) <= Upper(D[2]))
      /\ AtRest("LessThan", D) <=> (Lower(D[1]) < Lower(D[2]) /\ Upper(D[1]) < Upper(D[2]))
      /\ AtRest("NotEqual", D) <=> (Apart(D[1], D[2]) /\ Apart(D[2], D[1]))
      /\ AtRest("Unary", D) <=> D[1].values \subseteq Source.values
  BY DEF AtRest
<1>2. ASSUME NEW c, c \notin Ignoring
      PROVE  AtRest(c, D) <=> ((\A i \in DOMAIN D : IsSingleton(D[i])) => \A t \in Tuples(D) : Relation(c, t))
  BY <1>2 DEF AtRest, Ignoring
<1>3. QED
  BY <1>1, <1>2

LEMMA TuplesAreChosen ==
  ASSUME NEW D
  PROVE  /\ \A t \in Tuples(D) : Chosen(t, D) /\ t = [i \in DOMAIN D |-> t[i]]
         /\ \A t : Chosen(t, D) /\ t = [i \in DOMAIN D |-> t[i]] => t \in Tuples(D)
<1> DEFINE all == UNION {D[i].values : i \in DOMAIN D}
<1>1. Tuples(D) = {t \in [DOMAIN D -> all] : Chosen(t, D)}
  BY DEF Tuples, Chosen
<1>2. ASSUME NEW t, Chosen(t, D), t = [i \in DOMAIN D |-> t[i]] PROVE t \in [DOMAIN D -> all]
  <2>1. \A i \in DOMAIN D : t[i] \in all
    BY <1>2 DEF Chosen
  <2> HIDE DEF all
  <2>2. QED
    BY <1>2, <2>1
<1> HIDE DEF all
<1>3. QED
  BY <1>1, <1>2

(* A class that ignores no event rests if values that are all decided      *)
(* satisfy it.                                                             *)
LEMMA Rests ==
  ASSUME NEW n, NEW D, Scoped(D, n), NEW c, c \notin Ignoring,
         \A t : (\A i \in 1 .. n : t[i] \in Int /\ D[i].values = {t[i]}) => Relation(c, t)
  PROVE  AtRest(c, D)
<1>1. ASSUME \A i \in DOMAIN D : IsSingleton(D[i]), NEW t \in Tuples(D)
      PROVE  Relation(c, t)
  <2>1. DOMAIN D = 1 .. n
    BY DEF Scoped
  <2>2. ASSUME NEW i \in 1 .. n PROVE t[i] \in Int /\ D[i].values = {t[i]}
    <3>1. Proper(D[i]) /\ IsSingleton(D[i]) /\ t[i] \in D[i].values
      BY <1>1, <2>1, TuplesAreChosen DEF Scoped, Chosen
    <3>2. PICK v \in Int : D[i].values = {v}
      BY <3>1, Single
    <3>3. QED
      BY <3>1, <3>2
  <2>3. QED
    BY <2>2
<1>2. QED
  BY <1>1, AtRestOf

LEMMA OfOne ==
  ASSUME NEW D, Scoped(D, 1), NEW E, Narrowed(D, E), NEW t
  PROVE  /\ Chosen(t, D) <=> t[1] \in D[1].values
         /\ Chosen(t, E) <=> t[1] \in E[1].values
<1>1. DOMAIN D = 1 .. 1 /\ DOMAIN E = 1 .. 1 /\ \A i : i \in 1 .. 1 <=> i = 1
  BY DEF Scoped, Narrowed
<1>2. QED
  BY <1>1 DEF Chosen

LEMMA OfPair ==
  ASSUME NEW D, Scoped(D, 2), NEW E, Narrowed(D, E), NEW t
  PROVE  /\ Chosen(t, D) <=> (t[1] \in D[1].values /\ t[2] \in D[2].values)
         /\ Chosen(t, E) <=> (t[1] \in E[1].values /\ t[2] \in E[2].values)
<1>1. DOMAIN D = 1 .. 2 /\ DOMAIN E = 1 .. 2 /\ \A i : i \in 1 .. 2 <=> i = 1 \/ i = 2
  BY DEF Scoped, Narrowed
<1>2. QED
  BY <1>1 DEF Chosen

LEMMA OfTriple ==
  ASSUME NEW D, Scoped(D, 3), NEW E, Narrowed(D, E), NEW t
  PROVE  /\ Chosen(t, D) <=> (t[1] \in D[1].values /\ t[2] \in D[2].values /\ t[3] \in D[3].values)
         /\ Chosen(t, E) <=> (t[1] \in E[1].values /\ t[2] \in E[2].values /\ t[3] \in E[3].values)
<1>1. DOMAIN D = 1 .. 3 /\ DOMAIN E = 1 .. 3 /\ \A i : i \in 1 .. 3 <=> i = 1 \/ i = 2 \/ i = 3
  BY DEF Scoped, Narrowed
<1>2. QED
  BY <1>1 DEF Chosen

(* What an execution of class c on D that leaves E must be.                *)
Right(c, D, E) ==
  /\ Narrowed(D, E)
  /\ \A t \in Tuples(D) : Relation(c, t) => Chosen(t, E)
  /\ ~SomeEmpty(E) => AtRest(c, E)

LEMMA PairIsRight ==
  ASSUME NEW D, Scoped(D, 2), NEW E, Narrowed(D, E), NEW c, c \notin Ignoring,
         \A t : Relation(c, t) /\ t[1] \in D[1].values /\ t[2] \in D[2].values
           => t[1] \in E[1].values /\ t[2] \in E[2].values,
         \A t : t[1] \in Int /\ t[2] \in Int /\ E[1].values = {t[1]} /\ E[2].values = {t[2]}
           => Relation(c, t)
  PROVE  Right(c, D, E)
<1>1. \A t \in Tuples(D) : Relation(c, t) => Chosen(t, E)
  BY OfPair, TuplesAreChosen
<1>2. AtRest(c, E)
  <2>1. \A t : (\A i \in 1 .. 2 : t[i] \in Int /\ E[i].values = {t[i]}) => Relation(c, t)
    OBVIOUS
  <2>2. QED
    BY <2>1, StillScoped, Rests
<1>3. QED
  BY <1>1, <1>2 DEF Right

LEMMA TripleIsRight ==
  ASSUME NEW D, Scoped(D, 3), NEW E, Narrowed(D, E), NEW c, c \notin Ignoring,
         \A t : Relation(c, t) /\ t[1] \in D[1].values /\ t[2] \in D[2].values /\ t[3] \in D[3].values
           => t[1] \in E[1].values /\ t[2] \in E[2].values /\ t[3] \in E[3].values,
         \A t : t[1] \in Int /\ t[2] \in Int /\ t[3] \in Int
                /\ E[1].values = {t[1]} /\ E[2].values = {t[2]} /\ E[3].values = {t[3]}
           => Relation(c, t)
  PROVE  Right(c, D, E)
<1>1. \A t \in Tuples(D) : Relation(c, t) => Chosen(t, E)
  BY OfTriple, TuplesAreChosen
<1>2. AtRest(c, E)
  <2>1. \A t : (\A i \in 1 .. 3 : t[i] \in Int /\ E[i].values = {t[i]}) => Relation(c, t)
    OBVIOUS
  <2>2. QED
    BY <2>1, StillScoped, Rests
<1>3. QED
  BY <1>1, <1>2 DEF Right

(* The domains that such a class is executed on.                           *)
Meant(c, D) == Scoped(D, Arity(c)) /\ OfKinds(c, D)

LEMMA Meaning ==
  ASSUME NEW c \in Direct, NEW D, Meant(c, D)
  PROVE  /\ c = "Unary" => Scoped(D, 1)
         /\ c \in Sums \cup Tests \cup Connectives => Scoped(D, 3)
         /\ c \notin {"Unary"} \cup Sums \cup Tests \cup Connectives => Scoped(D, 2)
         /\ c = "AddEqual" => \A i \in 1 .. 3 : IsInterval(D[i])
         /\ c \in {"Negate", "AbsoluteValue"} => IsInterval(D[1]) /\ IsInterval(D[2])
         /\ c \in Tests \cup {"TestSingleton"} => IsCondition(D[1])
         /\ c \in Connectives => \A i \in 1 .. 3 : IsCondition(D[i])
<1>1. /\ c = "Unary" => Arity(c) = 1
      /\ c \in Sums \cup Tests \cup Connectives => Arity(c) = 3
      /\ c \notin {"Unary"} \cup Sums \cup Tests \cup Connectives => Arity(c) = 2
  BY DEF Arity, Sums, Tests, Connectives
<1>2. /\ c = "Unary" => Scoped(D, 1)
      /\ c \in Sums \cup Tests \cup Connectives => Scoped(D, 3)
      /\ c \notin {"Unary"} \cup Sums \cup Tests \cup Connectives => Scoped(D, 2)
  BY <1>1 DEF Meant
<1>3. \A n : Scoped(D, n) => DOMAIN D = 1 .. n
  BY DEF Scoped
<1>4. c = "AddEqual" => c \in Sums
  BY DEF Sums
<1>5. c = "AddEqual" => \A i \in 1 .. 3 : IsInterval(D[i])
  BY <1>2, <1>3, <1>4 DEF Meant, OfKinds
<1>6. c \in {"Negate", "AbsoluteValue"} => DOMAIN D = 1 .. 2
  BY <1>2, <1>3 DEF Sums, Tests, Connectives
<1>7. c \in {"Negate", "AbsoluteValue"} => IsInterval(D[1]) /\ IsInterval(D[2])
  BY <1>6 DEF Meant, OfKinds
<1>8. c \in Tests \cup {"TestSingleton"} => IsCondition(D[1])
  BY DEF Meant, OfKinds
<1>9. c \in Connectives => \A i \in 1 .. 3 : IsCondition(D[i])
  BY <1>2, <1>3 DEF Meant, OfKinds
<1>10. QED
  BY <1>2, <1>5, <1>7, <1>8, <1>9

LEMMA SumsRight ==
  ASSUME NEW c \in Sums, NEW D, Meant(c, D), ~SomeEmpty(D), NEW E, E = Filter(c, D)
  PROVE  Right(c, D, E)
<1>1. c \in Direct
  BY DEF Direct, Sums
<1>2. /\ c \in Sums \cup Tests \cup Connectives => Scoped(D, 3)
      /\ c \notin {"Unary"} \cup Sums \cup Tests \cup Connectives => Scoped(D, 2)
      /\ c = "AddEqual" => \A i \in 1 .. 3 : IsInterval(D[i])
      /\ c \in {"Negate", "AbsoluteValue"} => IsInterval(D[1]) /\ IsInterval(D[2])
      /\ c \in Tests \cup {"TestSingleton"} => IsCondition(D[1])
      /\ c \in Connectives => \A i \in 1 .. 3 : IsCondition(D[i])
  BY <1>1, Meaning
<1>3. CASE c = "AddEqual"
  <2>1. E = AddEqual(D) /\ Scoped(D, 3) /\ \A i \in 1 .. 3 : IsInterval(D[i])
    BY <1>1, <1>2, <1>3, FilterOf DEF Sums, Tests, Connectives
  <2>2. /\ Narrowed(D, E)
        /\ \A x \in D[1].values, y \in D[2].values, z \in D[3].values :
             x + y = z => x \in E[1].values /\ y \in E[2].values /\ z \in E[3].values
        /\ \A x, y, z \in Int : E[1].values = {x} /\ E[2].values = {y} /\ E[3].values = {z} => x + y = z
    BY <2>1, AddEqualRight
  <2>3. ASSUME NEW t, Relation(c, t), t[1] \in D[1].values, t[2] \in D[2].values, t[3] \in D[3].values
        PROVE  t[1] \in E[1].values /\ t[2] \in E[2].values /\ t[3] \in E[3].values
    <3>1. t[1] + t[2] = t[3]
      BY <1>3, <2>3, RelationOf
    <3>2. QED
      BY <2>2, <2>3, <3>1
  <2>4. ASSUME NEW t, t[1] \in Int, t[2] \in Int, t[3] \in Int,
               E[1].values = {t[1]}, E[2].values = {t[2]}, E[3].values = {t[3]}
        PROVE  Relation(c, t)
    <3>1. t[1] + t[2] = t[3]
      BY <2>2, <2>4
    <3>2. QED
      BY <1>3, <3>1, RelationOf
  <2>5. QED
    BY <1>3, <2>1, <2>2, <2>3, <2>4, TripleIsRight DEF Ignoring
<1>4. CASE c = "WithinBounds"
  <2>1. E = WithinBounds(D) /\ Scoped(D, 3)
    BY <1>1, <1>2, <1>4, FilterOf DEF Sums, Tests, Connectives
  <2>2. /\ Narrowed(D, E)
        /\ \A x \in D[1].values, y \in D[2].values, z \in D[3].values :
             y <= x /\ x <= z => x \in E[1].values /\ y \in E[2].values /\ z \in E[3].values
        /\ \A x, y, z \in Int : E[1].values = {x} /\ E[2].values = {y} /\ E[3].values = {z} => y <= x /\ x <= z
    BY <2>1, WithinBoundsRight
  <2>3. ASSUME NEW t, Relation(c, t), t[1] \in D[1].values, t[2] \in D[2].values, t[3] \in D[3].values
        PROVE  t[1] \in E[1].values /\ t[2] \in E[2].values /\ t[3] \in E[3].values
    <3>1. t[2] <= t[1] /\ t[1] <= t[3]
      BY <1>4, <2>3, RelationOf
    <3>2. QED
      BY <2>2, <2>3, <3>1
  <2>4. ASSUME NEW t, t[1] \in Int, t[2] \in Int, t[3] \in Int,
               E[1].values = {t[1]}, E[2].values = {t[2]}, E[3].values = {t[3]}
        PROVE  Relation(c, t)
    <3>1. t[2] <= t[1] /\ t[1] <= t[3]
      BY <2>2, <2>4
    <3>2. QED
      BY <1>4, <3>1, RelationOf
  <2>5. QED
    BY <1>4, <2>1, <2>2, <2>3, <2>4, TripleIsRight DEF Ignoring
<1>5. CASE c = "SquareOfDifference"
  <2>1. E = SquareOfDifference(D) /\ Scoped(D, 3)
    BY <1>1, <1>2, <1>5, FilterOf DEF Sums, Tests, Connectives
  <2>2. /\ Narrowed(D, E)
        /\ \A x \in D[1].values, y \in D[2].values, z \in D[3].values :
             z = (x - y) * (x - y) => x \in E[1].values /\ y \in E[2].values /\ z \in E[3].values
        /\ \A x, y, z \in Int : E[1].values = {x} /\ E[2].values = {y} /\ E[3].values = {z} => z = (x - y) * (x - y)
    BY <2>1, SquareOfDifferenceRight
  <2>3. ASSUME NEW t, Relation(c, t), t[1] \in D[1].values, t[2] \in D[2].values, t[3] \in D[3].values
        PROVE  t[1] \in E[1].values /\ t[2] \in E[2].values /\ t[3] \in E[3].values
    <3>1. t[3] = (t[1] - t[2]) * (t[1] - t[2])
      BY <1>5, <2>3, RelationOf
    <3>2. QED
      BY <2>2, <2>3, <3>1
  <2>4. ASSUME NEW t, t[1] \in Int, t[2] \in Int, t[3] \in Int,
               E[1].values = {t[1]}, E[2].values = {t[2]}, E[3].values = {t[3]}
        PROVE  Relation(c, t)
    <3>1. t[3] = (t[1] - t[2]) * (t[1] - t[2])
      BY <2>2, <2>4
    <3>2. QED
      BY <1>5, <3>1, RelationOf
  <2>5. QED
    BY <1>5, <2>1, <2>2, <2>3, <2>4, TripleIsRight DEF Ignoring
<1>6. CASE c = "Max"
  <2>1. E = MaxOf(D) /\ Scoped(D, 3)
    BY <1>1, <1>2, <1>6, FilterOf DEF Sums, Tests, Connectives
  <2>2. /\ Narrowed(D, E)
        /\ \A x \in D[1].values, y \in D[2].values, z \in D[3].values :
             x = Max({y, z}) => x \in E[1].values /\ y \in E[2].values /\ z \in E[3].values
        /\ \A x, y, z \in Int : E[1].values = {x} /\ E[2].values = {y} /\ E[3].values = {z} => x = Max({y, z})
    BY <2>1, MaxRight
  <2>3. ASSUME NEW t, Relation(c, t), t[1] \in D[1].values, t[2] \in D[2].values, t[3] \in D[3].values
        PROVE  t[1] \in E[1].values /\ t[2] \in E[2].values /\ t[3] \in E[3].values
    <3>1. t[1] = Max({t[2], t[3]})
      BY <1>6, <2>3, RelationOf
    <3>2. QED
      BY <2>2, <2>3, <3>1
  <2>4. ASSUME NEW t, t[1] \in Int, t[2] \in Int, t[3] \in Int,
               E[1].values = {t[1]}, E[2].values = {t[2]}, E[3].values = {t[3]}
        PROVE  Relation(c, t)
    <3>1. t[1] = Max({t[2], t[3]})
      BY <2>2, <2>4
    <3>2. QED
      BY <1>6, <3>1, RelationOf
  <2>5. QED
    BY <1>6, <2>1, <2>2, <2>3, <2>4, TripleIsRight DEF Ignoring
<1>7. CASE c = "Min"
  <2>1. E = MinOf(D) /\ Scoped(D, 3)
    BY <1>1, <1>2, <1>7, FilterOf DEF Sums, Tests, Connectives
  <2>2. /\ Narrowed(D, E)
        /\ \A x \in D[1].values, y \in D[2].values, z \in D[3].values :
             x = Min({y, z}) => x \in E[1].values /\ y \in E[2].values /\ z \in E[3].values
        /\ \A x, y, z \in Int : E[1].values = {x} /\ E[2].values = {y} /\ E[3].values = {z} => x = Min({y, z})
    BY <2>1, MinRight
  <2>3. ASSUME NEW t, Relation(c, t), t[1] \in D[1].values, t[2] \in D[2].values, t[3] \in D[3].values
        PROVE  t[1] \in E[1].values /\ t[2] \in E[2].values /\ t[3] \in E[3].values
    <3>1. t[1] = Min({t[2], t[3]})
      BY <1>7, <2>3, RelationOf
    <3>2. QED
      BY <2>2, <2>3, <3>1
  <2>4. ASSUME NEW t, t[1] \in Int, t[2] \in Int, t[3] \in Int,
               E[1].values = {t[1]}, E[2].values = {t[2]}, E[3].values = {t[3]}
        PROVE  Relation(c, t)
    <3>1. t[1] = Min({t[2], t[3]})
      BY <2>2, <2>4
    <3>2. QED
      BY <1>7, <3>1, RelationOf
  <2>5. QED
    BY <1>7, <2>1, <2>2, <2>3, <2>4, TripleIsRight DEF Ignoring
<1>8. QED
  BY <1>3, <1>4, <1>5, <1>6, <1>7 DEF Sums

LEMMA TestsRight ==
  ASSUME NEW c \in Tests, NEW D, Meant(c, D), ~SomeEmpty(D), NEW E, E = Filter(c, D)
  PROVE  Right(c, D, E)
<1>1. c \in Direct
  BY DEF Direct, Tests
<1>2. /\ c \in Sums \cup Tests \cup Connectives => Scoped(D, 3)
      /\ c \notin {"Unary"} \cup Sums \cup Tests \cup Connectives => Scoped(D, 2)
      /\ c = "AddEqual" => \A i \in 1 .. 3 : IsInterval(D[i])
      /\ c \in {"Negate", "AbsoluteValue"} => IsInterval(D[1]) /\ IsInterval(D[2])
      /\ c \in Tests \cup {"TestSingleton"} => IsCondition(D[1])
      /\ c \in Connectives => \A i \in 1 .. 3 : IsCondition(D[i])
  BY <1>1, Meaning
<1>3. CASE c = "TestEQ"
  <2>1. E = TestEQ(D) /\ Scoped(D, 3) /\ IsCondition(D[1])
    BY <1>1, <1>2, <1>3, FilterOf DEF Sums, Tests, Connectives
  <2>2. /\ Narrowed(D, E)
        /\ \A x \in D[1].values, y \in D[2].values, z \in D[3].values :
             (x = 1 <=> y = z) => x \in E[1].values /\ y \in E[2].values /\ z \in E[3].values
        /\ \A x, y, z \in Int : E[1].values = {x} /\ E[2].values = {y} /\ E[3].values = {z} => (x = 1 <=> y = z)
    BY <2>1, TestEQRight
  <2>3. ASSUME NEW t, Relation(c, t), t[1] \in D[1].values, t[2] \in D[2].values, t[3] \in D[3].values
        PROVE  t[1] \in E[1].values /\ t[2] \in E[2].values /\ t[3] \in E[3].values
    <3>1. t[1] = 1 <=> t[2] = t[3]
      BY <1>3, <2>3, RelationOf
    <3>2. QED
      BY <2>2, <2>3, <3>1
  <2>4. ASSUME NEW t, t[1] \in Int, t[2] \in Int, t[3] \in Int,
               E[1].values = {t[1]}, E[2].values = {t[2]}, E[3].values = {t[3]}
        PROVE  Relation(c, t)
    <3>1. t[1] = 1 <=> t[2] = t[3]
      BY <2>2, <2>4
    <3>2. QED
      BY <1>3, <3>1, RelationOf
  <2>5. QED
    BY <1>3, <2>1, <2>2, <2>3, <2>4, TripleIsRight DEF Ignoring
<1>4. CASE c = "TestNEQ"
  <2>1. E = TestNEQ(D) /\ Scoped(D, 3) /\ IsCondition(D[1])
    BY <1>1, <1>2, <1>4, FilterOf DEF Sums, Tests, Connectives
  <2>2. /\ Narrowed(D, E)
        /\ \A x \in D[1].values, y \in D[2].values, z \in D[3].values :
             (x = 1 <=> y # z) => x \in E[1].values /\ y \in E[2].values /\ z \in E[3].values
        /\ \A x, y, z \in Int : E[1].values = {x} /\ E[2].values = {y} /\ E[3].values = {z} => (x = 1 <=> y # z)
    BY <2>1, TestNEQRight
  <2>3. ASSUME NEW t, Relation(c, t), t[1] \in D[1].values, t[2] \in D[2].values, t[3] \in D[3].values
        PROVE  t[1] \in E[1].values /\ t[2] \in E[2].values /\ t[3] \in E[3].values
    <3>1. t[1] = 1 <=> t[2] # t[3]
      BY <1>4, <2>3, RelationOf
    <3>2. QED
      BY <2>2, <2>3, <3>1
  <2>4. ASSUME NEW t, t[1] \in Int, t[2] \in Int, t[3] \in Int,
               E[1].values = {t[1]}, E[2].values = {t[2]}, E[3].values = {t[3]}
        PROVE  Relation(c, t)
    <3>1. t[1] = 1 <=> t[2] # t[3]
      BY <2>2, <2>4
    <3>2. QED
      BY <1>4, <3>1, RelationOf
  <2>5. QED
    BY <1>4, <2>1, <2>2, <2>3, <2>4, TripleIsRight DEF Ignoring
<1>5. CASE c = "TestLessThan"
  <2>1. E = TestLessThan(D) /\ Scoped(D, 3) /\ IsCondition(D[1])
    BY <1>1, <1>2, <1>5, FilterOf DEF Sums, Tests, Connectives
  <2>2. /\ Narrowed(D, E)
        /\ \A x \in D[1].values, y \in D[2].values, z \in D[3].values :
             (x = 1 <=> y < z) => x \in E[1].values /\ y \in E[2].values /\ z \in E[3].values
        /\ \A x, y, z \in Int : E[1].values = {x} /\ E[2].values = {y} /\ E[3].values = {z} => (x = 1 <=> y < z)
    BY <2>1, TestLessThanRight
  <2>3. ASSUME NEW t, Relation(c, t), t[1] \in D[1].values, t[2] \in D[2].values, t[3] \in D[3].values
        PROVE  t[1] \in E[1].values /\ t[2] \in E[2].values /\ t[3] \in E[3].values
    <3>1. t[1] = 1 <=> t[2] < t[3]
      BY <1>5, <2>3, RelationOf
    <3>2. QED
      BY <2>2, <2>3, <3>1
  <2>4. ASSUME NEW t, t[1] \in Int, t[2] \in Int, t[3] \in Int,
               E[1].values = {t[1]}, E[2].values = {t[2]}, E[3].values = {t[3]}
        PROVE  Relation(c, t)
    <3>1. t[1] = 1 <=> t[2] < t[3]
      BY <2>2, <2>4
    <3>2. QED
      BY <1>5, <3>1, RelationOf
  <2>5. QED
    BY <1>5, <2>1, <2>2, <2>3, <2>4, TripleIsRight DEF Ignoring
<1>6. CASE c = "TestLEQ"
  <2>1. E = TestLEQ(D) /\ Scoped(D, 3) /\ IsCondition(D[1])
    BY <1>1, <1>2, <1>6, FilterOf DEF Sums, Tests, Connectives
  <2>2. /\ Narrowed(D, E)
        /\ \A x \in D[1].values, y \in D[2].values, z \in D[3].values :
             (x = 1 <=> y <= z) => x \in E[1].values /\ y \in E[2].values /\ z \in E[3].values
        /\ \A x, y, z \in Int : E[1].values = {x} /\ E[2].values = {y} /\ E[3].values = {z} => (x = 1 <=> y <= z)
    BY <2>1, TestLEQRight
  <2>3. ASSUME NEW t, Relation(c, t), t[1] \in D[1].values, t[2] \in D[2].values, t[3] \in D[3].values
        PROVE  t[1] \in E[1].values /\ t[2] \in E[2].values /\ t[3] \in E[3].values
    <3>1. t[1] = 1 <=> t[2] <= t[3]
      BY <1>6, <2>3, RelationOf
    <3>2. QED
      BY <2>2, <2>3, <3>1
  <2>4. ASSUME NEW t, t[1] \in Int, t[2] \in Int, t[3] \in Int,
               E[1].values = {t[1]}, E[2].values = {t[2]}, E[3].values = {t[3]}
        PROVE  Relation(c, t)
    <3>1. t[1] = 1 <=> t[2] <= t[3]
      BY <2>2, <2>4
    <3>2. QED
      BY <1>6, <3>1, RelationOf
  <2>5. QED
    BY <1>6, <2>1, <2>2, <2>3, <2>4, TripleIsRight DEF Ignoring
<1>7. QED
  BY <1>3, <1>4, <1>5, <1>6 DEF Tests

LEMMA ConnectivesRight ==
  ASSUME NEW c \in Connectives, NEW D, Meant(c, D), ~SomeEmpty(D), NEW E, E = Filter(c, D)
  PROVE  Right(c, D, E)
<1>1. c \in Direct
  BY DEF Direct, Connectives
<1>2. /\ c \in Sums \cup Tests \cup Connectives => Scoped(D, 3)
      /\ c \notin {"Unary"} \cup Sums \cup Tests \cup Connectives => Scoped(D, 2)
      /\ c = "AddEqual" => \A i \in 1 .. 3 : IsInterval(D[i])
      /\ c \in {"Negate", "AbsoluteValue"} => IsInterval(D[1]) /\ IsInterval(D[2])
      /\ c \in Tests \cup {"TestSingleton"} => IsCondition(D[1])
      /\ c \in Connectives => \A i \in 1 .. 3 : IsCondition(D[i])
  BY <1>1, Meaning
<1>3. CASE c = "TestOr"
  <2>1. E = TestOr(D) /\ Scoped(D, 3) /\ \A i \in 1 .. 3 : IsCondition(D[i])
    BY <1>1, <1>2, <1>3, FilterOf DEF Sums, Tests, Connectives
  <2>2. /\ Narrowed(D, E)
        /\ \A x \in D[1].values, y \in D[2].values, z \in D[3].values :
             (x = 1 <=> 1 \in {y, z}) => x \in E[1].values /\ y \in E[2].values /\ z \in E[3].values
        /\ \A x, y, z \in Int : E[1].values = {x} /\ E[2].values = {y} /\ E[3].values = {z} => (x = 1 <=> 1 \in {y, z})
    BY <2>1, TestOrRight
  <2>3. ASSUME NEW t, Relation(c, t), t[1] \in D[1].values, t[2] \in D[2].values, t[3] \in D[3].values
        PROVE  t[1] \in E[1].values /\ t[2] \in E[2].values /\ t[3] \in E[3].values
    <3>1. t[1] = 1 <=> 1 \in {t[2], t[3]}
      BY <1>3, <2>3, RelationOf
    <3>2. QED
      BY <2>2, <2>3, <3>1
  <2>4. ASSUME NEW t, t[1] \in Int, t[2] \in Int, t[3] \in Int,
               E[1].values = {t[1]}, E[2].values = {t[2]}, E[3].values = {t[3]}
        PROVE  Relation(c, t)
    <3>1. t[1] = 1 <=> 1 \in {t[2], t[3]}
      BY <2>2, <2>4
    <3>2. QED
      BY <1>3, <3>1, RelationOf
  <2>5. QED
    BY <1>3, <2>1, <2>2, <2>3, <2>4, TripleIsRight DEF Ignoring
<1>4. CASE c = "TestAnd"
  <2>1. E = TestAnd(D) /\ Scoped(D, 3) /\ \A i \in 1 .. 3 : IsCondition(D[i])
    BY <1>1, <1>2, <1>4, FilterOf DEF Sums, Tests, Connectives
  <2>2. /\ Narrowed(D, E)
        /\ \A x \in D[1].values, y \in D[2].values, z \in D[3].values :
             (x = 1 <=> y = 1 /\ z = 1) => x \in E[1].values /\ y \in E[2].values /\ z \in E[3].values
        /\ \A x, y, z \in Int : E[1].values = {x} /\ E[2].values = {y} /\ E[3].values = {z} => (x = 1 <=> y = 1 /\ z = 1)
    BY <2>1, TestAndRight
  <2>3. ASSUME NEW t, Relation(c, t), t[1] \in D[1].values, t[2] \in D[2].values, t[3] \in D[3].values
        PROVE  t[1] \in E[1].values /\ t[2] \in E[2].values /\ t[3] \in E[3].values
    <3>1. t[1] = 1 <=> t[2] = 1 /\ t[3] = 1
      BY <1>4, <2>3, RelationOf
    <3>2. QED
      BY <2>2, <2>3, <3>1
  <2>4. ASSUME NEW t, t[1] \in Int, t[2] \in Int, t[3] \in Int,
               E[1].values = {t[1]}, E[2].values = {t[2]}, E[3].values = {t[3]}
        PROVE  Relation(c, t)
    <3>1. t[1] = 1 <=> t[2] = 1 /\ t[3] = 1
      BY <2>2, <2>4
    <3>2. QED
      BY <1>4, <3>1, RelationOf
  <2>5. QED
    BY <1>4, <2>1, <2>2, <2>3, <2>4, TripleIsRight DEF Ignoring
<1>5. QED
  BY <1>3, <1>4 DEF Connectives

LEMMA PairsRight ==
  ASSUME NEW c \in {"Negate", "AbsoluteValue", "Abs", "TestSingleton"}, NEW D, Meant(c, D), ~SomeEmpty(D), NEW E, E = Filter(c, D)
  PROVE  Right(c, D, E)
<1>1. c \in Direct
  BY DEF Direct
<1>2. /\ c \in Sums \cup Tests \cup Connectives => Scoped(D, 3)
      /\ c \notin {"Unary"} \cup Sums \cup Tests \cup Connectives => Scoped(D, 2)
      /\ c = "AddEqual" => \A i \in 1 .. 3 : IsInterval(D[i])
      /\ c \in {"Negate", "AbsoluteValue"} => IsInterval(D[1]) /\ IsInterval(D[2])
      /\ c \in Tests \cup {"TestSingleton"} => IsCondition(D[1])
      /\ c \in Connectives => \A i \in 1 .. 3 : IsCondition(D[i])
  BY <1>1, Meaning
<1>3. CASE c = "Negate"
  <2>1. E = Negate(D) /\ Scoped(D, 2) /\ IsInterval(D[1]) /\ IsInterval(D[2])
    BY <1>1, <1>2, <1>3, FilterOf DEF Sums, Tests, Connectives
  <2>2. /\ Narrowed(D, E)
        /\ \A x \in D[1].values, y \in D[2].values :
             x = -y => x \in E[1].values /\ y \in E[2].values
        /\ \A x, y \in Int : E[1].values = {x} /\ E[2].values = {y} => x = -y
    BY <2>1, NegateRight
  <2>3. ASSUME NEW t, Relation(c, t), t[1] \in D[1].values, t[2] \in D[2].values
        PROVE  t[1] \in E[1].values /\ t[2] \in E[2].values
    <3>1. t[1] = -t[2]
      BY <1>3, <2>3, RelationOf
    <3>2. QED
      BY <2>2, <2>3, <3>1
  <2>4. ASSUME NEW t, t[1] \in Int, t[2] \in Int,
               E[1].values = {t[1]}, E[2].values = {t[2]}
        PROVE  Relation(c, t)
    <3>1. t[1] = -t[2]
      BY <2>2, <2>4
    <3>2. QED
      BY <1>3, <3>1, RelationOf
  <2>5. QED
    BY <1>3, <2>1, <2>2, <2>3, <2>4, PairIsRight DEF Ignoring
<1>4. CASE c = "AbsoluteValue"
  <2>1. E = AbsoluteValue(D) /\ Scoped(D, 2) /\ IsInterval(D[1]) /\ IsInterval(D[2])
    BY <1>1, <1>2, <1>4, FilterOf DEF Sums, Tests, Connectives
  <2>2. /\ Narrowed(D, E)
        /\ \A x \in D[1].values, y \in D[2].values :
             x = Absolute(y) => x \in E[1].values /\ y \in E[2].values
        /\ \A x, y \in Int : E[1].values = {x} /\ E[2].values = {y} => x = Absolute(y)
    BY <2>1, AbsoluteValueRight
  <2>3. ASSUME NEW t, Relation(c, t), t[1] \in D[1].values, t[2] \in D[2].values
        PROVE  t[1] \in E[1].values /\ t[2] \in E[2].values
    <3>1. t[1] = Absolute(t[2])
      BY <1>4, <2>3, RelationOf
    <3>2. QED
      BY <2>2, <2>3, <3>1
  <2>4. ASSUME NEW t, t[1] \in Int, t[2] \in Int,
               E[1].values = {t[1]}, E[2].values = {t[2]}
        PROVE  Relation(c, t)
    <3>1. t[1] = Absolute(t[2])
      BY <2>2, <2>4
    <3>2. QED
      BY <1>4, <3>1, RelationOf
  <2>5. QED
    BY <1>4, <2>1, <2>2, <2>3, <2>4, PairIsRight DEF Ignoring
<1>5. CASE c = "Abs"
  <2>1. E = AbsOf(D) /\ Scoped(D, 2)
    BY <1>1, <1>2, <1>5, FilterOf DEF Sums, Tests, Connectives
  <2>2. /\ Narrowed(D, E)
        /\ \A x \in D[1].values, y \in D[2].values :
             x = Absolute(y) => x \in E[1].values /\ y \in E[2].values
        /\ \A x, y \in Int : E[1].values = {x} /\ E[2].values = {y} => x = Absolute(y)
    BY <2>1, AbsRight
  <2>3. ASSUME NEW t, Relation(c, t), t[1] \in D[1].values, t[2] \in D[2].values
        PROVE  t[1] \in E[1].values /\ t[2] \in E[2].values
    <3>1. t[1] = Absolute(t[2])
      BY <1>5, <2>3, RelationOf
    <3>2. QED
      BY <2>2, <2>3, <3>1
  <2>4. ASSUME NEW t, t[1] \in Int, t[2] \in Int,
               E[1].values = {t[1]}, E[2].values = {t[2]}
        PROVE  Relation(c, t)
    <3>1. t[1] = Absolute(t[2])
      BY <2>2, <2>4
    <3>2. QED
      BY <1>5, <3>1, RelationOf
  <2>5. QED
    BY <1>5, <2>1, <2>2, <2>3, <2>4, PairIsRight DEF Ignoring
<1>6. CASE c = "TestSingleton"
  <2>1. E = TestSingleton(D) /\ Scoped(D, 2) /\ IsCondition(D[1])
    BY <1>1, <1>2, <1>6, FilterOf DEF Sums, Tests, Connectives
  <2>2. /\ Narrowed(D, E)
        /\ \A x \in D[1].values, y \in D[2].values :
             x = 1 => x \in E[1].values /\ y \in E[2].values
        /\ \A x, y \in Int : E[1].values = {x} /\ E[2].values = {y} => x = 1
    BY <2>1, TestSingletonRight
  <2>3. ASSUME NEW t, Relation(c, t), t[1] \in D[1].values, t[2] \in D[2].values
        PROVE  t[1] \in E[1].values /\ t[2] \in E[2].values
    <3>1. t[1] = 1
      BY <1>6, <2>3, RelationOf
    <3>2. QED
      BY <2>2, <2>3, <3>1
  <2>4. ASSUME NEW t, t[1] \in Int, t[2] \in Int,
               E[1].values = {t[1]}, E[2].values = {t[2]}
        PROVE  Relation(c, t)
    <3>1. t[1] = 1
      BY <2>2, <2>4
    <3>2. QED
      BY <1>6, <3>1, RelationOf
  <2>5. QED
    BY <1>6, <2>1, <2>2, <2>3, <2>4, PairIsRight DEF Ignoring
<1>7. QED
  BY <1>3, <1>4, <1>5, <1>6

LEMMA IgnoringRight ==
  ASSUME NEW c \in Ignoring, NEW D, Meant(c, D), ~SomeEmpty(D), NEW E, E = Filter(c, D)
  PROVE  Right(c, D, E)
<1>1. c \in Direct
  BY DEF Direct
<1>2. /\ c = "Unary" => Scoped(D, 1)
      /\ c \in Ignoring \ {"Unary"} => Scoped(D, 2)
  BY <1>1, Meaning DEF Ignoring, Sums, Tests, Connectives
<1>3. \A n \in Nat : Scoped(D, n) => \A i \in 1 .. n : D[i].values # {}
  BY DEF Scoped, SomeEmpty, IsEmpty
<1>4. \A n \in Nat : Scoped(D, n) /\ Narrowed(D, E) /\ ~SomeEmpty(E) => \A i \in 1 .. n : E[i].values # {}
  BY DEF Scoped, Narrowed, SomeEmpty, IsEmpty
<1>5. CASE c = "SubsetOf"
  <2>1. E = SubsetOf(D) /\ Scoped(D, 2)
    BY <1>2, <1>5, FilterOf
  <2>2. /\ Narrowed(D, E)
        /\ \A x \in D[1].values, y \in D[2].values : x = y => x \in E[1].values /\ y \in E[2].values
        /\ \A v \in E[1].values : Lower(E[2]) <= v /\ v <= Upper(E[2])
    BY <2>1, SubsetOfRight
  <2>3. ASSUME NEW t \in Tuples(D), Relation(c, t) PROVE Chosen(t, E)
    <3>1. AllSame(t) /\ Chosen(t, D) /\ t = [i \in DOMAIN D |-> t[i]]
      BY <1>5, <2>3, RelationOf, TuplesAreChosen
    <3>2. 1 \in DOMAIN t /\ 2 \in DOMAIN t
      BY <2>1, <3>1 DEF Scoped
    <3>3. t[1] = t[2] /\ t[1] \in D[1].values /\ t[2] \in D[2].values
      BY <2>1, <2>2, <3>1, <3>2, OfPair DEF AllSame
    <3>4. QED
      BY <2>1, <2>2, <3>3, OfPair
  <2>4. AtRest(c, E)
    BY <1>5, <2>2, AtRestOf
  <2>5. QED
    BY <2>2, <2>3, <2>4 DEF Right
<1>6. CASE c = "LessThanEqual"
  <2>1. /\ E = LessThanEqual(D, 1, 2) /\ Scoped(D, 2) /\ 2 \in Nat
        /\ 1 \in 1 .. 2 /\ 2 \in 1 .. 2 /\ 1 # 2
    BY <1>2, <1>6, FilterOf
  <2>2. D[1].values # {} /\ D[2].values # {}
    BY <1>3, <2>1
  <2>3. /\ Narrowed(D, E)
        /\ \A x \in D[1].values, y \in D[2].values : x <= y => x \in E[1].values /\ y \in E[2].values
        /\ E[1].values # {} /\ E[2].values # {} => Lower(E[1]) <= Lower(E[2]) /\ Upper(E[1]) <= Upper(E[2])
    BY <2>1, <2>2, LessThanEqualCuts
  <2>4. ASSUME NEW t \in Tuples(D), Relation(c, t) PROVE Chosen(t, E)
    <3>1. t[1] <= t[2] /\ t[1] \in D[1].values /\ t[2] \in D[2].values
      BY <1>6, <2>1, <2>3, <2>4, RelationOf, TuplesAreChosen, OfPair
    <3>2. QED
      BY <2>1, <2>3, <3>1, OfPair
  <2>5. ~SomeEmpty(E) => AtRest(c, E)
    BY <1>4, <1>6, <2>1, <2>3, AtRestOf
  <2>6. QED
    BY <2>3, <2>4, <2>5 DEF Right
<1>7. CASE c = "LessThan"
  <2>1. /\ E = LessThan(D, 1, 2) /\ Scoped(D, 2) /\ 2 \in Nat
        /\ 1 \in 1 .. 2 /\ 2 \in 1 .. 2 /\ 1 # 2
    BY <1>2, <1>7, FilterOf
  <2>2. D[1].values # {} /\ D[2].values # {}
    BY <1>3, <2>1
  <2>3. /\ Narrowed(D, E)
        /\ \A x \in D[1].values, y \in D[2].values : x < y => x \in E[1].values /\ y \in E[2].values
        /\ E[1].values # {} /\ E[2].values # {} => Lower(E[1]) < Lower(E[2]) /\ Upper(E[1]) < Upper(E[2])
    BY <2>1, <2>2, LessThanCuts
  <2>4. ASSUME NEW t \in Tuples(D), Relation(c, t) PROVE Chosen(t, E)
    <3>1. t[1] < t[2] /\ t[1] \in D[1].values /\ t[2] \in D[2].values
      BY <1>7, <2>1, <2>3, <2>4, RelationOf, TuplesAreChosen, OfPair
    <3>2. QED
      BY <2>1, <2>3, <3>1, OfPair
  <2>5. ~SomeEmpty(E) => AtRest(c, E)
    BY <1>4, <1>7, <2>1, <2>3, AtRestOf
  <2>6. QED
    BY <2>3, <2>4, <2>5 DEF Right
<1>8. CASE c = "NotEqual"
  <2>1. E = NotEqual(D) /\ Scoped(D, 2)
    BY <1>2, <1>8, FilterOf DEF Ignoring
  <2>2. /\ Narrowed(D, E)
        /\ \A x \in D[1].values, y \in D[2].values : x # y => x \in E[1].values /\ y \in E[2].values
        /\ Apart(E[1], E[2]) /\ Apart(E[2], E[1])
    BY <2>1, NotEqualRight
  <2>3. ASSUME NEW t \in Tuples(D), Relation(c, t) PROVE Chosen(t, E)
    <3>1. t[1] # t[2] /\ t[1] \in D[1].values /\ t[2] \in D[2].values
      BY <1>8, <2>1, <2>2, <2>3, RelationOf, TuplesAreChosen, OfPair
    <3>2. QED
      BY <2>1, <2>2, <3>1, OfPair
  <2>4. AtRest(c, E)
    BY <1>8, <2>2, AtRestOf
  <2>5. QED
    BY <2>2, <2>3, <2>4 DEF Right
<1>9. CASE c = "Unary"
  <2>1. E = Unary(D, Source) /\ Scoped(D, 1)
    BY <1>2, <1>9, FilterOf
  <2>2. /\ Narrowed(D, E)
        /\ \A x \in D[1].values : x \in Source.values => x \in E[1].values
        /\ E[1].values \subseteq Source.values
    BY <2>1, UnaryRight
  <2>3. ASSUME NEW t \in Tuples(D), Relation(c, t) PROVE Chosen(t, E)
    <3>1. t[1] \in Source.values /\ t[1] \in D[1].values
      BY <1>9, <2>1, <2>2, <2>3, RelationOf, TuplesAreChosen, OfOne
    <3>2. QED
      BY <2>1, <2>2, <3>1, OfOne
  <2>4. AtRest(c, E)
    BY <1>9, <2>2, AtRestOf
  <2>5. QED
    BY <2>2, <2>3, <2>4 DEF Right
<1>10. QED
  BY <1>5, <1>6, <1>7, <1>8, <1>9 DEF Ignoring

LEMMA ExecutionRight ==
  ASSUME NEW c \in Direct, NEW D, Meant(c, D), ~SomeEmpty(D), NEW E, E = Filter(c, D)
  PROVE  Right(c, D, E)
BY IgnoringRight, SumsRight, TestsRight, ConnectivesRight, PairsRight DEF Direct

(* What is left of domains that a class is meant for.                      *)
LEMMA StillMeant ==
  ASSUME NEW c \in Direct, NEW D, Meant(c, D), NEW E, Narrowed(D, E)
  PROVE  Meant(c, E)
<1>1. Scoped(D, Arity(c)) /\ Scoped(E, Arity(c)) /\ DOMAIN E = DOMAIN D
  BY StillScoped DEF Meant, Narrowed
<1>2. \A i \in DOMAIN D : /\ IsInterval(D[i]) => IsInterval(E[i])
                          /\ IsCondition(D[i]) => IsCondition(E[i])
  BY DEF Narrowed, PartOf, IsInterval, IsCondition
<1>3. c \in Tests \cup {"TestSingleton"} => 1 \in DOMAIN D
  <2>1. c \in Tests \cup {"TestSingleton"} => Scoped(D, 2) \/ Scoped(D, 3)
    BY Meaning DEF Sums, Tests, Connectives
  <2>2. QED
    BY <2>1 DEF Scoped
<1>4. OfKinds(c, E)
  BY <1>1, <1>2, <1>3 DEF Meant, OfKinds
<1>5. QED
  BY <1>1, <1>4 DEF Meant

(***************************************************************************)
(* 5. Events that are ignored.                                             *)
(***************************************************************************)
(* The bound that an event does not speak of has not moved.                *)
LEMMA RestrictionAnnounced ==
  ASSUME NEW d, Proper(d), NEW e, PartOf(e, d), e.values # {}, NEW v, v = EventOf(d, e)
  PROVE  /\ v # "RELAXED"
         /\ v = "UPPER_BOUND_DECREASED" => Lower(e) = Lower(d)
         /\ v = "LOWER_BOUND_INCREASED" => Upper(e) = Upper(d)
<1>1. /\ Lower(d) \in Int /\ Upper(d) \in Int /\ Lower(e) \in Int /\ Upper(e) \in Int
      /\ Lower(d) <= Lower(e) /\ Upper(e) <= Upper(d)
  BY Ends DEF PartOf
<1>2. QED
  BY <1>1 DEF EventOf

LEMMA RemovalAnnounced ==
  ASSUME NEW d, Proper(d), NEW v \in d.values, NEW e, e = Without(d, v), e # d, e.values # {},
         NEW a, a = EventOfRemove(d, v)
  PROVE  /\ PartOf(e, d) /\ a # "RELAXED"
         /\ a = "UPPER_BOUND_DECREASED" => Lower(e) = Lower(d)
         /\ a = "LOWER_BOUND_INCREASED" => Upper(e) = Upper(d)
<1>1. PartOf(e, d) /\ d.values \ {v} \subseteq e.values /\ v \notin e.values
  BY Removed
<1>2. /\ Lower(d) \in d.values /\ Upper(d) \in d.values
      /\ \A w \in d.values : w \in Int /\ Lower(d) <= w /\ w <= Upper(d)
      /\ Lower(e) \in e.values /\ Upper(e) \in e.values
      /\ \A w \in e.values : w \in Int /\ Lower(e) <= w /\ w <= Upper(e)
  BY <1>1, Ends DEF PartOf
<1>3. e.values \subseteq d.values
  BY <1>1 DEF PartOf
<1>4. IsInterval(d) => v \in {Lower(d), Upper(d)}
  BY DEF Without, Bounds
<1>5. a \in {"VALUE_REMOVED", "LOWER_BOUND_INCREASED", "UPPER_BOUND_DECREASED"}
  BY DEF EventOfRemove
<1>6. ASSUME a = "UPPER_BOUND_DECREASED" PROVE Lower(e) = Lower(d)
  <2>1. IsInterval(d) /\ v # Lower(d)
    BY <1>6 DEF EventOfRemove
  <2>2. Lower(d) \in e.values
    BY <1>1, <1>2, <2>1
  <2>3. QED
    BY <1>2, <1>3, <2>2
<1>7. ASSUME a = "LOWER_BOUND_INCREASED" PROVE Upper(e) = Upper(d)
  <2>1. IsInterval(d) /\ v = Lower(d)
    BY <1>7 DEF EventOfRemove
  <2>2. Upper(d) # v
    BY <1>1, <1>2, <1>3, <2>1
  <2>3. Upper(d) \in e.values
    BY <1>1, <1>2, <2>2
  <2>4. QED
    BY <1>2, <1>3, <2>3
<1>8. QED
  BY <1>1, <1>5, <1>6, <1>7

(* A class that is at rest and ignores an event is still at rest.          *)
LEMMA IgnoredRests ==
  ASSUME NEW c \in Direct, NEW D, Meant(c, D), ~SomeEmpty(D), AtRest(c, D),
         NEW i \in DOMAIN D, NEW d, PartOf(d, D[i]), d.values # {},
         NEW v, v # "RELAXED",
         v = "UPPER_BOUND_DECREASED" => Lower(d) = Lower(D[i]),
         v = "LOWER_BOUND_INCREASED" => Upper(d) = Upper(D[i]),
         CanIgnore(c, i, v, d), NEW E, E = Replaced(D, i, d)
  PROVE  AtRest(c, E)
<1>1. c \in Ignoring
  BY DEF CanIgnore, Ignoring
<1>2. /\ c = "Unary" => Scoped(D, 1)
      /\ c \in Ignoring \ {"Unary"} => Scoped(D, 2)
  BY <1>1, Meaning DEF Ignoring, Sums, Tests, Connectives
<1>3. E[i] = d /\ \A j \in DOMAIN D : j # i => E[j] = D[j]
  BY DEF Replaced
<1>4. D[i].values # {} /\ Proper(D[i]) /\ Proper(d) /\ d.values \subseteq D[i].values
  BY DEF SomeEmpty, IsEmpty, Meant, Scoped, PartOf
<1>5. /\ Lower(d) \in Int /\ Upper(d) \in Int /\ Lower(D[i]) \in Int /\ Upper(D[i]) \in Int
      /\ Lower(D[i]) <= Lower(d) /\ Upper(d) <= Upper(D[i])
  BY <1>4, Ends
<1>6. CASE c = "SubsetOf"
  <2>1. i = 1 /\ DOMAIN D = 1 .. 2
    BY <1>2, <1>6 DEF CanIgnore, Scoped, Ignoring
  <2>2. E[1] = d /\ E[2] = D[2]
    BY <1>3, <2>1
  <2>3. QED
    BY <1>4, <1>6, <2>1, <2>2, AtRestOf
<1>7. CASE c = "LessThanEqual"
  <2>1. /\ DOMAIN D = 1 .. 2
        /\ (i = 1 /\ v = "UPPER_BOUND_DECREASED") \/ (i = 2 /\ v = "LOWER_BOUND_INCREASED")
    BY <1>2, <1>7 DEF CanIgnore, Scoped, Ignoring
  <2>2. Lower(D[1]) <= Lower(D[2]) /\ Upper(D[1]) <= Upper(D[2])
    BY <1>7, AtRestOf
  <2>3. \A j \in 1 .. 2 : Lower(D[j]) \in Int /\ Upper(D[j]) \in Int
    BY <2>1, Ends DEF SomeEmpty, IsEmpty, Meant, Scoped
  <2>4. Lower(E[1]) <= Lower(E[2]) /\ Upper(E[1]) <= Upper(E[2])
    <3>1. CASE i = 1
      <4>1. E[1] = d /\ E[2] = D[2] /\ Lower(d) = Lower(D[1])
        BY <1>3, <2>1, <3>1
      <4>2. QED
        BY <1>5, <2>2, <2>3, <3>1, <4>1
    <3>2. CASE i = 2
      <4>1. E[2] = d /\ E[1] = D[1] /\ Upper(d) = Upper(D[2])
        BY <1>3, <2>1, <3>2
      <4>2. QED
        BY <1>5, <2>2, <2>3, <3>2, <4>1
    <3>3. QED
      BY <2>1, <3>1, <3>2
  <2>5. QED
    BY <1>7, <2>4, AtRestOf
<1>8. CASE c = "LessThan"
  <2>1. /\ DOMAIN D = 1 .. 2
        /\ (i = 1 /\ v = "UPPER_BOUND_DECREASED") \/ (i = 2 /\ v = "LOWER_BOUND_INCREASED")
    BY <1>2, <1>8 DEF CanIgnore, Scoped, Ignoring
  <2>2. Lower(D[1]) < Lower(D[2]) /\ Upper(D[1]) < Upper(D[2])
    BY <1>8, AtRestOf
  <2>3. \A j \in 1 .. 2 : Lower(D[j]) \in Int /\ Upper(D[j]) \in Int
    BY <2>1, Ends DEF SomeEmpty, IsEmpty, Meant, Scoped
  <2>4. Lower(E[1]) < Lower(E[2]) /\ Upper(E[1]) < Upper(E[2])
    <3>1. CASE i = 1
      <4>1. E[1] = d /\ E[2] = D[2] /\ Lower(d) = Lower(D[1])
        BY <1>3, <2>1, <3>1
      <4>2. QED
        BY <1>5, <2>2, <2>3, <3>1, <4>1
    <3>2. CASE i = 2
      <4>1. E[2] = d /\ E[1] = D[1] /\ Upper(d) = Upper(D[2])
        BY <1>3, <2>1, <3>2
      <4>2. QED
        BY <1>5, <2>2, <2>3, <3>2, <4>1
    <3>3. QED
      BY <2>1, <3>1, <3>2
  <2>5. QED
    BY <1>8, <2>4, AtRestOf
<1>9. CASE c = "NotEqual"
  <2>1. /\ DOMAIN D = 1 .. 2 /\ i \in 1 .. 2
        /\ ~IsSingleton(d) /\ ~(IsInterval(d) /\ Cardinality(d.values) <= 2)
    BY <1>2, <1>9 DEF CanIgnore, Scoped, Ignoring
  <2>2. \A a \in Int : d.values # {a}
    BY <1>4, <2>1, Single
  <2>3. IsInterval(d) => Cardinality(d.values) > 2
    BY <1>4, <2>1, FS_CardinalityType DEF Proper
  <2>4. IsInterval(D[i]) => IsInterval(d)
    BY DEF PartOf, IsInterval
  <2>5. \A e : Apart(d, e) /\ (Apart(e, D[i]) => Apart(e, d))
    BY <1>4, <2>2, <2>3, <2>4 DEF Apart
  <2>6. Apart(D[1], D[2]) /\ Apart(D[2], D[1])
    BY <1>9, AtRestOf
  <2>7. CASE i = 1
    <3>1. E[1] = d /\ E[2] = D[2]
      BY <1>3, <2>1, <2>7
    <3>2. QED
      BY <1>9, <2>5, <2>6, <2>7, <3>1, AtRestOf
  <2>8. CASE i = 2
    <3>1. E[2] = d /\ E[1] = D[1]
      BY <1>3, <2>1, <2>8
    <3>2. QED
      BY <1>9, <2>5, <2>6, <2>8, <3>1, AtRestOf
  <2>9. QED
    BY <2>1, <2>7, <2>8
<1>10. CASE c = "Unary"
  <2>1. i = 1
    BY <1>2, <1>10 DEF Scoped
  <2>2. QED
    BY <1>3, <1>4, <1>10, <2>1, AtRestOf
<1>11. QED
  BY <1>1, <1>6, <1>7, <1>8, <1>9, <1>10 DEF Ignoring

(***************************************************************************)
(* 6. The constraint among others.  Its domains are what is left of those  *)
(* it was created on, and when it is not on the agenda it rests.           *)
(***************************************************************************)
Resting ==
  /\ class \in Class /\ base \in Scope[class] /\ agenda \in BOOLEAN
  /\ class \in Direct =>
       /\ Meant(class, base) /\ Narrowed(base, domain)
       /\ ~agenda /\ ~SomeEmpty(domain) => AtRest(class, domain)

LEMMA InitRests ==
  ASSUME Suited, Init
  PROVE  Resting
<1>1. ASSUME class \in Direct PROVE Meant(class, base)
  <2>1. base \in Seq(Records) /\ \A i \in DOMAIN base : IsDomain(base[i])
    BY LibraryAssumption DEF LibraryAssumption, Init, Records
  <2>2. Len(base) = Arity(class) /\ OfKinds(class, base)
    BY <1>1 DEF Suited, Init
  <2>3. DOMAIN base = 1 .. Len(base) /\ Len(base) \in Nat /\ base \in [1 .. Len(base) -> Records]
    BY <2>1
  <2>4. \A i \in DOMAIN base : Proper(base[i])
    BY <2>1, DomainIsProper
  <2>5. QED
    BY <2>2, <2>3, <2>4 DEF Meant, Scoped
<1>2. ASSUME class \in Direct PROVE Narrowed(base, domain)
  BY <1>1, <1>2, NarrowedItself DEF Init, Meant
<1>3. QED
  BY <1>1, <1>2 DEF Init, Resting

(* An event that someone else causes.                                      *)
LEMMA EventRests ==
  ASSUME Resting, class \in Direct, ~SomeEmpty(domain), NEW i \in DOMAIN domain,
         NEW d, PartOf(d, domain[i]), d.values # {}, NEW v, v # "RELAXED",
         v = "UPPER_BOUND_DECREASED" => Lower(d) = Lower(domain[i]),
         v = "LOWER_BOUND_INCREASED" => Upper(d) = Upper(domain[i]),
         domain' = [domain EXCEPT ![i] = d], Notify(i, v, d)
  PROVE  /\ Narrowed(base, domain') /\ agenda' \in BOOLEAN
         /\ ~agenda' /\ ~SomeEmpty(domain') => AtRest(class, domain')
<1>1. Meant(class, domain) /\ Narrowed(base, domain)
  BY StillMeant DEF Resting
<1>2. domain' = Replaced(domain, i, d)
  BY DEF Replaced
<1>3. Narrowed(domain, domain')
  <2>1. Scoped(domain, Arity(class)) /\ i \in 1 .. Arity(class)
    BY <1>1 DEF Meant, Scoped
  <2>2. Narrowed(domain, Replaced(domain, i, d))
    BY <2>1, OneCut
  <2>3. QED
    BY <1>2, <2>2
<1>4. Narrowed(base, domain')
  BY <1>1, <1>3, NarrowedTwice
<1>5. agenda' = (agenda \/ ~CanIgnore(class, i, v, d))
  BY DEF Notify
<1>6. ASSUME ~agenda' PROVE AtRest(class, domain')
  <2>1. ~agenda /\ CanIgnore(class, i, v, d)
    BY <1>5, <1>6
  <2>2. AtRest(class, domain)
    BY <2>1 DEF Resting
  <2>3. QED
    BY <1>1, <1>2, <2>1, <2>2, IgnoredRests
<1>7. agenda' \in BOOLEAN
  BY <1>5
<1>8. QED
  BY <1>4, <1>6, <1>7

LEMMA StepRests ==
  ASSUME Resting, [Next]_vars
  PROVE  Resting'
<1>1. CASE UNCHANGED vars
  BY <1>1 DEF vars, Resting, Meant, AtRest, Scoped, OfKinds, Narrowed, SomeEmpty, Tuples, Solutions
<1>2. CASE Next
  <2>1. class' = class /\ base' = base /\ class \in Class /\ base \in Scope[class]
    BY <1>2 DEF Next, Restriction, RestrictTo, Removal, RemoveValue, Relax, Execute, Resting
  <2>2. agenda' \in BOOLEAN
    BY <1>2 DEF Next, Restriction, RestrictTo, Removal, RemoveValue, Relax, Execute, Resting, Notify
  <2>3. SUFFICES ASSUME class \in Direct
                 PROVE  /\ Narrowed(base, domain')
                        /\ ~agenda' /\ ~SomeEmpty(domain') => AtRest(class, domain')
    <3>1. Resting' <=> /\ class' \in Class /\ base' \in Scope[class'] /\ agenda' \in BOOLEAN
                       /\ class' \in Direct =>
                            /\ Meant(class', base') /\ Narrowed(base', domain')
                            /\ ~agenda' /\ ~SomeEmpty(domain') => AtRest(class', domain')
      BY DEF Resting
    <3>2. class \in Direct => Meant(class, base)
      BY DEF Resting
    <3>3. QED
      BY <2>1, <2>2, <2>3, <3>1, <3>2
  <2>4. /\ Meant(class, base) /\ Narrowed(base, domain) /\ Meant(class, domain)
        /\ \A i \in DOMAIN domain : Proper(domain[i])
    BY <2>3, StillMeant DEF Resting, Meant, Scoped
  <2>5. CASE Restriction
    <3>0. PICK i \in DOMAIN domain : \E d \in SubDomains(domain[i]) : RestrictTo(i, d)
      BY <2>5 DEF Restriction
    <3>1. PICK d \in SubDomains(domain[i]) : RestrictTo(i, d)
      BY <3>0
    <3>2. PartOf(d, domain[i]) /\ d.values # {}
      <4>1. PICK S \in SUBSET domain[i].values : d = [domain[i] EXCEPT !.values = S]
        BY DEF SubDomains
      <4>2. domain[i] \in Records /\ domain[i].values \in SUBSET Int /\ IsFiniteSet(domain[i].values)
        BY <2>4 DEF Proper, Records
      <4>3. d \in Records /\ d.values = S /\ d.kind = domain[i].kind
        BY <4>1, <4>2 DEF Records
      <4>4. d.values # {} /\ (IsInterval(d) => d.values = Lower(d) .. Upper(d))
        BY <4>3 DEF SubDomains, IsEmpty, IsInterval
      <4>5. IsFiniteSet(d.values)
        BY <4>2, <4>3, FS_Subset
      <4>6. IsDomain(d)
        BY <4>3, <4>4, <4>5 DEF IsDomain, Records
      <4>7. QED
        BY <4>3, <4>4, <4>6, DomainIsProper DEF PartOf
    <3>3. /\ EventOf(domain[i], d) # "RELAXED"
          /\ EventOf(domain[i], d) = "UPPER_BOUND_DECREASED" => Lower(d) = Lower(domain[i])
          /\ EventOf(domain[i], d) = "LOWER_BOUND_INCREASED" => Upper(d) = Upper(domain[i])
      BY <2>4, <3>2, RestrictionAnnounced
    <3>4. /\ ~SomeEmpty(domain) /\ domain' = [domain EXCEPT ![i] = d]
          /\ Notify(i, EventOf(domain[i], d), d)
      BY <3>1 DEF RestrictTo
    <3>5. QED
      BY <2>3, <3>2, <3>3, <3>4, EventRests
  <2>6. CASE Removal
    <3>0. PICK i \in DOMAIN domain : \E v \in domain[i].values : RemoveValue(i, v)
      BY <2>6 DEF Removal
    <3>1. PICK v \in domain[i].values : RemoveValue(i, v)
      BY <3>0
    <3> DEFINE d == Without(domain[i], v)
    <3>2. /\ ~SomeEmpty(domain) /\ d # domain[i] /\ d.values # {}
          /\ domain' = [domain EXCEPT ![i] = d] /\ Notify(i, EventOfRemove(domain[i], v), d)
      BY <3>1 DEF RemoveValue, IsEmpty
    <3>3. d = Without(domain[i], v)
      OBVIOUS
    <3> HIDE DEF d
    <3>4. /\ PartOf(d, domain[i]) /\ EventOfRemove(domain[i], v) # "RELAXED"
          /\ EventOfRemove(domain[i], v) = "UPPER_BOUND_DECREASED" => Lower(d) = Lower(domain[i])
          /\ EventOfRemove(domain[i], v) = "LOWER_BOUND_INCREASED" => Upper(d) = Upper(domain[i])
      BY <2>4, <3>2, <3>3, RemovalAnnounced
    <3>5. QED
      BY <2>3, <3>2, <3>4, EventRests
  <2>7. CASE Relax
    <3>1. domain' = base /\ domain # base
      BY <2>7 DEF Relax
    <3>2. PICK i \in DOMAIN domain : domain[i] # base[i]
      <4>1. DOMAIN domain = DOMAIN base /\ domain \in [DOMAIN base -> Records] /\ base \in [DOMAIN base -> Records]
        BY <2>4 DEF Meant, Scoped, Narrowed
      <4>2. domain = [i \in DOMAIN base |-> domain[i]] /\ base = [i \in DOMAIN base |-> base[i]]
        BY <4>1
      <4>3. QED
        BY <3>1, <4>1, <4>2
    <3>3. ~CanIgnore(class, i, "RELAXED", base[i])
      BY DEF CanIgnore, Restricts
    <3>4. agenda'
      BY <2>7, <3>2, <3>3 DEF Relax
    <3>5. Narrowed(base, domain')
      BY <2>4, <3>1, NarrowedItself DEF Meant
    <3>6. QED
      BY <3>4, <3>5
  <2>8. CASE Execute
    <3>1. ~SomeEmpty(domain) /\ domain' = Filter(class, domain)
      BY <2>8 DEF Execute
    <3>2. Right(class, domain, domain')
      BY <2>3, <2>4, <3>1, ExecutionRight
    <3>3. QED
      BY <2>4, <3>2, NarrowedTwice DEF Right
  <2>9. QED
    BY <1>2, <2>5, <2>6, <2>7, <2>8 DEF Next
<1>3. QED
  BY <1>1, <1>2

LEMMA AlwaysRests ==
  ASSUME Suited
  PROVE  Spec => []Resting
<1>1. Init => Resting
  BY InitRests
<1>2. Resting /\ [Next]_vars => Resting'
  BY StepRests
<1>3. QED
  BY <1>1, <1>2, PTL DEF Spec

(* Domains stay those of their kind, within what the constraint was        *)
(* created on, however it is executed, restricted and relaxed.             *)
THEOREM TypeCorrect ==
  ASSUME Suited
  PROVE  Spec => [](class \in Direct => TypeOK)
<1>1. ASSUME Resting, class \in Direct PROVE TypeOK
  <2>1. DOMAIN domain = DOMAIN base /\ \A i \in DOMAIN base : PartOf(domain[i], base[i])
    BY <1>1 DEF Resting, Narrowed
  <2>2. ASSUME NEW i \in DOMAIN base
        PROVE  /\ domain[i].kind = base[i].kind /\ domain[i].values \subseteq base[i].values
               /\ ~IsEmpty(domain[i]) /\ IsInterval(domain[i])
                    => domain[i].values = Lower(domain[i]) .. Upper(domain[i])
    BY <2>1, ProperIsDomain DEF PartOf, IsDomain
  <2>3. QED
    BY <1>1, <2>1, <2>2 DEF Resting, TypeOK
<1>2. QED
  BY <1>1, AlwaysRests, PTL

(* When the variables have one value each, a class that is not on the      *)
(* agenda is satisfied, although it has ignored events that looked         *)
(* harmless, and all that it caused itself (canIgnore of its class,        *)
(* DefaultPropagator::handleNotification).                                 *)
THEOREM DecidedSatisfies ==
  ASSUME Suited
  PROVE  Spec => [](class \in Direct => DecidedMeansSatisfied)
<1>1. ASSUME Resting, class \in Direct, ~agenda, \A i \in DOMAIN domain : IsSingleton(domain[i]),
             NEW t \in Tuples(domain)
      PROVE  Relation(class, t)
  <2>1. Meant(class, domain)
    BY <1>1, StillMeant DEF Resting
  <2>2. \A n \in Nat : Scoped(domain, n) => DOMAIN domain = 1 .. n
    BY DEF Scoped
  <2>3. ASSUME NEW i \in DOMAIN domain
        PROVE  /\ t[i] \in Int /\ domain[i].values = {t[i]} /\ domain[i].values # {}
               /\ Lower(domain[i]) = t[i] /\ Upper(domain[i]) = t[i] /\ Cardinality(domain[i].values) = 1
    <3>1. Proper(domain[i]) /\ IsSingleton(domain[i]) /\ t[i] \in domain[i].values
      BY <1>1, <2>1, TuplesAreChosen DEF Meant, Scoped, Chosen
    <3>2. PICK v \in Int : domain[i].values = {v}
      BY <3>1, Single
    <3>3. QED
      BY <3>1, <3>2, Single DEF IsSingleton
  <2>4. AtRest(class, domain)
    BY <1>1, <2>3 DEF Resting, SomeEmpty, IsEmpty
  <2>5. CASE class \notin Ignoring
    BY <1>1, <2>4, <2>5, AtRestOf
  <2>6. CASE class \in Ignoring
    <3>1. /\ class = "Unary" => DOMAIN domain = 1 .. 1
          /\ class \in Ignoring \ {"Unary"} => DOMAIN domain = 1 .. 2
      BY <1>1, <2>1, <2>2, Meaning DEF Ignoring, Sums, Tests, Connectives
    <3>2. CASE class = "SubsetOf"
      <4>1. DOMAIN t = 1 .. 2 /\ \A i : i \in 1 .. 2 <=> i = 1 \/ i = 2
        BY <3>1, <3>2, TuplesAreChosen DEF Ignoring
      <4>2. Lower(domain[2]) <= t[1] /\ t[1] <= Upper(domain[2])
        BY <2>3, <2>4, <3>1, <3>2, AtRestOf DEF Ignoring
      <4>3. t[1] = t[2]
        BY <2>3, <3>1, <3>2, <4>2 DEF Ignoring
      <4>4. AllSame(t)
        BY <4>1, <4>3 DEF AllSame
      <4>5. QED
        BY <3>2, <4>4, RelationOf
    <3>3. CASE class = "LessThanEqual"
      <4>1. t[1] <= t[2]
        BY <2>3, <2>4, <3>1, <3>3, AtRestOf DEF Ignoring
      <4>2. QED
        BY <3>3, <4>1, RelationOf
    <3>4. CASE class = "LessThan"
      <4>1. t[1] < t[2]
        BY <2>3, <2>4, <3>1, <3>4, AtRestOf DEF Ignoring
      <4>2. QED
        BY <3>4, <4>1, RelationOf
    <3>5. CASE class = "NotEqual"
      <4>1. Apart(domain[1], domain[2]) /\ DOMAIN domain = 1 .. 2
        BY <2>4, <3>1, <3>5, AtRestOf DEF Ignoring
      <4>2. t[1] # t[2]
        BY <2>3, <4>1 DEF Apart
      <4>3. QED
        BY <3>5, <4>2, RelationOf
    <3>6. CASE class = "Unary"
      <4>1. t[1] \in Source.values
        BY <2>3, <2>4, <3>1, <3>6, AtRestOf
      <4>2. QED
        BY <3>6, <4>1, RelationOf
    <3>7. QED
      BY <2>6, <3>2, <3>3, <3>4, <3>5, <3>6 DEF Ignoring
  <2>7. QED
    BY <2>5, <2>6
<1>2. Resting => (class \in Direct => DecidedMeansSatisfied)
  BY <1>1 DEF DecidedMeansSatisfied
<1>3. QED
  BY <1>2, AlwaysRests, PTL

LEMMA ExecutionKeeps ==
  ASSUME Resting, class \in Direct
  PROVE  KeepsSolutions
<1>1. SUFFICES ASSUME Execute PROVE Solutions(domain') = Solutions(domain)
  BY DEF KeepsSolutions
<1>2. Meant(class, domain)
  BY StillMeant DEF Resting
<1>3. Right(class, domain, domain')
  BY <1>1, <1>2, ExecutionRight DEF Execute
<1>4. DOMAIN domain' = DOMAIN domain /\ \A i \in DOMAIN domain : domain'[i].values \subseteq domain[i].values
  BY <1>3 DEF Right, Narrowed, PartOf
<1>5. ASSUME NEW t \in Tuples(domain') PROVE t \in Tuples(domain)
  <2>1. Chosen(t, domain') /\ t = [i \in DOMAIN domain' |-> t[i]]
    BY TuplesAreChosen
  <2>2. Chosen(t, domain) /\ t = [i \in DOMAIN domain |-> t[i]]
    BY <1>4, <2>1 DEF Chosen
  <2>3. QED
    BY <2>2, TuplesAreChosen
<1>6. ASSUME NEW t \in Tuples(domain), Relation(class, t) PROVE t \in Tuples(domain')
  <2>1. Chosen(t, domain') /\ t = [i \in DOMAIN domain |-> t[i]]
    BY <1>3, <1>6, TuplesAreChosen DEF Right
  <2>2. QED
    BY <1>4, <2>1, TuplesAreChosen
<1>7. Solutions(domain) = {t \in Tuples(domain) : Relation(class, t)}
  BY DEF Solutions
<1>8. Solutions(domain') = {t \in Tuples(domain') : Relation(class, t)}
  BY <1>1 DEF Solutions, Execute
<1>9. QED
  BY <1>5, <1>6, <1>7, <1>8

(* No execution takes away a value that is part of a solution, whatever    *)
(* the domains are by then (handleExecute of the class).                   *)
THEOREM ExecutionsKeepSolutions ==
  ASSUME Suited
  PROVE  Spec => [][(class \in Direct) => KeepsSolutions]_vars
<1>1. Resting /\ [Next]_vars => [(class \in Direct) => KeepsSolutions]_vars
  BY ExecutionKeeps
<1>2. QED
  BY <1>1, AlwaysRests, PTL DEF Spec

(* So in a library of such classes no solution is ever filtered.           *)
THEOREM NothingFiltered ==
  ASSUME Suited, Class \subseteq Direct
  PROVE  Spec => NoSolutionFiltered
<1>1. Resting /\ [Next]_vars => [KeepsSolutions]_vars
  BY ExecutionKeeps DEF Resting
<1>2. QED
  BY <1>1, AlwaysRests, PTL DEF Spec, NoSolutionFiltered
=============================================================================
