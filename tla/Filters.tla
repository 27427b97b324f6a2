------------------------------- MODULE Filters -------------------------------
(***************************************************************************)
(* What the classes of the constraint library take from the domains of     *)
(* their variables each time they are executed (Constraints.cc).  The      *)
(* domains come and go as the sequence D, in the order of the scope.       *)
(*                                                                         *)
(* A definition whose name says what is wrong with it is a mutated form of *)
(* the one after it; no specification uses it.                             *)
(***************************************************************************)
EXTENDS Domains, SequencesExt

SomeEmpty(D) == \E i \in DOMAIN D : IsEmpty(D[i])

(* for (...; done; ): again until nothing changes.                          *)
Repeat(Pass(_), D) ==
  LET again[E \in Seq([kind : Kind, values : SUBSET Int])] ==
        LET next == Pass(E) IN IF next = E THEN E ELSE again[next]
  IN again[D]

BooleanOf(d) == TheValue(d) = 1
IsTrue(d) == IsSingleton(d) /\ BooleanOf(d)
IsFalse(d) == IsSingleton(d) /\ ~BooleanOf(d)
-----------------------------------------------------------------------------
(* Order and equality.                                                      *)
SubsetOf(D) == [D EXCEPT ![1] = Intersect(@, D[2])]

LessThanEqual(D, x, y) ==
  LET X == IntersectBounds(D[x], Lower(D[x]), Upper(D[y]))
      Y == IF IsEmpty(X) THEN D[y] ELSE IntersectBounds(D[y], Lower(X), Upper(D[y]))
  IN [D EXCEPT ![x] = X, ![y] = Y]

LessThan(D, x, y) ==
  LET X == IntersectBounds(D[x], Lower(D[x]), Upper(D[y]) - 1)
      Y == IF IsEmpty(X) THEN D[y] ELSE IntersectBounds(D[y], Lower(X) + 1, Upper(D[y]))
  IN [D EXCEPT ![x] = X, ![y] = Y]

CheckAndRemoveAny(D, x, y) == [D EXCEPT ![y] = Without(@, Lower(D[x]))]

(* The value of a variable that has only one is taken from the other where  *)
(* that splits no interval.                                                 *)
CheckAndRemove(D, x, y) ==
  IF IsSingleton(D[x]) THEN [D EXCEPT ![y] = Without(@, TheValue(D[x]))] ELSE D

NotEqual(D) ==
  LET E == CheckAndRemove(D, 1, 2) IN IF E # D THEN E ELSE CheckAndRemove(D, 2, 1)

EquatedAt(D, i, j) ==
  IF SomeEmpty(D) THEN D
  ELSE LET p == Equated(D[i], D[j]) IN [D EXCEPT ![i] = p[1], ![j] = p[2]]

EqualForward(D) ==
  FoldLeft(LAMBDA E, i : EquatedAt(E, i - 1, i), D, [n \in 1 .. Len(D) - 1 |-> n + 1])

(* Forward along the variables, and backward when something has changed.    *)
Equal(D) ==
  LET E == EqualForward(D) IN
  IF E = D THEN D
  ELSE FoldLeft(LAMBDA F, i : EquatedAt(F, i, i - 1), E,
                [n \in 1 .. Len(D) - 2 |-> Len(D) - n])
-----------------------------------------------------------------------------
(* Arithmetic.                                                              *)
AddEqual(D) ==
  LET zMax == Min({Upper(D[3]), Upper(D[1]) + Upper(D[2])})
      zMin == Max({Lower(D[3]), Lower(D[1]) + Lower(D[2])})
      Z == IntersectBounds(D[3], zMin, zMax)
      xMax == Min({Upper(D[1]), zMax - Lower(D[2])})
      xMin == Max({Lower(D[1]), zMin - Upper(D[2])})
      X == IntersectBounds(D[1], xMin, xMax)
      yMax == Min({Upper(D[2]), zMax - xMin})
      yMin == Max({Lower(D[2]), zMin - xMax})
      Y == IntersectBounds(D[2], yMin, yMax)
      whole == IsInterval(Z) => {yMax + xMin, yMin + xMax} \subseteq Z.values
  IN IF IsEmpty(Z) THEN [D EXCEPT ![3] = Z]
     ELSE IF IsEmpty(X) THEN <<X, D[2], Z>>
     ELSE IF IsEmpty(Y) THEN <<X, Y, Z>>
     ELSE <<X, Y, IF whole THEN Z ELSE Emptied(Z)>>

Pairs(x, y) == Bounds(x) \X Bounds(y)

MultBounds(z, x, y) ==
  IF SomeEmpty(<<x, y, z>>) THEN z
  ELSE LET products == {p[1] * p[2] : p \in Pairs(x, y)}
       IN IntersectBounds(z, Min(products), Max(products))

Floor(a, b) == IF b > 0 THEN a \div b ELSE (-a) \div (-b)
Ceiling(a, b) == -Floor(-a, b)

(* The bounds of x / y, as far as the signs of x and y leave any.           *)
DivBounds(z, x, y) ==
  LET quotients(lb, ub) == IntersectBounds(z, lb, ub) IN
  IF SomeEmpty(<<x, y, z>>) THEN z
  ELSE CASE Bounds(y) = {0} -> IF Lower(x) > 0 \/ Upper(x) < 0 THEN Emptied(z) ELSE z
    [] Lower(y) > 0 \/ Upper(y) < 0 ->
         quotients(Min({Ceiling(p[1], p[2]) : p \in Pairs(x, y)}),
                   Max({Floor(p[1], p[2]) : p \in Pairs(x, y)}))
    [] Lower(y) = 0 /\ Upper(y) > 0 /\ Lower(x) > 0 -> quotients(Ceiling(Lower(x), Upper(y)), Upper(z))
    [] Lower(y) = 0 /\ Upper(y) > 0 /\ Upper(x) < 0 -> quotients(Lower(z), Floor(Upper(x), Upper(y)))
    [] Lower(y) < 0 /\ Upper(y) = 0 /\ Lower(x) > 0 -> quotients(Lower(z), Floor(Lower(x), Lower(y)))
    [] Lower(y) < 0 /\ Upper(y) = 0 /\ Upper(x) < 0 -> quotients(Ceiling(Upper(x), Lower(y)), Upper(z))
    [] OTHER -> z

MultEqual(D) ==
  LET pass(E) == LET Z == MultBounds(E[3], E[1], E[2])
                     X == DivBounds(E[1], Z, E[2])
                 IN <<X, DivBounds(E[2], Z, X), Z>>
  IN Repeat(pass, D)

DivEqual(D) ==
  LET pass(E) == LET Z == DivBounds(E[3], E[1], E[2])
                     X == MultBounds(E[1], E[2], Z)
                 IN <<X, DivBounds(E[2], X, Z), Z>>
  IN Repeat(pass, D)

Negate(D) ==
  LET X == IntersectBounds(D[1], -Upper(D[2]), -Lower(D[2])) IN
  IF IsEmpty(X) THEN [D EXCEPT ![1] = X]
  ELSE <<X, IntersectBounds(D[2], -Upper(D[1]), -Lower(D[1]))>>

Absolute(v) == IF v < 0 THEN -v ELSE v

(* An emptied result is not looked for: its bounds, which mean nothing, are *)
(* then compared with the argument, and may empty that as well.             *)
AbsoluteValue(D) ==
  LET y == D[2]
      sizes == {Absolute(v) : v \in Bounds(y)}
      X == IntersectBounds(D[1], IF Lower(y) <= 0 /\ Upper(y) >= 0 THEN 0 ELSE Min(sizes), Max(sizes))
      lb == Lower(X)
      ub == Upper(X)
      Y == IF lb = 0 /\ {-ub, ub} \subseteq y.values THEN IntersectBounds(y, -ub, ub) ELSE y
      above == {lb, ub} \cap Y.values # {}
      below == {-lb, -ub} \cap Y.values # {}
      stray == EmptyBounds \cap y.values # {}
      mirrored == {-b : b \in EmptyBounds} \cap y.values # {}
  IN IF IsEmpty(X) THEN <<X, IF stray # mirrored THEN Emptied(y) ELSE y>>
     ELSE IF above /\ ~below THEN <<X, IntersectBounds(Y, lb, ub)>>
     ELSE IF below /\ ~above THEN <<X, IntersectBounds(Y, -ub, -lb)>>
     ELSE <<X, Y>>

WithinBounds(D) == [D EXCEPT ![1] = IntersectBounds(@, Lower(D[2]), Upper(D[3]))]
-----------------------------------------------------------------------------
(* Minimum, maximum and counting.  The variables whose values the minimum   *)
(* may have, and the bounds of that minimum, are found in one pass.         *)
Contribution(D) ==
  FoldLeft(LAMBDA c, i :
      IF c.hi < Lower(D[i])
      THEN IF Lower(D[i]) < Lower(D[1]) THEN [c EXCEPT !.from = @ \cup {i}] ELSE c
      ELSE IF Upper(D[i]) < c.lo
      THEN [lo |-> Lower(D[i]), hi |-> Upper(D[i]), from |-> {i}]
      ELSE [lo |-> Min({c.lo, Lower(D[i])}), hi |-> Min({c.hi, Upper(D[i])}),
            from |-> IF Upper(D[i]) < c.hi \/ Lower(D[i]) < c.lo \/ Lower(D[i]) <= Upper(D[1])
                     THEN c.from \cup {i} ELSE c.from],
    [lo |-> Lower(D[2]), hi |-> Upper(D[2]), from |-> {2}],
    [n \in 1 .. Len(D) - 2 |-> n + 2])

EqualMinimum(D) ==
  LET c == Contribution(D)
      least == IntersectBounds(D[1], c.lo, c.hi)
      cut(i) == IntersectBounds(D[i], Lower(least),
                                IF Cardinality(c.from) = 1 THEN Upper(least) ELSE Upper(D[i]))
      restricted(i) ==
        IF i = 1 THEN least
        ELSE IF i \notin c.from \/ IsEmpty(least) \/ \E j \in c.from : j < i /\ IsEmpty(cut(j))
        THEN D[i]
        ELSE cut(i)
  IN [i \in DOMAIN D |-> restricted(i)]

Mirrored(D) == [i \in DOMAIN D |-> [D[i] EXCEPT !.values = {-v : v \in @}]]

(* EqualMaximumConstraint repeats that text for the other end.              *)
EqualMaximum(D) == Mirrored(EqualMinimum(Mirrored(D)))

CountZeroes(D) ==
  LET others == 2 .. Len(D)
      may == {i \in others : IsMember(D[i], 0)}
      must == {i \in may : IsSingleton(D[i])}
      open == may \ must
      most == Cardinality(may)
      least == Cardinality(must)
      zeroed == Cardinality(must) < Lower(D[1]) /\ most = Lower(D[1])
      freed == most > Upper(D[1]) /\ least = Upper(D[1])
  IN [i \in DOMAIN D |->
        CASE i = 1 -> IntersectBounds(D[1], least, most)
          [] i \in open /\ zeroed -> IntersectBounds(D[i], 0, 0)
          [] i \in open /\ freed -> Without(D[i], 0)
          [] OTHER -> D[i]]
-----------------------------------------------------------------------------
(* A first variable that says whether the others are all the same, or all   *)
(* different: what they tell of it, and what it then asks of them.          *)
Others(D) == 2 .. Len(D)

SameCondition(D) ==
  LET wide == SelectSeq(Tail(D), LAMBDA d : ~IsSingleton(d))
      before == {i \in Others(D) : \A j \in 2 .. i : IsSingleton(D[j])}
      differ == \/ \E i, j \in before : TheValue(D[i]) # TheValue(D[j])
                \/ wide # <<>> /\ IsEmpty(FoldLeft(Intersect, Head(wide), Tail(wide)))
  IN IF IsSingleton(D[1]) THEN D[1]
     ELSE IF differ THEN Without(D[1], 1)
     ELSE IF wide = <<>> THEN Without(D[1], 0)
     ELSE D[1]

AllEquated(D) ==
  LET pass(E) == FoldLeft(LAMBDA F, i : EquatedAt(F, 2, i), E, [n \in 1 .. Len(E) - 2 |-> n + 2])
  IN Repeat(pass, D)

(* Not all the same: if all but one have the one value, the last must not.  *)
NotAllSame(D) ==
  LET known == {i \in Others(D) : IsSingleton(D[i])}
      rest == Others(D) \ known
      v == TheValue(D[Min(known)])
  IN IF known = {} \/ \E i \in known : TheValue(D[i]) # v THEN D
     ELSE IF rest = {} THEN [D EXCEPT ![1] = Without(@, 0)]
     ELSE IF Cardinality(rest) = 1 THEN [i \in DOMAIN D |-> IF i \in rest THEN Without(D[i], v) ELSE D[i]]
     ELSE D

CondAllSame(D) ==
  LET E == [D EXCEPT ![1] = SameCondition(D)] IN
  CASE IsFalse(E[1]) -> NotAllSame(E)
    [] IsTrue(E[1]) -> AllEquated(E)
    [] OTHER -> E

(* The union of two domains, or of their bounds if one is an interval.      *)
AddToUnion(u, d) ==
  LET few(e) == ~IsInterval(e) \/ IsSingleton(e)
      both == u.values \cup d.values
  IN IF few(u) /\ few(d) THEN [kind |-> "enumeration", values |-> both]
     ELSE IF Lower(u) <= Lower(d) /\ Upper(d) <= Upper(u) THEN u
     ELSE [kind |-> "interval", values |-> Min(both) .. Max(both)]

(* Of the variables so far: their union, whether they have nothing in       *)
(* common, and whether there are more of them than values.                  *)
Spread(D) ==
  FoldLeft(LAMBDA s, i :
      LET union == AddToUnion(s.union, D[i])
          few == Cardinality(union.values) < i - 1
      IN [union |-> union, crowded |-> s.crowded \/ few,
          disjoint |-> s.disjoint /\ ~Intersects(s.union, D[i]) /\ ~few],
    [union |-> D[2], disjoint |-> TRUE, crowded |-> FALSE],
    [n \in 1 .. Len(D) - 2 |-> n + 2])

(* The value of a variable that has one is taken from all the others, again *)
(* and again, until one is empty or nothing changes, in whatever order.     *)
Distinct(D) ==
  LET clash(E) == {p \in Others(E) \X Others(E) :
                     p[1] # p[2] /\ IsSingleton(E[p[1]])
                     /\ Without(E[p[2]], TheValue(E[p[1]])) # E[p[2]]}
      pass(E) == IF SomeEmpty(E) \/ clash(E) = {} THEN E
                 ELSE LET p == CHOOSE p \in clash(E) : TRUE
                      IN [E EXCEPT ![p[2]] = Without(@, TheValue(E[p[1]]))]
  IN Repeat(pass, D)

CondAllDiff(D) ==
  LET s == Spread(D)
      c == IF s.crowded THEN Without(D[1], 1) ELSE D[1]
      E == [D EXCEPT ![1] = IF s.disjoint THEN Without(c, 0) ELSE c]
      apart == \A i, j \in Others(D) : i < j => ~Intersects(D[i], D[j])
  IN CASE IsFalse(E[1]) -> IF apart THEN [E EXCEPT ![1] = Without(@, 0)] ELSE E
       [] IsTrue(E[1]) -> Distinct(E)
       [] OTHER -> E
-----------------------------------------------------------------------------
(* A first variable that says whether a relation of two others holds.       *)
TestEQ(D) ==
  LET test == IF ~Intersects(D[2], D[3]) THEN Without(D[1], 1)
              ELSE IF IsSingleton(D[2]) /\ IsSingleton(D[3]) THEN Without(D[1], 0)
              ELSE D[1]
      x == Intersect(D[2], D[3])
  IN IF ~IsTrue(test) THEN [D EXCEPT ![1] = test]
     ELSE IF IsEmpty(x) THEN <<test, x, D[3]>>
     ELSE <<test, x, Intersect(D[3], x)>>

TestNEQ(D) ==
  LET test == IF ~(IsSingleton(D[2]) /\ IsSingleton(D[3])) THEN D[1]
              ELSE IF Intersects(D[2], D[3]) THEN Without(D[1], 1)
              ELSE Without(D[1], 0)
      E == [D EXCEPT ![1] = test]
      y == Intersect(D[3], D[2])
  IN CASE IsTrue(test) -> CheckAndRemove(CheckAndRemove(E, 2, 3), 3, 2)
       [] IsFalse(test) -> <<test, Intersect(D[2], y), y>>
       [] OTHER -> E

TestOr(D) ==
  LET test == IF ~(IsSingleton(D[2]) /\ IsSingleton(D[3])) THEN D[1]
              ELSE IF IsFalse(D[2]) /\ IsFalse(D[3]) THEN Without(D[1], 1)
              ELSE Without(D[1], 0)
  IN IF IsTrue(test) /\ IsFalse(D[2]) THEN <<test, D[2], Without(D[3], 0)>>
     ELSE IF IsTrue(test) /\ IsFalse(D[3]) THEN <<test, Without(D[2], 0), D[3]>>
     ELSE IF IsFalse(test) THEN <<test, Without(D[2], 1), Without(D[3], 1)>>
     ELSE [D EXCEPT ![1] = test]

TestAnd(D) ==
  LET known == IsSingleton(D[2]) /\ IsSingleton(D[3])
      both == IsTrue(D[2]) /\ IsTrue(D[3])
      test == CASE ~known -> D[1] [] both -> IntersectBounds(D[1], 1, 1)
                [] OTHER -> IntersectBounds(D[1], 0, 0)
      y == IF IsTrue(D[2]) THEN IntersectBounds(D[3], 0, 0) ELSE D[3]
  IN CASE IsTrue(test) -> <<test, IntersectBounds(D[2], 1, 1), IntersectBounds(D[3], 1, 1)>>
       [] IsFalse(test) -> <<test, IF IsTrue(y) THEN IntersectBounds(D[2], 0, 0) ELSE D[2], y>>
       [] OTHER -> [D EXCEPT ![1] = test]

TestLessThan(D) ==
  LET test == IF Upper(D[2]) < Lower(D[3]) THEN Without(D[1], 0)
              ELSE IF Lower(D[2]) >= Upper(D[3]) THEN Without(D[1], 1) ELSE D[1]
      E == [D EXCEPT ![1] = test]
  IN CASE IsTrue(test) -> LessThan(E, 2, 3)
       [] IsFalse(test) -> LessThanEqual(E, 3, 2)
       [] OTHER -> E

TestLEQ(D) ==
  LET test == IF Upper(D[2]) <= Lower(D[3]) THEN Without(D[1], 0)
              ELSE IF Lower(D[2]) > Upper(D[3]) THEN Without(D[1], 1) ELSE D[1]
      E == [D EXCEPT ![1] = test]
  IN CASE IsTrue(test) -> LessThanEqual(E, 2, 3)
       [] IsFalse(test) -> LessThan(E, 3, 2)
       [] OTHER -> E
-----------------------------------------------------------------------------
(* Classes that only look at variables that have one value.                 *)
Computed(D, z, args, v) ==
  IF \A i \in args : IsSingleton(D[i]) THEN [D EXCEPT ![z] = IntersectBounds(@, v, v)] ELSE D

SquareOfDifference(D) ==
  LET difference == TheValue(D[1]) - TheValue(D[2])
  IN Computed(D, 3, {1, 2}, difference * difference)

(* What is left of a division that is cut off towards zero.                 *)
Remainder(a, b) == LET r == Absolute(a) % Absolute(b) IN IF a < 0 THEN -r ELSE r

MaxOf(D) == Computed(D, 1, {2, 3}, Max({TheValue(D[2]), TheValue(D[3])}))
MinOf(D) == Computed(D, 1, {2, 3}, Min({TheValue(D[2]), TheValue(D[3])}))
AbsOf(D) == Computed(D, 1, {2}, Absolute(TheValue(D[2])))
ModOf(D) == Computed(D, 1, {2, 3}, Remainder(TheValue(D[2]), TheValue(D[3])))

(* It never says that the second variable has more values than one.         *)
TestSingleton(D) == IF IsSingleton(D[2]) THEN [D EXCEPT ![1] = Without(@, 0)] ELSE D

Unary(D, source) == [D EXCEPT ![1] = Intersect(@, source)]
=============================================================================
