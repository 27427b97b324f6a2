--------------------------- MODULE FoldInduction ---------------------------
(***************************************************************************)
(* What a fold of the community modules computes, for any operation, and   *)
(* induction over it.  A module that proves something about a fold takes   *)
(* an instance of this one, for the operation and for what it keeps; both  *)
(* may depend on the context k of the fold.                                *)
(***************************************************************************)
EXTENDS FiniteSets, Folds, FiniteSetTheorems, TLAPS

CONSTANTS
  Op(_, _, _),  \* Op(k, x, y): element x is added to the result y
  Pick(_),      \* which element of a set is added last
  I(_, _, _)    \* I(k, s, y): what holds of y when the elements of s are in it

Fold(k, base, S) ==
  MapThenFoldSet(LAMBDA x, y : Op(k, x, y), base, LAMBDA x : x, Pick, S)

Rest(S) == S \ {Pick(S)}

Picks(S) == \A s \in SUBSET S : s # {} => Pick(s) \in s

(* The function on the subsets of S that the fold over S is defined by.    *)
Folded(k, base, S, f) ==
  f = [s \in SUBSET S |-> IF s = {} THEN base ELSE Op(k, Pick(s), f[s \ {Pick(s)}])]

LEMMA LeastSet ==
  ASSUME NEW S, IsFiniteSet(S), NEW X, X \subseteq SUBSET S, X # {}
  PROVE  \E s \in X : \A t \in X : t \subseteq s => t = s
<1>1. FiniteSubsetsOf(S) = SUBSET S
  BY FS_FiniteSubsetsOfFinite
<1>2. IsWellFoundedOn(StrictSubsetOrdering(S), SUBSET S)
  BY <1>1, FS_StrictSubsetOrderingWellFounded
<1>3. PICK s \in X : \A t \in X : ~(<<t, s>> \in StrictSubsetOrdering(S))
  BY <1>2, WFMin
<1>4. QED
  BY <1>3 DEF StrictSubsetOrdering

(* A set of numbers up to n has a first and a last element.                *)
LEMMA Extremes ==
  ASSUME NEW n, NEW S, n \in Nat, S \subseteq 1 .. n, S # {}
  PROVE  /\ \E m \in S : \A i \in S : m <= i
         /\ \E m \in S : \A i \in S : m >= i
<1> DEFINE D == 1 .. n
           up == {1 .. m : m \in S}
           down == {m .. n : m \in S}
<1>1. IsFiniteSet(D)
  BY FS_Interval
<1>2. /\ up \subseteq SUBSET D /\ up # {}
      /\ down \subseteq SUBSET D /\ down # {}
  <2>1. ASSUME NEW m \in S PROVE 1 .. m \in SUBSET D /\ m .. n \in SUBSET D
    <3>1. m \in Nat /\ 1 <= m /\ m <= n
      BY <2>1
    <3>2. QED
      BY <3>1
  <2>2. PICK m : m \in S
    OBVIOUS
  <2>3. 1 .. m \in up /\ m .. n \in down
    BY <2>2
  <2> HIDE DEF D
  <2>4. up \subseteq SUBSET D /\ down \subseteq SUBSET D
    BY <2>1
  <2> HIDE DEF up, down
  <2>5. QED
    BY <2>3, <2>4
<1>3. /\ \E s \in up : \A t \in up : t \subseteq s => t = s
      /\ \E s \in down : \A t \in down : t \subseteq s => t = s
  <2> HIDE DEF D, up, down
  <2>1. QED
    BY ONLY <1>1, <1>2, LeastSet
<1>4. PICK s \in up : \A t \in up : t \subseteq s => t = s
  BY <1>3
<1>5. PICK l \in S : s = 1 .. l
  BY <1>4
<1>6. ASSUME NEW i \in S, i < l PROVE FALSE
  <2>1. 1 .. i \in up /\ 1 .. i \subseteq s
    BY <1>5, <1>6
  <2>2. l \in 1 .. l /\ l \notin 1 .. i
    BY <1>6
  <2>3. QED
    BY <1>4, <1>5, <2>1, <2>2
<1>7. PICK r \in down : \A t \in down : t \subseteq r => t = r
  BY <1>3
<1>8. PICK g \in S : r = g .. n
  BY <1>7
<1>9. ASSUME NEW i \in S, g < i PROVE FALSE
  <2>1. i .. n \in down /\ i .. n \subseteq r
    BY <1>8, <1>9
  <2>2. g \in g .. n /\ g \notin i .. n
    BY <1>9
  <2>3. QED
    BY <1>7, <1>8, <2>1, <2>2
<1>10. \A i \in S : l <= i /\ g >= i
  BY <1>6, <1>9
<1>11. QED
  BY <1>10

(* Two such functions agree where both are defined.                        *)
LEMMA FoldedOnce ==
  ASSUME NEW k, NEW base, NEW S, IsFiniteSet(S), Picks(S), NEW T, T \subseteq S,
         NEW f, Folded(k, base, S, f), NEW g, Folded(k, base, T, g), NEW s, s \in SUBSET T
  PROVE  f[s] = g[s]
<1> DEFINE X == {t \in SUBSET T : f[t] # g[t]}
<1>1. SUFFICES ASSUME X # {} PROVE FALSE
  OBVIOUS
<1>2. X \subseteq SUBSET S
  OBVIOUS
<1> HIDE DEF X
<1>3. PICK t \in X : \A u \in X : u \subseteq t => u = t
  BY <1>1, <1>2, LeastSet
<1>4. t \in SUBSET T /\ f[t] # g[t]
  BY <1>3 DEF X
<1>5. f[t] = IF t = {} THEN base ELSE Op(k, Pick(t), f[t \ {Pick(t)}])
  BY <1>4 DEF Folded
<1>6. g[t] = IF t = {} THEN base ELSE Op(k, Pick(t), g[t \ {Pick(t)}])
  BY <1>4 DEF Folded
<1>7. t # {} => t \ {Pick(t)} \notin X /\ t \ {Pick(t)} \in SUBSET T
  BY <1>3, <1>4 DEF Picks
<1> USE DEF X
<1>8. t # {} => f[t \ {Pick(t)}] = g[t \ {Pick(t)}]
  BY <1>7
<1>9. QED
  BY <1>4, <1>5, <1>6, <1>8

LEMMA FoldedExists ==
  ASSUME NEW k, NEW base, NEW S, IsFiniteSet(S), Picks(S)
  PROVE  \E f : Folded(k, base, S, f)
<1> DEFINE X == {t \in SUBSET S : ~\E f : Folded(k, base, t, f)}
<1>1. SUFFICES ASSUME X # {} PROVE FALSE
  OBVIOUS
<1>2. PICK t \in X : \A u \in X : u \subseteq t => u = t
  <2>1. X \subseteq SUBSET S
    OBVIOUS
  <2> HIDE DEF X
  <2>2. QED
    BY <1>1, <2>1, LeastSet
<1> DEFINE Fun(u) == CHOOSE f : Folded(k, base, u, f)
           below(u) == Fun(u)[u]
           f == [s \in SUBSET t |-> IF s = {} THEN base
                                    ELSE Op(k, Pick(s), below(s \ {Pick(s)}))]
<1>3. t \in SUBSET S /\ ~\E g : Folded(k, base, t, g)
  BY <1>2
<1>4. ASSUME NEW u, u \in SUBSET t, u # t PROVE Folded(k, base, u, Fun(u))
  <2>1. u \notin X /\ u \in SUBSET S
    BY <1>2, <1>4
  <2>2. \E g : Folded(k, base, u, g)
    BY <2>1
  <2>3. QED
    BY <2>2
<1>5. ASSUME NEW u, u \in SUBSET t, u # t PROVE f[u] = below(u)
  <2>1. Folded(k, base, u, Fun(u))
    BY <1>4, <1>5
  <2>2. below(u) = IF u = {} THEN base ELSE Op(k, Pick(u), Fun(u)[u \ {Pick(u)}])
    BY <2>1 DEF Folded
  <2>3. f[u] = IF u = {} THEN base ELSE Op(k, Pick(u), below(u \ {Pick(u)}))
    BY <1>5
  <2>4. ASSUME u # {} PROVE Fun(u)[u \ {Pick(u)}] = below(u \ {Pick(u)})
    <3> DEFINE v == u \ {Pick(u)}
    <3>1. v \in SUBSET t /\ v # t /\ v \subseteq u /\ u \subseteq S
      BY <1>3, <1>5, <2>4 DEF Picks
    <3>2. Folded(k, base, v, Fun(v))
      BY <1>4, <3>1
    <3>3. IsFiniteSet(u) /\ Picks(u) /\ v \in SUBSET v
      BY <3>1, FS_Subset DEF Picks
    <3> HIDE DEF v, Fun
    <3>4. Fun(u)[v] = Fun(v)[v]
      BY <2>1, <3>1, <3>2, <3>3, FoldedOnce
    <3>5. QED
      BY <3>4 DEF v
  <2>5. QED
    BY <2>2, <2>3, <2>4
<1>6. ASSUME NEW s \in SUBSET t, s # {}
      PROVE  below(s \ {Pick(s)}) = f[s \ {Pick(s)}]
  <2>1. s \ {Pick(s)} \in SUBSET t /\ s \ {Pick(s)} # t
    BY <1>3, <1>6 DEF Picks
  <2> HIDE DEF f, below
  <2>2. QED
    BY <1>5, <2>1
<1>7. Folded(k, base, t, f)
  <2> DEFINE h(s) == IF s = {} THEN base ELSE Op(k, Pick(s), f[s \ {Pick(s)}])
  <2>1. f = [s \in SUBSET t |-> f[s]]
    OBVIOUS
  <2>2. ASSUME NEW s \in SUBSET t PROVE f[s] = h(s)
    <3>1. f[s] = IF s = {} THEN base ELSE Op(k, Pick(s), below(s \ {Pick(s)}))
      OBVIOUS
    <3> HIDE DEF f, below
    <3>2. QED
      BY <1>6, <3>1
  <2> HIDE DEF f
  <2>3. f = [s \in SUBSET t |-> h(s)]
    <3> HIDE DEF h
    <3>1. QED
      BY <2>1, <2>2
  <2>4. QED
    BY <2>3 DEF Folded
<1>8. QED
  BY <1>3, <1>7

(* One step of a fold: the element picked is taken last.                   *)
LEMMA FoldUnfolds ==
  ASSUME NEW k, NEW base, NEW S, IsFiniteSet(S), Picks(S)
  PROVE  /\ S = {} => Fold(k, base, S) = base
         /\ S # {} => Fold(k, base, S) = Op(k, Pick(S), Fold(k, base, Rest(S)))
<1> DEFINE f(T) == CHOOSE f : Folded(k, base, T, f)
           fold(T) == f(T)[T]
<1>1. ASSUME NEW T PROVE fold(T) = Fold(k, base, T)
  BY Zenon DEF Fold, MapThenFoldSet, Folded
<1>2. ASSUME NEW T, T \subseteq S PROVE Folded(k, base, T, f(T)) /\ IsFiniteSet(T) /\ Picks(T)
  <2>1. IsFiniteSet(T) /\ Picks(T)
    BY <1>2, FS_Subset DEF Picks
  <2>2. \E g : Folded(k, base, T, g)
    BY <2>1, FoldedExists
  <2>3. QED
    BY <2>1, <2>2
<1>3. Folded(k, base, S, f(S)) /\ fold(S) = f(S)[S]
  BY <1>2
<1> HIDE DEF f
<1>4. f(S)[S] = IF S = {} THEN base ELSE Op(k, Pick(S), f(S)[S \ {Pick(S)}])
  BY <1>3 DEF Folded
<1>5. f(S)[S \ {Pick(S)}] = fold(S \ {Pick(S)})
  <2> DEFINE T == S \ {Pick(S)}
  <2>1. T \subseteq S /\ T \in SUBSET T
    OBVIOUS
  <2>2. Folded(k, base, T, f(T))
    BY <1>2, <2>1
  <2> HIDE DEF T
  <2>3. f(S)[T] = f(T)[T]
    BY <1>3, <2>1, <2>2, FoldedOnce
  <2>4. QED
    BY <2>3 DEF T
<1> HIDE DEF fold
<1>6. /\ S = {} => fold(S) = base
      /\ S # {} => fold(S) = Op(k, Pick(S), fold(S \ {Pick(S)}))
  BY <1>3, <1>4, <1>5
<1>7. QED
  BY <1>1, <1>6 DEF Rest

(* Induction over a fold: what holds of the base and is kept when the      *)
(* element picked of any part of S is added holds of the whole fold.       *)
THEOREM FoldKeeps ==
  ASSUME NEW k, NEW base, NEW S, IsFiniteSet(S), Picks(S), I(k, {}, base),
         \A s \in SUBSET S : \A y :
           s # {} /\ I(k, s \ {Pick(s)}, y) => I(k, s, Op(k, Pick(s), y))
  PROVE  I(k, S, Fold(k, base, S))
<1> DEFINE fold(T) == Fold(k, base, T)
           X == {t \in SUBSET S : ~I(k, t, fold(t))}
<1>1. SUFFICES ASSUME X # {} PROVE FALSE
  OBVIOUS
<1>2. PICK t \in X : \A u \in X : u \subseteq t => u = t
  <2>1. X \subseteq SUBSET S
    OBVIOUS
  <2> HIDE DEF X
  <2>2. QED
    BY <1>1, <2>1, LeastSet
<1>3. t \in SUBSET S /\ ~I(k, t, fold(t)) /\ IsFiniteSet(t) /\ Picks(t)
  BY <1>2, FS_Subset DEF Picks
<1>4. /\ t = {} => fold(t) = base
      /\ t # {} => fold(t) = Op(k, Pick(t), fold(t \ {Pick(t)}))
  <2>1. /\ t = {} => fold(t) = base
        /\ t # {} => fold(t) = Op(k, Pick(t), fold(Rest(t)))
    BY ONLY <1>3, FoldUnfolds
  <2>2. QED
    BY <2>1 DEF Rest
<1>5. t # {} => t \ {Pick(t)} \in SUBSET S /\ t \ {Pick(t)} \notin X
  BY <1>2, <1>3 DEF Picks
<1> HIDE DEF fold
<1>6. t # {} => I(k, t \ {Pick(t)}, fold(t \ {Pick(t)}))
  BY <1>5
<1>7. QED
  BY <1>3, <1>4, <1>6
=============================================================================
