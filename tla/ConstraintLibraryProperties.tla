--------------------- MODULE ConstraintLibraryProperties ---------------------
(* What an execution may take away, and what is true when none is due.      *)
EXTENDS ConstraintLibrary

(* The relation a class maintains, by the comments and names of             *)
(* Constraints.hh.                                                          *)
AllSame(t) == \A i, j \in DOMAIN t : t[i] = t[j]
AllDifferent(t) == \A i, j \in DOMAIN t : i # j => t[i] # t[j]

Relation(c, t) ==
  CASE c \in {"SubsetOf", "Equal"} -> AllSame(t)
    [] c = "LessThanEqual" -> t[1] <= t[2]
    [] c = "LessThan" -> t[1] < t[2]
    [] c = "NotEqual" -> t[1] # t[2]
    [] c = "AddEqual" -> t[1] + t[2] = t[3]
    [] c = "MultEqual" -> t[1] * t[2] = t[3]
    [] c = "DivEqual" -> t[1] = t[2] * t[3]
    [] c = "Negate" -> t[1] = -t[2]
    [] c = "AbsoluteValue" -> t[1] = Absolute(t[2])
    [] c = "WithinBounds" -> t[2] <= t[1] /\ t[1] <= t[3]
    [] c = "EqualMinimum" -> t[1] = Min(ToSet(Tail(t)))
    [] c = "EqualMaximum" -> t[1] = Max(ToSet(Tail(t)))
    [] c = "CountZeroes" -> t[1] = Cardinality({i \in 2 .. Len(t) : t[i] = 0})
    [] c = "CondAllSame" -> (t[1] = 1) <=> AllSame(Tail(t))
    [] c = "CondAllDiff" -> (t[1] = 1) <=> AllDifferent(Tail(t))
    [] c = "TestEQ" -> (t[1] = 1) <=> (t[2] = t[3])
    [] c = "TestNEQ" -> (t[1] = 1) <=> (t[2] # t[3])
    [] c = "TestOr" -> (t[1] = 1) <=> (1 \in {t[2], t[3]})
    [] c = "TestAnd" -> (t[1] = 1) <=> (t[2] = 1 /\ t[3] = 1)
    [] c = "TestLessThan" -> (t[1] = 1) <=> (t[2] < t[3])
    [] c = "TestLEQ" -> (t[1] = 1) <=> (t[2] <= t[3])
    [] c = "SquareOfDifference" -> t[3] = (t[1] - t[2]) * (t[1] - t[2])
    [] c = "Max" -> t[1] = Max({t[2], t[3]})
    [] c = "Min" -> t[1] = Min({t[2], t[3]})
    [] c = "Abs" -> t[1] = Absolute(t[2])
    [] c = "Mod" -> \E q \in -Absolute(t[2]) .. Absolute(t[2]) :
                      /\ t[2] = q * t[3] + t[1]
                      /\ Absolute(t[1]) < Absolute(t[3]) /\ t[1] * t[2] >= 0
    [] c = "TestSingleton" -> t[1] = 1
    [] c = "Unary" -> t[1] \in Source.values

Tuples(D) ==
  LET all == UNION {D[i].values : i \in DOMAIN D}
  IN {t \in [DOMAIN D -> all] : \A i \in DOMAIN D : t[i] \in D[i].values}

Solutions(D) == {t \in Tuples(D) : Relation(class, t)}

TypeOK ==
  /\ class \in Class /\ base \in Scope[class] /\ agenda \in BOOLEAN
  /\ DOMAIN domain = DOMAIN base
  /\ \A i \in DOMAIN base :
       /\ domain[i].kind = base[i].kind /\ domain[i].values \subseteq base[i].values
       /\ ~IsEmpty(domain[i]) /\ IsInterval(domain[i])
            => domain[i].values = Lower(domain[i]) .. Upper(domain[i])

(* An execution takes no value away that is part of a solution.             *)
KeepsSolutions == Execute => Solutions(domain') = Solutions(domain)

NoSolutionFiltered == [][KeepsSolutions]_vars

(* When every variable has one value and the constraint has nothing to do,  *)
(* the values are a solution: a plan that is complete and consistent        *)
(* satisfies it, although it has ignored events, and its own.               *)
DecidedMeansSatisfied ==
  (~agenda /\ \A i \in DOMAIN domain : IsSingleton(domain[i]))
    => \A t \in Tuples(domain) : Relation(class, t)
-----------------------------------------------------------------------------
(* The classes of which this is proved: each goes through its variables     *)
(* once, with no loop over them.  Some ignore events.                       *)
Ignoring == {"SubsetOf", "LessThanEqual", "LessThan", "NotEqual", "Unary"}
Sums == {"AddEqual", "WithinBounds", "SquareOfDifference", "Max", "Min"}
Tests == {"TestEQ", "TestNEQ", "TestLessThan", "TestLEQ"}
Connectives == {"TestOr", "TestAnd"}
Direct == Ignoring \cup Sums \cup Tests \cup Connectives
  \cup {"Negate", "AbsoluteValue", "Abs", "TestSingleton"}

(* The scopes that such a class is meant for: the number of its variables,  *)
(* intervals where it computes with bounds, and conditions.                 *)
IsCondition(d) == IsInterval(d) /\ d.values \subseteq {0, 1}

Arity(c) ==
  CASE c = "Unary" -> 1
    [] c \in Sums \cup Tests \cup Connectives -> 3
    [] OTHER -> 2

OfKinds(c, B) ==
  /\ c \in {"AddEqual", "Negate", "AbsoluteValue"} => \A i \in DOMAIN B : IsInterval(B[i])
  /\ c \in Tests \cup {"TestSingleton"} => IsCondition(B[1])
  /\ c \in Connectives => \A i \in DOMAIN B : IsCondition(B[i])

Suited == \A c \in Class \cap Direct : \A B \in Scope[c] : Len(B) = Arity(c) /\ OfKinds(c, B)
=============================================================================
