------------------------- MODULE MCConstraintLibrary -------------------------
(* Every class that is modelled, on small domains of the kinds it handles.  *)
EXTENDS ConstraintLibraryProperties

Interval(S) == [kind |-> "interval", values |-> S]
Enumeration(S) == [kind |-> "enumeration", values |-> S]
BooleanVariable == Interval({0, 1})
Either(S) == {Interval(S), Enumeration(S)}
Uniform(n, S) == {[i \in 1 .. n |-> d] : d \in Either(S)}
Intervals(n, S) == {[i \in 1 .. n |-> Interval(S)]}
Mixed(n, S) == [1 .. n -> Either(S)]
Under(Scopes) == {<<BooleanVariable>> \o s : s \in Scopes}

Signed == -2 .. 2
Small == 0 .. 2
Four == 0 .. 3

Order == Ignoring \ {"Unary"}
Products == {"AddEqual", "MultEqual", "DivEqual"}
Extremes == {"EqualMinimum", "EqualMaximum"}
Conditions == {"CondAllSame", "CondAllDiff"}
Functions == {"Max", "Min", "Mod"}
AllClasses == Order \cup Products \cup Extremes \cup Conditions \cup Tests
  \cup Functions \cup {"SquareOfDifference", "TestSingleton", "Unary"}
  \cup {"Equal", "Negate", "AbsoluteValue", "Abs", "WithinBounds", "CountZeroes"} \cup Connectives

KnownScope == [c \in AllClasses |->
  CASE c \in Order -> Mixed(2, Four)
    [] c = "Equal" -> Mixed(3, Small)
    [] c \in Products \cup {"WithinBounds"} -> Intervals(3, Signed)
    [] c \in {"Negate", "AbsoluteValue"} -> Intervals(2, Signed)
    [] c \in Extremes -> Intervals(3, Four) \cup Intervals(4, Small)
    [] c = "CountZeroes" -> {<<Interval(Small)>> \o s : s \in Mixed(2, {-1, 0, 1})}
    [] c = "CondAllSame" -> Under({s \in Mixed(3, Small) : IsInterval(s[1]) \/ \A i \in 1 .. 3 : ~IsInterval(s[i])})
    [] c = "CondAllDiff" -> Under({[i \in 1 .. 3 |-> Enumeration(Small)]} \cup Mixed(2, Small))
    [] c = "SquareOfDifference" -> Mixed(3, Small)
    [] c = "Abs" -> Mixed(2, Signed)
    [] c = "Mod" -> {<<r, a, b>> : r \in Either(Signed), a \in Either(-3 .. -1), b \in Either(1 .. 3)}
    [] c \in Functions -> Mixed(3, Small)
    [] c = "TestSingleton" -> Under(Mixed(1, Four))
    [] c = "Unary" -> Mixed(1, Four)
    [] c \in {"TestEQ", "TestNEQ"} -> Under(Mixed(2, Four))
    [] c \in Tests -> Under(Intervals(2, Four))
    [] OTHER -> Intervals(3, {0, 1})]
MCSource == Interval(1 .. 2)
MCScope == [c \in Class |-> KnownScope[c]]

(* Three intervals that may have to be different: two of them may shrink to *)
(* single values, one on either side of what is left to the third.          *)
ThreeIntervals == [c \in Class |-> Under(Intervals(3, Small))]

(* Enumerations, for a class that computes with bounds.                     *)
ThreeEnumerations == [c \in Class |-> {[i \in 1 .. 3 |-> Enumeration(Four)]}]

(* The hypothesis of ConstraintLibraryProofs holds of these scopes.         *)
ASSUME ScopesSuit == Class = AllClasses => Suited
=============================================================================
