------------------------------ MODULE Network ------------------------------
(***************************************************************************)
(* A constraint network, as the ConstraintEngine sees it: variables with   *)
(* closed enumerated base domains, and constraints that are relations over *)
(* the variables of their scope.  What a class of constraint does when it  *)
(* is executed is its own business; here every constraint filters each     *)
(* variable of its scope down to the values that still have a support.     *)
(***************************************************************************)
EXTENDS Integers, Sequences, FiniteSets, Functions

CONSTANTS
  Var, Constraint, Value,
  BaseDomain,   \* BaseDomain[v]: the base domain that v is created with
  Scope,        \* Scope[c]: a sequence of different variables
  Allowed       \* Allowed[c]: the assignments to the scope that satisfy c

Vars(c) == Range(Scope[c])

ASSUME NetworkAssumption ==
  /\ IsFiniteSet(Var) /\ IsFiniteSet(Constraint)
  /\ BaseDomain \in [Var -> (SUBSET Value) \ {{}}]
  /\ \A c \in Constraint : /\ Scope[c] \in Seq(Var) /\ Scope[c] # << >>
                           /\ IsInjective(Scope[c])
                           /\ Allowed[c] \subseteq [Vars(c) -> Value]

Domains == [Var -> SUBSET Value]

(* The assignments to the scope of c that domains d leave possible.        *)
Supports(c, d) == {t \in Allowed[c] : \A v \in Vars(c) : t[v] \in d[v]}

(* d after the execution of c, when something is left.                     *)
Filtered(c, d) ==
  [v \in Var |-> IF v \in Vars(c) THEN {t[v] : t \in Supports(c, d)} ELSE d[v]]

(* c can take no more values away.                                         *)
Consistent(c, d) == Supports(c, d) # {} /\ Filtered(c, d) = d

(* The assignments within domains d that satisfy every constraint of C.    *)
Solutions(d, C) ==
  {a \in [Var -> Value] :
     /\ \A v \in Var : a[v] \in d[v]
     /\ \A c \in C : \E t \in Allowed[c] : \A v \in Vars(c) : t[v] = a[v]}
=============================================================================
