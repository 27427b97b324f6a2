--------------------------- MODULE SearchProblem ---------------------------
(***************************************************************************)
(* What the Solver searches through: the plan database and the constraint  *)
(* engine, seen from Solver.cc.  A flaw is anything a FlawManager offers   *)
(* (an inactive token, an unbound variable, a threat); resolving it takes  *)
(* one of a fixed sequence of choices, numbered from 1; taking a choice    *)
(* can bring new flaws into the plan (a rule fires and creates slave       *)
(* tokens); and a plan is inconsistent when it contains a nogood, a set of *)
(* choices that propagation refutes together.                              *)
(***************************************************************************)
EXTENDS Integers, FiniteSets

CONSTANTS
  Flaw,         \* every flaw that can ever be in scope
  Roots,        \* the flaws of the initial plan
  MaxChoices,   \* no decision has more choices
  NumChoices,   \* NumChoices[f]: how many choices the decision on f has
  Cutoff,       \* Cutoff[f]: DecisionPoint::m_maxChoices, 0 for no cut-off
  Subgoals,     \* Subgoals[f][c]: the flaws that choice c of f adds
  Nogoods,      \* sets of pairs <<flaw, choice>> that cannot be in one plan
  Tolerant      \* are violated constraints counted (TRUE), or is the first
                \* emptied domain the only thing known (FALSE)?

ASSUME ProblemAssumption ==
  /\ Roots \subseteq Flaw
  /\ MaxChoices \in Nat
  /\ NumChoices \in [Flaw -> 0 .. MaxChoices]
  /\ Cutoff \in [Flaw -> Nat]
  /\ \A f \in Flaw : \A c \in 1 .. NumChoices[f] : Subgoals[f][c] \subseteq Flaw
  /\ IsFiniteSet(Nogoods)
  /\ \A g \in Nogoods : g # {} /\ g \subseteq Flaw \X (Nat \ {0})
  /\ Tolerant \in BOOLEAN

(* A plan gives every flaw the choice taken for it, 0 while it is open.    *)
Undecided == 0

Plan == {p \in [Flaw -> 0 .. MaxChoices] : \A f \in Flaw : p[f] <= NumChoices[f]}

EmptyPlan == [f \in Flaw |-> Undecided]

Decided(p) == {f \in Flaw : p[f] # Undecided}

(* The flaws whose entities are in the plan database.                      *)
Present(p) == Roots \cup UNION {Subgoals[f][p[f]] : f \in Decided(p)}

OpenFlaws(p) == Present(p) \ Decided(p)

Without(p, F) == [f \in Flaw |-> IF f \in F THEN Undecided ELSE p[f]]

(* The last choice a decision on f may try: hasNext() stops at the number  *)
(* of choices, cut() at the cut-off.                                       *)
LastChoice(f) ==
  IF Cutoff[f] > 0 /\ Cutoff[f] < NumChoices[f] THEN Cutoff[f] ELSE NumChoices[f]

Broken(p) == {g \in Nogoods : \A d \in g : p[d[1]] = d[2]}

(* ConstraintEngine::getViolation once changes are propagated, with k      *)
(* further conflicts that no decision of this solver is responsible for.   *)
Violation(p, k) ==
  LET n == Cardinality(Broken(p)) + k
  IN  IF Tolerant \/ n = 0 THEN n ELSE 1

(* p agrees with every decision of q.                                      *)
Extends(p, q) == \A f \in Decided(q) : p[f] = q[f]

Solution(p) ==
  /\ OpenFlaws(p) = {}
  /\ Broken(p) = {}

(* The solutions the search may reach: no choice is beyond a cut-off.      *)
Reachable == {p \in Plan : Solution(p) /\ \A f \in Flaw : p[f] <= LastChoice(f)}
=============================================================================
