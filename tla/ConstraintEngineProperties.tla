--------------------- MODULE ConstraintEngineProperties ---------------------
EXTENDS ConstraintEngine

(* What a variable's domain would be without constraints.                  *)
Free == [v \in Var |-> IF spec[v] = NoValue THEN base[v] ELSE {spec[v]}]

(* No value is taken from a domain that a solution of the specified values *)
(* and the active constraints needs: what was inferred from a constraint   *)
(* or a value that has been retracted is gone, in the middle of a          *)
(* propagation too.  (While a variable is empty its neighbours are still   *)
(* to be relaxed.  And no base domain may have been restricted against the *)
(* value its variable was specified to: see RetractedIsGone.)              *)
NoSolutionLost ==
  empties = {} =>
    \A a \in Solutions([v \in Var |-> IF v \in variables THEN Free[v] ELSE Value], Active(Now)) :
      \A v \in variables : a[v] \in dom[v]

(* Every active constraint that could still take a value away is on the    *)
(* agenda, or will be put there when the empty variables in its scope are  *)
(* relaxed.                                                                *)
NothingForgotten ==
  \A c \in Active(Now) :
    Consistent(c, dom) \/ c \in agenda \/ Vars(c) \cap empties # {}

(* A constraint is held down by the deactivations of its variables, once   *)
(* more while it is violated, and by nothing else: it comes back when, and *)
(* only when, all of these are undone, whatever their order.               *)
ActivityCounts ==
  \A c \in constraints \ redundant :
    held[c] = SumFunctionOnSet(out, Vars(c)) + (IF c \in violated THEN 1 ELSE 0)

(* A domain that is empty is known to be, however it was emptied and       *)
(* whatever has been relaxed since, so that the engine does not report a   *)
(* consistent network, and relaxes the domain before it propagates again.  *)
(* (As long as no variable is deactivated or deleted.)                     *)
EmptyKnown == \A v \in variables : dom[v] = {} => v \in empties

(* A propagation that was started comes to an end.                         *)
PropagationEnds == propagating ~> ~propagating
-----------------------------------------------------------------------------
(* What the source says and the engine does not do.                        *)

Quiescent == ~propagating /\ empties = {} /\ agenda = {}

(* ConstraintEngine.hh:119, CONSTRAINT_CONSISTENT: "No domains are empty,  *)
(* and all constraints are satisfied.  All events have been processed."    *)
ConsistentMeansSatisfied ==
  Quiescent => \A c \in Active(Now) : Consistent(c, dom)

(* ConstrainedVariable.cc:256, in isValid: "If the derived domain is not   *)
(* empty, it should be a subset of the specified domain", which the next   *)
(* line takes from the base domain.  For a variable that is not specified, *)
(* or no longer, there is no other reading: what reset retracted is gone.  *)
RetractedIsGone ==
  \A v \in variables : spec[v] = NoValue => dom[v] \subseteq base[v]
=============================================================================
