-------------------------- MODULE SolverProperties --------------------------
(***************************************************************************)
(* What the Solver promises.  The frontier of the search is the sequence   *)
(* of the choices in force on the stack, followed by the number of choices *)
(* already tried by the active decision; the search moves it forward in    *)
(* lexicographic order.                                                    *)
(***************************************************************************)
EXTENDS Solver

StackFlaws == {stack[i].flaw : i \in 1 .. Depth}

(* The plan without what this search decided.                              *)
BasePlan == Without(plan, StackFlaws)

(* The plan just before decision i of the stack was taken.                 *)
PlanBefore(i) == Without(plan, {stack[j].flaw : j \in i .. Depth})

AgreesBelow(p, i) == \A j \in 1 .. i - 1 : p[stack[j].flaw] = stack[j].tried

(* p lies ahead of the frontier: the search can still come to it.          *)
Ahead(p) ==
  /\ ~exhausted
  /\ \/ \E i \in 1 .. Depth : AgreesBelow(p, i) /\ p[stack[i].flaw] > stack[i].tried
     \/ /\ AgreesBelow(p, Depth + 1)
        /\ active # NoDecision => p[active.flaw] > active.tried

(* p lies behind the frontier: the search cannot come to it again.         *)
Passed(p) ==
  \/ exhausted
  \/ \E i \in 1 .. Depth : AgreesBelow(p, i) /\ p[stack[i].flaw] < stack[i].tried
  \/ /\ AgreesBelow(p, Depth + 1)
     /\ active # NoDecision /\ p[active.flaw] <= active.tried

(* The database holds exactly the choices on the stack, each flaw is       *)
(* decided once, and backtracking over several decisions never leaves an   *)
(* active decision, or one on the stack, on a flaw that vanished with the  *)
(* decision that had created it (Solver.cc backtrack, reset, backjump).    *)
DecisionsInForce ==
  /\ \A i \in 1 .. Depth :
       /\ stack[i].executed
       /\ plan[stack[i].flaw] = stack[i].tried
       /\ stack[i].flaw \in OpenFlaws(PlanBefore(i))
  /\ active # NoDecision => ~active.executed /\ active.flaw \in OpenFlaws(plan)

(* While no alternative is thrown away untried, a solution that the search *)
(* can express is still ahead of the frontier or has been reported: time-  *)
(* outs, repeated calls of solve, partial resets and multi-level           *)
(* backtracking lose nothing.                                              *)
NothingLost ==
  complete => \A s \in Reachable :
                Extends(s, BasePlan) => Ahead(s) \/ \E p \in found : Extends(s, p)

(* An exhausted search has explored all possible solutions, as the         *)
(* comment of testMultipleSolutionsSearch says of backjump(1) and solve:   *)
(* each one was reported.                                                  *)
ExhaustionIsProof ==
  exhausted /\ complete =>
    \A s \in Reachable : Extends(s, BasePlan) => \E p \in found : Extends(s, p)

(* Backjumping from a solution yields the next alternative: a plan that    *)
(* was reported is the current one, or behind the frontier for good.       *)
FoundOnce ==
  \A p \in found : (p = plan /\ active = NoDecision) \/ Passed(p)

(* Without conflicts of the client's, a plan that is reported complete has *)
(* no open flaw and no violated constraint.                                *)
FoundAreSolutions == posted = 0 => \A p \in found : Solution(p)

(* solve() takes at most maxSteps steps more, and its stack grows by at    *)
(* most one decision more than maxDepth, wherever it started from.         *)
LimitsRespected ==
  solving => /\ stepCount - stepCountFloor <= maxSteps
             /\ Depth - depthFloor <= maxDepth + 1

(* A step never leaves the plan more violated than it found it, whatever   *)
(* conflicts the client brought in, propagated or not.                     *)
StepAddsNoViolation ==
  [][Step => Violation(plan', foreign') <= Violation(plan, foreign)]_vars

(* Where the limits do not bind, a search that solve() began on an empty   *)
(* stack ends in a plan without flaws or with the alternatives exhausted:  *)
(* no choice is tried for ever.                                            *)
Unlimited == maxSteps = UIntMod - 1 /\ maxDepth = UIntMod - 1

SolveAnswers ==
  (solving /\ Unlimited /\ depthFloor = 0) ~> (noFlawsFound \/ exhausted)
-----------------------------------------------------------------------------
(* What comments and assertions of the code say, and the code breaks.      *)

(* Solver.cc:263 "Cannot be left in an exhausted state if there are still  *)
(* decisions to evaluate."                                                 *)
ExhaustedLeavesNoDecision == exhausted => stack = << >>

(* Solver.hh:266 timedOut is "True of the depth or step limits are         *)
(* exceeded".                                                              *)
TimedOutMeansOverLimit ==
  [][timedOut' /\ ~timedOut => \/ stepCount - stepCountFloor >= maxSteps
                               \/ Depth - depthFloor > maxDepth]_vars
=============================================================================
