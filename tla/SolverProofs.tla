---------------------------- MODULE SolverProofs ----------------------------
(***************************************************************************)
(* Proofs about the Solver, for every problem, every sequence of client    *)
(* calls and every limit: the types, and then the search: that the plan    *)
(* and the stack agree, that no step adds a violation, and that nothing    *)
(* the search could reach is lost or reported twice.                       *)
(***************************************************************************)
EXTENDS SolverProperties, FiniteSetTheorems, TLAPS

(* Unsigned arithmetic stays within its width.                             *)
LEMMA ModWithin == ASSUME NEW x \in Int, NEW m \in Nat \ {0}
                   PROVE  x % m \in 0 .. m - 1
  OBVIOUS

LEMMA LimitTypes == /\ 0 \in 0 .. UIntMod - 1 /\ UIntMod - 1 \in Nat /\ 0 \in 0 .. MaxForeign
                    /\ StepLimits \subseteq Nat /\ DepthLimits \subseteq Nat
  BY SolverAssumption

(* getViolation() is a natural number.                                     *)
LEMMA ViolationType == ASSUME NEW p, NEW k \in Nat PROVE Violation(p, k) \in Nat
<1>1. Broken(p) \subseteq Nogoods /\ IsFiniteSet(Nogoods)
  BY ProblemAssumption DEF Broken
<1>2. Cardinality(Broken(p)) \in Nat
  BY <1>1, FS_Subset, FS_CardinalityType
<1>3. QED
  BY <1>2 DEF Violation

(* Undoing decisions gives a plan again.                                   *)
LEMMA WithoutType == ASSUME NEW p \in Plan, NEW F PROVE Without(p, F) \in Plan
  BY ProblemAssumption DEF Plan, Without, Undecided

LEMMA DecisionOps ==
  ASSUME NEW d \in Decision
  PROVE  /\ Executed(d) \in Decision /\ Executed(d).flaw = d.flaw
         /\ Executed(d).tried = d.tried + 1 /\ Executed(d).executed
         /\ Undone(d) \in Decision /\ Undone(d).flaw = d.flaw
         /\ Undone(d).tried = d.tried /\ ~Undone(d).executed
<1>1. /\ Executed(d) \in Decision /\ Executed(d).flaw = d.flaw
      /\ Executed(d).tried = d.tried + 1
  BY DEF Decision, Executed
<1>2. Executed(d).executed
  BY DEF Executed
<1>3. Undone(d) \in Decision
  BY DEF Decision, Undone
<1>4. Undone(d).flaw = d.flaw /\ Undone(d).tried = d.tried
  BY DEF Decision, Undone
<1>5. Undone(d).executed = FALSE
  BY DEF Decision, Undone
<1>6. QED
  BY <1>1, <1>2, <1>3, <1>4, <1>5

(* The flaws of a plan are flaws of the problem.                           *)
LEMMA OpenFlawsType == ASSUME NEW p \in Plan PROVE OpenFlaws(p) \subseteq Flaw
<1>1. ASSUME NEW f \in Decided(p) PROVE Subgoals[f][p[f]] \subseteq Flaw
  <2>1. f \in Flaw /\ p[f] # 0 /\ p[f] \in 0 .. MaxChoices /\ p[f] <= NumChoices[f]
    BY DEF Decided, Plan, Undecided
  <2>2. p[f] \in 1 .. NumChoices[f]
    BY <2>1, ProblemAssumption
  <2>3. QED
    BY <2>1, <2>2, ProblemAssumption
<1>2. QED
  BY <1>1, ProblemAssumption DEF OpenFlaws, Present

LEMMA CandidatesType ==
  ASSUME TypeOK PROVE Candidates \subseteq Decision
<1>1. OpenFlaws(plan) \subseteq Flaw
  BY OpenFlawsType DEF TypeOK
<1>2. \A f \in Flaw : NewDecision(f) \in Decision
  BY DEF NewDecision, Decision
<1>3. active # NoDecision => active \in Decision
  BY DEF TypeOK
<1>4. QED
  BY <1>1, <1>2, <1>3 DEF Candidates

LEMMA PlanWithType ==
  ASSUME TypeOK, NEW d \in Decision, CanTry(d)
  PROVE  PlanWith(d) \in Plan
<1>1. /\ plan \in [Flaw -> 0 .. MaxChoices] /\ \A f \in Flaw : plan[f] <= NumChoices[f]
      /\ d.flaw \in Flaw /\ d.tried \in Nat
  BY DEF TypeOK, Plan, Decision
<1>2. d.tried + 1 <= NumChoices[d.flaw] /\ d.tried + 1 \in 0 .. MaxChoices
  BY <1>1, ProblemAssumption DEF CanTry, HasNext
<1>3. PlanWith(d) \in [Flaw -> 0 .. MaxChoices]
  BY <1>1, <1>2 DEF PlanWith
<1>4. \A f \in Flaw : PlanWith(d)[f] <= NumChoices[f]
  BY <1>1, <1>2 DEF PlanWith
<1>5. QED
  BY <1>3, <1>4 DEF Plan

(* Backtracking keeps the types of what it assigns.                        *)
LEMMA BacktrackType ==
  ASSUME NEW ds \in Seq(Decision), NEW p \in Plan, NEW before \in Nat,
         foreign \in Nat, Backtrack(ds, p, before)
  PROVE  /\ active' \in Decision \cup {NoDecision}
         /\ stack' \in Seq(Decision)
         /\ plan' \in Plan
         /\ level' \in Nat
         /\ exhausted' \in BOOLEAN
<1>1. \A es, q : LevelAfter(es, q, before) \subseteq Nat
  BY ViolationType DEF LevelAfter
<1>2. \A es : Retract(p, es) \in Plan
  BY WithoutType DEF Retract
<1>3. CASE Resumable(ds) = {}
  <2>1. ~ \E k \in Resumable(ds) : TRUE
    BY <1>3
  <2>2. active' = NoDecision /\ stack' = << >> /\ plan' = Retract(p, ds) /\ exhausted' = TRUE
        /\ level' \in LevelAfter(ds, plan', before)
    BY <2>1 DEF Backtrack
  <2>3. QED
    BY <2>2, <1>1, <1>2
<1>4. ASSUME NEW k \in Resumable(ds),
             active' = Undone(ds[k]), stack' = SubSeq(ds, 1, k - 1),
             plan' = Retract(p, SubSeq(ds, k, Len(ds))),
             level' \in LevelAfter(SubSeq(ds, k, Len(ds)), plan', before),
             exhausted' = FALSE
      PROVE  /\ active' \in Decision \cup {NoDecision}
             /\ stack' \in Seq(Decision)
             /\ plan' \in Plan
             /\ level' \in Nat
             /\ exhausted' \in BOOLEAN
  <2>1. k \in 1 .. Len(ds) /\ ds[k] \in Decision
    BY DEF Resumable
  <2>2. SubSeq(ds, 1, k - 1) \in Seq(Decision)
    BY <2>1
  <2>3. QED
    BY <1>4, <2>1, <2>2, <1>1, <1>2, DecisionOps
<1>5. QED
  BY <1>3, <1>4 DEF Backtrack

LEMMA DroppedType ==
  ASSUME TypeOK, NEW n \in 0 .. Depth
  PROVE  Dropped(n) \in Seq(Decision) /\ SubSeq(stack, 1, Depth - n) \in Seq(Decision)
<1>1. stack \in Seq(Decision)
  BY DEF TypeOK
<1>2. SubSeq(stack, 1, Depth - n) \in Seq(Decision)
  BY <1>1 DEF Depth
<1>3. SubSeq(stack, Depth - n + 1, Depth) \in Seq(Decision)
  BY <1>1 DEF Depth
<1>4. active # NoDecision => active \in Decision
  BY DEF TypeOK
<1>5. QED
  BY <1>2, <1>3, <1>4 DEF Dropped

(* What a step backtracks from: the stack and a decision on top of it.     *)
LEMMA AppendType ==
  ASSUME TypeOK, NEW d \in Decision
  PROVE  Append(stack, d) \in Seq(Decision)
  BY DEF TypeOK

(* The types hold throughout: in particular no choice outside its decision *)
(* ever reaches the plan.                                                  *)
THEOREM TypeCorrect == Spec => []TypeOK
<1>1. Init => TypeOK
  <2>1. EmptyPlan \in Plan
    BY ProblemAssumption DEF EmptyPlan, Plan, Undecided
  <2>2. << >> \in Seq(Decision) /\ {} \subseteq Plan
    OBVIOUS
  <2>3. 0 \in 0 .. UIntMod - 1 /\ UIntMod - 1 \in Nat /\ 0 \in 0 .. MaxForeign
    BY SolverAssumption
  <2>4. SUFFICES ASSUME Init PROVE TypeOK
    OBVIOUS
  <2>5. stack \in Seq(Decision) /\ found \subseteq Plan /\ plan \in Plan
    BY <2>1, <2>2, <2>4 DEF Init
  <2>6. /\ stepCount \in 0 .. UIntMod - 1 /\ stepCountFloor \in 0 .. UIntMod - 1
        /\ depthFloor \in Nat /\ maxSteps \in Nat /\ maxDepth \in Nat
        /\ foreign \in Nat /\ level \in Nat /\ posted \in 0 .. MaxForeign
    BY <2>3, <2>4 DEF Init
  <2>7. QED
    BY <2>4, <2>5, <2>6 DEF Init, TypeOK
<1>2. TypeOK /\ [Next]_vars => TypeOK'
  <2> SUFFICES ASSUME TypeOK, [Next]_vars PROVE TypeOK'
    OBVIOUS
  <2> USE DEF search, control, flags, db, history
  <2>0. /\ \A p \in Plan : Violation(p, foreign) \in Nat
        /\ foreign' \in Nat => \A p : Violation(p, foreign') \in Nat
        /\ plan \in Plan /\ foreign \in Nat
    BY ViolationType DEF TypeOK
  <2>1. CASE StepInconsistent
    BY <2>1, <2>0 DEF StepInconsistent, TypeOK
  <2>2. CASE StepCompleted
    BY <2>2, <2>0 DEF StepCompleted, TypeOK
  <2>3. CASE StepTimedOut
    BY <2>3, <2>0, CandidatesType DEF StepTimedOut, TypeOK
  <2>4. CASE StepSucceeded
    <3>1. PICK d \in Candidates : /\ CanTry(d) /\ plan' = PlanWith(d)
                                  /\ stack' = Append(stack, Executed(d))
      BY <2>4 DEF StepSucceeded
    <3>2. d \in Decision /\ Executed(d) \in Decision
      BY CandidatesType, DecisionOps
    <3>3. stack' \in Seq(Decision) /\ plan' \in Plan
      BY <3>1, <3>2, AppendType, PlanWithType
    <3>4. stepCount' \in 0 .. UIntMod - 1
      BY <2>4, ModWithin, SolverAssumption DEF StepSucceeded, TypeOK
    <3>5. QED
      BY <2>4, <2>0, <3>3, <3>4 DEF StepSucceeded, TypeOK
  <2>5. CASE StepFailed
    <3>1. PICK d \in Candidates :
            CanTry(d) /\ Backtrack(Append(stack, Executed(d)), PlanWith(d), Violation(PlanWith(d), foreign))
      BY <2>5 DEF StepFailed
    <3>2. d \in Decision /\ Executed(d) \in Decision
      BY CandidatesType, DecisionOps
    <3>3. PlanWith(d) \in Plan /\ Append(stack, Executed(d)) \in Seq(Decision)
      BY <3>1, <3>2, AppendType, PlanWithType
    <3>4. /\ active' \in Decision \cup {NoDecision} /\ stack' \in Seq(Decision)
          /\ plan' \in Plan /\ level' \in Nat /\ exhausted' \in BOOLEAN
      BY <3>1, <3>3, <2>0, BacktrackType
    <3>5. stepCount' \in 0 .. UIntMod - 1
      BY <2>5, ModWithin, SolverAssumption DEF StepFailed, TypeOK
    <3>6. QED
      BY <2>5, <3>4, <3>5 DEF StepFailed, TypeOK
  <2>6. CASE StepDeadEnd
    <3>1. PICK d \in Candidates : Backtrack(Append(stack, d), plan, Violation(plan, foreign))
      BY <2>6 DEF StepDeadEnd
    <3>2. Append(stack, d) \in Seq(Decision)
      BY CandidatesType, AppendType
    <3>3. /\ active' \in Decision \cup {NoDecision} /\ stack' \in Seq(Decision)
          /\ plan' \in Plan /\ level' \in Nat /\ exhausted' \in BOOLEAN
      BY <3>1, <3>2, <2>0, BacktrackType
    <3>4. QED
      BY <2>6, <3>3 DEF StepDeadEnd, TypeOK
  <2>7. ASSUME NEW s \in StepLimits, NEW d \in DepthLimits, CallSolve(s, d)
        PROVE  TypeOK'
    <3>1. Depth \in Nat
      BY DEF Depth, TypeOK
    <3>2. QED
      BY <2>7, <3>1, LimitTypes DEF CallSolve, TypeOK
  <2>8. CASE SolveReturns
    BY <2>8 DEF SolveReturns, TypeOK
  <2>9. ASSUME NEW s \in StepLimits, SetMaxSteps(s)
        PROVE  TypeOK'
    BY <2>9, SolverAssumption DEF SetMaxSteps, TypeOK
  <2>10. ASSUME NEW d \in DepthLimits, SetMaxDepth(d)
         PROVE  TypeOK'
    BY <2>10, SolverAssumption DEF SetMaxDepth, TypeOK
  <2>11. ASSUME NEW n \in 0 .. Depth, Reset(n)
         PROVE  TypeOK'
    <3>1. plan' \in Plan
      BY <2>11, <2>0, WithoutType DEF Reset, Retract
    <3>2. stack' \in Seq(Decision)
      BY <2>11, DroppedType DEF Reset
    <3>3. level' \in Nat
      BY <2>11, <3>1, <2>0 DEF Reset, LevelAfter, TypeOK
    <3>4. QED
      BY <2>11, <3>1, <3>2, <3>3, LimitTypes DEF Reset, FoundOutside, TypeOK
  <2>12. ASSUME NEW n \in 0 .. Depth + 1, Backjump(n)
         PROVE  TypeOK'
    <3> DEFINE m == IF active = NoDecision THEN n ELSE n - 1
               r == IF m = 0 THEN 0 ELSE m - 1
    <3>1. m \in 0 .. Depth /\ r \in 0 .. Depth
      BY <2>12 DEF Backjump, Depth, TypeOK
    <3>2. SubSeq(stack, 1, Depth - r) \in Seq(Decision)
      BY <3>1, DroppedType
    <3>3. Retract(plan, Dropped(r)) \in Plan
      BY <2>0, WithoutType DEF Retract
    <3>4. Backtrack(SubSeq(stack, 1, Depth - r), Retract(plan, Dropped(r)), level)
      BY <2>12 DEF Backjump
    <3>5. level \in Nat
      BY DEF TypeOK
    <3> HIDE DEF m, r
    <3>6. /\ active' \in Decision \cup {NoDecision} /\ stack' \in Seq(Decision)
          /\ plan' \in Plan /\ level' \in Nat /\ exhausted' \in BOOLEAN
      BY <3>2, <3>3, <3>4, <3>5, <2>0, BacktrackType
    <3>7. complete' \in BOOLEAN
      BY <2>12 DEF Backjump
    <3>8. QED
      BY <2>12, <3>6, <3>7, LimitTypes DEF Backjump, TypeOK
  <2>13. CASE Clear
    <3>1. << >> \in Seq(Decision) /\ {} \subseteq Plan /\ 0 \in 0 .. UIntMod - 1
      BY LimitTypes
    <3>2. QED
      BY <2>13, <3>1 DEF Clear, TypeOK
  <2>14. CASE PostConflict
    <3>1. foreign' \in Nat /\ posted' \in 0 .. MaxForeign
      BY <2>14, SolverAssumption DEF PostConflict, TypeOK
    <3>2. level' \in Nat
      BY <2>14, <3>1, <2>0 DEF PostConflict, TypeOK
    <3>3. QED
      BY <2>14, <3>1, <3>2 DEF PostConflict, TypeOK
  <2>15. CASE RetractConflict
    BY <2>15 DEF RetractConflict, TypeOK
  <2>16. CASE Propagate
    BY <2>16, <2>0 DEF Propagate, TypeOK
  <2>17. CASE UNCHANGED vars
    BY <2>17 DEF vars, TypeOK
  <2>18. QED
    BY <2>1, <2>2, <2>3, <2>4, <2>5, <2>6, <2>7, <2>8, <2>9, <2>10, <2>11,
       <2>12, <2>13, <2>14, <2>15, <2>16, <2>17
    DEF Next, Step, Client
<1>3. QED
  BY <1>1, <1>2, PTL DEF Spec
-----------------------------------------------------------------------------
(* The search.                                                             *)

(* The plan before decision i of ds was taken, ds being in force in p.     *)
Before(ds, p, i) == Without(p, {ds[j].flaw : j \in i .. Len(ds)})

(* ds is a stack of decisions that are in force in p, each on a flaw that  *)
(* was open before it; the top one need not be executed.                   *)
Standing(ds, p) ==
  /\ \A i \in 1 .. Len(ds) :
       /\ ds[i].flaw \in OpenFlaws(Before(ds, p, i))
       /\ \/ ds[i].executed /\ ds[i].tried > 0 /\ p[ds[i].flaw] = ds[i].tried
          \/ ~ds[i].executed /\ i = Len(ds) /\ p[ds[i].flaw] = Undecided
  /\ \A i, j \in 1 .. Len(ds) : ds[i].flaw = ds[j].flaw => i = j

AllExecuted(ds) == \A i \in 1 .. Len(ds) : ds[i].executed

StackInForce ==
  /\ Standing(stack, plan)
  /\ AllExecuted(stack)
  /\ active # NoDecision => ~active.executed /\ active.flaw \in OpenFlaws(plan)

(* What getViolation() answers is never more than what propagation would   *)
(* find, and without conflicts of the client's nothing is violated.        *)
LevelSound ==
  /\ level <= Violation(plan, foreign)
  /\ foreign <= posted
  /\ posted = 0 => Broken(plan) = {}

(* What is known of the plans reported complete.                           *)
FoundSound ==
  /\ noFlawsFound => active = NoDecision /\ plan \in found /\ OpenFlaws(plan) = {}
  /\ \A p \in found : /\ OpenFlaws(p) = {}
                      /\ Extends(p, BasePlan)
                      /\ posted = 0 => Broken(p) = {}

(* p lies behind the frontier, whether or not the search is exhausted.     *)
AgreesWith(ds, p, i) == \A j \in 1 .. i - 1 : p[ds[j].flaw] = ds[j].tried

BehindAt(ds, p) == \E i \in 1 .. Len(ds) : AgreesWith(ds, p, i) /\ p[ds[i].flaw] < ds[i].tried

AheadAt(ds, p) == \E i \in 1 .. Len(ds) : AgreesWith(ds, p, i) /\ p[ds[i].flaw] > ds[i].tried

Behind ==
  \A p \in found :
    \/ p = plan /\ active = NoDecision
    \/ BehindAt(stack, p)
    \/ AgreesWith(stack, p, Depth + 1) /\ active # NoDecision /\ p[active.flaw] <= active.tried
    \/ exhausted /\ stack = << >>

LimitsSound == maxSteps \in 0 .. UIntMod - 1 /\ maxDepth \in 0 .. UIntMod - 1

-----------------------------------------------------------------------------
(* A prefix and a suffix of a stack.                                       *)
LEMMA Cutting ==
  ASSUME NEW S, NEW ds \in Seq(S), NEW k \in 1 .. Len(ds) + 1
  PROVE  /\ SubSeq(ds, 1, k - 1) \in Seq(S) /\ Len(SubSeq(ds, 1, k - 1)) = k - 1
         /\ \A i \in 1 .. k - 1 : SubSeq(ds, 1, k - 1)[i] = ds[i]
         /\ SubSeq(ds, k, Len(ds)) \in Seq(S)
         /\ Len(SubSeq(ds, k, Len(ds))) = Len(ds) - k + 1
         /\ \A i \in 1 .. Len(ds) - k + 1 : SubSeq(ds, k, Len(ds))[i] = ds[i + k - 1]
  OBVIOUS

LEMMA Appending ==
  ASSUME NEW S, NEW ds \in Seq(S), NEW d \in S
  PROVE  /\ Append(ds, d) \in Seq(S) /\ Len(Append(ds, d)) = Len(ds) + 1
         /\ \A i \in 1 .. Len(ds) : Append(ds, d)[i] = ds[i]
         /\ Append(ds, d)[Len(ds) + 1] = d
  OBVIOUS

LEMMA BeforeType ==
  ASSUME NEW ds, NEW p \in Plan, NEW i PROVE Before(ds, p, i) \in Plan
  BY WithoutType DEF Before

(* Taking back the decisions of a stack from k on is the same as looking   *)
(* at the plan as it was before decision k.                                *)
LEMMA RetractIsBefore ==
  ASSUME NEW ds \in Seq(Decision), NEW p \in Plan, Standing(ds, p),
         NEW k \in 1 .. Len(ds) + 1
  PROVE  Retract(p, SubSeq(ds, k, Len(ds))) = Before(ds, p, k)
<1> DEFINE top == SubSeq(ds, k, Len(ds))
           E == {top[i].flaw : i \in {j \in 1 .. Len(top) : top[j].executed}}
           A == {ds[j].flaw : j \in k .. Len(ds)}
<1>1. /\ Len(top) = Len(ds) - k + 1
      /\ \A i \in 1 .. Len(ds) - k + 1 : top[i] = ds[i + k - 1]
  BY Cutting
<1>2. ASSUME NEW f \in E PROVE f \in A
  <2>1. PICK i \in 1 .. Len(top) : f = top[i].flaw
    OBVIOUS
  <2>2. i + k - 1 \in k .. Len(ds) /\ f = ds[i + k - 1].flaw
    BY <1>1, <2>1
  <2>3. QED
    BY <2>2
<1>3. ASSUME NEW f \in A, f \notin E PROVE p[f] = Undecided
  <2>1. PICK j \in k .. Len(ds) : f = ds[j].flaw
    OBVIOUS
  <2>2. j - k + 1 \in 1 .. Len(top) /\ top[j - k + 1] = ds[j]
    BY <1>1
  <2>3. ~ds[j].executed
    BY <2>1, <2>2, <1>3
  <2>4. QED
    BY <2>1, <2>3 DEF Standing
<1>4. \A f \in Flaw : (IF f \in E THEN Undecided ELSE p[f]) = (IF f \in A THEN Undecided ELSE p[f])
  BY <1>2, <1>3
<1>5. QED
  BY <1>4 DEF Retract, Before, Without

LEMMA RetractAll ==
  ASSUME NEW ds \in Seq(Decision), NEW p \in Plan, Standing(ds, p)
  PROVE  Retract(p, ds) = Before(ds, p, 1)
<1>1. SubSeq(ds, 1, Len(ds)) = ds /\ 1 \in 1 .. Len(ds) + 1
  OBVIOUS
<1>2. QED
  BY <1>1, RetractIsBefore

(* Undoing the decisions from k on leaves the earlier ones in force, and   *)
(* the plan before each of them as it was.                                 *)
LEMMA CutStands ==
  ASSUME NEW ds \in Seq(Decision), NEW p \in Plan, Standing(ds, p),
         NEW k \in 1 .. Len(ds) + 1, k = Len(ds) + 1 => AllExecuted(ds)
  PROVE  /\ Standing(SubSeq(ds, 1, k - 1), Before(ds, p, k))
         /\ AllExecuted(SubSeq(ds, 1, k - 1))
         /\ \A i \in 1 .. k : Before(SubSeq(ds, 1, k - 1), Before(ds, p, k), i) = Before(ds, p, i)
<1> DEFINE low == SubSeq(ds, 1, k - 1)
           q == Before(ds, p, k)
<1>1. /\ low \in Seq(Decision) /\ Len(low) = k - 1
      /\ \A i \in 1 .. k - 1 : low[i] = ds[i]
  BY Cutting
<1>2. q = [f \in Flaw |-> IF f \in {ds[j].flaw : j \in k .. Len(ds)} THEN Undecided ELSE p[f]]
  BY DEF Before, Without
<1>3. ASSUME NEW i \in 1 .. k PROVE Before(low, q, i) = Before(ds, p, i)
  <2>1. {ds[j].flaw : j \in i .. Len(ds)} =
          {low[j].flaw : j \in i .. Len(low)} \cup {ds[j].flaw : j \in k .. Len(ds)}
    BY <1>1
  <2>2. QED
    BY <1>2, <2>1 DEF Before, Without
<1>4. ASSUME NEW i \in 1 .. Len(low)
      PROVE  low[i].executed /\ low[i].tried > 0 /\ q[low[i].flaw] = low[i].tried
  <2>1. low[i] = ds[i] /\ i \in 1 .. Len(ds) /\ ds[i] \in Decision
    BY <1>1
  <2>2. ds[i].executed
    BY <2>1, <1>1 DEF Standing, AllExecuted
  <2>3. ds[i].tried > 0 /\ p[ds[i].flaw] = ds[i].tried
    BY <2>1, <2>2 DEF Standing
  <2>4. ds[i].flaw \notin {ds[j].flaw : j \in k .. Len(ds)}
    <3>1. \A j \in k .. Len(ds) : j \in 1 .. Len(ds) /\ i # j
      BY <1>1
    <3>2. QED
      BY <2>1, <3>1 DEF Standing
  <2>5. ds[i].flaw \in Flaw
    BY <2>1 DEF Decision
  <2>6. q[ds[i].flaw] = p[ds[i].flaw]
    BY <1>2, <2>4, <2>5
  <2>7. QED
    BY <2>1, <2>2, <2>3, <2>6
<1>5. ASSUME NEW i \in 1 .. Len(low) PROVE low[i].flaw \in OpenFlaws(Before(low, q, i))
  <2>1. low[i] = ds[i] /\ i \in 1 .. Len(ds) /\ i \in 1 .. k
    BY <1>1
  <2>2. QED
    BY <1>3, <2>1 DEF Standing
<1>6. \A i, j \in 1 .. Len(low) : low[i].flaw = low[j].flaw => i = j
  BY <1>1 DEF Standing
<1> HIDE DEF low, q
<1>7. Standing(low, q) /\ AllExecuted(low)
  BY <1>4, <1>5, <1>6 DEF Standing, AllExecuted
<1>8. QED
  BY <1>3, <1>7 DEF low, q

(* A decision on an open flaw goes on top of the stack.                    *)
LEMMA AddStands ==
  ASSUME NEW ds \in Seq(Decision), NEW p \in Plan, Standing(ds, p), AllExecuted(ds),
         NEW e \in Decision, e.flaw \in OpenFlaws(p),
         NEW q \in Plan, \A f \in Flaw : f # e.flaw => q[f] = p[f],
         \/ e.executed /\ e.tried > 0 /\ q[e.flaw] = e.tried
         \/ ~e.executed /\ q[e.flaw] = Undecided
  PROVE  /\ Standing(Append(ds, e), q)
         /\ \A i \in 1 .. Len(ds) + 1 : Before(Append(ds, e), q, i) = Before(ds, p, i)
         /\ Before(ds, p, Len(ds) + 1) = p
<1> DEFINE top == Append(ds, e)
<1>1. /\ top \in Seq(Decision) /\ Len(top) = Len(ds) + 1
      /\ \A i \in 1 .. Len(ds) : top[i] = ds[i]
      /\ top[Len(ds) + 1] = e
  BY Appending
<1>2. p \in [Flaw -> 0 .. MaxChoices] /\ e.flaw \in Flaw /\ p[e.flaw] = Undecided
  BY OpenFlawsType DEF Plan, OpenFlaws, Decided, Decision
<1>3. ASSUME NEW i \in 1 .. Len(ds) + 1 PROVE Before(top, q, i) = Before(ds, p, i)
  <2>1. {top[j].flaw : j \in i .. Len(top)} = {ds[j].flaw : j \in i .. Len(ds)} \cup {e.flaw}
    <3>1. i .. Len(top) = i .. Len(ds) \cup {Len(ds) + 1}
      BY <1>1
    <3>2. \A j \in i .. Len(ds) : top[j] = ds[j]
      BY <1>1
    <3>3. QED
      BY <3>1, <3>2, <1>1
  <2> HIDE DEF top
  <2>2. QED
    BY <1>2, <2>1 DEF Before, Without
<1>4. Before(ds, p, Len(ds) + 1) = p
  <2>1. Len(ds) + 1 .. Len(ds) = {}
    OBVIOUS
  <2>2. {ds[j].flaw : j \in Len(ds) + 1 .. Len(ds)} = {}
    BY <2>1
  <2>3. QED
    BY <1>2, <2>2 DEF Before, Without
<1>5. ASSUME NEW i \in 1 .. Len(ds)
      PROVE  /\ ds[i].flaw \in OpenFlaws(Before(ds, p, i)) /\ ds[i].flaw # e.flaw
             /\ ds[i].executed /\ ds[i].tried > 0 /\ q[ds[i].flaw] = ds[i].tried
  <2>0. ds[i] \in Decision
    OBVIOUS
  <2>1. ds[i].executed /\ ds[i].flaw \in Flaw
    BY <2>0 DEF AllExecuted, Decision
  <2>2. ds[i].flaw \in OpenFlaws(Before(ds, p, i)) /\ ds[i].tried > 0 /\ p[ds[i].flaw] = ds[i].tried
    BY <2>1 DEF Standing
  <2>3. QED
    BY <1>2, <2>1, <2>2 DEF Undecided
<1>7. ASSUME NEW i \in 1 .. Len(top)
      PROVE  /\ top[i].flaw \in OpenFlaws(Before(top, q, i))
             /\ \/ top[i].executed /\ top[i].tried > 0 /\ q[top[i].flaw] = top[i].tried
                \/ ~top[i].executed /\ i = Len(top) /\ q[top[i].flaw] = Undecided
  <2>1. CASE i \in 1 .. Len(ds)
    BY <2>1, <1>1, <1>3, <1>5
  <2>2. CASE i = Len(ds) + 1
    BY <2>2, <1>1, <1>3, <1>4
  <2>3. QED
    BY <2>1, <2>2, <1>1
<1>8. ASSUME NEW i \in 1 .. Len(top), NEW j \in 1 .. Len(top), top[i].flaw = top[j].flaw
      PROVE  i = j
  BY <1>8, <1>1, <1>5 DEF Standing
<1> HIDE DEF top
<1>9. Standing(top, q)
  BY <1>7, <1>8 DEF Standing
<1>10. QED
  BY <1>3, <1>4, <1>9 DEF top

(* What reset and backjump undo, the active decision included, is a top of *)
(* the stack.                                                              *)
LEMMA DroppedIsBefore ==
  ASSUME TypeOK, StackInForce, NEW n \in 0 .. Depth
  PROVE  Retract(plan, Dropped(n)) = Before(stack, plan, Depth - n + 1)
<1>1. stack \in Seq(Decision) /\ plan \in Plan /\ Depth = Len(stack) /\ Depth \in Nat
  BY DEF TypeOK, Depth
<1>2. Depth - n + 1 \in 1 .. Len(stack) + 1
  BY <1>1
<1> DEFINE top == SubSeq(stack, Depth - n + 1, Depth)
<1>3. Retract(plan, top) = Before(stack, plan, Depth - n + 1)
  BY <1>1, <1>2, RetractIsBefore DEF StackInForce
<1>4. CASE active = NoDecision
  BY <1>3, <1>4 DEF Dropped
<1>5. CASE active # NoDecision
  <2>1. active \in Decision /\ ~active.executed
    BY <1>5 DEF TypeOK, StackInForce
  <2>2. top \in Seq(Decision)
    BY <1>1, <1>2, Cutting
  <2> HIDE DEF top
  <2>3. /\ Len(Append(top, active)) = Len(top) + 1
        /\ \A i \in 1 .. Len(top) : Append(top, active)[i] = top[i]
        /\ Append(top, active)[Len(top) + 1] = active
    BY <2>1, <2>2, Appending
  <2>4. {j \in 1 .. Len(Append(top, active)) : Append(top, active)[j].executed}
          = {j \in 1 .. Len(top) : top[j].executed}
    BY <2>1, <2>2, <2>3
  <2>5. {Append(top, active)[i].flaw : i \in {j \in 1 .. Len(top) : top[j].executed}}
          = {top[i].flaw : i \in {j \in 1 .. Len(top) : top[j].executed}}
    BY <2>3
  <2>6. Retract(plan, Append(top, active)) = Retract(plan, top)
    BY <2>4, <2>5 DEF Retract
  <2>7. QED
    BY <1>3, <1>5, <2>6 DEF Dropped, top
<1>6. QED
  BY <1>4, <1>5

(* The outcome of backtracking, in terms of the plan before a decision.    *)
LEMMA BacktrackOutcome ==
  ASSUME NEW ds \in Seq(Decision), NEW p \in Plan, NEW before, Standing(ds, p),
         Backtrack(ds, p, before)
  PROVE  \/ /\ Resumable(ds) = {}
            /\ active' = NoDecision /\ stack' = << >> /\ exhausted' = TRUE
            /\ plan' = Before(ds, p, 1) /\ Retract(p, ds) = plan'
            /\ level' \in LevelAfter(ds, plan', before)
         \/ \E k \in Resumable(ds) :
              /\ \A j \in Resumable(ds) : j <= k
              /\ active' = Undone(ds[k]) /\ stack' = SubSeq(ds, 1, k - 1) /\ exhausted' = FALSE
              /\ plan' = Before(ds, p, k) /\ Retract(p, SubSeq(ds, k, Len(ds))) = plan'
              /\ level' \in LevelAfter(SubSeq(ds, k, Len(ds)), plan', before)
<1>1. CASE Resumable(ds) = {}
  <2>1. ~ \E k \in Resumable(ds) : TRUE
    BY <1>1
  <2>2. QED
    BY <1>1, <2>1, RetractAll DEF Backtrack
<1>2. ASSUME NEW k \in Resumable(ds),
             \A j \in Resumable(ds) : j <= k,
             active' = Undone(ds[k]), stack' = SubSeq(ds, 1, k - 1),
             plan' = Retract(p, SubSeq(ds, k, Len(ds))),
             level' \in LevelAfter(SubSeq(ds, k, Len(ds)), plan', before),
             exhausted' = FALSE
      PROVE  \E l \in Resumable(ds) :
               /\ \A j \in Resumable(ds) : j <= l
               /\ active' = Undone(ds[l]) /\ stack' = SubSeq(ds, 1, l - 1) /\ exhausted' = FALSE
               /\ plan' = Before(ds, p, l) /\ Retract(p, SubSeq(ds, l, Len(ds))) = plan'
               /\ level' \in LevelAfter(SubSeq(ds, l, Len(ds)), plan', before)
  <2>1. k \in 1 .. Len(ds) + 1
    BY DEF Resumable
  <2>2. plan' = Before(ds, p, k)
    BY <1>2, <2>1, RetractIsBefore
  <2>3. QED
    BY <1>2, <2>2
<1>3. QED
  BY <1>1, <1>2 DEF Backtrack

(* Backtracking leaves the plan as it was before some decision of ds, with *)
(* the decisions below it in force and the resumed one open.               *)
LEMMA BacktrackStands ==
  ASSUME NEW ds \in Seq(Decision), NEW p \in Plan, NEW before, Standing(ds, p),
         Backtrack(ds, p, before)
  PROVE  /\ StackInForce'
         /\ Before(stack', plan', 1) = Before(ds, p, 1)
         /\ Len(stack') <= Len(ds) /\ (ds # << >> => Len(stack') < Len(ds))
         /\ \E k \in Nat : plan' = Before(ds, p, k) /\ (ds # << >> => k \in 1 .. Len(ds))
<1>1. CASE /\ active' = NoDecision /\ stack' = << >>
           /\ plan' = Before(ds, p, 1)
  <2>1. Len(stack') = 0 /\ 1 .. Len(stack') = {}
    BY <1>1
  <2>2. Standing(stack', plan') /\ AllExecuted(stack')
    BY <2>1 DEF Standing, AllExecuted
  <2>3. Before(stack', plan', 1) = Before(ds, p, 1)
    <3>1. {stack'[j].flaw : j \in 1 .. Len(stack')} = {}
      BY <2>1
    <3>2. QED
      BY <1>1, <3>1 DEF Before, Without
  <2>4. ds # << >> => Len(ds) > 0
    OBVIOUS
  <2>5. QED
    BY <1>1, <2>1, <2>2, <2>3, <2>4 DEF StackInForce
<1>2. ASSUME NEW k \in 1 .. Len(ds),
             active' = Undone(ds[k]), stack' = SubSeq(ds, 1, k - 1),
             plan' = Before(ds, p, k)
      PROVE  /\ StackInForce'
             /\ Before(stack', plan', 1) = Before(ds, p, 1)
             /\ Len(stack') <= Len(ds) /\ (ds # << >> => Len(stack') < Len(ds))
             /\ \E l \in Nat : plan' = Before(ds, p, l) /\ (ds # << >> => l \in 1 .. Len(ds))
  <2>1. k \in 1 .. Len(ds) + 1 /\ k # Len(ds) + 1 /\ 1 \in 1 .. k /\ ds[k] \in Decision
    OBVIOUS
  <2>2. /\ Standing(stack', plan') /\ AllExecuted(stack')
        /\ Before(stack', plan', 1) = Before(ds, p, 1)
    BY <1>2, <2>1, CutStands
  <2>3. ~active'.executed /\ active'.flaw \in OpenFlaws(plan')
    BY <1>2, <2>1, DecisionOps DEF Standing
  <2>4. Len(stack') = k - 1
    BY <1>2, <2>1, Cutting
  <2>5. QED
    BY <1>2, <2>2, <2>3, <2>4 DEF StackInForce
<1>3. Resumable(ds) \subseteq 1 .. Len(ds)
  BY DEF Resumable
<1>4. QED
  BY <1>1, <1>2, <1>3, BacktrackOutcome

(* Fewer decisions violate no more than more decisions do.                 *)
LEMMA BrokenMonotone ==
  ASSUME NEW p \in Plan, NEW F
  PROVE  Broken(Without(p, F)) \subseteq Broken(p)
<1> SUFFICES ASSUME NEW g \in Nogoods, \A c \in g : Without(p, F)[c[1]] = c[2],
                    NEW c \in g
             PROVE  p[c[1]] = c[2]
  BY DEF Broken
<1>1. c \in Flaw \X (Nat \ {0})
  BY ProblemAssumption
<1>2. c[1] \in Flaw /\ c[2] # 0
  BY <1>1
<1>3. QED
  BY <1>2 DEF Without, Undecided

LEMMA ViolationMonotone ==
  ASSUME NEW p, NEW q, Broken(q) \subseteq Broken(p), NEW k \in Nat, NEW l \in Nat, l <= k
  PROVE  Violation(q, l) <= Violation(p, k)
<1>1. IsFiniteSet(Broken(p)) /\ IsFiniteSet(Broken(q))
  BY FS_Subset, ProblemAssumption DEF Broken
<1>2. /\ Cardinality(Broken(q)) \in Nat /\ Cardinality(Broken(p)) \in Nat
      /\ Cardinality(Broken(q)) <= Cardinality(Broken(p))
  BY <1>1, FS_Subset, FS_CardinalityType
<1> DEFINE m == Cardinality(Broken(q)) + l
           n == Cardinality(Broken(p)) + k
<1>3. m \in Nat /\ n \in Nat /\ m <= n
  BY <1>2
<1>4. Violation(q, l) = (IF Tolerant \/ m = 0 THEN m ELSE 1)
  BY DEF Violation
<1>5. Violation(p, k) = (IF Tolerant \/ n = 0 THEN n ELSE 1)
  BY DEF Violation
<1> HIDE DEF m, n
<1>6. CASE Tolerant
  BY <1>3, <1>4, <1>5, <1>6
<1>7. CASE ~Tolerant
  BY <1>3, <1>4, <1>5, <1>7
<1>8. QED
  BY <1>6, <1>7

LEMMA NoViolation ==
  ASSUME NEW p
  PROVE  Violation(p, 0) = 0 <=> Broken(p) = {}
<1>1. IsFiniteSet(Broken(p))
  BY FS_Subset, ProblemAssumption DEF Broken
<1>2. Cardinality(Broken(p)) \in Nat /\ (Cardinality(Broken(p)) = 0 <=> Broken(p) = {})
  BY <1>1, FS_EmptySet, FS_CardinalityType
<1>3. QED
  BY <1>2 DEF Violation

(* The violation that remains after decisions are undone is no more than   *)
(* propagation would find.                                                 *)
LEMMA LevelAfterSound ==
  ASSUME NEW ds \in Seq(Decision), NEW p \in Plan, NEW before \in Nat, foreign \in Nat,
         NEW l \in LevelAfter(ds, Retract(p, ds), before),
         before <= Violation(p, foreign) \/ (AllExecuted(ds) /\ ds # << >>)
  PROVE  l <= Violation(Retract(p, ds), foreign)
<1>1. CASE \E i \in 1 .. Len(ds) : ds[i].executed
  BY <1>1, ViolationType DEF LevelAfter
<1>2. CASE ~ \E i \in 1 .. Len(ds) : ds[i].executed
  <2>1. l = before
    BY <1>2 DEF LevelAfter
  <2>2. {j \in 1 .. Len(ds) : ds[j].executed} = {}
    BY <1>2
  <2>3. {ds[i].flaw : i \in {j \in 1 .. Len(ds) : ds[j].executed}} = {}
    BY <2>2
  <2>4. Retract(p, ds) = p
    BY <2>3 DEF Retract, Without, Plan
  <2>5. ~ (AllExecuted(ds) /\ ds # << >>)
    <3>1. ds # << >> => 1 \in 1 .. Len(ds)
      OBVIOUS
    <3>2. QED
      BY <1>2, <3>1 DEF AllExecuted
  <2>6. QED
    BY <2>1, <2>4, <2>5
<1>3. QED
  BY <1>1, <1>2

LEMMA BacktrackLevel ==
  ASSUME NEW ds \in Seq(Decision), NEW p \in Plan, NEW before \in Nat, foreign \in Nat,
         Standing(ds, p), Backtrack(ds, p, before),
         before <= Violation(p, foreign) \/ (AllExecuted(ds) /\ ds # << >>)
  PROVE  level' <= Violation(plan', foreign)
<1>1. ASSUME level' \in LevelAfter(ds, plan', before), Retract(p, ds) = plan'
      PROVE  level' <= Violation(plan', foreign)
  BY <1>1, LevelAfterSound
<1>2. ASSUME NEW k \in Resumable(ds),
             level' \in LevelAfter(SubSeq(ds, k, Len(ds)), plan', before),
             Retract(p, SubSeq(ds, k, Len(ds))) = plan'
      PROVE  level' <= Violation(plan', foreign)
  <2> DEFINE popped == SubSeq(ds, k, Len(ds))
  <2>1. k \in 1 .. Len(ds) /\ k \in 1 .. Len(ds) + 1
    BY DEF Resumable
  <2>2. /\ popped \in Seq(Decision) /\ Len(popped) = Len(ds) - k + 1
        /\ \A i \in 1 .. Len(ds) - k + 1 : popped[i] = ds[i + k - 1]
    BY <2>1, Cutting
  <2>3. AllExecuted(ds) => AllExecuted(popped)
    BY <2>1, <2>2 DEF AllExecuted
  <2>0. Len(popped) # 0
    BY <2>1, <2>2
  <2> HIDE DEF popped
  <2>4. popped # << >>
    BY <2>0
  <2>5. level' \in LevelAfter(popped, Retract(p, popped), before) /\ plan' = Retract(p, popped)
    BY <1>2 DEF popped
  <2>6. QED
    BY <2>2, <2>3, <2>4, <2>5, LevelAfterSound
<1>3. QED
  BY <1>1, <1>2, BacktrackOutcome
-----------------------------------------------------------------------------
LEMMA StateTypes ==
  ASSUME TypeOK
  PROVE  /\ stack \in Seq(Decision) /\ plan \in Plan /\ foreign \in Nat /\ level \in Nat
         /\ posted \in Nat /\ Depth = Len(stack) /\ Depth \in Nat
         /\ active # NoDecision => active \in Decision
         /\ \A p \in Plan : Violation(p, foreign) \in Nat
  BY SolverAssumption, ViolationType DEF TypeOK, Depth

(* A step works on an open flaw.                                           *)
LEMMA CandidateOpen ==
  ASSUME TypeOK, StackInForce, NEW d \in Candidates
  PROVE  /\ d \in Decision /\ d # NoDecision
         /\ ~d.executed /\ d.flaw \in OpenFlaws(plan) /\ plan[d.flaw] = Undecided
         /\ IF active = NoDecision THEN d.tried = 0 ELSE d = active
<1>1. d \in Decision /\ NoDecision \notin Decision
  BY CandidatesType, SolverAssumption DEF Decision
<1>2. CASE active # NoDecision
  BY <1>1, <1>2 DEF Candidates, StackInForce, OpenFlaws, Decided, Undecided, Decision
<1>3. CASE active = NoDecision
  <2>1. PICK f \in OpenFlaws(plan) : d = NewDecision(f)
    BY <1>3 DEF Candidates
  <2>2. d.flaw = f /\ d.tried = 0 /\ d.executed = FALSE
    BY <2>1 DEF NewDecision
  <2>3. f \in Flaw /\ f \notin Decided(plan)
    BY OpenFlawsType, StateTypes DEF OpenFlaws
  <2>4. QED
    BY <1>1, <1>3, <2>2, <2>3 DEF Decided
<1>4. QED
  BY <1>2, <1>3

(* The stacks that doStep, reset and backjump leave or backtrack from.     *)
LEMMA ExecutedStands ==
  ASSUME TypeOK, StackInForce, NEW d \in Candidates, CanTry(d)
  PROVE  /\ Append(stack, Executed(d)) \in Seq(Decision) /\ PlanWith(d) \in Plan
         /\ Standing(Append(stack, Executed(d)), PlanWith(d))
         /\ AllExecuted(Append(stack, Executed(d)))
         /\ \A i \in 1 .. Depth + 1 :
              Before(Append(stack, Executed(d)), PlanWith(d), i) = Before(stack, plan, i)
         /\ Before(stack, plan, Depth + 1) = plan
<1> DEFINE e == Executed(d)
<1>1. /\ d \in Decision /\ e \in Decision /\ e.flaw = d.flaw
      /\ e.tried = d.tried + 1 /\ e.executed /\ d.tried \in Nat
      /\ e.flaw \in OpenFlaws(plan)
  BY CandidateOpen, DecisionOps DEF Decision
<1>2. PlanWith(d) \in Plan
  BY <1>1, PlanWithType
<1>3. /\ e.tried > 0 /\ PlanWith(d)[e.flaw] = e.tried
      /\ \A f \in Flaw : f # e.flaw => PlanWith(d)[f] = plan[f]
  BY <1>1, StateTypes DEF PlanWith, Plan, Decision
<1> HIDE DEF e
<1>4. /\ Standing(Append(stack, e), PlanWith(d))
      /\ \A i \in 1 .. Depth + 1 : Before(Append(stack, e), PlanWith(d), i) = Before(stack, plan, i)
      /\ Before(stack, plan, Depth + 1) = plan
  BY <1>1, <1>2, <1>3, StateTypes, AddStands DEF StackInForce
<1>6. /\ Append(stack, e) \in Seq(Decision) /\ Len(Append(stack, e)) = Depth + 1
      /\ \A i \in 1 .. Depth : Append(stack, e)[i] = stack[i]
      /\ Append(stack, e)[Depth + 1] = e
  BY <1>1, StateTypes, Appending
<1>7. AllExecuted(Append(stack, e))
  BY <1>1, <1>6, StateTypes DEF AllExecuted, StackInForce
<1>8. QED
  BY <1>2, <1>4, <1>6, <1>7 DEF e

LEMMA UntriedStands ==
  ASSUME TypeOK, StackInForce, NEW d \in Candidates
  PROVE  /\ Append(stack, d) \in Seq(Decision)
         /\ Standing(Append(stack, d), plan)
         /\ \A i \in 1 .. Depth + 1 : Before(Append(stack, d), plan, i) = Before(stack, plan, i)
         /\ Before(stack, plan, Depth + 1) = plan
<1>1. /\ d \in Decision /\ ~d.executed /\ d.flaw \in OpenFlaws(plan)
      /\ plan[d.flaw] = Undecided
  BY CandidateOpen
<1>2. QED
  BY <1>1, StateTypes, Appending, AddStands DEF StackInForce

LEMMA DroppedStands ==
  ASSUME TypeOK, StackInForce, NEW n \in 0 .. Depth
  PROVE  /\ SubSeq(stack, 1, Depth - n) \in Seq(Decision)
         /\ Len(SubSeq(stack, 1, Depth - n)) = Depth - n
         /\ \A i \in 1 .. Depth - n : SubSeq(stack, 1, Depth - n)[i] = stack[i]
         /\ Retract(plan, Dropped(n)) \in Plan
         /\ Retract(plan, Dropped(n)) = Before(stack, plan, Depth - n + 1)
         /\ Standing(SubSeq(stack, 1, Depth - n), Retract(plan, Dropped(n)))
         /\ AllExecuted(SubSeq(stack, 1, Depth - n))
         /\ \A i \in 1 .. Depth - n + 1 :
              Before(SubSeq(stack, 1, Depth - n), Retract(plan, Dropped(n)), i) = Before(stack, plan, i)
<1>1. Depth - n + 1 \in 1 .. Len(stack) + 1 /\ Depth - n = (Depth - n + 1) - 1
  BY StateTypes
<1>2. Retract(plan, Dropped(n)) = Before(stack, plan, Depth - n + 1)
  BY DroppedIsBefore
<1> DEFINE k == Depth - n + 1
<1>3. k \in 1 .. Len(stack) + 1 /\ Depth - n = k - 1
  BY <1>1
<1>4. Retract(plan, Dropped(n)) \in Plan /\ Retract(plan, Dropped(n)) = Before(stack, plan, k)
  BY <1>2, BeforeType, StateTypes
<1> HIDE DEF k
<1>5. /\ SubSeq(stack, 1, k - 1) \in Seq(Decision)
      /\ Len(SubSeq(stack, 1, k - 1)) = k - 1
      /\ \A i \in 1 .. k - 1 : SubSeq(stack, 1, k - 1)[i] = stack[i]
  BY <1>3, Cutting, StateTypes
<1>6. /\ Standing(SubSeq(stack, 1, k - 1), Before(stack, plan, k))
      /\ AllExecuted(SubSeq(stack, 1, k - 1))
      /\ \A i \in 1 .. k : Before(SubSeq(stack, 1, k - 1), Before(stack, plan, k), i) = Before(stack, plan, i)
  BY <1>3, CutStands, StateTypes DEF StackInForce
<1>7. QED
  BY <1>3, <1>4, <1>5, <1>6 DEF k

(* What backjump(n) resets before it backtracks.                           *)
JumpReset(n) ==
  LET m == IF active = NoDecision THEN n ELSE n - 1
  IN  IF m = 0 THEN 0 ELSE m - 1

LEMMA BackjumpOutcome ==
  ASSUME TypeOK, NEW n \in 0 .. Depth + 1, Backjump(n)
  PROVE  /\ JumpReset(n) \in 0 .. Depth
         /\ JumpReset(n) > 0 => JumpReset(n) < Depth
         /\ Backtrack(SubSeq(stack, 1, Depth - JumpReset(n)),
                      Retract(plan, Dropped(JumpReset(n))), level)
         /\ complete' = (complete /\ JumpReset(n) = 0 /\ noFlawsFound)
<1> DEFINE m == IF active = NoDecision THEN n ELSE n - 1
<1>1. m \in 0 .. Depth /\ JumpReset(n) = IF m = 0 THEN 0 ELSE m - 1
  BY StateTypes DEF Backjump, JumpReset
<1>2. /\ Backtrack(SubSeq(stack, 1, Depth - JumpReset(n)),
                   Retract(plan, Dropped(JumpReset(n))), level)
      /\ complete' = (complete /\ JumpReset(n) = 0 /\ noFlawsFound)
  BY DEF Backjump, JumpReset
<1> HIDE DEF m
<1>3. QED
  BY <1>1, <1>2, StateTypes
-----------------------------------------------------------------------------
(* The steps that move neither the decisions nor the plan.                 *)
Quiet ==
  \/ StepInconsistent \/ StepCompleted \/ SolveReturns
  \/ \E s \in StepLimits, d \in DepthLimits : CallSolve(s, d)
  \/ \E s \in StepLimits : SetMaxSteps(s)
  \/ \E d \in DepthLimits : SetMaxDepth(d)
  \/ PostConflict \/ RetractConflict \/ Propagate
  \/ UNCHANGED vars

LEMMA QuietMovesNothing == Quiet => UNCHANGED <<active, stack, plan>>
  BY DEF Quiet, StepInconsistent, StepCompleted, SolveReturns, CallSolve, SetMaxSteps,
         SetMaxDepth, PostConflict, RetractConflict, Propagate, search, db, vars

LEMMA NextCases ==
  [Next]_vars => \/ Quiet
                 \/ StepTimedOut \/ StepSucceeded \/ StepFailed \/ StepDeadEnd
                 \/ \E n \in 0 .. Depth : Reset(n)
                 \/ \E n \in 0 .. Depth + 1 : Backjump(n)
                 \/ Clear
  BY DEF Next, Step, Client, Quiet

LEMMA StackStep ==
  ASSUME TypeOK, StackInForce, [Next]_vars PROVE StackInForce'
<1> USE DEF search, db
<1>1. CASE Quiet
  BY <1>1, QuietMovesNothing DEF StackInForce
<1>2. CASE StepTimedOut
  <2>1. PICK d \in Candidates : active' = d
    BY <1>2 DEF StepTimedOut
  <2>2. ~d.executed /\ d.flaw \in OpenFlaws(plan)
    BY CandidateOpen
  <2>3. QED
    BY <1>2, <2>1, <2>2 DEF StepTimedOut, StackInForce
<1>3. CASE StepSucceeded
  <2>1. PICK d \in Candidates : /\ CanTry(d) /\ plan' = PlanWith(d)
                                /\ stack' = Append(stack, Executed(d))
    BY <1>3 DEF StepSucceeded
  <2>2. active' = NoDecision
    BY <1>3 DEF StepSucceeded
  <2>3. QED
    BY <2>1, <2>2, ExecutedStands DEF StackInForce
<1>4. CASE StepFailed
  <2>1. PICK d \in Candidates :
          CanTry(d) /\ Backtrack(Append(stack, Executed(d)), PlanWith(d), Violation(PlanWith(d), foreign))
    BY <1>4 DEF StepFailed
  <2>2. QED
    BY <2>1, ExecutedStands, BacktrackStands
<1>5. CASE StepDeadEnd
  <2>1. PICK d \in Candidates : Backtrack(Append(stack, d), plan, Violation(plan, foreign))
    BY <1>5 DEF StepDeadEnd
  <2>2. QED
    BY <2>1, UntriedStands, StateTypes, BacktrackStands
<1>6. ASSUME NEW n \in 0 .. Depth, Reset(n) PROVE StackInForce'
  <2>1. /\ active' = NoDecision /\ stack' = SubSeq(stack, 1, Depth - n)
        /\ plan' = Retract(plan, Dropped(n))
    BY <1>6 DEF Reset
  <2>2. QED
    BY <2>1, DroppedStands DEF StackInForce
<1>7. ASSUME NEW n \in 0 .. Depth + 1, Backjump(n) PROVE StackInForce'
  BY <1>7, BackjumpOutcome, DroppedStands, BacktrackStands
<1>8. CASE Clear
  <2>1. active' = NoDecision /\ stack' = << >> /\ Len(stack') = 0 /\ 1 .. Len(stack') = {}
    BY <1>8 DEF Clear
  <2>2. QED
    BY <2>1 DEF StackInForce, Standing, AllExecuted
<1>9. QED
  BY <1>1, <1>2, <1>3, <1>4, <1>5, <1>6, <1>7, <1>8, NextCases

(* Every decision on the stack is in force in the plan, on a flaw that was *)
(* open when it was taken, and an active decision is on an open flaw:      *)
(* however far backtrack, reset and backjump go, none is left behind on a  *)
(* flaw that vanished with the decision that created it.                   *)
LEMMA StackAlways == Spec => [](TypeOK /\ StackInForce)
<1>1. Init => StackInForce
  <2>1. Len(<< >>) = 0 /\ 1 .. 0 = {}
    OBVIOUS
  <2>2. QED
    BY <2>1 DEF Init, StackInForce, Standing, AllExecuted
<1>2. TypeOK /\ StackInForce /\ [Next]_vars => StackInForce'
  BY StackStep
<1>3. QED
  BY <1>1, <1>2, TypeCorrect, PTL DEF Spec

THEOREM DecisionsStayInForce == Spec => []DecisionsInForce
<1>1. TypeOK /\ StackInForce => DecisionsInForce
  <2> SUFFICES ASSUME TypeOK, StackInForce PROVE DecisionsInForce
    OBVIOUS
  <2>1. ASSUME NEW i \in 1 .. Depth
        PROVE  /\ stack[i].executed /\ plan[stack[i].flaw] = stack[i].tried
               /\ stack[i].flaw \in OpenFlaws(PlanBefore(i))
    <3>1. i \in 1 .. Len(stack)
      BY DEF Depth
    <3>2. PlanBefore(i) = Before(stack, plan, i)
      BY DEF PlanBefore, Before, Depth
    <3>3. QED
      BY <3>1, <3>2 DEF StackInForce, Standing, AllExecuted
  <2>2. QED
    BY <2>1 DEF StackInForce, DecisionsInForce
<1>2. QED
  BY <1>1, StackAlways, PTL
-----------------------------------------------------------------------------
(* The violation level.                                                    *)
LEMMA BeforeBreaksLess ==
  ASSUME NEW ds, NEW p \in Plan, NEW i
  PROVE  Broken(Before(ds, p, i)) \subseteq Broken(p)
  BY BrokenMonotone DEF Before

(* No step, whether it succeeds, fails or backtracks, ends in a plan that  *)
(* breaks more than the one it started from.                               *)
LEMMA BacktrackBreaksLess ==
  ASSUME TypeOK, StackInForce, StepFailed \/ StepDeadEnd
  PROVE  Broken(plan') \subseteq Broken(plan) /\ level' <= Violation(plan', foreign)
<1>1. CASE StepFailed
  <2>1. PICK d \in Candidates :
          CanTry(d) /\ Backtrack(Append(stack, Executed(d)), PlanWith(d), Violation(PlanWith(d), foreign))
    BY <1>1 DEF StepFailed
  <2> DEFINE ds == Append(stack, Executed(d))
  <2>2. /\ ds \in Seq(Decision) /\ PlanWith(d) \in Plan /\ Standing(ds, PlanWith(d))
        /\ \A i \in 1 .. Depth + 1 : Before(ds, PlanWith(d), i) = Before(stack, plan, i)
    BY <2>1, ExecutedStands
  <2>3. Executed(d) \in Decision
    BY CandidateOpen, DecisionOps
  <2>4. Len(ds) = Depth + 1
    BY <2>3, StateTypes, Appending
  <2> HIDE DEF ds
  <2>5. ds # << >> /\ Depth \in Nat
    BY <2>4, StateTypes
  <2>6. PICK k \in 1 .. Len(ds) : plan' = Before(ds, PlanWith(d), k)
    BY <2>1, <2>2, <2>5, BacktrackStands DEF ds
  <2>7. plan' = Before(stack, plan, k)
    BY <2>2, <2>6, <2>4, <2>5
  <2>8. Violation(PlanWith(d), foreign) \in Nat /\ foreign \in Nat
    BY <2>2, StateTypes
  <2>9. level' <= Violation(plan', foreign)
    <3>1. Violation(PlanWith(d), foreign) <= Violation(PlanWith(d), foreign)
      BY <2>8
    <3>2. Backtrack(ds, PlanWith(d), Violation(PlanWith(d), foreign))
      BY <2>1 DEF ds
    <3>3. QED
      BY <2>2, <2>8, <3>1, <3>2, BacktrackLevel
  <2>10. QED
    BY <2>7, <2>9, BeforeBreaksLess, StateTypes
<1>2. CASE StepDeadEnd
  <2>1. PICK d \in Candidates : Backtrack(Append(stack, d), plan, Violation(plan, foreign))
    BY <1>2 DEF StepDeadEnd
  <2> DEFINE ds == Append(stack, d)
  <2>2. ds \in Seq(Decision) /\ Standing(ds, plan)
    BY UntriedStands
  <2> HIDE DEF ds
  <2>3. \E k \in Nat : plan' = Before(ds, plan, k)
    BY <2>1, <2>2, StateTypes, BacktrackStands DEF ds
  <2>4. level' <= Violation(plan', foreign)
    <3>1. /\ Violation(plan, foreign) \in Nat /\ foreign \in Nat /\ plan \in Plan
          /\ Violation(plan, foreign) <= Violation(plan, foreign)
      BY StateTypes
    <3>2. Backtrack(ds, plan, Violation(plan, foreign))
      BY <2>1 DEF ds
    <3>3. QED
      BY <2>2, <3>1, <3>2, BacktrackLevel
  <2>5. QED
    BY <2>3, <2>4, BeforeBreaksLess, StateTypes
<1>3. QED
  BY <1>1, <1>2

LEMMA SuccessBreaksLess ==
  ASSUME TypeOK, StackInForce, LevelSound, StepSucceeded
  PROVE  /\ plan' \in Plan /\ foreign' = foreign
         /\ level' <= Violation(plan', foreign)
         /\ Violation(plan', foreign) <= Violation(plan, foreign)
<1>1. PICK d \in Candidates : /\ CanTry(d) /\ plan' = PlanWith(d)
                              /\ ConflictLevelOk(PlanWith(d))
  BY DEF StepSucceeded
<1>2. plan' \in Plan /\ foreign' = foreign /\ level' = Violation(plan', foreign)
  BY <1>1, ExecutedStands DEF StepSucceeded
<1>3. Violation(plan', foreign) <= level /\ level <= Violation(plan, foreign)
  BY <1>1 DEF ConflictLevelOk, LevelSound
<1>4. /\ Violation(plan', foreign) \in Nat /\ Violation(plan, foreign) \in Nat /\ level \in Nat
  BY <1>2, StateTypes
<1>5. QED
  BY <1>2, <1>3, <1>4

(* reset() and backjump() too only ever lower the violation.               *)
LEMMA JumpBreaksLess ==
  ASSUME TypeOK, StackInForce, LevelSound,
         \/ \E n \in 0 .. Depth : Reset(n)
         \/ \E n \in 0 .. Depth + 1 : Backjump(n)
  PROVE  Broken(plan') \subseteq Broken(plan) /\ level' <= Violation(plan', foreign)
<1>1. ASSUME NEW n \in 0 .. Depth, Reset(n)
      PROVE  Broken(plan') \subseteq Broken(plan) /\ level' <= Violation(plan', foreign)
  <2>1. /\ plan' = Retract(plan, Dropped(n))
        /\ level' \in LevelAfter(Dropped(n), Retract(plan, Dropped(n)), level)
    BY <1>1 DEF Reset
  <2>2. Dropped(n) \in Seq(Decision)
    BY DroppedType
  <2>3. level <= Violation(plan, foreign)
    BY DEF LevelSound
  <2>4. level' <= Violation(plan', foreign)
    BY <2>1, <2>2, <2>3, StateTypes, LevelAfterSound
  <2>5. QED
    BY <2>1, <2>4, DroppedIsBefore, BeforeBreaksLess, StateTypes
<1>2. ASSUME NEW n \in 0 .. Depth + 1, Backjump(n)
      PROVE  Broken(plan') \subseteq Broken(plan) /\ level' <= Violation(plan', foreign)
  <2> DEFINE r == JumpReset(n)
             ds == SubSeq(stack, 1, Depth - r)
             p == Retract(plan, Dropped(r))
  <2>1. r \in 0 .. Depth /\ (r > 0 => r < Depth) /\ Backtrack(ds, p, level)
    BY <1>2, BackjumpOutcome
  <2> HIDE DEF r
  <2>2. /\ ds \in Seq(Decision) /\ Len(ds) = Depth - r /\ AllExecuted(ds)
        /\ p \in Plan /\ p = Before(stack, plan, Depth - r + 1) /\ Standing(ds, p)
    BY <2>1, DroppedStands
  <2>3. r = 0 => p = plan
    <3>1. r = 0 => Depth - r + 1 .. Len(stack) = {}
      BY StateTypes
    <3>2. r = 0 => {stack[j].flaw : j \in Depth - r + 1 .. Len(stack)} = {}
      BY <3>1
    <3>3. r = 0 => Before(stack, plan, Depth - r + 1) = plan
      BY <3>2, StateTypes DEF Before, Without, Plan
    <3>4. QED
      BY <2>2, <3>3
  <2> HIDE DEF ds, p
  <2>4. level <= Violation(p, foreign) \/ (AllExecuted(ds) /\ ds # << >>)
    <3>1. CASE r = 0
      BY <3>1, <2>3 DEF LevelSound
    <3>2. CASE r > 0
      <4>1. Len(ds) > 0
        BY <3>2, <2>1, <2>2, StateTypes
      <4>2. QED
        BY <4>1, <2>2
    <3>3. QED
      BY <3>1, <3>2, <2>1
  <2>5. level' <= Violation(plan', foreign)
    BY <2>1, <2>2, <2>4, StateTypes, BacktrackLevel
  <2>6. \E k \in Nat : plan' = Before(ds, p, k)
    BY <2>1, <2>2, BacktrackStands
  <2>7. Broken(plan') \subseteq Broken(p) /\ Broken(p) \subseteq Broken(plan)
    BY <2>2, <2>6, BeforeBreaksLess, StateTypes
  <2>8. QED
    BY <2>5, <2>7
<1>3. QED
  BY <1>1, <1>2

LEMMA LevelStep ==
  ASSUME TypeOK, StackInForce, LevelSound, [Next]_vars PROVE LevelSound'
<1> USE DEF search, db
<1>0. /\ foreign \in Nat /\ posted \in Nat /\ level \in Nat /\ plan \in Plan
      /\ Violation(plan, foreign) \in Nat
  BY StateTypes
<1>1. CASE Quiet
  <2>1. CASE StepInconsistent \/ StepCompleted \/ Propagate
    BY <2>1, <1>0 DEF StepInconsistent, StepCompleted, Propagate, LevelSound
  <2>2. CASE \/ SolveReturns \/ UNCHANGED vars
             \/ \E s \in StepLimits, d \in DepthLimits : CallSolve(s, d)
             \/ \E s \in StepLimits : SetMaxSteps(s)
             \/ \E d \in DepthLimits : SetMaxDepth(d)
    BY <2>2 DEF SolveReturns, CallSolve, SetMaxSteps, SetMaxDepth, vars, LevelSound
  <2>3. CASE PostConflict
    <3>1. /\ foreign' = foreign + 1 /\ posted' = posted + 1 /\ plan' = plan
          /\ level' \in {level, Violation(plan, foreign')}
      BY <2>3 DEF PostConflict
    <3>2. Violation(plan, foreign) <= Violation(plan, foreign') /\ Violation(plan, foreign') \in Nat
      BY <3>1, <1>0, ViolationMonotone, ViolationType
    <3>3. QED
      BY <3>1, <3>2, <1>0 DEF LevelSound
  <2>4. CASE RetractConflict
    <3>1. /\ foreign' = foreign - 1 /\ foreign > 0 /\ posted' = posted /\ plan' = plan
          /\ level' <= Violation(plan, foreign')
      BY <2>4 DEF RetractConflict
    <3>2. QED
      BY <3>1, <1>0 DEF LevelSound
  <2>5. QED
    BY <1>1, <2>1, <2>2, <2>3, <2>4 DEF Quiet
<1>2. CASE StepTimedOut
  BY <1>2, <1>0 DEF StepTimedOut, LevelSound
<1>3. CASE StepSucceeded
  <2>1. /\ plan' \in Plan /\ foreign' = foreign /\ posted' = posted
        /\ level' <= Violation(plan', foreign)
        /\ Violation(plan', foreign) <= Violation(plan, foreign)
    BY <1>3, SuccessBreaksLess DEF StepSucceeded
  <2>2. ASSUME posted = 0 PROVE Broken(plan') = {}
    <3>1. foreign = 0 /\ Broken(plan) = {}
      BY <2>2, <1>0 DEF LevelSound
    <3>2. Violation(plan, 0) = 0
      BY <3>1, NoViolation
    <3>3. Violation(plan', 0) \in Nat
      BY ViolationType
    <3>4. Violation(plan', 0) = 0
      BY <2>1, <3>1, <3>2, <3>3
    <3>5. QED
      BY <3>4, NoViolation
  <2>3. QED
    BY <2>1, <2>2 DEF LevelSound
<1>4. CASE StepFailed \/ StepDeadEnd
  <2>1. foreign' = foreign /\ posted' = posted
    BY <1>4 DEF StepFailed, StepDeadEnd
  <2>2. QED
    BY <1>4, <2>1, BacktrackBreaksLess DEF LevelSound
<1>5. CASE \/ \E n \in 0 .. Depth : Reset(n)
           \/ \E n \in 0 .. Depth + 1 : Backjump(n)
  <2>1. foreign' = foreign /\ posted' = posted
    BY <1>5 DEF Reset, Backjump
  <2>2. QED
    BY <1>5, <2>1, JumpBreaksLess DEF LevelSound
<1>6. CASE Clear
  BY <1>6 DEF Clear, LevelSound
<1>7. QED
  BY <1>1, <1>2, <1>3, <1>4, <1>5, <1>6, NextCases

LEMMA LevelAlways == Spec => [](TypeOK /\ StackInForce /\ LevelSound)
<1>1. Init => LevelSound
  <2> SUFFICES ASSUME Init PROVE LevelSound
    OBVIOUS
  <2>1. plan = EmptyPlan /\ foreign = 0 /\ level = 0 /\ posted = 0
    BY DEF Init
  <2>2. Broken(EmptyPlan) = {}
    <3> SUFFICES ASSUME NEW g \in Nogoods PROVE \E c \in g : EmptyPlan[c[1]] # c[2]
      BY DEF Broken
    <3>1. PICK c \in g : c \in Flaw \X (Nat \ {0})
      BY ProblemAssumption
    <3>2. c[1] \in Flaw /\ c[2] # 0
      BY <3>1
    <3>3. QED
      BY <3>2 DEF EmptyPlan, Undecided
  <2>3. Violation(EmptyPlan, 0) = 0
    BY <2>2, NoViolation
  <2>4. QED
    BY <2>1, <2>2, <2>3 DEF LevelSound
<1>2. TypeOK /\ StackInForce /\ LevelSound /\ [Next]_vars => LevelSound'
  BY LevelStep
<1>3. QED
  BY <1>1, <1>2, StackAlways, PTL DEF Spec

(* A step of the Solver never leaves the plan more violated than it found  *)
(* it, whatever the client posted and whether or not it was propagated:    *)
(* the level the step compares with is never above what propagation would  *)
(* find, and backtracking only takes decisions back.                       *)
THEOREM StepsAddNoViolation == Spec => StepAddsNoViolation
<1>1. ASSUME TypeOK, StackInForce, LevelSound, Step
      PROVE  Violation(plan', foreign') <= Violation(plan, foreign)
  <2>0. plan \in Plan /\ foreign \in Nat /\ Violation(plan, foreign) \in Nat
    BY <1>1, StateTypes
  <2>1. CASE StepInconsistent \/ StepCompleted \/ StepTimedOut
    BY <2>0, <2>1 DEF StepInconsistent, StepCompleted, StepTimedOut
  <2>2. CASE StepSucceeded
    BY <2>2, SuccessBreaksLess, <1>1
  <2>3. CASE StepFailed \/ StepDeadEnd
    <3>1. foreign' = foreign /\ Broken(plan') \subseteq Broken(plan)
      BY <1>1, <2>3, BacktrackBreaksLess DEF StepFailed, StepDeadEnd
    <3>2. QED
      BY <2>0, <3>1, ViolationMonotone
  <2>4. QED
    BY <1>1, <2>1, <2>2, <2>3 DEF Step
<1>2. TypeOK /\ StackInForce /\ LevelSound /\ [Next]_vars
        => [Step => Violation(plan', foreign') <= Violation(plan, foreign)]_vars
  BY <1>1
<1>3. QED
  BY <1>2, LevelAlways, PTL DEF Spec, StepAddsNoViolation
-----------------------------------------------------------------------------
(* The plans that are reported.                                            *)
LEMMA BasePlanIsBefore == BasePlan = Before(stack, plan, 1)
  BY DEF BasePlan, StackFlaws, Before, Depth

(* What no decision of this search made is never touched by it.            *)
LEMMA BasePlanStep ==
  ASSUME TypeOK, StackInForce, [Next]_vars, ~Clear PROVE BasePlan' = BasePlan
<1>0. BasePlan = Before(stack, plan, 1) /\ BasePlan' = Before(stack', plan', 1)
  BY BasePlanIsBefore DEF BasePlan, StackFlaws, Before, Depth
<1>1. 1 \in 1 .. Depth + 1
  BY StateTypes
<1>2. CASE Quiet
  BY <1>0, <1>2, QuietMovesNothing
<1>3. CASE StepTimedOut
  BY <1>0, <1>3 DEF StepTimedOut
<1>4. CASE StepSucceeded
  <2>1. PICK d \in Candidates : /\ CanTry(d) /\ plan' = PlanWith(d)
                                /\ stack' = Append(stack, Executed(d))
    BY <1>4 DEF StepSucceeded
  <2>2. QED
    BY <1>0, <1>1, <2>1, ExecutedStands
<1>5. CASE StepFailed
  <2>1. PICK d \in Candidates :
          CanTry(d) /\ Backtrack(Append(stack, Executed(d)), PlanWith(d), Violation(PlanWith(d), foreign))
    BY <1>5 DEF StepFailed
  <2>2. QED
    BY <1>0, <1>1, <2>1, ExecutedStands, BacktrackStands
<1>6. CASE StepDeadEnd
  <2>1. PICK d \in Candidates : Backtrack(Append(stack, d), plan, Violation(plan, foreign))
    BY <1>6 DEF StepDeadEnd
  <2>2. QED
    BY <1>0, <1>1, <2>1, UntriedStands, StateTypes, BacktrackStands
<1>7. ASSUME NEW n \in 0 .. Depth, Reset(n) PROVE BasePlan' = BasePlan
  <2>1. stack' = SubSeq(stack, 1, Depth - n) /\ plan' = Retract(plan, Dropped(n))
    BY <1>7 DEF Reset
  <2>2. 1 \in 1 .. Depth - n + 1
    BY StateTypes
  <2>3. QED
    BY <1>0, <2>1, <2>2, DroppedStands
<1>8. ASSUME NEW n \in 0 .. Depth + 1, Backjump(n) PROVE BasePlan' = BasePlan
  <2> DEFINE r == JumpReset(n)
             ds == SubSeq(stack, 1, Depth - r)
             p == Retract(plan, Dropped(r))
  <2>1. r \in 0 .. Depth /\ Backtrack(ds, p, level)
    BY <1>8, BackjumpOutcome
  <2> HIDE DEF r
  <2>2. 1 \in 1 .. Depth - r + 1
    BY <2>1, StateTypes
  <2>3. /\ ds \in Seq(Decision) /\ p \in Plan /\ Standing(ds, p)
        /\ Before(ds, p, 1) = Before(stack, plan, 1)
    BY <2>1, <2>2, DroppedStands
  <2> HIDE DEF ds, p
  <2>4. Before(stack', plan', 1) = Before(ds, p, 1)
    BY <2>1, <2>3, BacktrackStands
  <2>5. QED
    BY <1>0, <2>3, <2>4
<1>9. QED
  BY <1>2, <1>3, <1>4, <1>5, <1>6, <1>7, <1>8, NextCases

LEMMA ExtendsPart ==
  ASSUME NEW p \in Plan, NEW F PROVE Extends(p, Without(p, F))
  BY DEF Extends, Without, Decided, Undecided, Plan

LEMMA ExtendsTransitive ==
  ASSUME NEW p \in Plan, NEW q \in Plan, NEW r \in Plan, Extends(p, q), Extends(q, r)
  PROVE  Extends(p, r)
  BY DEF Extends, Decided, Plan

LEMMA CompletedPlan ==
  ASSUME Candidates = {} PROVE active = NoDecision /\ OpenFlaws(plan) = {}
<1>1. active = NoDecision
  BY DEF Candidates
<1>2. {NewDecision(f) : f \in OpenFlaws(plan)} = {}
  BY <1>1 DEF Candidates
<1>3. QED
  BY <1>1, <1>2

LEMMA FoundStep ==
  ASSUME TypeOK, StackInForce, LevelSound, FoundSound, [Next]_vars PROVE FoundSound'
<1> USE DEF search, db, flags, history
<1>1. noFlawsFound' => active' = NoDecision /\ plan' \in found' /\ OpenFlaws(plan') = {}
  <2>1. CASE StepCompleted
    BY <2>1, CompletedPlan DEF StepCompleted
  <2>2. CASE Quiet /\ ~StepCompleted
    <3>1. noFlawsFound' => noFlawsFound
      BY <2>2 DEF Quiet, StepInconsistent, SolveReturns, CallSolve, SetMaxSteps, SetMaxDepth,
                  PostConflict, RetractConflict, Propagate, vars
    <3>2. found' = found
      BY <2>2 DEF Quiet, StepInconsistent, SolveReturns, CallSolve, SetMaxSteps, SetMaxDepth,
                  PostConflict, RetractConflict, Propagate, vars
    <3>3. active' = active /\ plan' = plan
      BY <2>2, QuietMovesNothing
    <3>4. QED
      BY <3>1, <3>2, <3>3 DEF FoundSound
  <2>3. CASE StepTimedOut \/ StepSucceeded \/ StepFailed \/ StepDeadEnd \/ Clear
    BY <2>3 DEF StepTimedOut, StepSucceeded, StepFailed, StepDeadEnd, Clear
  <2>4. CASE \/ \E n \in 0 .. Depth : Reset(n)
             \/ \E n \in 0 .. Depth + 1 : Backjump(n)
    BY <2>4 DEF Reset, Backjump
  <2>5. QED
    BY <2>1, <2>2, <2>3, <2>4, NextCases
<1>2. posted' = 0 => posted = 0
  BY NextCases, StateTypes
  DEF Quiet, StepInconsistent, StepCompleted, SolveReturns, CallSolve, SetMaxSteps, SetMaxDepth,
      PostConflict, RetractConflict, Propagate, vars, StepTimedOut, StepSucceeded, StepFailed,
      StepDeadEnd, Reset, Backjump, Clear
<1>3. ASSUME NEW p \in found'
      PROVE  p \in found \/ (StepCompleted /\ p = plan)
  BY <1>3, NextCases
  DEF Quiet, StepInconsistent, StepCompleted, SolveReturns, CallSolve, SetMaxSteps, SetMaxDepth,
      PostConflict, RetractConflict, Propagate, vars, StepTimedOut, StepSucceeded, StepFailed,
      StepDeadEnd, Reset, Backjump, Clear, FoundOutside
<1>4. CASE Clear
  BY <1>1, <1>4 DEF Clear, FoundSound
<1>5. CASE ~Clear
  <2>1. BasePlan' = BasePlan
    BY <1>5, BasePlanStep
  <2>2. ASSUME NEW p \in found'
        PROVE  OpenFlaws(p) = {} /\ Extends(p, BasePlan) /\ (posted' = 0 => Broken(p) = {})
    <3>1. CASE p \in found
      BY <3>1, <1>2 DEF FoundSound
    <3>2. CASE StepCompleted /\ p = plan
      <4>1. OpenFlaws(plan) = {}
        BY <3>2, CompletedPlan DEF StepCompleted
      <4>2. Extends(plan, BasePlan)
        BY ExtendsPart, StateTypes DEF BasePlan
      <4>3. posted = 0 => Broken(plan) = {}
        BY DEF LevelSound
      <4>4. QED
        BY <3>2, <4>1, <4>2, <4>3, <1>2
    <3>3. QED
      BY <1>3, <3>1, <3>2
  <2>3. QED
    BY <1>1, <2>1, <2>2 DEF FoundSound
<1>6. QED
  BY <1>4, <1>5

LEMMA FoundAlways == Spec => [](TypeOK /\ StackInForce /\ LevelSound /\ FoundSound)
<1>1. Init => FoundSound
  BY DEF Init, FoundSound
<1>2. TypeOK /\ StackInForce /\ LevelSound /\ FoundSound /\ [Next]_vars => FoundSound'
  BY FoundStep
<1>3. QED
  BY <1>1, <1>2, LevelAlways, PTL DEF Spec

(* While the client posts no conflict, a plan that is reported complete is *)
(* a solution: no flaw is open in it and no constraint violated.           *)
THEOREM FoundPlansAreSolutions == Spec => []FoundAreSolutions
<1>1. FoundSound => FoundAreSolutions
  BY DEF FoundSound, FoundAreSolutions, Solution
<1>2. QED
  BY <1>1, FoundAlways, PTL
-----------------------------------------------------------------------------
(* The frontier of the search.                                             *)
LEMMA AgreesCut ==
  ASSUME NEW ds \in Seq(Decision), NEW k \in 1 .. Len(ds) + 1, NEW p, NEW i \in 1 .. k
  PROVE  AgreesWith(SubSeq(ds, 1, k - 1), p, i) <=> AgreesWith(ds, p, i)
<1>1. \A j \in 1 .. k - 1 : SubSeq(ds, 1, k - 1)[j] = ds[j]
  BY Cutting
<1>2. i - 1 <= k - 1
  OBVIOUS
<1>3. QED
  BY <1>1, <1>2 DEF AgreesWith

LEMMA AgreesEarlier ==
  ASSUME NEW ds, NEW p, NEW i \in Nat, NEW k \in Nat, k <= i, AgreesWith(ds, p, i)
  PROVE  AgreesWith(ds, p, k) /\ (k > 0 /\ k < i => p[ds[k].flaw] = ds[k].tried)
  BY DEF AgreesWith

LEMMA AgreesAppend ==
  ASSUME NEW ds \in Seq(Decision), NEW e \in Decision, NEW p
  PROVE  /\ \A i \in 1 .. Len(ds) + 1 : AgreesWith(Append(ds, e), p, i) <=> AgreesWith(ds, p, i)
         /\ AgreesWith(Append(ds, e), p, Len(ds) + 2)
              <=> AgreesWith(ds, p, Len(ds) + 1) /\ p[e.flaw] = e.tried
         /\ BehindAt(Append(ds, e), p)
              <=> BehindAt(ds, p) \/ (AgreesWith(ds, p, Len(ds) + 1) /\ p[e.flaw] < e.tried)
         /\ AheadAt(Append(ds, e), p)
              <=> AheadAt(ds, p) \/ (AgreesWith(ds, p, Len(ds) + 1) /\ p[e.flaw] > e.tried)
<1> DEFINE top == Append(ds, e)
<1>1. /\ Len(top) = Len(ds) + 1 /\ top[Len(ds) + 1] = e
      /\ \A i \in 1 .. Len(ds) : top[i] = ds[i]
  BY Appending
<1> HIDE DEF top
<1>2. \A i \in 1 .. Len(ds) + 1 : AgreesWith(top, p, i) <=> AgreesWith(ds, p, i)
  BY <1>1 DEF AgreesWith
<1>3. AgreesWith(top, p, Len(ds) + 2) <=> AgreesWith(ds, p, Len(ds) + 1) /\ p[e.flaw] = e.tried
  <2>1. \A j : j \in 1 .. (Len(ds) + 2) - 1 <=> j \in 1 .. (Len(ds) + 1) - 1 \/ j = Len(ds) + 1
    OBVIOUS
  <2>2. QED
    BY <1>1, <2>1 DEF AgreesWith
<1>4. \A i : i \in 1 .. Len(top) <=> i \in 1 .. Len(ds) \/ i = Len(ds) + 1
  BY <1>1
<1>5. BehindAt(top, p)
        <=> BehindAt(ds, p) \/ (AgreesWith(ds, p, Len(ds) + 1) /\ p[e.flaw] < e.tried)
  BY <1>1, <1>2, <1>4 DEF BehindAt
<1>6. AheadAt(top, p)
        <=> AheadAt(ds, p) \/ (AgreesWith(ds, p, Len(ds) + 1) /\ p[e.flaw] > e.tried)
  BY <1>1, <1>2, <1>4 DEF AheadAt
<1>7. QED
  BY <1>2, <1>3, <1>5, <1>6 DEF top

(* A plan that agrees with the lower decisions, and with what the search   *)
(* started from, agrees with the plan as it was before decision k.         *)
LEMMA AgreesExtends ==
  ASSUME NEW ds \in Seq(Decision), NEW q \in Plan, Standing(ds, q),
         NEW k \in 1 .. Len(ds) + 1, NEW p,
         AgreesWith(ds, p, k), Extends(p, Before(ds, q, 1))
  PROVE  Extends(p, Before(ds, q, k))
<1> SUFFICES ASSUME NEW f \in Flaw, Before(ds, q, k)[f] # Undecided
             PROVE  p[f] = Before(ds, q, k)[f]
  BY DEF Extends, Decided
<1>1. f \notin {ds[j].flaw : j \in k .. Len(ds)} /\ q[f] # Undecided /\ Before(ds, q, k)[f] = q[f]
  BY DEF Before, Without
<1>2. CASE \E j \in 1 .. k - 1 : ds[j].flaw = f
  <2>1. PICK j \in 1 .. k - 1 : ds[j].flaw = f
    BY <1>2
  <2>2. j \in 1 .. Len(ds)
    OBVIOUS
  <2>3. q[f] = ds[j].tried
    BY <1>1, <2>1, <2>2 DEF Standing
  <2>4. p[f] = ds[j].tried
    BY <2>1 DEF AgreesWith
  <2>5. QED
    BY <1>1, <2>3, <2>4
<1>3. CASE ~ \E j \in 1 .. k - 1 : ds[j].flaw = f
  <2>1. f \notin {ds[j].flaw : j \in 1 .. Len(ds)}
    BY <1>1, <1>3
  <2>2. Before(ds, q, 1)[f] = q[f]
    BY <2>1 DEF Before, Without
  <2>3. QED
    BY <1>1, <2>2 DEF Extends, Decided
<1>4. QED
  BY <1>2, <1>3

LEMMA PlanAgrees ==
  ASSUME NEW ds \in Seq(Decision), NEW q, Standing(ds, q), AllExecuted(ds)
  PROVE  AgreesWith(ds, q, Len(ds) + 1)
  BY DEF Standing, AllExecuted, AgreesWith

(* What lay behind or on the decisions of ds lies behind the prefix that   *)
(* is kept, or agrees with it and is not beyond the decision after it.     *)
LEMMA BehindCut ==
  ASSUME NEW ds \in Seq(Decision), NEW p \in Plan, NEW k \in 1 .. Len(ds) + 1,
         BehindAt(ds, p) \/ AgreesWith(ds, p, Len(ds) + 1)
  PROVE  \/ BehindAt(SubSeq(ds, 1, k - 1), p)
         \/ /\ AgreesWith(SubSeq(ds, 1, k - 1), p, k)
            /\ k <= Len(ds) => p[ds[k].flaw] <= ds[k].tried
<1> DEFINE low == SubSeq(ds, 1, k - 1)
<1>1. /\ Len(low) = k - 1 /\ \A i \in 1 .. k - 1 : low[i] = ds[i]
      /\ \A i \in 1 .. k : AgreesWith(low, p, i) <=> AgreesWith(ds, p, i)
  BY Cutting, AgreesCut
<1> HIDE DEF low
<1>0. \A i \in 1 .. Len(ds) : ds[i] \in Decision
  OBVIOUS
<1>2. \A i \in 1 .. Len(ds) : ds[i].flaw \in Flaw /\ ds[i].tried \in Nat /\ p[ds[i].flaw] \in Nat
  BY <1>0, ProblemAssumption DEF Decision, Plan
<1>3. CASE AgreesWith(ds, p, Len(ds) + 1)
  <2>1. AgreesWith(ds, p, k) /\ (k <= Len(ds) => p[ds[k].flaw] = ds[k].tried)
    BY <1>3, AgreesEarlier
  <2>2. QED
    BY <1>1, <1>2, <2>1 DEF low
<1>4. CASE BehindAt(ds, p)
  <2>1. PICK i \in 1 .. Len(ds) : AgreesWith(ds, p, i) /\ p[ds[i].flaw] < ds[i].tried
    BY <1>4 DEF BehindAt
  <2>2. CASE i < k
    <3>1. i \in 1 .. Len(low) /\ AgreesWith(low, p, i) /\ p[low[i].flaw] < low[i].tried
      BY <1>1, <2>1, <2>2
    <3>2. QED
      BY <3>1 DEF BehindAt, low
  <2>3. CASE i >= k
    <3>1. AgreesWith(ds, p, k) /\ (k < i => p[ds[k].flaw] = ds[k].tried)
      BY <2>1, <2>3, AgreesEarlier
    <3>2. p[ds[k].flaw] <= ds[k].tried
      BY <1>2, <2>1, <2>3, <3>1
    <3>3. QED
      BY <1>1, <3>1, <3>2 DEF low
  <2>4. QED
    BY <2>2, <2>3
<1>5. QED
  BY <1>3, <1>4

(* Backtracking moves forward: what is behind stays behind.                *)
LEMMA BacktrackBehind ==
  ASSUME NEW ds \in Seq(Decision), NEW q \in Plan, NEW before, Standing(ds, q),
         Backtrack(ds, q, before), NEW p \in Plan,
         BehindAt(ds, p) \/ AgreesWith(ds, p, Len(ds) + 1)
  PROVE  \/ BehindAt(stack', p)
         \/ /\ AgreesWith(stack', p, Len(stack') + 1)
            /\ active' # NoDecision /\ p[active'.flaw] <= active'.tried
         \/ exhausted' /\ stack' = << >>
<1>1. ASSUME NEW k \in Resumable(ds),
             active' = Undone(ds[k]), stack' = SubSeq(ds, 1, k - 1)
      PROVE  \/ BehindAt(stack', p)
             \/ /\ AgreesWith(stack', p, Len(stack') + 1)
                /\ active' # NoDecision /\ p[active'.flaw] <= active'.tried
  <2>1. k \in 1 .. Len(ds) /\ k \in 1 .. Len(ds) + 1 /\ ds[k] \in Decision
    BY DEF Resumable
  <2>2. active' \in Decision /\ active'.flaw = ds[k].flaw /\ active'.tried = ds[k].tried
    BY <1>1, <2>1, DecisionOps
  <2>3. active' # NoDecision
    BY <2>2, SolverAssumption DEF Decision
  <2>4. Len(stack') + 1 = k
    BY <1>1, <2>1, Cutting
  <2>5. k <= Len(ds)
    BY <2>1
  <2>6. QED
    BY <1>1, <2>1, <2>2, <2>3, <2>4, <2>5, BehindCut
<1>2. QED
  BY <1>1, BacktrackOutcome

LEMMA BehindStep ==
  ASSUME TypeOK, StackInForce, FoundSound, Behind, [Next]_vars PROVE Behind'
<1> USE DEF search, db, flags, history
<1> SUFFICES ASSUME NEW p \in found'
             PROVE  \/ p = plan' /\ active' = NoDecision
                    \/ BehindAt(stack', p)
                    \/ /\ AgreesWith(stack', p, Len(stack') + 1)
                       /\ active' # NoDecision /\ p[active'.flaw] <= active'.tried
                    \/ exhausted' /\ stack' = << >>
  BY DEF Behind, Depth
<1>0. /\ stack \in Seq(Decision) /\ plan \in Plan /\ Depth = Len(stack) /\ Depth \in Nat
      /\ found \subseteq Plan
  BY StateTypes DEF TypeOK
<1>1. CASE StepCompleted
  <2>1. active = NoDecision
    BY <1>1, CompletedPlan DEF StepCompleted
  <2>2. CASE p = plan
    BY <1>1, <2>1, <2>2 DEF StepCompleted
  <2>3. CASE p \in found
    BY <1>0, <1>1, <2>3 DEF StepCompleted, Behind
  <2>4. QED
    BY <1>1, <2>2, <2>3 DEF StepCompleted
<1>2. CASE Quiet /\ ~StepCompleted
  <2>1. found' = found /\ (exhausted => exhausted')
    BY <1>2 DEF Quiet, StepInconsistent, SolveReturns, CallSolve, SetMaxSteps, SetMaxDepth,
                PostConflict, RetractConflict, Propagate, vars
  <2>2. active' = active /\ plan' = plan /\ stack' = stack
    BY <1>2, QuietMovesNothing
  <2>3. QED
    BY <1>0, <2>1, <2>2 DEF Behind
<1>3. ASSUME StepTimedOut \/ StepSucceeded \/ StepFailed \/ StepDeadEnd
      PROVE  /\ p \in found /\ p \in Plan
             /\ \A d \in Candidates :
                  \/ BehindAt(stack, p)
                  \/ AgreesWith(stack, p, Len(stack) + 1) /\ d = active /\ p[d.flaw] <= d.tried
  <2>1. /\ p \in found /\ ~exhausted /\ Candidates # {}
    BY <1>3 DEF StepTimedOut, StepSucceeded, StepFailed, StepDeadEnd, Stepping
  <2>2. ~(p = plan /\ active = NoDecision)
    <3>1. OpenFlaws(p) = {}
      BY <2>1 DEF FoundSound
    <3>2. QED
      BY <2>1, <3>1 DEF Candidates
  <2>3. QED
    BY <1>0, <2>1, <2>2 DEF Behind, Candidates
<1>4. CASE StepTimedOut
  <2>1. active' \in Candidates /\ stack' = stack
    BY <1>4 DEF StepTimedOut
  <2>2. active' # NoDecision
    BY <2>1, CandidateOpen
  <2>3. QED
    BY <1>3, <1>4, <2>1, <2>2
<1>5. CASE StepSucceeded
  <2>1. PICK d \in Candidates : stack' = Append(stack, Executed(d))
    BY <1>5 DEF StepSucceeded
  <2>2. /\ d \in Decision /\ Executed(d) \in Decision
        /\ Executed(d).flaw = d.flaw /\ Executed(d).tried = d.tried + 1
    BY CandidateOpen, DecisionOps
  <2>3. BehindAt(Append(stack, Executed(d)), p)
    <3>1. p[d.flaw] <= d.tried => p[d.flaw] < d.tried + 1
      BY <1>3, <1>5, <2>2 DEF Decision, Plan
    <3>2. QED
      BY <1>0, <1>3, <1>5, <2>2, <3>1, AgreesAppend
  <2>4. QED
    BY <2>1, <2>3
<1>6. CASE StepFailed
  <2>1. PICK d \in Candidates :
          CanTry(d) /\ Backtrack(Append(stack, Executed(d)), PlanWith(d), Violation(PlanWith(d), foreign))
    BY <1>6 DEF StepFailed
  <2>2. /\ d \in Decision /\ Executed(d) \in Decision
        /\ Executed(d).flaw = d.flaw /\ Executed(d).tried = d.tried + 1
    BY CandidateOpen, DecisionOps
  <2>3. BehindAt(Append(stack, Executed(d)), p)
    <3>1. p[d.flaw] <= d.tried => p[d.flaw] < d.tried + 1
      BY <1>3, <1>6, <2>2 DEF Decision, Plan
    <3>2. QED
      BY <1>0, <1>3, <1>6, <2>2, <3>1, AgreesAppend
  <2>4. QED
    BY <1>3, <1>6, <2>1, <2>3, ExecutedStands, BacktrackBehind
<1>7. CASE StepDeadEnd
  <2>1. PICK d \in Candidates : Backtrack(Append(stack, d), plan, Violation(plan, foreign))
    BY <1>7 DEF StepDeadEnd
  <2>2. d \in Decision /\ Append(stack, d) \in Seq(Decision) /\ Len(Append(stack, d)) = Len(stack) + 1
    BY <1>0, CandidateOpen, Appending
  <2>3. BehindAt(Append(stack, d), p) \/ AgreesWith(Append(stack, d), p, Len(stack) + 2)
    <3>1. p[d.flaw] <= d.tried => p[d.flaw] < d.tried \/ p[d.flaw] = d.tried
      BY <1>3, <1>7, <2>2 DEF Decision, Plan
    <3>2. QED
      BY <1>0, <1>3, <1>7, <2>2, <3>1, AgreesAppend
  <2>4. Len(stack) + 2 = Len(Append(stack, d)) + 1
    BY <1>0, <2>2
  <2>5. QED
    BY <1>0, <1>3, <1>7, <2>1, <2>2, <2>3, <2>4, UntriedStands, BacktrackBehind
<1>8. ASSUME p \in found
      PROVE  BehindAt(stack, p) \/ AgreesWith(stack, p, Len(stack) + 1)
  <2>1. AgreesWith(stack, plan, Len(stack) + 1)
    BY <1>0, PlanAgrees DEF StackInForce
  <2>2. stack = << >> => AgreesWith(stack, p, Len(stack) + 1)
    <3>1. stack = << >> => 1 .. (Len(stack) + 1) - 1 = {}
      OBVIOUS
    <3>2. QED
      BY <3>1 DEF AgreesWith
  <2>3. QED
    BY <1>0, <1>8, <2>1, <2>2 DEF Behind
<1>9. ASSUME NEW n \in 0 .. Depth, Reset(n)
      PROVE  BehindAt(stack', p)
  <2> DEFINE k == Depth - n + 1
  <2>1. k \in 1 .. Len(stack) + 1 /\ Depth - n = k - 1
    BY <1>0
  <2>2. /\ stack' = SubSeq(stack, 1, k - 1) /\ plan' = Before(stack, plan, k)
        /\ p \in found /\ ~Extends(p, plan')
    BY <1>9, <2>1, DroppedIsBefore DEF Reset, FoundOutside
  <2> HIDE DEF k
  <2>3. p \in Plan /\ Extends(p, Before(stack, plan, 1))
    BY <1>0, <2>2, BasePlanIsBefore DEF FoundSound
  <2>4. ~AgreesWith(stack, p, k)
    BY <1>0, <2>1, <2>2, <2>3, AgreesExtends DEF StackInForce
  <2>5. ~AgreesWith(SubSeq(stack, 1, k - 1), p, k)
    BY <1>0, <2>1, <2>4, AgreesCut
  <2>6. QED
    BY <1>0, <1>8, <2>1, <2>2, <2>3, <2>5, BehindCut
<1>10. ASSUME NEW n \in 0 .. Depth + 1, Backjump(n)
       PROVE  \/ BehindAt(stack', p)
              \/ /\ AgreesWith(stack', p, Len(stack') + 1)
                 /\ active' # NoDecision /\ p[active'.flaw] <= active'.tried
              \/ exhausted' /\ stack' = << >>
  <2> DEFINE r == JumpReset(n)
             ds == SubSeq(stack, 1, Depth - r)
             q == Retract(plan, Dropped(r))
  <2>1. r \in 0 .. Depth /\ Backtrack(ds, q, level)
    BY <1>10, BackjumpOutcome
  <2> HIDE DEF r
  <2>2. ds \in Seq(Decision) /\ Len(ds) = Depth - r /\ q \in Plan /\ Standing(ds, q)
    BY <2>1, DroppedStands
  <2>3. p \in found /\ p \in Plan
    BY <1>0, <1>10 DEF Backjump
  <2>4. BehindAt(ds, p) \/ AgreesWith(ds, p, Len(ds) + 1)
    <3> DEFINE k == Depth - r + 1
    <3>1. k \in 1 .. Len(stack) + 1 /\ Depth - r = k - 1
      BY <1>0, <2>1
    <3>2. ds = SubSeq(stack, 1, k - 1) /\ Len(ds) + 1 = k
      BY <1>0, <2>1, <2>2, <3>1
    <3> HIDE DEF k, ds
    <3>3. QED
      BY <1>0, <1>8, <2>3, <3>1, <3>2, BehindCut
  <2> HIDE DEF ds, q
  <2>5. QED
    BY <2>1, <2>2, <2>3, <2>4, BacktrackBehind
<1>11. CASE Clear
  BY <1>11 DEF Clear
<1>12. QED
  BY <1>1, <1>2, <1>4, <1>5, <1>6, <1>7, <1>9, <1>10, <1>11, NextCases

(* A plan that was reported is the current one or is never reached again,  *)
(* through time-outs, partial resets and jumps of any length.              *)
LEMMA BehindAlways ==
  Spec => [](TypeOK /\ StackInForce /\ LevelSound /\ FoundSound /\ Behind)
<1>1. Init => Behind
  BY DEF Init, Behind
<1>2. TypeOK /\ StackInForce /\ FoundSound /\ Behind /\ [Next]_vars => Behind'
  BY BehindStep
<1>3. QED
  BY <1>1, <1>2, FoundAlways, PTL DEF Spec

THEOREM FoundOnlyOnce == Spec => []FoundOnce
<1>1. Behind => FoundOnce
  <2> SUFFICES ASSUME Behind, NEW p \in found
               PROVE  (p = plan /\ active = NoDecision) \/ Passed(p)
    BY DEF FoundOnce
  <2>1. \A i : AgreesWith(stack, p, i) <=> AgreesBelow(p, i)
    BY DEF AgreesWith, AgreesBelow
  <2>2. BehindAt(stack, p)
          <=> \E i \in 1 .. Depth : AgreesBelow(p, i) /\ p[stack[i].flaw] < stack[i].tried
    BY <2>1 DEF BehindAt, Depth
  <2>3. QED
    BY <2>1, <2>2 DEF Behind, Passed
<1>2. QED
  BY <1>1, BehindAlways, PTL
-----------------------------------------------------------------------------
(* What a reachable solution decides.                                      *)
LEMMA ReachableFacts ==
  ASSUME NEW s \in Reachable
  PROVE  /\ s \in Plan /\ OpenFlaws(s) = {} /\ Broken(s) = {}
         /\ \A f \in Flaw : /\ s[f] \in Nat /\ s[f] <= LastChoice(f)
                            /\ LastChoice(f) <= NumChoices[f]
                            /\ Cutoff[f] > 0 => LastChoice(f) <= Cutoff[f]
<1>1. /\ s \in Plan /\ OpenFlaws(s) = {} /\ Broken(s) = {}
      /\ \A f \in Flaw : s[f] <= LastChoice(f)
  BY DEF Reachable, Solution
<1>2. \A f \in Flaw : s[f] \in Nat /\ NumChoices[f] \in Nat /\ Cutoff[f] \in Nat
  BY <1>1, ProblemAssumption DEF Plan
<1>3. \A f \in Flaw : LastChoice(f) <= NumChoices[f] /\ (Cutoff[f] > 0 => LastChoice(f) <= Cutoff[f])
  BY <1>2 DEF LastChoice
<1>4. QED
  BY <1>1, <1>2, <1>3

(* A decision short of the choice of a reachable solution has one left.    *)
LEMMA ShortCanTry ==
  ASSUME NEW s \in Reachable, NEW d \in Decision, s[d.flaw] > d.tried
  PROVE  CanTry(d)
<1>1. d.flaw \in Flaw /\ d.tried \in Nat
  BY DEF Decision
<1>2. /\ NumChoices[d.flaw] \in Nat /\ Cutoff[d.flaw] \in Nat /\ LastChoice(d.flaw) \in Nat
  BY <1>1, ProblemAssumption DEF LastChoice
<1>3. QED
  BY <1>1, <1>2, ReachableFacts DEF CanTry, Cut, HasNext

(* A complete plan that extends q decides whatever q leaves open.          *)
LEMMA SolutionDecides ==
  ASSUME NEW s \in Reachable, NEW q \in Plan, Extends(s, q), NEW f \in OpenFlaws(q)
  PROVE  s[f] > 0
<1>1. f \in Flaw /\ s[f] \in Nat
  BY OpenFlawsType, ReachableFacts
<1>2. f \in Present(s)
  <2>1. CASE f \in Roots
    BY <2>1 DEF Present
  <2>2. CASE f \notin Roots
    <3>1. PICK g \in Decided(q) : f \in Subgoals[g][q[g]]
      BY <2>2 DEF OpenFlaws, Present
    <3>2. s[g] = q[g] /\ g \in Decided(s)
      BY <3>1 DEF Extends, Decided
    <3>3. QED
      BY <3>1, <3>2 DEF Present
  <2>3. QED
    BY <2>1, <2>2
<1>3. f \in Decided(s)
  BY <1>2, ReachableFacts DEF OpenFlaws
<1>4. QED
  BY <1>1, <1>3 DEF Decided, Undecided

(* Backtracking stops at the first decision that a reachable solution is   *)
(* ahead of, or above it.                                                  *)
LEMMA BacktrackAhead ==
  ASSUME NEW ds \in Seq(Decision), NEW q \in Plan, NEW before, Standing(ds, q),
         Backtrack(ds, q, before), NEW s \in Reachable, AheadAt(ds, s)
  PROVE  /\ exhausted' = FALSE
         /\ \/ AheadAt(stack', s)
            \/ /\ AgreesWith(stack', s, Len(stack') + 1)
               /\ active' # NoDecision /\ s[active'.flaw] > active'.tried
<1>1. PICK i \in 1 .. Len(ds) : AgreesWith(ds, s, i) /\ s[ds[i].flaw] > ds[i].tried
  BY DEF AheadAt
<1>2. i \in Resumable(ds)
  BY <1>1, ShortCanTry DEF Resumable
<1>3. PICK k \in Resumable(ds) :
        /\ \A j \in Resumable(ds) : j <= k
        /\ active' = Undone(ds[k]) /\ stack' = SubSeq(ds, 1, k - 1) /\ exhausted' = FALSE
  BY <1>2, BacktrackOutcome
<1>4. k \in 1 .. Len(ds) /\ k \in 1 .. Len(ds) + 1 /\ i <= k /\ ds[k] \in Decision
  BY <1>2, <1>3 DEF Resumable
<1>5. /\ Len(stack') = k - 1 /\ \A j \in 1 .. k - 1 : stack'[j] = ds[j]
      /\ \A j \in 1 .. k : AgreesWith(stack', s, j) <=> AgreesWith(ds, s, j)
  BY <1>3, <1>4, Cutting, AgreesCut
<1>6. CASE i < k
  <2>1. i \in 1 .. Len(stack') /\ AgreesWith(stack', s, i) /\ s[stack'[i].flaw] > stack'[i].tried
    BY <1>1, <1>4, <1>5, <1>6
  <2>2. QED
    BY <1>3, <2>1 DEF AheadAt
<1>7. CASE i = k
  <2>1. active' \in Decision /\ active'.flaw = ds[k].flaw /\ active'.tried = ds[k].tried
    BY <1>3, <1>4, DecisionOps
  <2>2. active' # NoDecision
    BY <2>1, SolverAssumption DEF Decision
  <2>3. Len(stack') + 1 = k
    BY <1>4, <1>5
  <2>4. QED
    BY <1>1, <1>3, <1>4, <1>5, <1>7, <2>1, <2>2, <2>3
<1>8. i < k \/ i = k
  BY <1>4
<1>9. QED
  BY <1>6, <1>7, <1>8

LEMMA AheadDef ==
  ASSUME NEW s
  PROVE  Ahead(s) <=> /\ ~exhausted
                      /\ \/ AheadAt(stack, s)
                         \/ /\ AgreesWith(stack, s, Len(stack) + 1)
                            /\ active # NoDecision => s[active.flaw] > active.tried
<1>1. \A i : AgreesWith(stack, s, i) <=> AgreesBelow(s, i)
  BY DEF AgreesWith, AgreesBelow
<1>2. AheadAt(stack, s)
        <=> \E i \in 1 .. Depth : AgreesBelow(s, i) /\ s[stack[i].flaw] > stack[i].tried
  BY <1>1 DEF AheadAt, Depth
<1>3. AgreesWith(stack, s, Len(stack) + 1) <=> AgreesBelow(s, Depth + 1)
  BY <1>1 DEF Depth
<1>4. QED
  BY <1>2, <1>3 DEF Ahead

LEMMA AheadNext ==
  ASSUME NEW s, exhausted' = FALSE,
         \/ AheadAt(stack', s)
         \/ /\ AgreesWith(stack', s, Len(stack') + 1)
            /\ active' # NoDecision => s[active'.flaw] > active'.tried
  PROVE  Ahead(s)'
<1>1. \A i : AgreesWith(stack', s, i) <=> AgreesBelow(s, i)'
  BY DEF AgreesWith, AgreesBelow
<1>2. AheadAt(stack', s)
        <=> \E i \in 1 .. Depth' : AgreesBelow(s, i)' /\ s[stack'[i].flaw] > stack'[i].tried
  BY <1>1 DEF AheadAt, Depth
<1>3. AgreesWith(stack', s, Len(stack') + 1) <=> AgreesBelow(s, Depth + 1)'
  BY <1>1 DEF Depth
<1>4. QED
  BY <1>2, <1>3 DEF Ahead

(* Where a step looks for its next decision, a reachable solution is ahead *)
(* of the stack or beyond what the decision has tried.                     *)
LEMMA AheadOfCandidate ==
  ASSUME TypeOK, StackInForce, NEW s \in Reachable, Extends(s, BasePlan), Ahead(s),
         NEW d \in Candidates
  PROVE  AheadAt(stack, s) \/ (AgreesWith(stack, s, Len(stack) + 1) /\ s[d.flaw] > d.tried)
<1>1. /\ ~exhausted
      /\ \/ AheadAt(stack, s)
         \/ /\ AgreesWith(stack, s, Len(stack) + 1)
            /\ active # NoDecision => s[active.flaw] > active.tried
  BY AheadDef
<1>2. CASE AheadAt(stack, s)
  BY <1>2
<1>3. CASE AgreesWith(stack, s, Len(stack) + 1) /\ active # NoDecision
  BY <1>1, <1>3, CandidateOpen
<1>4. CASE AgreesWith(stack, s, Len(stack) + 1) /\ active = NoDecision
  <2>1. Extends(s, Before(stack, plan, 1))
    BY BasePlanIsBefore
  <2>2. Len(stack) + 1 \in 1 .. Len(stack) + 1
    BY StateTypes
  <2>3. Extends(s, Before(stack, plan, Len(stack) + 1))
    BY <1>4, <2>1, <2>2, StateTypes, AgreesExtends DEF StackInForce
  <2>4. Before(stack, plan, Len(stack) + 1) = plan
    BY UntriedStands, StateTypes
  <2>5. s[d.flaw] > 0
    BY <2>3, <2>4, StateTypes, CandidateOpen, SolutionDecides
  <2>6. QED
    BY <1>4, <2>5, CandidateOpen
<1>5. QED
  BY <1>1, <1>2, <1>3, <1>4

(* A choice that leads to a reachable solution does not fail.              *)
LEMMA SolutionChoiceSucceeds ==
  ASSUME TypeOK, StackInForce, EntryOk, NEW s \in Reachable, Extends(s, BasePlan),
         NEW d \in Candidates, CanTry(d),
         AgreesWith(stack, s, Len(stack) + 1), s[d.flaw] = d.tried + 1
  PROVE  ConflictLevelOk(PlanWith(d))
<1>1. Extends(s, plan)
  <2>1. Extends(s, Before(stack, plan, 1))
    BY BasePlanIsBefore
  <2>2. Len(stack) + 1 \in 1 .. Len(stack) + 1
    BY StateTypes
  <2>3. Extends(s, Before(stack, plan, Len(stack) + 1))
    BY <2>1, <2>2, StateTypes, AgreesExtends DEF StackInForce
  <2>4. QED
    BY <2>3, UntriedStands, StateTypes
<1>2. PlanWith(d) \in Plan
  BY ExecutedStands
<1>3. Extends(s, PlanWith(d))
  <2> SUFFICES ASSUME NEW f \in Flaw, PlanWith(d)[f] # Undecided
               PROVE  s[f] = PlanWith(d)[f]
    BY DEF Extends, Decided
  <2>1. plan \in [Flaw -> 0 .. MaxChoices] /\ d.flaw \in Flaw
    BY StateTypes, CandidateOpen DEF Plan, Decision
  <2>2. CASE f = d.flaw
    BY <2>1, <2>2 DEF PlanWith
  <2>3. CASE f # d.flaw
    BY <1>1, <2>1, <2>3 DEF PlanWith, Extends, Decided
  <2>4. QED
    BY <2>2, <2>3
<1>4. Broken(PlanWith(d)) = {}
  <2> SUFFICES ASSUME NEW g \in Nogoods, \A c \in g : PlanWith(d)[c[1]] = c[2]
               PROVE  FALSE
    BY DEF Broken
  <2>1. ASSUME NEW c \in g PROVE s[c[1]] = c[2]
    <3>1. c \in Flaw \X (Nat \ {0})
      BY ProblemAssumption
    <3>2. c[1] \in Flaw /\ c[2] # 0 /\ PlanWith(d)[c[1]] = c[2]
      BY <3>1
    <3>3. QED
      BY <1>3, <3>2 DEF Extends, Decided, Undecided
  <2>2. QED
    BY <2>1, ReachableFacts DEF Broken
<1>5. Violation(PlanWith(d), foreign) <= Violation(plan, foreign)
  BY <1>4, StateTypes, ViolationMonotone
<1>6. QED
  BY <1>2, <1>5, StateTypes DEF EntryOk, ConflictLevelOk

LEMMA NothingLostStep ==
  ASSUME TypeOK, StackInForce, FoundSound, NothingLost, [Next]_vars PROVE NothingLost'
<1> USE DEF search, db, flags, history
<1>0. /\ stack \in Seq(Decision) /\ plan \in Plan /\ Depth = Len(stack) /\ Depth \in Nat
      /\ found \subseteq Plan
  BY StateTypes DEF TypeOK
<1>1. CASE Clear
  <2> SUFFICES ASSUME NEW s \in Reachable PROVE Ahead(s)'
    BY <1>1 DEF NothingLost
  <2>1. /\ exhausted' = FALSE /\ active' = NoDecision /\ Len(stack') = 0
        /\ 1 .. (Len(stack') + 1) - 1 = {}
    BY <1>1 DEF Clear
  <2>2. AgreesWith(stack', s, Len(stack') + 1)
    BY <2>1 DEF AgreesWith
  <2>3. QED
    BY <2>1, <2>2, AheadNext
<1>2. CASE ~Clear
  <2>0. BasePlan' = BasePlan
    BY <1>2, BasePlanStep
  <2> SUFFICES ASSUME complete', NEW s \in Reachable, Extends(s, BasePlan)
               PROVE  Ahead(s)' \/ \E p \in found' : Extends(s, p)
    BY <2>0 DEF NothingLost
  <2>1. CASE StepInconsistent
    BY <2>1 DEF StepInconsistent
  <2>2. ASSUME complete PROVE Ahead(s) \/ \E p \in found : Extends(s, p)
    BY <2>2 DEF NothingLost
  <2>3. CASE Quiet /\ ~StepInconsistent
    <3>1. complete' = complete /\ found \subseteq found' /\ exhausted' = exhausted
      BY <2>3 DEF Quiet, StepCompleted, SolveReturns, CallSolve, SetMaxSteps, SetMaxDepth,
                  PostConflict, RetractConflict, Propagate, vars
    <3>2. active' = active /\ stack' = stack
      BY <2>3, QuietMovesNothing
    <3>3. Ahead(s) => Ahead(s)'
      BY <3>1, <3>2 DEF Ahead, AgreesBelow, Depth
    <3>4. QED
      BY <2>2, <3>1, <3>3
  <2>4. ASSUME StepTimedOut \/ StepSucceeded \/ StepFailed \/ StepDeadEnd
        PROVE  /\ found' = found
               /\ \/ \E p \in found : Extends(s, p)
                  \/ /\ ~exhausted /\ EntryOk
                     /\ Ahead(s)
                     /\ \A d \in Candidates :
                          \/ AheadAt(stack, s)
                          \/ AgreesWith(stack, s, Len(stack) + 1) /\ s[d.flaw] > d.tried
    <3>1. complete' = complete /\ found' = found /\ ~exhausted /\ EntryOk
      BY <2>4 DEF StepTimedOut, StepSucceeded, StepFailed, StepDeadEnd, Stepping
    <3>2. QED
      BY <2>2, <3>1, AheadOfCandidate
  <2>6. CASE StepTimedOut
    <3>1. active' \in Candidates /\ stack' = stack /\ exhausted' = exhausted
      BY <2>6 DEF StepTimedOut
    <3>2. CASE ~ \E p \in found : Extends(s, p)
      <4>1. /\ exhausted' = FALSE
            /\ \/ AheadAt(stack', s)
               \/ AgreesWith(stack', s, Len(stack') + 1) /\ s[active'.flaw] > active'.tried
        <5>1. exhausted \in BOOLEAN
          BY DEF TypeOK
        <5>2. QED
          BY <2>4, <2>6, <3>1, <3>2, <5>1
      <4>2. QED
        BY <4>1, AheadNext
    <3>3. QED
      BY <2>4, <2>6, <3>2
  <2>7. CASE StepSucceeded
    <3>1. PICK d \in Candidates : stack' = Append(stack, Executed(d))
      BY <2>7 DEF StepSucceeded
    <3>2. active' = NoDecision /\ exhausted' = exhausted
      BY <2>7 DEF StepSucceeded
    <3>3. /\ d \in Decision /\ Executed(d) \in Decision
          /\ Executed(d).flaw = d.flaw /\ Executed(d).tried = d.tried + 1
      BY CandidateOpen, DecisionOps
    <3>4. CASE ~ \E p \in found : Extends(s, p)
      <4>1. AheadAt(stack, s) \/ (AgreesWith(stack, s, Len(stack) + 1) /\ s[d.flaw] > d.tried)
        BY <2>4, <2>7, <3>4
      <4>2. s[d.flaw] > d.tried => s[d.flaw] > d.tried + 1 \/ s[d.flaw] = d.tried + 1
        BY <3>3, ReachableFacts DEF Decision
      <4>3. AheadAt(stack', s) \/ AgreesWith(stack', s, Len(stack) + 2)
        BY <1>0, <3>1, <3>3, <4>1, <4>2, AgreesAppend
      <4>4. Len(stack) + 2 = Len(stack') + 1
        BY <1>0, <3>1, <3>3, Appending
      <4>5. exhausted' = FALSE
        BY <2>4, <2>7, <3>2, <3>4 DEF TypeOK
      <4>6. QED
        BY <3>2, <4>3, <4>4, <4>5, AheadNext
    <3>5. QED
      BY <2>4, <2>7, <3>4
  <2>8. CASE StepFailed
    <3>1. PICK d \in Candidates :
            /\ CanTry(d) /\ ~ConflictLevelOk(PlanWith(d))
            /\ Backtrack(Append(stack, Executed(d)), PlanWith(d), Violation(PlanWith(d), foreign))
      BY <2>8 DEF StepFailed
    <3>3. /\ d \in Decision /\ Executed(d) \in Decision
          /\ Executed(d).flaw = d.flaw /\ Executed(d).tried = d.tried + 1
      BY CandidateOpen, DecisionOps
    <3>4. CASE ~ \E p \in found : Extends(s, p)
      <4>1. AheadAt(stack, s) \/ (AgreesWith(stack, s, Len(stack) + 1) /\ s[d.flaw] > d.tried)
        BY <2>4, <2>8, <3>4
      <4>2. s[d.flaw] > d.tried => s[d.flaw] > d.tried + 1 \/ s[d.flaw] = d.tried + 1
        BY <3>3, ReachableFacts DEF Decision
      <4>3. ~(AgreesWith(stack, s, Len(stack) + 1) /\ s[d.flaw] = d.tried + 1)
        BY <2>4, <2>8, <3>1, <3>4, SolutionChoiceSucceeds
      <4>4. AheadAt(Append(stack, Executed(d)), s)
        BY <1>0, <3>3, <4>1, <4>2, <4>3, AgreesAppend
      <4>5. /\ exhausted' = FALSE
            /\ \/ AheadAt(stack', s)
               \/ /\ AgreesWith(stack', s, Len(stack') + 1)
                  /\ active' # NoDecision /\ s[active'.flaw] > active'.tried
        BY <3>1, <4>4, ExecutedStands, BacktrackAhead
      <4>6. QED
        BY <4>5, AheadNext
    <3>5. QED
      BY <2>4, <2>8, <3>4
  <2>9. CASE StepDeadEnd
    <3>1. PICK d \in Candidates :
            ~CanTry(d) /\ Backtrack(Append(stack, d), plan, Violation(plan, foreign))
      BY <2>9 DEF StepDeadEnd
    <3>3. d \in Decision
      BY CandidateOpen
    <3>4. CASE ~ \E p \in found : Extends(s, p)
      <4>1. AheadAt(stack, s) \/ (AgreesWith(stack, s, Len(stack) + 1) /\ s[d.flaw] > d.tried)
        BY <2>4, <2>9, <3>4
      <4>2. ~(s[d.flaw] > d.tried)
        BY <3>1, <3>3, ShortCanTry
      <4>3. AheadAt(Append(stack, d), s)
        BY <1>0, <3>3, <4>1, <4>2, AgreesAppend
      <4>5. /\ exhausted' = FALSE
            /\ \/ AheadAt(stack', s)
               \/ /\ AgreesWith(stack', s, Len(stack') + 1)
                  /\ active' # NoDecision /\ s[active'.flaw] > active'.tried
        BY <1>0, <3>1, <4>3, UntriedStands, BacktrackAhead
      <4>6. QED
        BY <4>5, AheadNext
    <3>5. QED
      BY <2>4, <2>9, <3>4
  <2>10. ASSUME NEW n \in 0 .. Depth, Reset(n)
         PROVE  Ahead(s)' \/ \E p \in found' : Extends(s, p)
    <3> DEFINE k == Depth - n + 1
    <3>1. k \in 1 .. Len(stack) + 1 /\ Depth - n = k - 1
      BY <1>0
    <3>2. /\ stack' = SubSeq(stack, 1, k - 1) /\ plan' = Before(stack, plan, k)
          /\ active' = NoDecision /\ exhausted' = FALSE
          /\ found' = {p \in found : ~Extends(p, plan')}
          /\ complete' = (complete \/ stack' = << >>)
      BY <2>10, <3>1, DroppedIsBefore DEF Reset, FoundOutside
    <3> HIDE DEF k
    <3>3. /\ Len(stack') = k - 1 /\ \A i \in 1 .. k - 1 : stack'[i] = stack[i]
          /\ \A i \in 1 .. k : AgreesWith(stack', s, i) <=> AgreesWith(stack, s, i)
      BY <1>0, <3>1, <3>2, Cutting, AgreesCut
    <3>4. ASSUME AgreesWith(stack, s, k) PROVE Ahead(s)'
      <4>1. AgreesWith(stack', s, Len(stack') + 1)
        BY <3>1, <3>3, <3>4
      <4>2. QED
        BY <3>2, <4>1, AheadNext
    <3>5. ASSUME stack' = << >> PROVE Ahead(s)'
      <4>1. k = 1
        BY <3>1, <3>3, <3>5
      <4>2. 1 .. k - 1 = {}
        BY <4>1
      <4>3. QED
        BY <3>4, <4>2 DEF AgreesWith
    <3>6. ASSUME AheadAt(stack, s) PROVE Ahead(s)'
      <4>1. PICK i \in 1 .. Len(stack) : AgreesWith(stack, s, i) /\ s[stack[i].flaw] > stack[i].tried
        BY <3>6 DEF AheadAt
      <4>2. CASE i < k
        <5>1. i \in 1 .. Len(stack') /\ AgreesWith(stack', s, i) /\ s[stack'[i].flaw] > stack'[i].tried
          BY <3>1, <3>3, <4>1, <4>2
        <5>2. QED
          BY <3>2, <5>1, AheadNext DEF AheadAt
      <4>3. CASE i >= k
        BY <1>0, <3>1, <3>4, <4>1, <4>3, AgreesEarlier
      <4>4. QED
        BY <1>0, <3>1, <4>2, <4>3
    <3>7. ASSUME AgreesWith(stack, s, Len(stack) + 1) PROVE Ahead(s)'
      BY <1>0, <3>1, <3>4, <3>7, AgreesEarlier
    <3>8. ASSUME NEW p \in found, Extends(s, p), Extends(p, plan') PROVE Ahead(s)'
      <4>1. plan' \in Plan /\ p \in Plan /\ s \in Plan
        BY <1>0, <3>2, BeforeType, ReachableFacts
      <4>2. Extends(s, plan')
        BY <3>8, <4>1, ExtendsTransitive
      <4>3. Standing(stack', plan') /\ AllExecuted(stack')
        BY <1>0, <3>1, <3>2, CutStands DEF StackInForce
      <4>4. AgreesWith(stack', plan', Len(stack') + 1)
        <5>1. stack' \in Seq(Decision)
          BY <1>0, <3>1, <3>2, Cutting
        <5>2. QED
          BY <4>3, <5>1, PlanAgrees
      <4>5. ASSUME NEW j \in 1 .. (Len(stack') + 1) - 1
            PROVE  s[stack'[j].flaw] = stack'[j].tried
        <5>1. j \in 1 .. Len(stack') /\ stack'[j] = stack[j] /\ stack[j] \in Decision
          BY <1>0, <3>1, <3>3
        <5>2. plan'[stack'[j].flaw] = stack'[j].tried /\ stack'[j].tried > 0 /\ stack'[j].flaw \in Flaw
          BY <4>3, <5>1 DEF Standing, AllExecuted, Decision
        <5>3. QED
          BY <4>2, <5>2 DEF Extends, Decided, Undecided
      <4>6. AgreesWith(stack', s, Len(stack') + 1)
        BY <4>5 DEF AgreesWith
      <4>7. QED
        BY <3>2, <4>6, AheadNext
    <3>9. QED
      BY <2>2, <3>2, <3>5, <3>6, <3>7, <3>8, AheadDef
  <2>11. ASSUME NEW n \in 0 .. Depth + 1, Backjump(n)
         PROVE  Ahead(s)' \/ \E p \in found' : Extends(s, p)
    <3>1. /\ complete /\ JumpReset(n) = 0 /\ noFlawsFound /\ found' = found
          /\ Backtrack(SubSeq(stack, 1, Depth - 0), Retract(plan, Dropped(0)), level)
      BY <2>11, BackjumpOutcome DEF Backjump
    <3>2. active = NoDecision /\ plan \in found
      BY <3>1 DEF FoundSound
    <3>3. SubSeq(stack, 1, Depth - 0) = stack
      BY <1>0
    <3>4. Retract(plan, Dropped(0)) \in Plan /\ Standing(stack, Retract(plan, Dropped(0)))
      <4>1. 0 \in 0 .. Depth
        BY <1>0
      <4>2. QED
        BY <3>3, <4>1, DroppedStands
    <3>5. CASE AheadAt(stack, s)
      <4>1. /\ exhausted' = FALSE
            /\ \/ AheadAt(stack', s)
               \/ /\ AgreesWith(stack', s, Len(stack') + 1)
                  /\ active' # NoDecision /\ s[active'.flaw] > active'.tried
        BY <1>0, <3>1, <3>3, <3>4, <3>5, BacktrackAhead
      <4>2. QED
        BY <4>1, AheadNext
    <3>6. CASE AgreesWith(stack, s, Len(stack) + 1)
      <4>1. Extends(s, Before(stack, plan, 1))
        BY BasePlanIsBefore
      <4>2. Len(stack) + 1 \in 1 .. Len(stack) + 1
        BY <1>0
      <4>3. Extends(s, Before(stack, plan, Len(stack) + 1))
        BY <1>0, <3>6, <4>1, <4>2, AgreesExtends DEF StackInForce
      <4>4. Before(stack, plan, Len(stack) + 1) = plan
        <5>1. Len(stack) + 1 .. Len(stack) = {}
          BY <1>0
        <5>2. {stack[j].flaw : j \in Len(stack) + 1 .. Len(stack)} = {}
          BY <5>1
        <5>3. QED
          BY <1>0, <5>2 DEF Before, Without, Plan
      <4>5. QED
        BY <3>1, <3>2, <4>3, <4>4
    <3>7. QED
      BY <2>2, <3>1, <3>5, <3>6, AheadDef
  <2>12. QED
    BY <1>2, <2>1, <2>3, <2>6, <2>7, <2>8, <2>9, <2>10, <2>11, NextCases
<1>3. QED
  BY <1>1, <1>2

(* While no alternative is thrown away untried, every solution the search  *)
(* can express is still ahead of its frontier or has been reported:        *)
(* backtracking stops below none of them, a choice on the way to one does  *)
(* not fail, and what a partial reset forgets it can find again.           *)
LEMMA NothingLostAlways ==
  Spec => [](TypeOK /\ StackInForce /\ LevelSound /\ FoundSound /\ NothingLost)
<1>1. Init => NothingLost
  <2> SUFFICES ASSUME Init, NEW s \in Reachable PROVE Ahead(s)
    BY DEF NothingLost
  <2>1. ~exhausted /\ active = NoDecision /\ stack = << >> /\ 1 .. (Len(stack) + 1) - 1 = {}
    BY DEF Init
  <2>2. AgreesWith(stack, s, Len(stack) + 1)
    BY <2>1 DEF AgreesWith
  <2>3. QED
    BY <2>1, <2>2, AheadDef
<1>2. TypeOK /\ StackInForce /\ FoundSound /\ NothingLost /\ [Next]_vars => NothingLost'
  BY NothingLostStep
<1>3. QED
  BY <1>1, <1>2, FoundAlways, PTL DEF Spec

THEOREM NothingIsLost == Spec => []NothingLost
  BY NothingLostAlways, PTL

(* A search that ends exhausted without having discarded an alternative    *)
(* has reported every solution that extends what it started from.          *)
THEOREM ExhaustionProves == Spec => []ExhaustionIsProof
<1>1. NothingLost => ExhaustionIsProof
  BY DEF NothingLost, ExhaustionIsProof, Ahead
<1>2. QED
  BY <1>1, NothingLostAlways, PTL
-----------------------------------------------------------------------------
(* The limits.                                                             *)

(* A difference of counters taken modulo m that is below the limit leaves  *)
(* room for one more, whether or not the counter wraps.                    *)
LEMMA WrappedDifference ==
  ASSUME NEW m \in Nat \ {0}, NEW x \in 0 .. m - 1, NEW y \in 0 .. m - 1, NEW l \in Nat,
         (x - y) % m < l
  PROVE  ((x + 1) % m) - y <= l
<1>1. CASE x >= y
  <2>1. x - y \in 0 .. m - 1
    BY <1>1
  <2>2. (x - y) % m = x - y
    BY <2>1
  <2>3. (x + 1) % m <= x + 1
    <3>1. CASE x + 1 < m
      BY <3>1
    <3>2. CASE x + 1 = m
      <4>1. m % m = 0
        OBVIOUS
      <4>2. QED
        BY <3>2, <4>1
    <3>3. QED
      BY <3>1, <3>2
  <2>4. (x + 1) % m \in Nat
    OBVIOUS
  <2>5. QED
    BY <2>2, <2>3, <2>4
<1>2. CASE x < y
  <2>1. x + 1 \in 0 .. m - 1
    BY <1>2
  <2>2. (x + 1) % m = x + 1
    BY <2>1
  <2>3. QED
    BY <1>2, <2>2
<1>3. QED
  BY <1>1, <1>2

(* The depth is compared in wider arithmetic than the limit is given in.   *)
LEMMA WideDifference ==
  ASSUME NEW m \in Nat \ {0}, NEW x \in Nat, NEW y \in Nat, NEW l \in Nat,
         l + 1 < m, x - y <= l + 1, ~(l < (x - y) % m)
  PROVE  x + 1 - y <= l + 1
<1>1. CASE x >= y
  <2>1. x - y \in 0 .. m - 1
    BY <1>1
  <2>2. (x - y) % m = x - y
    BY <2>1
  <2>3. QED
    BY <2>2
<1>2. CASE x < y
  BY <1>2
<1>3. QED
  BY <1>1, <1>2

LEMMA SmallerDifference ==
  ASSUME NEW x \in Nat, NEW y \in Nat, NEW z \in Nat, NEW l \in Nat, x <= z, z - y <= l
  PROVE  x - y <= l
  OBVIOUS

LEMMA StackShrinks ==
  ASSUME TypeOK, StackInForce, StepFailed \/ StepDeadEnd
  PROVE  Len(stack') \in Nat /\ Len(stack') <= Depth
<1>1. CASE StepFailed
  <2>1. PICK d \in Candidates :
          CanTry(d) /\ Backtrack(Append(stack, Executed(d)), PlanWith(d), Violation(PlanWith(d), foreign))
    BY <1>1 DEF StepFailed
  <2> DEFINE ds == Append(stack, Executed(d))
  <2>2. ds \in Seq(Decision) /\ PlanWith(d) \in Plan /\ Standing(ds, PlanWith(d))
    BY <2>1, ExecutedStands
  <2>3. Len(ds) = Depth + 1
    BY CandidateOpen, DecisionOps, StateTypes, Appending
  <2>4. Backtrack(ds, PlanWith(d), Violation(PlanWith(d), foreign))
    BY <2>1
  <2> HIDE DEF ds
  <2>5. ds # << >>
    BY <2>3, StateTypes
  <2>6. Len(stack') < Len(ds)
    BY <2>2, <2>4, <2>5, BacktrackStands
  <2>7. Len(stack') \in Nat
    <3>1. stack' = << >> \/ \E k \in 1 .. Len(ds) : stack' = SubSeq(ds, 1, k - 1)
      BY <2>2, <2>4, BacktrackOutcome DEF Resumable
    <3>2. QED
      BY <2>2, <3>1
  <2>8. QED
    BY <2>3, <2>6, <2>7, StateTypes
<1>2. CASE StepDeadEnd
  <2>1. PICK d \in Candidates : Backtrack(Append(stack, d), plan, Violation(plan, foreign))
    BY <1>2 DEF StepDeadEnd
  <2> DEFINE ds == Append(stack, d)
  <2>2. ds \in Seq(Decision) /\ plan \in Plan /\ Standing(ds, plan)
    BY UntriedStands, StateTypes
  <2>3. Len(ds) = Depth + 1
    BY CandidateOpen, StateTypes, Appending
  <2>4. Backtrack(ds, plan, Violation(plan, foreign))
    BY <2>1
  <2> HIDE DEF ds
  <2>5. ds # << >>
    BY <2>3, StateTypes
  <2>6. Len(stack') < Len(ds)
    BY <2>2, <2>4, <2>5, BacktrackStands
  <2>7. Len(stack') \in Nat
    <3>1. stack' = << >> \/ \E k \in 1 .. Len(ds) : stack' = SubSeq(ds, 1, k - 1)
      BY <2>2, <2>4, BacktrackOutcome DEF Resumable
    <3>2. QED
      BY <2>2, <3>1
  <2>8. QED
    BY <2>3, <2>6, <2>7, StateTypes
<1>3. QED
  BY <1>1, <1>2

LEMMA LimitsStep ==
  ASSUME TypeOK, StackInForce, LimitsSound, LimitsRespected, [Next]_vars
  PROVE  LimitsSound' /\ LimitsRespected'
<1> USE DEF search, control, flags
<1>0. /\ UIntMod \in Nat \ {0} /\ ULongMod \in Nat \ {0} /\ UIntMod < ULongMod
      /\ stepCount \in 0 .. UIntMod - 1 /\ stepCountFloor \in 0 .. UIntMod - 1
      /\ maxSteps \in 0 .. UIntMod - 1 /\ maxDepth \in 0 .. UIntMod - 1
      /\ depthFloor \in Nat /\ Depth \in Nat /\ Depth = Len(stack)
      /\ StepLimits \subseteq 0 .. UIntMod - 1 /\ DepthLimits \subseteq 0 .. UIntMod - 1
  BY SolverAssumption, WidthAssumption, StateTypes DEF TypeOK, LimitsSound
<1>1. ASSUME NEW s \in StepLimits, NEW d \in DepthLimits, CallSolve(s, d)
      PROVE  LimitsSound' /\ LimitsRespected'
  BY <1>0, <1>1 DEF CallSolve, LimitsSound, LimitsRespected, Depth
<1>2. ASSUME ~solving', UNCHANGED <<maxSteps, maxDepth>>
      PROVE  LimitsSound' /\ LimitsRespected'
  BY <1>2 DEF LimitsSound, LimitsRespected
<1>3. CASE \/ \E s \in StepLimits : SetMaxSteps(s)
           \/ \E d \in DepthLimits : SetMaxDepth(d)
  BY <1>0, <1>3 DEF SetMaxSteps, SetMaxDepth, LimitsSound, LimitsRespected
<1>4. CASE \/ SolveReturns \/ Clear \/ PostConflict \/ RetractConflict \/ Propagate
           \/ \E n \in 0 .. Depth : Reset(n)
           \/ \E n \in 0 .. Depth + 1 : Backjump(n)
  BY <1>2, <1>4 DEF SolveReturns, Clear, PostConflict, RetractConflict, Propagate, Reset, Backjump
<1>5. CASE StepInconsistent \/ StepCompleted \/ StepTimedOut \/ UNCHANGED vars
  BY <1>5 DEF StepInconsistent, StepCompleted, StepTimedOut, vars,
              LimitsSound, LimitsRespected, Depth
<1>6. ASSUME ~LimitReached, solving
      PROVE  /\ ((stepCount + 1) % UIntMod) - stepCountFloor <= maxSteps
             /\ Depth + 1 - depthFloor <= maxDepth + 1
  <2>1. (stepCount - stepCountFloor) % UIntMod < maxSteps
    <3>1. (stepCount - stepCountFloor) % UIntMod \in Nat
      BY <1>0, ModWithin
    <3>2. QED
      BY <1>0, <1>6, <3>1 DEF LimitReached
  <2>2. ((stepCount + 1) % UIntMod) - stepCountFloor <= maxSteps
    BY <1>0, <2>1, WrappedDifference
  <2>3. Depth - depthFloor <= maxDepth + 1
    BY <1>6 DEF LimitsRespected
  <2>4. ~(maxDepth < (Depth - depthFloor) % ULongMod)
    BY <1>6 DEF LimitReached
  <2>5. Depth + 1 - depthFloor <= maxDepth + 1
    BY <1>0, <2>3, <2>4, WideDifference
  <2>6. QED
    BY <2>2, <2>5
<1>7. CASE StepSucceeded
  <2>1. /\ stepCount' = (stepCount + 1) % UIntMod /\ ~LimitReached
        /\ UNCHANGED <<stepCountFloor, depthFloor, maxSteps, maxDepth, solving>>
    BY <1>7 DEF StepSucceeded
  <2>2. Depth' = Depth + 1
    <3>1. PICK d \in Candidates : stack' = Append(stack, Executed(d))
      BY <1>7 DEF StepSucceeded
    <3>2. QED
      BY <3>1, CandidateOpen, DecisionOps, StateTypes, Appending DEF Depth
  <2>3. ASSUME solving
        PROVE  stepCount' - stepCountFloor' <= maxSteps' /\ Depth' - depthFloor' <= maxDepth' + 1
    <3>1. /\ ((stepCount + 1) % UIntMod) - stepCountFloor <= maxSteps
          /\ Depth + 1 - depthFloor <= maxDepth + 1
      BY <1>6, <2>1, <2>3
    <3>2. stepCount' - stepCountFloor' <= maxSteps'
      BY <2>1, <3>1
    <3>3. Depth' - depthFloor' <= maxDepth' + 1
      <4>1. depthFloor' = depthFloor /\ maxDepth' = maxDepth
        BY <2>1
      <4>2. QED
        BY <1>0, <2>2, <3>1, <4>1
    <3>4. QED
      BY <3>2, <3>3
  <2>4. LimitsRespected'
    BY <2>1, <2>3 DEF LimitsRespected
  <2>5. QED
    BY <2>1, <2>4 DEF LimitsSound
<1>8. CASE StepFailed \/ StepDeadEnd
  <2>1. /\ stepCount' \in {stepCount, (stepCount + 1) % UIntMod} /\ ~LimitReached
        /\ UNCHANGED <<stepCountFloor, depthFloor, maxSteps, maxDepth, solving>>
    BY <1>8 DEF StepFailed, StepDeadEnd
  <2>2. Depth' \in Nat /\ Depth' <= Depth
    BY <1>8, StackShrinks DEF Depth
  <2>3. ASSUME solving
        PROVE  stepCount' - stepCountFloor' <= maxSteps' /\ Depth' - depthFloor' <= maxDepth' + 1
    <3>1. stepCount - stepCountFloor <= maxSteps /\ Depth - depthFloor <= maxDepth + 1
      BY <2>3 DEF LimitsRespected
    <3>2. Depth' - depthFloor <= maxDepth + 1
      <4>1. maxDepth + 1 \in Nat
        BY <1>0
      <4>2. QED
        BY <1>0, <2>2, <3>1, <4>1, SmallerDifference
    <3>3. stepCount' - stepCountFloor <= maxSteps
      BY <1>6, <2>1, <2>3, <3>1
    <3>4. QED
      BY <2>1, <3>2, <3>3
  <2>4. LimitsRespected'
    BY <2>1, <2>3 DEF LimitsRespected
  <2>5. QED
    BY <2>1, <2>4 DEF LimitsSound
<1>9. QED
  BY <1>1, <1>3, <1>4, <1>5, <1>7, <1>8 DEF Next, Step, Client

(* solve() takes at most maxSteps further steps and its stack grows by at  *)
(* most one decision more than maxDepth: the unsigned differences that     *)
(* limitReached compares never hide an excess, though both counters may    *)
(* wrap and the floors may lie above them.                                 *)
THEOREM LimitsAreRespected == Spec => []LimitsRespected
<1>1. Init => LimitsSound /\ LimitsRespected
  BY SolverAssumption DEF Init, LimitsSound, LimitsRespected
<1>2. TypeOK /\ StackInForce /\ LimitsSound /\ LimitsRespected /\ [Next]_vars
        => LimitsSound' /\ LimitsRespected'
  BY LimitsStep
<1>3. QED
  BY <1>1, <1>2, StackAlways, PTL DEF Spec
=============================================================================
