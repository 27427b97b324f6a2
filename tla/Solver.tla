------------------------------- MODULE Solver -------------------------------
(***************************************************************************)
(* SOLVERS::Solver: chronological backtracking over a stack of decisions.  *)
(* The client calls solve, step, reset, backjump and clear; between calls  *)
(* it may also change the plan database under the solver.  The whole of    *)
(* doStep, with its two propagations and its backtracking loop, runs       *)
(* inside one call and is one action here.                                 *)
(***************************************************************************)
EXTENDS SearchProblem, Sequences

CONSTANTS
  NoDecision,   \* DecisionPointId::noId()
  UIntMod,      \* 2^w for the width w of unsigned int
  ULongMod,     \* 2^w for the width w of unsigned long
  StepLimits,   \* the values the client gives for maxSteps
  DepthLimits,  \* the values the client gives for maxDepth
  MaxForeign    \* bound: how many conflicts the client may post

ASSUME SolverAssumption ==
  /\ NoDecision \notin [flaw : Flaw, tried : Nat, executed : BOOLEAN]
  /\ UIntMod \in Nat \ {0} /\ ULongMod \in Nat \ {0}
  /\ StepLimits \subseteq 0 .. UIntMod - 1 /\ DepthLimits \subseteq 0 .. UIntMod - 1
  /\ MaxForeign \in Nat

(* The limits are of type unsigned int; the depth is compared in the       *)
(* arithmetic of vector::size_type, which is wider where the code is built *)
(* for 64 bits.                                                            *)
ASSUME WidthAssumption == UIntMod < ULongMod

VARIABLES
  active,          \* m_activeDecision
  stack,           \* m_decisionStack
  stepCount,       \* m_stepCount
  stepCountFloor,  \* m_stepCountFloor
  depthFloor,      \* m_depthFloor
  maxSteps,        \* m_maxSteps
  maxDepth,        \* m_maxDepth
  noFlawsFound,    \* m_noFlawsFound
  exhausted,       \* m_exhausted
  timedOut,        \* m_timedOut
  solving,         \* is the loop of solve() running?
  plan,            \* the plan database: the choice in force for each flaw
  foreign,         \* conflicts in the database that the client posted
  level,           \* what getViolation() answers now
  posted,          \* history: the conflicts posted so far
  found,           \* history: the plans reported complete by this search
  complete         \* history: no alternative was discarded untried

control == <<stepCountFloor, depthFloor, maxSteps, maxDepth>>
flags   == <<noFlawsFound, exhausted, timedOut>>
search  == <<active, stack, stepCount>>
db      == <<plan, foreign, level, posted>>
history == <<found, complete>>
vars    == <<search, control, flags, solving, db, history>>

Depth == Len(stack)

Decision == [flaw : Flaw, tried : Nat, executed : BOOLEAN]

TypeOK ==
  /\ active \in Decision \cup {NoDecision}
  /\ stack \in Seq(Decision)
  /\ stepCount \in 0 .. UIntMod - 1 /\ stepCountFloor \in 0 .. UIntMod - 1
  /\ depthFloor \in Nat
  /\ maxSteps \in Nat /\ maxDepth \in Nat
  /\ noFlawsFound \in BOOLEAN /\ exhausted \in BOOLEAN /\ timedOut \in BOOLEAN
  /\ solving \in BOOLEAN
  /\ plan \in Plan
  /\ foreign \in Nat /\ level \in Nat /\ posted \in 0 .. MaxForeign
  /\ found \subseteq Plan
  /\ complete \in BOOLEAN

Init ==
  /\ active = NoDecision /\ stack = << >>
  /\ stepCount = 0 /\ stepCountFloor = 0 /\ depthFloor = 0
  /\ maxSteps = UIntMod - 1 /\ maxDepth = UIntMod - 1
  /\ noFlawsFound = FALSE /\ exhausted = FALSE /\ timedOut = FALSE
  /\ solving = FALSE
  /\ plan = EmptyPlan
  /\ foreign = 0 /\ level = 0 /\ posted = 0
  /\ found = {} /\ complete = TRUE
-----------------------------------------------------------------------------
(* A definition whose name says what is wrong with it is a mutated form of *)
(* the one after it; no specification uses it.                             *)
(*                                                                         *)
(* Decision points.  tried is DecisionPoint::m_counter; the cursor that a  *)
(* subclass keeps over its choices moves once for each execution too.      *)
NewDecision(f) == [flaw |-> f, tried |-> 0, executed |-> FALSE]

HasNextOneTooMany(d) == d.tried <= NumChoices[d.flaw]

Cut(d)     == Cutoff[d.flaw] > 0 /\ d.tried >= Cutoff[d.flaw]
HasNext(d) == d.tried < NumChoices[d.flaw]
CanTry(d)  == ~Cut(d) /\ HasNext(d)

Executed(d) == [flaw |-> d.flaw, tried |-> d.tried + 1, executed |-> TRUE]

UndoneStillExecuted(d) == d
UndoneSkipping(d) == [d EXCEPT !.tried = @ + 1, !.executed = FALSE]
UndoneStartingOver(d) == [d EXCEPT !.tried = 0, !.executed = FALSE]
Undone(d) == [d EXCEPT !.executed = FALSE]

PlanWith(d) == [plan EXCEPT ![d.flaw] = d.tried + 1]

(* The plan after the executed decisions of a sequence are undone.         *)
Retract(p, ds) ==
  Without(p, {ds[i].flaw : i \in {j \in 1 .. Len(ds) : ds[j].executed}})

(* Undoing a decision relaxes domains, and relaxing forgets violations     *)
(* until the next propagation finds again those that remain.  Where        *)
(* nothing is undone the violation stays what it was.                      *)
LevelAfter(ds, p, before) ==
  IF \E i \in 1 .. Len(ds) : ds[i].executed THEN 0 .. Violation(p, foreign) ELSE {before}
-----------------------------------------------------------------------------
(* backtrack(): ds is the decision stack with the active decision, if any, *)
(* on top.  Decisions are undone from the top down to the last one that    *)
(* has a choice left, which becomes the active decision; the others are    *)
(* deleted.  Without such a decision the search is exhausted.              *)
ResumableOneLevel(ds) == {i \in 1 .. Len(ds) : i = Len(ds) /\ CanTry(ds[i])}
Resumable(ds) == {i \in 1 .. Len(ds) : CanTry(ds[i])}

Backtrack(ds, p, before) ==
  \/ /\ Resumable(ds) = {}
     /\ active' = NoDecision /\ stack' = << >>
     /\ plan' = Retract(p, ds)
     /\ level' \in LevelAfter(ds, plan', before)
     /\ exhausted' = TRUE
  \/ \E k \in Resumable(ds) :
       LET popped == SubSeq(ds, k, Len(ds))
       IN  /\ \A j \in Resumable(ds) : j <= k
           /\ active' = Undone(ds[k]) /\ stack' = SubSeq(ds, 1, k - 1)
           /\ plan' = Retract(p, popped)
           /\ level' \in LevelAfter(popped, plan', before)
           /\ exhausted' = FALSE
-----------------------------------------------------------------------------
(* doStep().  Guard: solve() loops until a flag is set; a direct call of   *)
(* step() is only legal while the search is not exhausted.                 *)
Stepping ==
  /\ ~exhausted
  /\ solving => ~timedOut /\ ~noFlawsFound

(* The first propagation did not raise the violation found on entry, so    *)
(* the step goes on, with that violation as m_baseConflictLevel.           *)
ConflictLevelNearlyOk(p) == Violation(p, foreign) <= level + 1
ConflictLevelOk(p) == Violation(p, foreign) <= level

EntryOk == ConflictLevelOk(plan)

(* The decision that the step works on: the one kept from before, or else  *)
(* a new one on whichever open flaw the flaw managers prefer.              *)
Candidates ==
  IF active # NoDecision THEN {active}
  ELSE {NewDecision(f) : f \in OpenFlaws(plan)}

(* Both differences are taken in unsigned arithmetic.                      *)
LimitReachedLate ==
  \/ maxSteps < (stepCount - stepCountFloor) % UIntMod
  \/ maxDepth < (Depth - depthFloor) % ULongMod

LimitReached ==
  \/ maxSteps <= (stepCount - stepCountFloor) % UIntMod
  \/ maxDepth < (Depth - depthFloor) % ULongMod

StepInconsistent ==
  /\ Stepping /\ ~EntryOk
  /\ exhausted' = TRUE
  /\ level' = Violation(plan, foreign)
  /\ complete' = FALSE
  /\ UNCHANGED <<search, control, noFlawsFound, timedOut, solving, plan, foreign, posted, found>>

StepCompleted ==
  /\ Stepping /\ EntryOk
  /\ Candidates = {}
  /\ noFlawsFound' = TRUE
  /\ level' = Violation(plan, foreign)
  /\ found' = found \cup {plan}
  /\ UNCHANGED <<search, control, exhausted, timedOut, solving, plan, foreign, posted, complete>>

StepTimedOut ==
  /\ Stepping /\ EntryOk /\ LimitReached
  /\ active' \in Candidates
  /\ timedOut' = TRUE
  /\ noFlawsFound' = FALSE
  /\ level' = Violation(plan, foreign)
  /\ UNCHANGED <<stack, stepCount, control, exhausted, solving, plan, foreign, posted, history>>

StepSucceeded ==
  /\ Stepping /\ EntryOk /\ ~LimitReached
  /\ \E d \in Candidates :
       /\ CanTry(d)
       /\ ConflictLevelOk(PlanWith(d))
       /\ plan' = PlanWith(d)
       /\ stack' = Append(stack, Executed(d))
  /\ active' = NoDecision
  /\ stepCount' = (stepCount + 1) % UIntMod
  /\ level' = Violation(plan', foreign)
  /\ noFlawsFound' = FALSE
  /\ UNCHANGED <<control, exhausted, timedOut, solving, foreign, posted, history>>

(* The choice raised the violation: it is retracted by the backtracking.   *)
StepFailed ==
  /\ Stepping /\ EntryOk /\ ~LimitReached
  /\ \E d \in Candidates :
       /\ CanTry(d)
       /\ ~ConflictLevelOk(PlanWith(d))
       /\ Backtrack(Append(stack, Executed(d)), PlanWith(d), Violation(PlanWith(d), foreign))
  /\ stepCount' = (stepCount + 1) % UIntMod
  /\ noFlawsFound' = FALSE
  /\ UNCHANGED <<control, timedOut, solving, foreign, posted, history>>

(* The decision has no choice: a dead end.                                 *)
StepDeadEnd ==
  /\ Stepping /\ EntryOk /\ ~LimitReached
  /\ \E d \in Candidates :
       /\ ~CanTry(d)
       /\ Backtrack(Append(stack, d), plan, Violation(plan, foreign))
  /\ noFlawsFound' = FALSE
  /\ UNCHANGED <<stepCount, control, timedOut, solving, foreign, posted, history>>

Step ==
  \/ StepInconsistent \/ StepCompleted \/ StepTimedOut
  \/ StepSucceeded \/ StepFailed \/ StepDeadEnd
-----------------------------------------------------------------------------
(* solve(): note that an exhausted search stays exhausted.                 *)
CallSolve(s, d) ==
  /\ ~solving
  /\ solving' = TRUE
  /\ stepCountFloor' = stepCount /\ depthFloor' = Depth
  /\ maxSteps' = s /\ maxDepth' = d
  /\ noFlawsFound' = FALSE /\ timedOut' = FALSE
  /\ UNCHANGED <<search, exhausted, db, history>>

SolveReturns ==
  /\ solving
  /\ timedOut \/ exhausted \/ noFlawsFound
  /\ solving' = FALSE
  /\ UNCHANGED <<search, control, flags, db, history>>

SetMaxSteps(s) ==
  /\ ~solving
  /\ maxSteps' = s
  /\ UNCHANGED <<search, stepCountFloor, depthFloor, maxDepth, flags, solving, db, history>>

SetMaxDepth(d) ==
  /\ ~solving
  /\ maxDepth' = d
  /\ UNCHANGED <<search, stepCountFloor, depthFloor, maxSteps, flags, solving, db, history>>

(* The decisions that reset(n) undoes and deletes: the n last of the       *)
(* stack, and the active one.                                              *)
Dropped(n) ==
  LET top == SubSeq(stack, Depth - n + 1, Depth)
  IN  IF active = NoDecision THEN top ELSE Append(top, active)

(* What is found again if the search resumes from plan p is forgotten.     *)
FoundOutside(p) == {q \in found : ~Extends(q, p)}

(* reset(n); reset() is reset(Depth).                                      *)
Reset(n) ==
  /\ ~solving
  /\ active' = NoDecision
  /\ stack' = SubSeq(stack, 1, Depth - n)
  /\ plan' = Retract(plan, Dropped(n))
  /\ level' \in LevelAfter(Dropped(n), plan', level)
  /\ stepCount' = 0
  /\ noFlawsFound' = FALSE /\ exhausted' = FALSE /\ timedOut' = FALSE
  /\ found' = FoundOutside(plan')
  /\ complete' = (complete \/ stack' = << >>)
  /\ UNCHANGED <<control, solving, foreign, posted>>

BackjumpAsReset(n) ==
  /\ ~solving
  /\ n <= Depth
  /\ active' = NoDecision
  /\ stack' = SubSeq(stack, 1, Depth - n)
  /\ plan' = Retract(plan, Dropped(n))
  /\ level' \in LevelAfter(Dropped(n), plan', level)
  /\ stepCount' = 0
  /\ noFlawsFound' = FALSE /\ exhausted' = FALSE /\ timedOut' = FALSE
  /\ UNCHANGED <<control, solving, foreign, posted, history>>

(* backjump(n): an active decision counts as one of the n; all but the     *)
(* last of the others are reset, and the search backtracks from there.     *)
Backjump(n) ==
  LET m == IF active = NoDecision THEN n ELSE n - 1
      r == IF m = 0 THEN 0 ELSE m - 1
  IN  /\ ~solving
      /\ m >= 0 /\ m <= Depth
      /\ Backtrack(SubSeq(stack, 1, Depth - r), Retract(plan, Dropped(r)), level)
      /\ stepCount' = 0
      /\ noFlawsFound' = FALSE /\ timedOut' = FALSE
      /\ complete' = (complete /\ r = 0 /\ noFlawsFound)
      /\ UNCHANGED <<control, solving, foreign, posted, found>>

(* clear(): the decisions are forgotten, what they did to the plan stays.  *)
Clear ==
  /\ ~solving
  /\ active' = NoDecision /\ stack' = << >>
  /\ stepCount' = 0 /\ stepCountFloor' = 0 /\ depthFloor' = 0
  /\ noFlawsFound' = FALSE /\ exhausted' = FALSE /\ timedOut' = FALSE
  /\ found' = {} /\ complete' = TRUE
  /\ UNCHANGED <<maxSteps, maxDepth, solving, db>>
-----------------------------------------------------------------------------
(* The client's other business with the plan database, between calls: it   *)
(* posts a constraint that no plan satisfies, takes one back, propagates.  *)
(* A change may or may not be propagated at once (setAutoPropagation).     *)
PostConflict ==
  /\ ~solving
  /\ posted < MaxForeign
  /\ foreign' = foreign + 1 /\ posted' = posted + 1
  /\ level' \in {level, Violation(plan, foreign')}
  /\ UNCHANGED <<search, control, flags, solving, plan, history>>

RetractConflict ==
  /\ ~solving
  /\ foreign > 0
  /\ foreign' = foreign - 1
  /\ level' \in {l \in 0 .. level : l <= Violation(plan, foreign')}
  /\ UNCHANGED <<search, control, flags, solving, plan, posted, history>>

Propagate ==
  /\ ~solving
  /\ level' = Violation(plan, foreign)
  /\ UNCHANGED <<search, control, flags, solving, plan, foreign, posted, history>>

Client ==
  \/ \E s \in StepLimits, d \in DepthLimits : CallSolve(s, d)
  \/ \E s \in StepLimits : SetMaxSteps(s)
  \/ \E d \in DepthLimits : SetMaxDepth(d)
  \/ \E n \in 0 .. Depth : Reset(n)
  \/ \E n \in 0 .. Depth + 1 : Backjump(n)
  \/ Clear
  \/ PostConflict \/ RetractConflict \/ Propagate

Next == Step \/ SolveReturns \/ Client

(* Once solve() is called its loop runs to the end; nothing obliges the    *)
(* client to call anything.                                                *)
Fairness == WF_vars(solving /\ Step) /\ WF_vars(SolveReturns)

Spec == Init /\ [][Next]_vars

FairSpec == Spec /\ Fairness
=============================================================================
