# A TLA+ model of EUROPA

EUROPA is a C++ library for constraint-based planning and scheduling.  A model
(written in NDDL or ANML, or built through the C++ or Java interface) declares
classes of objects, timelines and resources, predicates, and rules between
predicates.  A plan is a set of *tokens* (a predicate holding of an object over
an interval), each with variables related by constraints.  Planning is the
removal of *flaws*: a token not yet in the plan, a variable without a value, a
timeline without an order, an over-used resource.

This directory holds TLA+ modules that model the library's core logic, TLC
configurations that check them on small instances, and proofs, checked by
TLAPS, that hold for every instance.  `PROJECT.json` is the index: which module
stands for which lines of source, what each run checks, what each hazard in the
code is, and which theorem is proved.  All paths below are relative to
`src/src/PLASMA/`.

## 1. The system

EUROPA runs in one thread.  Nothing is preempted: what makes it hard is not
concurrency but *re-entrancy and order*.  Almost every operation notifies
listeners, which change more state while the caller's loop is still running;
most state has a matching undo, which has to give back exactly what was taken,
in an order nobody fixed beforehand, while other changes were made in between;
and two reference counts (of deactivations, of references to a token) decide
when the undo really takes effect.  The client may call any operation between
any two others, with propagation switched on or off.  Assertions
(`check_error`, `checkError`) are compiled out of the fast build
(`EUROPA_FAST`), which is the build the modules describe: an assertion about
the state is a claim that a property may state, and no guard.  An assertion at
the head of a call about how it may be called is taken as a precondition, and
guards the action: the client restricts no base domain of an inactive variable,
or to values it does not have (`ConstrainedVariable.cc:71`), and deletes no time
point that still has constraints (`DeleteTimepoint`).

| Component | State | Operations | Talks to |
|---|---|---|---|
| **Solver** `Solvers/base/Solver.cc` | active decision, stack of decisions, step and depth counters with their floors and limits, flags `noFlawsFound`, `exhausted`, `timedOut` | `solve`, `step`, `reset`, `backjump`, `clear`, limits | flaw managers (next decision), constraint engine (propagate, violation), plan database |
| **Decision points** `Solvers/base/SolverDecisionPoint.cc`, `Solvers/component/*DecisionPoint.cc`, `HSTSDecisionPoints.cc` | choices, a cursor, a counter of executions | `execute`, `undo`, `cut`, `hasNext` | token, variable and object operations through the `DbClient` |
| **Flaw managers** `Solvers/base/FlawManager.cc`, `FlawHandler.cc`, `Filters.cc`, `MatchingEngine.cc` | caches of static filters, active flaw handlers by weight, guards | next flaw by priority, `inScope`, guard updates | constraint engine (guards are variables), plan database events |
| **Constraint engine** `ConstraintEngine/base` | cycle counter, dirty flag, set of relaxed variables, redundant constraints, emptied variables, violated constraints, propagators with agendas | `notify`, `propagate`, `pending`, add and remove of variables and constraints, activation and deactivation | domains (listeners), propagators, every client of a variable |
| **Variables** `ConstrainedVariable.cc` | current, base and specified domain, deactivation and reference counts, closed | `specify`, `reset`, `relax`, `restrictBaseDomain`, `close`, `deactivate`, `undoDeactivation` | constraint engine, parent entity |
| **Constraints and domains** `ConstraintEngine/component` | enumerated and interval domains | set operations on domains; about ninety constraint classes | constraint engine |
| **Equality** `EquivalenceClassCollection.cc`, `EqualityConstraintPropagator` | undirected graph of variables, key of each connected component | add and remove connection, lazily recomputed components | constraint engine |
| **Tokens** `PlanDatabase/base/Token.cc`, `MergeMemento.cc`, `TokenVariable.hh` | state variable, active token and merged tokens, memento of a merge, master and slaves, references, committed, terminated, deleted | `activate`, `merge`, `reject`, `cancel`, `commit`, `terminate`, `discard`, references | variables and constraints, rules engine, objects |
| **Objects and timelines** `Object.cc`, `ObjectTokenRelation.cc`, `Timeline.cc` | tokens by object, tokens to be ordered, a sequence, precedence constraints by pair of tokens | `constrain`, `free`, `add`, `remove`, choices for a token | token events, temporal constraints |
| **Plan database** `PlanDatabase.cc`, `DbClient.cc`, transaction log and player | all objects and tokens, active tokens by predicate, temporal and other listeners; a log of operations | create and delete, compatible tokens, replay and undo of a log | everything above |
| **Rules engine** `RulesEngine/base` | rule instances by token, each with guards, an `executed` flag, slaves, constraints, children | fire when all guards are singletons, undo when one is no longer | token events, constraint engine |
| **Temporal network** `TemporalNetwork` | distance graph with bounds per edge, potentials, `consistent`, `hasDeletions`; mapping of variables to time points | add and remove constraints, incremental and full propagation | constraint engine (a propagator) |
| **Resources** `Resource` | transactions, instants of a profile, limits, violations and flaws per instant | add and remove transaction, recompute the profile | temporal propagator, tokens |
| **Entities and engine** `Utils/base`, `System` | reference counts, discarded entities awaiting the garbage collector, identifiers | `incRefCount`, `decRef`, `discard`, collection; module start and stop | everything |

What is *not* EUROPA's own planning logic, and is left out: the NDDL and ANML
front ends (parsers and interpreters that build a plan database), the vendored
XML reader, the Java user interface and language bindings, build files and
examples.

### What makes each component correct

* **Solver.**  The decisions on the stack are exactly the ones in force in the
  plan.  No alternative is skipped or tried twice, whatever the client calls in
  between, so that "exhausted" is a proof and a plan is reported once.  No
  decision that raises the violation stays.  `solve` ends, within its limits.
* **Constraint engine.**  When propagation reports quiescence every domain is
  as small as the active constraints make it, and *no smaller*: nothing that a
  removed, deactivated or retracted constraint implied survives it.
  Activation is exact: a constraint takes part when no variable of it and no
  violation holds it down.  Violations are remembered until something relaxes
  the constraint.  Nothing is re-executed for ever.
* **Tokens.**  A merged token's variables and constraints are inactive and
  everything it requires is required of the active token instead; splitting
  gives back what merging took; no slave outlives its last master; reference
  counts never free a token that something still uses.
* **Equality.**  Two variables have the same key exactly when a chain of active
  equalities joins them, whatever was removed and in whatever order.
* **Temporal network.**  The incremental algorithm gives the distances that a
  computation from scratch gives, and reports inconsistency exactly when there
  is a negative cycle.
* **Rules.**  The slaves and constraints of a rule exist exactly while its
  guards hold, and the plan depends on the decisions in force alone.
* **Timelines.**  The sequence, the precedence constraints and the list of
  tokens to order agree; what is asked for holds until it is freed; undoing a
  choice restores what was there before; and no place that fits is withheld.
* **Constraint classes.**  An execution takes away no value of a solution, and
  when every variable has a value, with nothing left to execute, the constraint
  is satisfied, although the class ignores some of the events it is sent.


## 2. The modules

Each component is modelled in the same way: a module with the constants,
variables, actions and specification; a `...Properties` module that extends it
with what it promises; an `MC...` module with the values of the constants for
TLC; and a `...Proofs` module.  An action
stands for one whole call of the code, with everything it does before it
returns; a call is split into several actions only where an order is left open
that the code does not fix, or where a property speaks of the middle of the
call.  Where a call hands its data from one function to the next, the model
hands a record from one operator to the next, in the order of the code.  A
definition whose name says what is wrong with it (`UndoneSkipping`,
`AfterCommitForgotten`) is a mutated form of the one after it: no specification
uses it, and `PROJECT.json` says which property notices when it takes the place
of the original.

| Module | What it is |
|---|---|
| `SearchProblem` | what the solver searches through: flaws, their choices, the flaws that a choice brings in, sets of choices that propagation refutes |
| `Solver`, `SolverProperties`, `MCSolver`, `SolverProofs` | `Solver.cc` and `SolverDecisionPoint.cc` |
| `Network` | variables, constraints as relations, filtering |
| `ConstraintEngine`, `ConstraintEngineProperties`, `MCConstraintEngine`, `ConstraintEngineProofs` | `ConstraintEngine.cc`, `ConstrainedVariable.cc`, `Constraint.cc`, `Variable.hh`, `DefaultPropagator` |
| `Domains`, `Filters` | `Domains.cc`; what twenty-nine classes of `Constraints.cc` do when they are executed |
| `ConstraintLibrary`, `ConstraintLibraryProperties`, `MCConstraintLibrary`, `ConstraintLibraryProofs` | one constraint of such a class among others: `canIgnore`, the agenda, execution |
| `Tokens`, `TokenProperties`, `MCTokens`, `TokenProofs` | `Token.cc`, `TokenVariable.hh`, what `MergeMemento.cc` and `UnifyMemento.cc` do to the variables, `Entity::decRefCount`, the checks of `DbClient.cc` |
| `Timeline`, `TimelineProperties`, `MCTimeline`, `TimelineProofs` | `Timeline.cc`, `Object.cc`, `ObjectTokenRelation.cc`, the list of tokens to order of `PlanDatabase.cc` |
| `Rules`, `RulesProperties`, `MCRules`, `RulesProofs` | `RulesEngine.cc`, `RuleInstance.cc`, `RuleVariableListener.cc`, within the loop of `ConstraintEngine::doPropagate` |
| `FoldInduction` | what a fold computes, and induction over it: used by the proofs about loops |
| `SimpleTemporalNetwork` | abstract: time points, constraints, and answers that are read off the shortest distances |
| `DistanceGraph`, `TemporalNetwork`, `TemporalNetworkProperties`, `MCTemporalNetwork`, `TemporalNetworkProofs` | `DistanceGraph.cc` and `TemporalNetwork.cc`; they implement `SimpleTemporalNetwork` |

### Solver

`step` is one action, split by outcome (`StepInconsistent`, `StepCompleted`,
`StepTimedOut`, `StepSucceeded`, `StepFailed`, `StepDeadEnd`), because the
client sees nothing of the middle of it; `Backtrack` is the loop of
`Solver::backtrack` as a choice of the depth at which it ends.  `solve` is
`CallSolve`, then steps, then `SolveReturns`.  Which open flaw comes next is
left open (`Candidates`): it is the business of the flaw managers, which
sort and filter.  The database is reduced to `plan` (the choice in force for
each flaw) and to what `getViolation` answers: `level` now, `foreign` for
conflicts that a client posts or retracts between calls, propagated or not.
`found`, `complete` and `posted` are history: the code does not have them.
Step counts are unsigned and wrap at `UIntMod`; the subtraction of a stack
size is one of `unsigned long` and wraps at `ULongMod`.

Not in it: the removal by the client of an entity that a decision is about
(`notifyRemoved`), contexts, the listeners, and the printing of decisions.

### ConstraintEngine

A client call (add, remove, specify, reset, restrict the base domain,
deactivate, reactivate, read a domain, change the tolerance) is one action, in
which the network is a record handed from one operator to the next in the order
of the code.  `propagate()` is `StartPropagation`, one `Execute` per
constraint, and one of three ends.  The order of execution is left open: the
code takes the agenda by key, which says nothing about the problem.

What it abstracts: a constraint is a relation, and executing it filters each
variable of its scope completely, or empties one of them; variables have closed
enumerated domains; no constraint has the same variable twice; `canIgnore` is
never true; there is one propagator; listeners of clients, and the
constraints they may add from a callback, are left out.  `ReadDerivedDomain` is
only the case where reading changes something.

### Tokens

`state`, `target`, `merged`, `master`, `slaves`, `refs`, `committed` and
`deleted` are the members of the same meaning.  `out` and `param` are the one
variable that a token has here beside its state: whether it is inactive, its
domains, its specified value, and the flag of `TokenVariable` that says who
specified it.  Deletion and deactivation call each other to any depth, and
loop over collections that change under them; the calls in progress are the
stack `calls`, the client waits until it is empty, and the order in which
merged tokens and slaves are visited is left open.  A token that was deleted
may be created again.

What it abstracts: all tokens are of one predicate and can be merged whenever
their domains meet; constraints between tokens, and their migration in
`MergeMemento`, are left out, as are `StackMemento`, termination, archiving and
the notifications to objects; a slave is created by the client or a rule,
whose own bookkeeping is left out.

### Temporal network

`DistanceGraph` has the algorithms as operators on a record: edges with a bag
of lengths each, potentials (a feasible schedule), upper and lower bounds, and
the three members that make propagation incremental, `consistent`,
`hasDeletions` and `updated`.  `TemporalNetwork` has a call per action.  An
addition is propagated at once from the two ends of the new constraint
(`IncPropagate`, with the side effects of `startNode`), a removal only sets
`hasDeletions`, and the next question propagates everything (`FullPropagate`).
The questions are those of the interface: bounds, distances exact and not,
distances from one to many, signs of distances, and the two tests by which
threats are pruned.  `CalcDistanceBounds` and its like count what they reach as
updated, which a later call of the propagator sees.  An addition that is not to
be propagated (`_propagate`, `TemporalNetwork.cc:409`) is left out: only
`addSpecificationConstraint` (`TemporalPropagator.cc:1292`) asks for it, which
nothing calls.

`SimpleTemporalNetwork` remembers nothing between two questions: each answer is
computed from the constraints that are there.  `TemporalNetwork` implements it
under the mapping that keeps `constraints` and drops the graph: the property
`AnswersAreTrue`.  Actions that only prepare (`ResetUpdatedTimepoints`) map
to stuttering steps.

What it abstracts: a queue of nodes is emptied sweep by sweep, at most as many
times as there are nodes, where the code takes buckets or a FIFO and a depth
(`BFbound`); both settle in the same distances when there is a schedule.  In
`dijkstra`, which stops when it takes the destination from the queue, the order
is kept (`First`).  When there is none, the potentials and the record of updated
time points are those of the sweeps, which need not be the ones of the code;
nothing reads them before the next full propagation replaces them, except that
the first updated time point is asked for, and `InconsistencyTraceable` speaks
of no more than its existence.  A removal without the mark `markDeleted` is for
constraints that the others imply, as the callers ensure.

### Timeline

`line` is the object as a record: `sequence`, `precedences`, `explicit` (the
marks of what was asked for), `onObject` and `toOrder`.  The client constrains
what is one of the choices, frees what it has asked for in any order, and
tokens join and leave.  `Consistent` stands for propagation: windows, durations
and the precedences posted, with a schedule or without.  `asked`, `older` and
`inOrder` are history: what clients have asked for, in which order, and whether
only the latest was ever freed and no removal left a mark for which nobody asks.

What it abstracts: one timeline, whose tokens can be on no other; time windows
are constants; the limit on the number of choices is left out.

### Rules

`Rule` is the tree of contexts that the rules of a domain can unfold into: a
context is a rule of a token, or a conditional in the body of another.  `plan`
has tokens, specified values and domains, instances, which of them are
executed, and the constraints in the order of their keys, among them the
listeners of guards.  `Propagation` is the loop of `doPropagate`: the constraint
of the least key that is due, then the callback of the rules engine, which
executes and then undoes what the listeners have put on its two lists
(`doRules`).  The client makes any number of decisions between two propagations.
The recursions of the code are closed forms: `CausesOf` is the context that a
context hangs below, in a body or through the slave it is about, `Above` the
least set of contexts closed under it, and `undo`, which the code passes down a
tree of instances, takes away everything that has the undone context above it.
Loops over contexts are folds in the order of the code (`InOrder`).

The listeners are in a propagator that comes before the one of the bodies
(`Foremost`), and within each the constraint of the least key is next.

What it abstracts: the constraint network stays consistent, since bodies
restrict no variable that clients decide and leave every variable a value that
none of them excludes (`RuleAssumption`).  An empty domain would stop the
propagation in the middle and drop the agenda (`ConstraintEngine.cc:694`,
`Propagators.cc:88`), and what the rules then hold need not follow from the
decisions; `ConstraintEngine` is about that.  The assumption is a strong one: it
excludes rules whose conditionals leave disjoint values to the same variable on
the two sides of a guard, although they are never in force together.  Variables
of bodies, loops and proxies are left out.  The
list of `doRules` may hold an instance that an earlier undo has deleted: the
code then reads freed memory, and the model reads it as "not executed", which
is what the destructor of the instance leaves there.

### Constraint library

`Filters` is one operator per class, from domains to domains, branch by branch
as in `Constraints.cc`; `Domains` has the operations on intervals and
enumerations that it rests on, with the event that each announces.
`ConstraintLibrary` puts one constraint of any class into an environment that
intersects its variables, removes values, or takes everything back, in any
order and between any two executions.  An event puts it on the agenda unless
`CanIgnore` says no, and what the constraint changes itself never does.

The scopes are those on which a class is meant to work: arithmetic, minimum and
maximum and order tests on intervals, `CondAllDiff` on enumerations and on any two
variables, `CondAllSame` where the first variable is an interval or all are enumerations,
the rest on any mixture.  What goes wrong outside these scopes is told in
section 3.  The environment empties no
domain: an empty domain ends the propagation.  What `BoolDomain::intersect` does
with bounds outside 0..1 (`Domains.cc:1231`) is left out, as no class cuts a
condition to any.

## 3. What the runs check

| Run | Instance | Shows |
|---|---|---|
| `solver` | two root flaws with 2 and 3 choices, a subgoal with a dead end under one of its choices, two nogoods, a cut-off on one decision, one client conflict at a time | the stack mirrors the plan (`DecisionsInForce`); no solution is lost, skipped or reported twice under any mix of `solve`, `step`, `reset`, `backjump` and `clear` (`NothingLost`, `ExhaustionIsProof`, `FoundOnce`, `FoundAreSolutions`); limits hold; no step adds a violation; `solve` without limits ends with an answer |
| `ce_strict` | three variables in a row joined by an equality and an inequality, violations not allowed, a base domain that shrinks, but not against a specified value | nothing that rests on a retracted constraint or value survives it (`NoSolutionLost`), and empty domains are on record (`EmptyKnown`) |
| `ce_tolerant` | the same, violations allowed, two variables that can be deactivated and one that can be deleted | no constraint is forgotten by the agenda (`NothingForgotten`); deactivation counts are exact (`ActivityCounts`); propagation ends |
| `token` | three tokens, two values, one value that the client specifies, one restriction of the base domain | `Valid`, `NoDangling`, `RequirementsInForce`, `NothingElseInForce`, `DestroyedUnreferenced`, `CommittedSurvives`; and, since deadlock is checked, that no cascade gets stuck |
| `stn` | the origin and two time points, three constraints that are added, narrowed and removed, marked or not | every answer is the one computed from scratch (`AnswersAreTrue`, the refinement); the potentials are a schedule (`PotentialsFeasible`); no bound becomes tighter unnoticed (`TighteningNoticed`); an inconsistency can be traced (`InconsistencyTraceable`) |
| `timeline` | four tokens of different windows and lengths, one of which fits between two others only in some orders; two removals | `RequestsHold`, `NothingLeftBehind`, `NeighboursConstrainedInOrder`; undoing a choice restores the timeline (`UndoRestores`); no place that fits is withheld (`NoPlaceWithheld`) |
| `rules` | seven contexts: a rule of the master, conditionals on both sides of one guard, one within another, and two in the rule of the slave; one slave that clients may delete | the plan is the one that the decisions in force would lead to from nothing (`PlanFollowsDecisions`); no slave outlives its reason (`SlavesHaveReasons`); rules do not chase each other (`PropagationEnds`) |
| `library` | twenty-nine classes on 100 scopes of one to four small domains | no execution loses a solution (`NoSolutionFiltered`); decided and at rest means satisfied (`DecidedMeansSatisfied`) |

The `timeline` run does not check for deadlock: once all tokens are ordered and
the removals are used up, a client may have nothing left to do.

Four statements of the source are violated by what the code does, each shown by
a run of its own that stops at the counterexample.

* `solver_exhausted`: *"Cannot be left in an exhausted state if there are still
  decisions to evaluate"* (`Solver.cc:263`).  A conflict that the client posted
  and did not propagate makes `doStep` give up on entry, with decisions still on
  the stack.
* `solver_timed_out`: timed out is *"True of the depth or step limits are
  exceeded"* (`Solver.hh:266`).  A second `solve` that backtracks below the
  depth at which it began computes a negative growth, in unsigned arithmetic.
* `ce_forgotten`: *"No domains are empty, and all constraints are satisfied.
  All events have been processed"* (`ConstraintEngine.hh:119`).  An emptied
  domain drops the whole agenda; once the cause is retracted only the
  constraints next to that variable are scheduled again.
* `token_orphan`: `decRefCount` returns *"true if this self-destructs as a
  result"* (`Entity.hh:67`).  It does not self-destruct: an active token whose
  master and last merged token are gone stays with a reference count of zero.

Other disagreements were met while modelling; they have no run of their own and
the properties are stated so as not to claim what they deny.  Three of them come with
a configuration with which TLC, on the module named, stops at the counterexample.

* *Reset* (`MCConstraintEngineReset.cfg`).  *"If the derived domain is not empty,
  it should be a subset of the specified domain"* (`ConstrainedVariable.cc:256`;
  the next line takes the base domain).  `EnumeratedDomain::relax` leaves alone a
  domain that is not empty and not within what it is relaxed to
  (`Domains.cc:310`).  A variable specified to 1 whose base domain is then
  restricted to 0 is emptied, relaxed to its specified value by the next
  propagation, and after `reset` still has the domain {1}: the value is
  retracted, no base domain has it, and it is in force.  `ce_strict` has a
  client that does not restrict a base domain against a specified value.
* *Union of intervals* (`MCConstraintLibraryAllDiff.cfg`).  *"At least one is a
  non-singleton interval, so the result will be also be one"*
  (`Constraints.cc:1239`).  The union of {0}, {2} and the interval [0, 2] stays
  the enumeration {0, 2}: two values for three variables, and the condition is
  set false, although 0, 2 and 1 differ.
* *Sum of enumerations* (`MCConstraintLibraryAddEqual.cfg`).  *"X + Y = Z"*
  (`Constraints.hh:125`).  `addEq` cuts to bounds, once; over enumerations
  {0} + {0, 2} = {1, 3} ends as 0 + 2 = 1, with nothing left to execute.
* *The first half of the sentence of `ce_forgotten`.*  `getDerivedDomain` of a
  deactivated variable, in an inconsistent network, empties it for good and
  records it nowhere (`Variable.hh:152`).  `EmptyKnown` is therefore claimed as
  long as no variable is deactivated or deleted.
* *`isDistanceLessThan`* is *"true iff distance(form, to) < bound"*
  (`TemporalNetwork.hh:277`).  For a bound of 1 the search follows only
  edges of length zero (`DistanceGraph.cc:421`), and it visits each node once:
  with one constraint, b exactly 1 after the origin, it denies that the distance
  from b to the origin, -1, is less than 1.  `AnswersAreTrue` claims that a
  "yes" is true, which is what its callers rely on when they prune.
* *`Timeline::isValid`* (`Timeline.cc:413`) asserts that neighbours are
  constrained.  After `constrain(t2, t1)`, `(t3, t1)` and `(t4, t1)`, `free(t3,
  t1)` leaves t2 and t4 neighbours without a constraint (`Timeline.cc:384`).
  A token that is removed can leave the mark of an explicit constraint behind
  (`Object.cc:197`), or add one for which nobody asks (`Timeline.cc:323`).  Such
  a mark does harm that outlives it.  Order z before c, a before c, w before c and
  x before w, which makes z, a, x, w, c.  Remove w: x stays, for the mark of x and
  c.  Free the latest request left, a before c: z and x are neighbours without a
  constraint.  Remove c: the mark has gone, the gap has not.  So
  `NeighboursConstrainedInOrder` and `UndoRestores` are conditional on the order
  and on the marks, the first on those of the past, too.
* *`RulesEngine::doRules`* reads instances that an earlier undo of the same
  list has deleted, when a conditional and one nested in it have the same guard
  variable; a slave that a client deleted stays in `m_slaves` of a nested
  instance (`RulesEngine.cc:159` tells only the outer ones).
* *Constraint classes on domains of other kinds.*  With enumerations `eqMinimum`
  can end with a minimum that no variable has.  `Equal` over an enumeration, an interval and
  an enumeration does not leave them equal after one execution.  A unary
  constraint to an enumeration cuts an interval to the bounds only, and then
  ignores that the variable is specified to a value between them.

### Bounds, and why they are enough

* *Solver.*  `MaxChoices` 3 and four flaws give backtracking over several
  levels, a decision whose flaw disappears with the decision below it, a
  decision without choices, and a solution that only the last alternative of the
  deepest decision reaches.  `UIntMod` 32 is larger than the number of steps in
  any search of the instance, so that the step count wraps only through `solve`
  calls repeated for ever, and `ULongMod` 128 is larger still, as on a 64-bit
  machine.  `StepLimits` and `DepthLimits` have one value that binds and the
  default.  `MaxForeign` 1: a second conflict changes nothing but the count.
* *Constraint engine.*  Three variables in a row are the least in which an
  inference passes through a variable that is not in the scope of the constraint
  that is retracted.  `UIntMod` 4 lets a count that is decremented once too
  often show.  `MaxHeld` 1: a second deactivation of the same variable
  deactivates its constraints a second time, but a constraint added between the
  two starts with a count of one per inactive variable, so that `ActivityCounts`
  holds only up to one.
* *Tokens.*  Three tokens make a master, a slave and a slave of the slave; an
  active token with two merged ones; and a merged slave of the token that is
  deleted.  Two values let requirements differ.  Tokens are symmetric.
* *Temporal network.*  With two time points beside the origin there are cycles of
  two and of three edges; with three constraints, two of them can share an
  edge (`Shapes` has "exactly 1" and "at most 1" between the same points) while
  a third makes the network inconsistent or not.  `Infinity` 9 is more than any
  path of three edges of at most 1.  Time points and constraints are symmetric,
  and the reply of a call is left out of the view, because no later step
  depends on it and the property about it is one about steps.
* *Timeline.*  Four tokens are the least for which a token is freed from the
  middle of a sequence and leaves two neighbours on one side (see above).
  `MaxRemovals` 2: a token that has left may come back, so that a removal meets
  every state of the sequence, those that another one has left included; the
  counter bounds nothing else.  The trace above with z, a, x, w and c needs five
  tokens; what the run cannot see of it, the proof does (section 4).
* *Rules.*  Two levels of conditionals and a slave with rules of its own are the
  least in which one undo deletes instances that are on the list of the same
  `doRules`.  The guards read a variable the client decides, one that a body
  restricts, and one that belongs to the slave.  The constraint of every body
  has a variable of the master (`onMaster`): with FALSE in a conditional,
  `PlanFollowsDecisions` fails, because undo() leaves it in place
  (`RuleInstance.cc:307`).
* *Library.*  Domains of three to five integers around zero: every sign of a
  product or quotient, bounds that cross, values inside an interval.  Three
  variables under a condition are the least in which two of them agree and the
  third does not.

### Properties that say less than one might expect

`NoSolutionLost` is checked without violations allowed: with them, the engine
lets go of a violated constraint and cannot claim it.  And it is checked without
base domains that are restricted against a specified value (`Overruling`): by the
trace of `MCConstraintEngineReset.cfg` the value 0 of the variable is lost, though
a solution needs it.  `EmptyKnown` is claimed
as long as no variable is deactivated or deleted.  `NothingElseInForce` is
claimed for tokens that have an owner, which `token_orphan` shows to be needed.

### Fairness

EUROPA runs in one thread and a loop that has begun runs until its condition
ends it: weak fairness of the step inside `solve` (`SolveAnswers`) and of
`Propagate` inside `propagate()` (`PropagationEnds`) says that and no more.
`Rules` says the same of `Propagation`, the loop of `doPropagate` with the
callback in it: the action is enabled whenever the phase is not "idle", and its
weak fairness is written out with that, `[]<>(phase = "idle") \/
[]<><<Propagation>>_vars`.  Nothing is assumed of the client, which need not call
anything.

## 4. What is proved

TLAPS checks the modules below for every value of the constants that satisfies
the assumptions named in the modules: `ProblemAssumption`, `SolverAssumption`
and `WidthAssumption`, `TokenAssumption`, `TimelineAssumption`,
`RuleAssumption`, `EngineAssumption`, `ClientAssumption`, `LibraryAssumption`
and, in `Network` and in `TemporalNetwork`, `NetworkAssumption`.  They give the constants their types;
the ones that say more are these:

* `WidthAssumption`: `unsigned int` is narrower than `unsigned long`.
* `RuleAssumption`: contexts are numbered from the top of the tree downwards,
  bodies restrict no variable that clients decide, and the conditionals of a body
  have its master; and for each variable there is a value that every body allows,
  so that bodies do not contradict each other.
* `TokenAssumption`: no base domain is empty; `NetworkAssumption` of `Network`:
  nor is one there, and a network is finite.
* `NetworkAssumption` of `TemporalNetwork`: time points and bounds are finite
  sets, and no path that visits each time point once is as long as `Infinity`;
  longer distances are errors in the code (`MAX_DISTANCE`, `MIN_DISTANCE`).
* `LibraryAssumption`: a constraint is created on domains that are finite and not
  empty, an interval holding every number between its bounds.

Five theorems about the constraint engine have a hypothesis about the client on
top, and two about the rules a hypothesis about the domain (`Orderly`), because the
code does not keep the promise without it.  Those about the constraint library
are about the classes in `Direct`, on the scopes that such a class is meant for
(`Suited`).  Each run that checks the property satisfies the hypothesis; `MCRules`
and `MCConstraintLibrary` assert `Orderly` and `Suited` of their constants.
`RetractedIsGone` is proved only: the one configuration that checks it has a client
outside the hypothesis, and shows what the hypothesis is for (section 3).

| Theorem | States | Hypothesis |
|---|---|---|
| `SolverProofs!TypeCorrect` | `TypeOK` | |
| `SolverProofs!DecisionsStayInForce` | `DecisionsInForce` | |
| `SolverProofs!StepsAddNoViolation` | `StepAddsNoViolation` | |
| `SolverProofs!FoundPlansAreSolutions` | `FoundAreSolutions` | |
| `SolverProofs!FoundOnlyOnce` | `FoundOnce` | |
| `SolverProofs!NothingIsLost` | `NothingLost` | |
| `SolverProofs!ExhaustionProves` | `ExhaustionIsProof` | |
| `SolverProofs!LimitsAreRespected` | `LimitsRespected` | |
| `ConstraintEngineProofs!TypeCorrect` | `TypeOK` | |
| `ConstraintEngineProofs!EmptyIsKnown` | `EmptyKnown` | `Undisturbed` |
| `ConstraintEngineProofs!RetractedIsGoneWhenObliging` | `RetractedIsGone` | `Obliging` |
| `ConstraintEngineProofs!ActivityIsCounted` | `ActivityCounts` | `Narrow` |
| `ConstraintEngineProofs!NothingNeededIsLost` | `NoSolutionLost` | `Strict` |
| `ConstraintEngineProofs!NoConstraintIsForgotten` | `NothingForgotten` | `Lenient` |
| `TokenProofs!TypeCorrect` | `TypeOK` | |
| `TokenProofs!ValidWhenIdle` | `Valid` | |
| `TokenProofs!NothingDangles` | `NoDangling` | |
| `TokenProofs!DestroyedAreUnreferenced` | `DestroyedUnreferenced` | |
| `TokenProofs!CommittedSurvive` | `CommittedSurvives` | |
| `TokenProofs!RequirementsHold` | `RequirementsInForce` | |
| `TokenProofs!NothingElseHolds` | `NothingElseInForce` | |
| `TimelineProofs!TypeCorrect` | `TypeOK` | |
| `TimelineProofs!RequestsStayInForce` | `RequestsHold` | |
| `TimelineProofs!ListsAgree` | `NothingLeftBehind` | |
| `TimelineProofs!UndoingRestores` | `UndoRestores` | |
| `TimelineProofs!NeighboursStayConstrained` | `NeighboursConstrainedInOrder` | |
| `TimelineProofs!NoPlaceIsWithheld` | `NoPlaceWithheld` | |
| `RulesProofs!TypeCorrect` | `TypeOK` | |
| `RulesProofs!ReasonsAreInForce` | `SlavesHaveReasons` | |
| `RulesProofs!NothingIsContradicted` | `Consistent` | `Orderly` |
| `RulesProofs!PlanIsDecided` | `PlanFollowsDecisions` | `Orderly` |
| `ConstraintLibraryProofs!TypeCorrect` | `TypeOK` of the classes in `Direct` | `Suited` |
| `ConstraintLibraryProofs!DecidedSatisfies` | `DecidedMeansSatisfied` of them | `Suited` |
| `ConstraintLibraryProofs!ExecutionsKeepSolutions` | `KeepsSolutions` of them | `Suited` |
| `ConstraintLibraryProofs!NothingFiltered` | `NoSolutionFiltered` | `Suited`, no other classes |
| `TemporalNetworkProofs!TypeCorrect` | `TypeOK` | |
| `TemporalNetworkProofs!PotentialsAreFeasible` | `PotentialsFeasible` | |
| `TemporalNetworkProofs!InconsistencyIsTraceable` | `InconsistencyTraceable` | |
| `TemporalNetworkProofs!TighteningIsNoticed` | `TighteningNoticed` | |
| `TemporalNetworkProofs!AnswersTrue` | `AnswersAreTrue` (refinement) | |

### The solver

The stack and the plan are two records of the same decisions, and each property
compares one of them with something the other only implies.

* `StackInForce`: every decision on the stack is executed, its choice is the one
  in force, no flaw is on it twice, and each was taken on a flaw that was open in
  the plan *before* it, which is the plan without it and all above it (`Before`).
  Backtracking any number of decisions is then the same as never having taken
  them, whatever subgoals they had brought in.
* `LevelSound`: what `getViolation` answers is never more than what propagation
  would find, and without a conflict of the client's the plan breaks nothing; so
  a step that ends where it began, or one decision further, adds no violation.
* `FoundSound` and `Behind`: a reported plan is a leaf of the search, and is the
  current plan or lies behind the frontier: it agrees with the stack up to some
  decision, and there has a choice already tried.  Only moving the frontier
  forwards preserves this, and that is what is shown of every way out of a step.
* `NothingLost` is inductive together with these: what is not behind the
  frontier is ahead of it, and a decision is dropped only without choices, or
  at a cut-off, or it makes `complete` false.
* `LimitsSound`: limits are values of their type.  The differences of
  `LimitsRespected` are unsigned and may wrap; they are compared modulo the width,
  where `WidthAssumption` rules out that a large depth passes for a small one.

### The constraint engine

A quarter of `ConstraintEngineProofs` is what each operator does to each part of the
network, stated once (`WakeUpEffect`, `NarrowedEffect` ...).  Everything else is
proved from these facts.  `Inv` is `BasicIn` of the network at rest, the types of
the modes, and what is buffered; three of its parts are conditional:

* `CountedIn`, under `Narrow`: a count is the sum of the deactivations of the
  variables in the scope, and one more for a violated constraint.  `Narrow` says
  that a variable is deactivated at most once at a time and that a scope fits the
  width of the count: the constructor of a constraint counts an inactive
  variable once, however often it has been deactivated (`Constraint.cc:53`).
* Empty domains are on record, under `Undisturbed`: no variable is deactivated
  or deleted.  An inactive variable reports nothing, and a deletion clears the
  record of all of them.
* `Contained`, under `Obliging`: domains and specified values are within the base
  domains.  `Obliging` says that no base domain is restricted against a specified
  value; `relax` then never finds a domain that it must leave alone (`Untouched`),
  unless the variable is specified, and `RetractedIsGone` follows.

Loops of the code (`relaxEmptyVariables`, the loop of `remove` over the scope)
are folds, and `FoldInduction` is what stands in for induction over them.  It has
the operation, the choice of the next element and the property kept as its
*constants*; a module that argues about a loop takes an instance for it and
proves the step.  Inside, a property that failed would fail first for a least
finite set (`LeastSet`), by the well-foundedness of the subset order.

The next part of the module is about retraction: a value that a
solution of what is asserted needs is never missing.  This is not inductive,
because while domains are being restored one after the other, some are missing
values that nothing justifies any more.  What is invariant (`Kept`) is about
sets of missing values: there are no variables X and values for them, missing
from their domains although nothing outside X speaks against them (`Lost`),
unless one of X is yet to be relaxed or linked to one that is.  So a set of
values that justify each other's absence cannot survive the retraction of what
started it.  `Strict` is `Undisturbed`, `Obliging` and no tolerance: deactivation
relaxes nothing, a deletion clears the record, a base domain restricted against
a specified value leaves one that `reset` does not take back, and a tolerated
violation lets go of a constraint whose variables keep what it took from them.

The last part is about the agenda: an active constraint
that could still take a value away is on it (`Attended`), where during a call
those of the variables Y that have changed are about to be told (`Waits`); and
nothing is on record as empty outside a propagation (`Attentive`).  `Lenient` is
the counts of `Narrow`, violations always allowed, no restriction of base
domains and no constraint whose scope is all singletons from the start.  An
engine that does not allow violations drops its agenda at an inconsistency, and
a redundant constraint ignores that its variables are active again
(`Constraint.cc:297`).

### The constraint library

`Direct` are the twenty of the twenty-nine classes that go through their variables
once, with no loop over them.  `Suited` asks for the number of variables, which
the constructors check; for intervals where a class computes with bounds
(`AddEqual`, `Negate`, `AbsoluteValue`), because with enumerations the first of
them can end with 0 + 2 = 1; and for Boolean variables where a class tests or
connects.  The domains themselves are arbitrary.

The proof goes in three layers.  Of the operations on one domain it says what is
left (`Cut`, `Meet`, `Removed`), by the least and greatest elements that a finite
set of integers has (`LeastOf`, `GreatestOf`).  Of each class it says three things
(`AddEqualRight`, `TestNEQRight` ...): it only cuts, every value of a solution is
still there, and it leaves the class *at rest*.

`AtRest` is the strengthening that `DecidedMeansSatisfied` needs.  For a class
that ignores no event it is that property itself, since whatever happens next puts
it on the agenda.  A class that ignores events must be at rest in a sense that
those events cannot disturb, while domains are still wide: `LessThanEqual` that
both bounds are in order, so that the upper bound of the first may sink and the
lower bound of the second rise; `NotEqual` that a value decided on one side is
gone from the other, or lies inside an interval of three values or more, which
reaches two values, or one, only with an event that is not ignored
(`IgnoredRests`).

### Tokens

What holds when the client is in control is not inductive, because a cascade
breaks it on the way, so the invariant `Inv` says how far it is broken in terms of
the stack of calls:

* `Mergers`: in every state, a token is merged onto another exactly when the
  other lists it, and its variable is inactive exactly then.
* `SlavesHeld`: whoever has slaves is active or is being deactivated.
* `Families`: masters and slaves agree, a slave has no other owner, and a
  token that does not exist is in nothing.
* `Ordered`: there is a ranking of tokens in which a slave is above its master,
  the tokens on the stack ascend towards the innermost call, and a deletion is
  strictly above everything it is part of.  This is the heart of it: it says
  that a cascade never comes back to a token that it is already deleting, or
  to a slave of one that it is deactivating, and it holds only because a
  slave is created after its master and no token is given another master.
* `Counted`: a reference count is the number of owners, plus the number of
  merged tokens, plus one for a commitment that the deletion has not yet taken
  back.  It is finite because the set of merged tokens is.
* `Deletions`: a token that is marked deleted is on the stack, those on
  the stack exist, and only the outermost deletion can be of a committed token.

When a deletion ends, `Ordered` and `SlavesHeld` leave the token without
slaves, `Mergers` without merged tokens, and `Counted` with at most the
reference of its owner, which the destructor drops.  A slave that is deleted
with its master had one reference, its master's, so by `Counted` it held none
for a commitment.

Domains have an invariant of their own on top, `DomainsFit`: the domain of an
active token is within what it and the tokens merged onto it require
(`Restrained`), and no smaller unless specified (`Unrestrained`).  Two facts
make it inductive: a value that a merged token was given is given to the active
one, and a variable whose flag says that its own client specified it is specified.
`Unrestrained` is of tokens that have an owner only: an active token without one
is taken for deleted when its last merged token leaves, and is not recomputed.

### Timelines

`IInv` is `TypeOK`, `Sound` and `RequestsHold`.  `Sound` says what the lists of
the record have to do with each other: no token is in the sequence twice, each
precedence follows the sequence, what is constrained to the object is in the
sequence, a token of the sequence that has a precedence or a mark is constrained
to it (`Attached`), and the tokens to order are the rest.  `Attached` is what
removal needs: it detaches a token that nothing holds any more, and must not miss
one.  Positions in sequences are handled by four lemmas on insertion and removal.

`UndoRestores` compares a timeline with an earlier one.  A timeline on which
everything is asked for and neighbours are constrained is `Settled`; a request
puts at most one token in each of two places (`PutAt`), and dropping a token that
was put somewhere gives the timeline before, field by field (`DropPut`).

`NeighboursConstrainedInOrder` is not inductive, for what happens when a request
is freed depends on what stands between its tokens, and what happens when a token
leaves, on what was put next to it since.  `OrderInv` adds that requests are
nested (`Nested`).  Give each token a rank when it comes into the sequence: then
what stands between two tokens tied to each other came after both (`Covers`);
what stands between two that were asked for was brought there by a request that
is still in force (`Brought`); and the newer of two requests brought a token
newer than those of the older (`Ages`).  So nothing is between the tokens of the
latest request (`LatestSideBySide`), which is when `free` ties the right
neighbours (`FreedOrder`).  A token that leaves may have brought others there by
requests that go with it; if they stayed between other tokens, one would be next
to it, and a neighbour of it that came later would contradict that the two
neighbours, already tied, came first (`RemovedNested`).  Ranks are not of the
model: the invariant says that there are some.

`NoPlaceWithheld` compares the test by which `getOrderingChoices` prunes with the
one that is complete.  The windows of tokens are a recursive function over the
precedences; that it has a value follows from a least length of chain for which
it would have none, and the values are then known by the equations alone.
Putting a token in makes no window wider (`EndsLater`, `StartsEarlier`, by a
first or last token whose window would be), and the windows of neighbours that
are tied to each other are in order (`EndsInOrder`).  So a token that fits at a
place passes the two tests against its neighbours there (`PlaceFits`), and it can
follow every token before the place, by which the walk does not end sooner
(`OfferedInside`, `OfferedLast`).

### Rules

The plan is handed from one operator to the next, so `Good` is stated of a plan
and of the set of tokens M that are being cancelled: types (`Typed`); an
instance has an active master, or one of M, and its parent is executed
(`Placed`); a slave has an executed context that created it (`Founded`); the
listeners of guards are of instances that exist (`Listening`).  Between calls, M
is empty, and rules wait to be executed or undone only during a propagation
(`Waiting`).

The step that matters is `undo`.  It removes the contexts that have the undone
one above them and the slaves of those, and nothing that stays may depend on
what goes.  `AboveTransitive` and `CreatorAbove` say so: the context that creates
a token is above every context of a rule of that token, through any number of
conditionals (by the least counterexample, since parents have lower numbers).  So if
the creator goes, everything about the slave goes with it.  A cancellation
uninstalls the rules of its token one by one with M = {t}, and none is left at
the end.

`PlanFollowsDecisions` is about the end of a propagation, and what leads there is
the invariant `Following`, which adds four parts to `Good`: whatever is due has an
instance, and what is due without a guard is in force (`Whole`); the network has
the listeners of guarded instances and the constraints of bodies in force, and no
others but those whose variable has been deleted (`Linked`); a domain is what the
constraints on it leave, apart from those on the agenda (`Fits`); and a body is in
force exactly if its guard passes, unless the listener is on the agenda or the
instance on one of the two lists (`Watched`).  While the rules of a token are
installed or a body is executed, the set X of contexts yet to be created is exempt.
Undoing is again the hard part: what it removes with tokens and constraints
(`Dropped`) must relax the right domains and tell whoever reads them, and what
stays alive reads nothing that goes (`StaysFree`).

A domain is its specified value or what the bodies in force leave of all values;
clients decide no variable that bodies restrict, so by `RuleAssumption` none is
empty (`FollowingIsConsistent`), and no round of propagation stops before its
agenda is done (`NothingIsContradicted`).

When nothing is left on the agenda and on the lists, the bodies in force are
closed under passing guards and contradict none (`ExecutedCloses`).  That they are
the least such set (`ExecutedIsLeast`) needs the order of `Orderly`: the first body
in force that another closed set lacked would have its guard pass there as well,
since all that restricts the guard comes before.  `Orderly` asks three things:

* A body restricts only what guards of later contexts read, or behind a negative
  guard what that one reads, leaving the values that it excludes.  Without it
  the theorem is false: a body that restricts the variable its own guard reads
  keeps that guard passing. `doRules` only tests guards again, and with a first
  rule `x = 1` that makes `y` 1 and a second `y = 1` that makes `y` 1, TLC finds
  that the second body stays when `x` has been decided, propagated and reset.
* The constraint of a body goes when it is undone: it has a variable of the master,
  or restricts the slave of the body.  `undo` leaves all others
  (`RuleInstance.cc:307`).
* Contexts speak of tokens they can name: given ones, their master and the slaves
  of contexts above them; guards read no slave that clients may delete under them,
  and each context has a slave of its own, as each execution creates one.

### The temporal network

No path is ever mentioned.  The distances from a node are the greatest solution
of the inequalities that the edges stand for (`IsDistanceFrom`), which is unique;
an algorithm that keeps the inequalities of the edges it is done with, and never
goes below a solution, has found them when it is done with all edges.

* Propagation (`Propagating`, with `FoldInduction` over the sweeps): an edge whose
  source is not in the queue is satisfied; no value is below a schedule that was
  not above the first one; and whatever is in the queue at sweep k is the end of a
  chain of k edges, so that a queue that outlasts the number of nodes holds the
  start of a cycle and there is no schedule (`PropagatedArrives`).  A new
  constraint leaves all inequalities but one or two (`AlmostRelaxed`), and
  `StartNode` and the sweeps repair those (`CorrectedDistance`).
* The abstract distances, by Floyd and Warshall: after the nodes of a set S have
  been gone through, each row of the matrix is the distances over the edges that
  leave S (`RowsGood`), as long as the diagonal is zero (`DistancesComplete`).
* Dijkstra: with the potentials taken off, the node that is taken from the queue
  is as near as it can be, and no later step lowers it, so the search may stop at
  its destination (`SearchTrue`).  The bounded search drops only paths that the
  potentials show not to be shorter than the bound (`SignsTrue`).  `LessTrue`
  speaks of whatever was marked on the way, in any order of the edges.

The inductive invariant `IInv` is that the bag of lengths is the one that the
constraints add up to (`Counted`), which is what a removal from a shared edge
needs; the types (`GraphOf`); and, unless a removal is pending, that a consistent
network has potentials which are a schedule and bounds which are the distances
from and to the origin, and an inconsistent one no schedule and an updated node
to trace it from (`Holds`).  `AnswersTrue` maps each call to a step of
`SimpleTemporalNetwork` or a stutter: by the uniqueness of distances, what is
read off the graph is what the matrix says.

### What is only model-checked, and why

* `SolveAnswers` and `PropagationEnds`: liveness, which needs fairness.
* Nine classes of the constraint library: those that repeat until nothing changes
  (`MultEqual`, `DivEqual`, `CondAllSame`, `CondAllDiff`), that fold over any
  number of variables (`Equal`, `EqualMinimum`, `EqualMaximum`, `CountZeroes`), and
  `Mod`, whose remainder is beyond the provers' arithmetic.
* The theorems beyond their hypotheses.  The runs do not go beyond them either;
  hazards in `PROJECT.json` name the lines where the code does not keep the
  promise.

## 5. Not modelled, and why

`PROJECT.json` lists every component with its status.  More than a third of the
library's lines are parsers: the lexer and parser of ANML are generated, the NDDL
and ANML translators and the XML reader turn text into the operations that are
modelled here.  They are left out for good, as are registries of types and
schemas (fixed before planning starts), display and logging, and the flow
profiles of resources (numeric graph algorithms over doubles).

Left out of a component that is modelled:

* *Solver*: the removal by a client of what a decision is about
  (`Solver::notifyRemoved`).  Related to it, and met while reading: a
  `ThreatDecisionPoint` keeps the two tokens of each of its choices
  (`ThreatDecisionPoint.cc:59`), one of which a client may delete while the
  decision about the other stays.
* *Constraint engine*: several propagators with priorities, open domains,
  constraints that listeners add while propagation runs.
* *Constraint library*: classes that are composed of others (`allDiff`, sums of
  more than two, `or`, the rotations), whose relation is one between domains
  (`lock`, `memberImply`, `eqUnion`), or that compute with reals.
* *Tokens*: migration of constraints in `MergeMemento`, `StackMemento`,
  termination and archiving.
* *Temporal network*: the composition with the constraint engine
  (`TemporalPropagator.cc`), which copies domains to bounds and back.
* *Timelines*: tokens that can be on several objects.
* *Rules*: variables of bodies, loops over them, proxy variables.

Not modelled yet: resources, flaw managers, decision points, equivalence
classes (used by no constraint that the engine registers), the transaction log and
the life cycle of the engine's modules.

## 6. The plan

Modelled and checked: the search, the constraint engine, the constraint
classes, tokens, timelines, rules and the temporal network; proved, the safety
properties of all of them, of the constraint classes for twenty.  What is left to
prove: the classes with loops over their variables, beginning with `CountZeroes`.

And, of what is left to model, in the order of what it would add: the timetable
profile of resources (which instants are recomputed, when limits change); the
propagator between temporal network and constraint engine; the removal of an
entity that a decision is about, in the composition of solver and tokens; the
migration of constraints in `MergeMemento`; the caches of flaw managers.
