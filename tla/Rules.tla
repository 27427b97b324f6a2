------------------------------- MODULE Rules -------------------------------
(***************************************************************************)
(* The rules engine: instances of rules that come with an active token,    *)
(* execute when their guards pass, with the slaves, constraints and        *)
(* conditional rules of their bodies, and are undone when their guards     *)
(* pass no more (RulesEngine.cc, RuleInstance.cc, RuleVariableListener.cc, *)
(* within the loop of ConstraintEngine::doPropagate).                      *)
(*                                                                         *)
(* What a rule may become is a tree that the model of a domain fixes: a    *)
(* context is a rule, or the body of a conditional in one, of one token.   *)
(* Context i is Rule[i], a record of                                       *)
(*   parent     the context it is a conditional of, or 0                   *)
(*   master     the token it belongs to                                    *)
(*   guard      the variable its domain test reads, or NoVariable          *)
(*   positive   whether that domain must contain the value, or not         *)
(*   values     the domain                                                 *)
(*   settled    the variables that must be specified                       *)
(*   slave      the token its body creates, or NoToken                     *)
(*   restricts  the variable its body constrains, or NoVariable            *)
(*   to         the values that constraint leaves                          *)
(*   onMaster   whether it also has a variable of the master or its own    *)
(*                                                                         *)
(* The plan is a record, handed from one operator to the next:             *)
(*   tokens, active    those that exist, and those that are active         *)
(*   spec, dom         of each variable, what was specified and what       *)
(*                     propagation has left                                *)
(*   alive, executed   the contexts with an instance, and with their body  *)
(*   held              m_slaves of each instance                           *)
(*   network           the constraints in the order of their keys: the     *)
(*                     listener of a guard, or the constraint of a body    *)
(*   agenda            those of them that have to be executed              *)
(***************************************************************************)
EXTENDS Integers, FiniteSets, SequencesExt

CONSTANTS
  Rule,        \* the contexts, those that create others first
  Token,
  Given,       \* the tokens that are no slaves
  Variable,
  Owner,       \* the token of each variable
  Decision,    \* the variables that clients specify
  Value,       \* the base domain of every variable
  Deletable,   \* bound: the slaves that clients delete while inactive
  NoToken, NoVariable, NoValue

Context == DOMAIN Rule
Scope(c) == Rule[c].settled \cup ({Rule[c].guard} \ {NoVariable})
Guarded(c) == Scope(c) # {}
Roots == {c \in Context : Rule[c].parent = 0}

(* Conditionals are guarded and of the token of their parent, a constraint *)
(* on the master is one that has a variable of it, and none restricts what *)
(* clients specify.  Bodies do not contradict each other: some value of    *)
(* each variable is left by all of them.  So no domain is ever emptied,    *)
(* which would end the round of propagation, drop the agenda               *)
(* (ConstraintEngine.cc:694, Propagators.cc:88) and leave the plan as it   *)
(* is until a client retracts something.                                   *)
ASSUME RuleAssumption ==
  /\ Rule \in Seq([parent : Nat, master : Token, guard : Variable \cup {NoVariable},
                   positive : BOOLEAN, values : SUBSET Value, settled : SUBSET Variable,
                   slave : (Token \ Given) \cup {NoToken}, restricts : Variable \cup {NoVariable},
                   to : SUBSET Value, onMaster : BOOLEAN])
  /\ \A c \in Context :
       /\ Rule[c].parent < c
       /\ \A d \in Context : Rule[d].slave = Rule[c].master => d < c
       /\ Rule[c].parent > 0 => Guarded(c) /\ Rule[Rule[c].parent].master = Rule[c].master
       /\ Rule[c].restricts \notin Decision
       /\ Rule[c].restricts # NoVariable /\ Owner[Rule[c].restricts] = Rule[c].master
            => Rule[c].onMaster
  /\ \A v \in Variable : \E x \in Value : \A c \in Context : Rule[c].restricts = v => x \in Rule[c].to
  /\ Given \subseteq Token /\ Deletable \subseteq Token \ Given
  /\ Owner \in [Variable -> Token] /\ Decision \subseteq Variable
  /\ NoToken \notin Token /\ NoVariable \notin Variable /\ NoValue \notin Value

VARIABLES
  plan,       \* the record above
  phase,      \* "idle", "propagating" or "rules"
  toExecute,  \* m_ruleInstancesToExecute, what is left of it
  toUndo,     \* m_ruleInstancesToUndo
  changed     \* what doRules will return

vars == <<plan, phase, toExecute, toUndo, changed>>

(* The contexts that have an instance because of another one: conditionals *)
(* in its body, and the rules of its slave, and theirs.                    *)
CausesOf(c) ==
  IF Rule[c].parent > 0 THEN {Rule[c].parent} ELSE {d \in Context : Rule[d].slave = Rule[c].master}

Closed(S) == \A d \in S : CausesOf(d) \subseteq S

Above ==
  [c \in Context |->
     {d \in Context : \A S \in SUBSET Context : CausesOf(c) \subseteq S /\ Closed(S) => d \in S}]
-----------------------------------------------------------------------------
(* Constraints.  A definition whose name says what is wrong with it is a   *)
(* mutated form of the one after it; no specification uses it.             *)
ScopeOf(k) == IF k[1] = "guard" THEN Scope(k[2]) ELSE {Rule[k[2]].restricts}
On(p, vs) == {k \in ToSet(p.network) : ScopeOf(k) \cap vs # {}}

Posted(p, k) ==
  [p EXCEPT !.network = IF k \in ToSet(@) THEN @ ELSE Append(@, k),
            !.agenda = @ \cup {k}]

Unfiltered(p, v) == IF p.spec[v] = NoValue THEN Value ELSE {p.spec[v]}

RelaxedSilently(p, vs) ==
  [p EXCEPT !.dom = [v \in Variable |-> IF v \in vs THEN Unfiltered(p, v) ELSE @[v]]]

(* Relaxed to what is specified, and told to every constraint.             *)
Relaxed(p, vs) ==
  [p EXCEPT !.dom = [v \in Variable |-> IF v \in vs THEN Unfiltered(p, v) ELSE @[v]],
            !.agenda = @ \cup On(p, vs)]

(* Constraints go, and tokens, with their variables and what is on them.   *)
Without(p, ts, ks) ==
  LET vs == {v \in Variable : Owner[v] \in ts}
      out == ks \cup On(p, vs)
  IN  Relaxed([p EXCEPT !.network = FoldLeft(LAMBDA n, k : IF k \in out THEN n ELSE Append(n, k), << >>, @),
                        !.agenda = @ \ out, !.tokens = @ \ ts, !.active = @ \ ts,
                        !.spec = [v \in Variable |-> IF v \in vs THEN NoValue ELSE @[v]]],
              vs \cup {Rule[k[2]].restricts : k \in {k \in out : k[1] = "rule"}})

Singleton(S) == \E x \in S : S = {x}

(* With a single value in its base domain, a variable needs no other.      *)
Settled(p, v) == p.spec[v] # NoValue \/ Singleton(Value)
-----------------------------------------------------------------------------
(* Rule instances.                                                         *)
Test(p, c) ==
  LET r == Rule[c]
  IN  /\ \A v \in r.settled : Settled(p, v)
      /\ \/ r.guard = NoVariable
         \/ r.guard # NoVariable /\ r.positive /\ Singleton(p.dom[r.guard])
                                 /\ p.dom[r.guard] \subseteq r.values
         \/ r.guard # NoVariable /\ ~r.positive /\ p.dom[r.guard] \cap r.values = {}

HasEmptyGuard(p, c) == \E v \in Scope(c) : p.dom[v] = {}

(* One after the other, from the first.                                    *)
InOrder(Op(_, _), p, C) == MapThenFoldSet(LAMBDA c, q : Op(q, c), p, LAMBDA c : c, Max, C)

(* An instance, and the listener of its guard.                             *)
Created(p, c) ==
  LET q == [p EXCEPT !.alive = @ \cup {c}]
  IN  IF Guarded(c) THEN Posted(q, <<"guard", c>>) ELSE q

Executed(p, c) ==
  LET new == {Rule[c].slave} \ {NoToken}
      q == [p EXCEPT !.executed = @ \cup {c}, !.held[c] = new, !.tokens = @ \cup new]
      conditionals == {d \in Context : Rule[d].parent = c}
  IN  InOrder(Created, IF Rule[c].restricts = NoVariable THEN q ELSE Posted(q, <<"rule", c>>),
              conditionals)

(* The instance is undone: conditionals first, then the constraints that   *)
(* have to do with the master, then the slaves and what came of them.      *)
UndoneAlone(p, c) ==
  LET gone == {d \in p.alive : Rule[d].parent = c}
      bodies == gone \cup {c}
      lost == {t \in p.tokens : \E d \in bodies : Rule[d].slave = t}
      removed == {k \in ToSet(p.network) :
                    \/ k[1] = "guard" /\ k[2] \in gone
                    \/ k[1] = "rule" /\ k[2] \in bodies /\ Rule[k[2]].onMaster}
  IN  [Without(p, lost, removed) EXCEPT
         !.alive = @ \ gone, !.executed = @ \ bodies,
         !.held = [d \in Context |-> IF d \in bodies THEN {} ELSE @[d]]]

Undone(p, c) ==
  LET gone == {d \in p.alive : c \in Above[d]}
      bodies == gone \cup {c}
      lost == {t \in p.tokens : \E d \in bodies : Rule[d].slave = t}
      removed == {k \in ToSet(p.network) :
                    \/ k[1] = "guard" /\ k[2] \in gone
                    \/ k[1] = "rule" /\ k[2] \in bodies /\ Rule[k[2]].onMaster}
  IN  [Without(p, lost, removed) EXCEPT
         !.alive = @ \ gone, !.executed = @ \ bodies,
         !.held = [d \in Context |-> IF d \in bodies THEN {} ELSE @[d]]]

(* The rules of a token: without a guard, they execute at once.            *)
RootsOf(t) == {c \in Roots : Rule[c].master = t}

Installed(p, c) == IF Guarded(c) THEN Created(p, c) ELSE Executed(Created(p, c), c)

UninstalledExecuted(p, c) == [Without(p, {}, {<<"guard", c>>}) EXCEPT !.alive = @ \ {c}]

Uninstalled(p, c) ==
  LET q == IF c \in p.executed THEN Undone(p, c) ELSE p
  IN  [Without(q, {}, {<<"guard", c>>}) EXCEPT !.alive = @ \ {c}]
-----------------------------------------------------------------------------
Init ==
  /\ plan = [tokens |-> Given, active |-> {},
             spec |-> [v \in Variable |-> NoValue], dom |-> [v \in Variable |-> Value],
             alive |-> {}, executed |-> {}, held |-> [c \in Context |-> {}],
             network |-> << >>, agenda |-> {}]
  /\ phase = "idle" /\ toExecute = << >> /\ toUndo = << >> /\ changed = FALSE

(* What clients do, as many things as they like before they propagate.     *)
Client(p) == phase = "idle" /\ plan' = p /\ UNCHANGED <<phase, toExecute, toUndo, changed>>

Activate(t) ==
  /\ t \in plan.tokens \ plan.active
  /\ Client(InOrder(Installed, [plan EXCEPT !.active = @ \cup {t}], RootsOf(t)))

Cancel(t) ==
  /\ t \in plan.active
  /\ Client(InOrder(Uninstalled, [plan EXCEPT !.active = @ \ {t}], RootsOf(t)))

Specify(v, x) ==
  /\ Owner[v] \in plan.tokens /\ plan.spec[v] = NoValue
  /\ Client([plan EXCEPT !.spec[v] = x, !.dom[v] = {x}, !.agenda = @ \cup On(plan, {v})])

Reset(v) ==
  /\ plan.spec[v] # NoValue
  /\ Client(Relaxed([plan EXCEPT !.spec[v] = NoValue], {v}))

(* Only the rules of tokens hear of it, not the conditionals in them.      *)
DeleteToken(t) ==
  /\ t \in Deletable \cap (plan.tokens \ plan.active)
  /\ Client([Without(plan, {t}, {}) EXCEPT !.held = [c \in Context |-> IF c \in Roots THEN @[c] \ {t} ELSE @[c]]])

(* ConstraintEngine::propagate.                                            *)
Propagate ==
  /\ phase = "idle" /\ plan.agenda # {}
  /\ phase' = "propagating"
  /\ UNCHANGED <<plan, toExecute, toUndo, changed>>

(* The listeners are in a propagator that comes first; each takes what it  *)
(* has to execute in the order of keys.                                    *)
Foremost ==
  LET listeners == {k \in plan.agenda : k[1] = "guard"}
  IN  IF listeners # {} THEN listeners ELSE plan.agenda

NextConstraint == plan.network[SelectInSeq(plan.network, LAMBDA k : k \in Foremost)]

(* RuleVariableListener::handleExecute, RuleInstance::prepare.             *)
ExecuteListener ==
  /\ phase = "propagating" /\ plan.agenda # {} /\ NextConstraint[1] = "guard"
  /\ LET c == NextConstraint[2]
     IN  /\ plan' = [plan EXCEPT !.agenda = @ \ {NextConstraint}]
         /\ IF c \in plan.executed
            THEN toUndo' = Append(toUndo, c) /\ UNCHANGED toExecute
            ELSE toExecute' = Append(toExecute, c) /\ UNCHANGED toUndo
  /\ UNCHANGED <<phase, changed>>

(* The constraint of a body; the others on the variable are told.          *)
Narrowed(p, k) ==
  LET v == Rule[k[2]].restricts
      rest == [p EXCEPT !.dom[v] = @ \cap Rule[k[2]].to, !.agenda = @ \ {k}]
  IN  IF rest.dom[v] = p.dom[v] THEN rest
      ELSE [rest EXCEPT !.agenda = @ \cup (On(p, {v}) \ {k})]

ExecuteConstraint ==
  /\ phase = "propagating" /\ plan.agenda # {} /\ NextConstraint[1] = "rule"
  /\ plan' = Narrowed(plan, NextConstraint)
  /\ UNCHANGED <<phase, toExecute, toUndo, changed>>

CallbackAgain ==
  /\ phase = "propagating" /\ plan.agenda = {}
  /\ phase' = IF toExecute = << >> /\ toUndo = << >> /\ ~changed THEN "idle" ELSE "rules"
  /\ UNCHANGED <<plan, toExecute, toUndo, changed>>

(* The callback of the rules engine, after each time that nothing is left  *)
(* to propagate: doRules, if hasWork.                                      *)
Callback ==
  /\ phase = "propagating" /\ plan.agenda = {}
  /\ phase' = IF toExecute = << >> /\ toUndo = << >> THEN "idle" ELSE "rules"
  /\ changed' = FALSE
  /\ UNCHANGED <<plan, toExecute, toUndo>>

ExecuteRule ==
  /\ phase = "rules" /\ toExecute # << >>
  /\ LET c == Head(toExecute)
         fires == c \notin plan.executed /\ Test(plan, c)
     IN  /\ plan' = IF fires THEN Executed(plan, c) ELSE plan
         /\ changed' = (changed \/ fires)
  /\ toExecute' = Tail(toExecute)
  /\ UNCHANGED <<phase, toUndo>>

(* The instance may be one that is deleted already: the flag in its memory *)
(* says that it is not executed.                                           *)
UndoRule ==
  /\ phase = "rules" /\ toExecute = << >> /\ toUndo # << >>
  /\ LET c == Head(toUndo)
         fails == c \in plan.executed /\ ~Test(plan, c) /\ ~HasEmptyGuard(plan, c)
     IN  /\ plan' = IF fails THEN Undone(plan, c) ELSE plan
         /\ changed' = (changed \/ fails)
  /\ toUndo' = Tail(toUndo)
  /\ UNCHANGED <<phase, toExecute>>

EndRules ==
  /\ phase = "rules" /\ toExecute = << >> /\ toUndo = << >>
  /\ phase' = IF changed THEN "propagating" ELSE "idle"
  /\ UNCHANGED <<plan, toExecute, toUndo, changed>>

Propagation == ExecuteListener \/ ExecuteConstraint \/ Callback \/ ExecuteRule \/ UndoRule \/ EndRules

Next ==
  \/ \E t \in Token : Activate(t) \/ Cancel(t) \/ DeleteToken(t)
  \/ \E v \in Decision : Reset(v) \/ \E x \in Value : Specify(v, x)
  \/ Propagate
  \/ Propagation

(* The loop runs on once it has begun: weak fairness of Propagation, which *)
(* is enabled exactly while the phase is not "idle".                       *)
Fairness == []<>(phase = "idle") \/ []<><<Propagation>>_vars

Spec == Init /\ [][Next]_vars /\ Fairness
=============================================================================
