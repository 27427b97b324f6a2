-------------------------- MODULE RulesProperties --------------------------
(* What the rules engine promises about the plan.                          *)
EXTENDS Rules

(* The parts of the state have their types, and bodies belong to instances *)
(* (RuleInstance.hh).                                                      *)
TypeOK ==
  /\ plan.tokens \in SUBSET Token /\ plan.active \in SUBSET plan.tokens
  /\ plan.spec \in [Variable -> Value \cup {NoValue}]
  /\ plan.dom \in [Variable -> SUBSET Value]
  /\ plan.alive \in SUBSET Context /\ plan.executed \in SUBSET plan.alive
  /\ plan.held \in [Context -> SUBSET Token]
  /\ ToSet(plan.network) \subseteq {"guard", "rule"} \X Context
  /\ plan.agenda \subseteq ToSet(plan.network)
  /\ phase \in {"idle", "propagating", "rules"}
  /\ ToSet(toExecute) \cup ToSet(toUndo) \subseteq Context
  /\ changed \in BOOLEAN

(* Propagation is over.                                                    *)
Quiescent == phase = "idle" /\ plan.agenda = {}

(* No domain is empty, so that the engine is never proven inconsistent.    *)
Consistent == \A v \in Variable : plan.dom[v] # {}

(* What the rules would make of the decisions in force if they were all    *)
(* taken again from nothing, adding bodies as long as a guard passes: the  *)
(* bodies in every set that is closed under that and contradicts no guard. *)
DomainsGiven(E) ==
  [v \in Variable |->
     (IF plan.spec[v] = NoValue THEN Value ELSE {plan.spec[v]})
       \cap {x \in Value : \A c \in E : Rule[c].restricts = v => x \in Rule[c].to}]

Due(E, active) ==
  {c \in Context : IF Rule[c].parent > 0 THEN Rule[c].parent \in E ELSE Rule[c].master \in active}

Passing(E) ==
  {c \in Due(E, plan.active) : Test([spec |-> plan.spec, dom |-> DomainsGiven(E)], c)}

Contradicted(E) == \E c \in Due(E, plan.active) : \E v \in Scope(c) : DomainsGiven(E)[v] = {}

FromNothing ==
  LET closed == {E \in SUBSET Context : Passing(E) \subseteq E /\ ~Contradicted(E)}
  IN  {c \in Context : \A E \in closed : c \in E}

(* When propagation is over, the plan depends on the decisions in force    *)
(* alone, and not on what was decided, undone or deleted before: the       *)
(* bodies, the domains and the slaves are those that the same decisions    *)
(* taken from nothing would lead to (RulesEngine::doRules,                 *)
(* RuleInstance::undo).                                                    *)
PlanFollowsDecisions ==
  Quiescent =>
    \A E \in {FromNothing} :
      /\ plan.executed = E
      /\ \A v \in Variable : Owner[v] \in plan.tokens => plan.dom[v] = DomainsGiven(E)[v]
      /\ plan.tokens \ (Given \cup Deletable)
           = {Rule[c].slave : c \in E} \ (Deletable \cup {NoToken})

(* That needs rules in which no body keeps the guard that it depends on    *)
(* passing: contexts have an order in which bodies restrict what later     *)
(* guards read.  A body has a slave of its own; what it restricts is given *)
(* back when it is undone; and a context reads and restricts the variables *)
(* of its own tokens, reading none that clients delete under it.           *)
Orderly ==
  \A c \in Context :
    /\ \A d \in Context : Rule[c].slave = Rule[d].slave /\ Rule[c].slave # NoToken => c = d
    /\ \A v \in Scope(c) :
         Owner[v] \in Given \cup {Rule[c].master} \cup ({Rule[e].slave : e \in Above[c]} \ Deletable)
    /\ Rule[c].restricts # NoVariable =>
         /\ Owner[Rule[c].restricts] \in
              Given \cup {Rule[c].master} \cup {Rule[e].slave : e \in Above[c] \cup {c}}
         /\ Rule[c].onMaster \/ Owner[Rule[c].restricts] = Rule[c].slave
         /\ \A d \in Context : Rule[d].guard = Rule[c].restricts =>
              \/ c < d
              \/ c = d /\ ~Rule[c].positive /\ Rule[c].values \subseteq Rule[c].to

(* At no time, not even between two rules of one doRules, is there a slave *)
(* or an active token below one, whose reason is gone: the body that       *)
(* created it is in force, and so is the token above (RuleInstance::undo). *)
SlavesHaveReasons ==
  \A t \in plan.tokens \ Given :
    \E c \in plan.executed : Rule[c].slave = t /\ Rule[c].master \in plan.active

(* Rules do not chase each other: a propagation that has begun ends, for   *)
(* all the rounds of constraints and rules it takes                        *)
(* (ConstraintEngine::doPropagate).                                        *)
PropagationEnds == phase # "idle" ~> phase = "idle"
=============================================================================
