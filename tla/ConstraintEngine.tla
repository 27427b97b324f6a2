-------------------------- MODULE ConstraintEngine --------------------------
(***************************************************************************)
(* ConstraintEngine, with its ViolationMgr, one DefaultPropagator, and the *)
(* bookkeeping of ConstrainedVariable and Constraint.                      *)
(*                                                                         *)
(* A client call is one action: notifications, the restoring of violated   *)
(* constraints and the relaxation of linked variables happen inside it.    *)
(* propagate() is several: it executes one constraint per step, in any     *)
(* order, so that what holds in the middle of it can be stated.            *)
(***************************************************************************)
EXTENDS Network, FiniteSetsExt, SequencesExt

CONSTANTS
  NoValue,      \* not specified
  UIntMod,      \* 2^w for the width w of a reference count
  Disposable,   \* the variables that the client may delete
  Holdable,     \* the variables that the client may deactivate
  MaxHeld,      \* bound: deactivations of one variable at a time
  Restrictions, \* <<v, D>>: the base domain of v may be restricted to D
  Overruling,   \* may it be restricted against the value v is specified to?
  Tolerances    \* the values that setAllowViolations is called with, the first
                \* of them before anything else

ASSUME EngineAssumption ==
  /\ NoValue \notin Value
  /\ UIntMod \in Nat /\ UIntMod > 1
  /\ Disposable \subseteq Var /\ Holdable \subseteq Var
  /\ MaxHeld \in Nat /\ MaxHeld < UIntMod
  /\ Restrictions \subseteq Var \X SUBSET Value /\ Overruling \in BOOLEAN
  /\ Tolerances \subseteq BOOLEAN /\ Tolerances # {}

VARIABLES
  variables,    \* m_variables
  constraints,  \* m_constraints
  base,         \* base domains
  dom,          \* current domains
  spec,         \* specified values
  out,          \* deactivation count of each variable
  held,         \* deactivation count of each constraint
  redundant,    \* the constraints with m_isRedundant
  buffered,     \* m_redundantConstraints
  fresh,        \* the variables with m_lastRelaxed = m_cycleCount
  relaxed,      \* m_relaxed
  empties,      \* ViolationMgrImpl::m_emptyVariables
  violated,     \* ViolationMgrImpl::m_violatedConstraints
  agenda,       \* DefaultPropagator::m_agenda
  allow,        \* are violations allowed?
  dirty,        \* m_dirty
  propagating,  \* m_propInProgress
  started       \* has this propagation executed a constraint?

net    == <<constraints, base, dom, spec, held, fresh, relaxed, empties, violated, agenda>>
status == <<redundant, buffered>>
mode   == <<allow, dirty, propagating, started>>
vars   == <<variables, net, out, status, mode>>

Count == 0 .. UIntMod - 1

TypeOK ==
  /\ variables \subseteq Var /\ constraints \subseteq Constraint
  /\ base \in Domains /\ dom \in Domains
  /\ spec \in [Var -> Value \cup {NoValue}]
  /\ out \in [Var -> 0 .. MaxHeld] /\ held \in [Constraint -> Count]
  /\ redundant \subseteq constraints /\ buffered \subseteq redundant
  /\ fresh \subseteq variables /\ relaxed \subseteq variables /\ empties \subseteq variables
  /\ violated \subseteq constraints /\ agenda \subseteq constraints
  /\ allow \in BOOLEAN /\ dirty \in BOOLEAN
  /\ propagating \in BOOLEAN /\ started \in BOOLEAN

Init ==
  /\ variables = {} /\ constraints = {}
  /\ base = BaseDomain /\ dom = BaseDomain /\ spec = [v \in Var |-> NoValue]
  /\ out = [v \in Var |-> 0] /\ held = [c \in Constraint |-> 0]
  /\ redundant = {} /\ buffered = {}
  /\ fresh = {} /\ relaxed = {} /\ empties = {} /\ violated = {} /\ agenda = {}
  /\ allow \in Tolerances /\ dirty = FALSE /\ propagating = FALSE /\ started = FALSE
-----------------------------------------------------------------------------
(* One call changes the network many times over before it returns.  The    *)
(* operators below take the network as a record and return it changed.     *)
Now == [constraints |-> constraints, base |-> base, dom |-> dom, spec |-> spec,
        held |-> held, fresh |-> fresh, relaxed |-> relaxed, empties |-> empties,
        violated |-> violated, agenda |-> agenda]

Become(s) ==
  /\ constraints' = s.constraints /\ base' = s.base /\ dom' = s.dom /\ spec' = s.spec
  /\ held' = s.held /\ fresh' = s.fresh /\ relaxed' = s.relaxed /\ empties' = s.empties
  /\ violated' = s.violated /\ agenda' = s.agenda

On(s, v)   == {c \in s.constraints : v \in Vars(c)}
Active(s)  == {c \in s.constraints : s.held[c] = 0}
Inactive(v) == out[v] > 0

(* A definition whose name says what is wrong with it is a mutated form of *)
(* the one after it; no specification uses it.                             *)

(* The propagator schedules the active constraints on v.                   *)
WakeUp(s, v) == [s EXCEPT !.agenda = @ \cup (On(s, v) \cap Active(s))]

(* Constraint::deactivate                                                  *)
Deactivated(s, C) ==
  [s EXCEPT !.held = [c \in Constraint |-> IF c \in C THEN (@[c] + 1) % UIntMod ELSE @[c]],
            !.agenda = @ \ C]

(* ViolationMgrImpl::addViolatedConstraint                                 *)
SetAsideStillActive(s, c) == [s EXCEPT !.agenda = @ \ {c}]
SetAside(s, c) == [Deactivated(s, {c}) EXCEPT !.violated = @ \cup {c}]

(* Constraint::undoDeactivation: a redundant constraint ignores it.        *)
UndoDeactivationUnscheduled(s, C) ==
  [s EXCEPT !.held = [c \in Constraint |-> IF c \in C \ redundant THEN (@[c] - 1) % UIntMod
                                                                  ELSE @[c]]]
UndoDeactivation(s, C) ==
  LET undone == C \ redundant
      count  == [c \in Constraint |-> IF c \in undone THEN (s.held[c] - 1) % UIntMod
                                                      ELSE s.held[c]]
  IN  [s EXCEPT !.held = count, !.agenda = @ \cup {c \in undone : count[c] = 0}]

(* handleRestrict, then the constraints.                                   *)
Restricted(s, v) ==
  IF Inactive(v) THEN s ELSE WakeUp([s EXCEPT !.relaxed = @ \ {v}], v)

(* ConstraintEngine::handleEmpty: no constraint is notified.               *)
Emptied(s, v) == IF Inactive(v) THEN s ELSE [s EXCEPT !.empties = @ \cup {v}]
-----------------------------------------------------------------------------
(* Relaxation.                                                             *)

(* ViolationMgrImpl::handleRelax: violated constraints come back.          *)
RestoredStillHeld(s, W) == [s EXCEPT !.violated = @ \ UNION {On(s, w) : w \in W}]
Restored(s, W) ==
  LET back == s.violated \cap UNION {On(s, w) : w \in W}
  IN  [UndoDeactivation(s, back) EXCEPT !.violated = @ \ back]

(* ConstrainedVariable::relax and EnumeratedDomain::relax: a domain that   *)
(* is not empty is not touched, and no event is sent, when the variable is *)
(* specified, or when it has values that the base domain does not have any *)
(* more.                                                                   *)
UntouchedWhenSpecified(s, v) == s.spec[v] # NoValue
Untouched(s, v) ==
  /\ s.dom[v] # {}
  /\ s.spec[v] # NoValue \/ ~ (s.dom[v] \subseteq s.base[v])

(* addLinkedVarsForRelaxation, to the end of its agenda: the variables     *)
(* that active constraints link to v, not passing beyond those that are    *)
(* specified or were relaxed in this cycle.                                *)
Neighbours(s, W) ==
  {w \in UNION {Vars(c) : c \in {d \in Active(s) : Vars(d) \cap W # {}}} :
     s.spec[w] = NoValue /\ w \notin s.fresh}

LinkedNextOnly(s, v) == Neighbours(s, {v})
Linked(s, v) ==
  {w \in Var : \A W \in SUBSET Var : Neighbours(s, W \cup {v}) \subseteq W => w \in W}

RelaxLinked(s, v, restoring) ==
  LET L == Linked(s, v)
      M == {w \in L : ~Untouched(s, w)}
      t == [s EXCEPT !.dom = [w \in Var |-> IF w \in M THEN s.base[w] ELSE @[w]],
                     !.fresh = @ \cup L,
                     !.agenda = @ \cup UNION {On(s, w) \cap Active(s) : w \in {u \in M : ~Inactive(u)}}]
  IN  IF restoring THEN Restored(t, L) ELSE t

(* A cycle ends when the first variable since then is relaxed.             *)
Initiate(s, v) ==
  [s EXCEPT !.fresh = IF s.relaxed = {} THEN {v} ELSE @ \cup {v},
            !.relaxed = @ \cup {v}]

(* Any other domain becomes the base domain or the specified value.        *)
RelaxedDomain(s, v) ==
  [s EXCEPT !.dom[v] = IF s.spec[v] = NoValue THEN s.base[v] ELSE {s.spec[v]}]

(* ViolationMgrImpl::relaxEmptyVariables.  It does not enter itself again. *)
(* restoring is ~m_relaxingViolation.                                      *)
RelaxEmpty(s, e, restoring) ==
  LET t == RelaxedDomain(s, e)
      u == Initiate(IF restoring THEN Restored(t, {e}) ELSE t, e)
      w == WakeUp(RelaxLinked(u, e, restoring), e)
      r == IF Untouched(s, e) THEN s ELSE IF Inactive(e) THEN t ELSE w
  IN  [r EXCEPT !.empties = @ \ {e}]

RelaxEmpties(s, restoring) ==
  FoldSet(LAMBDA e, t : RelaxEmpty(t, e, restoring), s, s.empties)

(* The event RELAXED for v: the empty variables are relaxed as well, but   *)
(* v itself, if it was empty, stays on record.                             *)
NotifyRelaxed(s, v) ==
  IF Inactive(v) THEN s
  ELSE LET t == Initiate(Restored(s, {v}), v)
           u == IF v \in t.empties THEN t ELSE RelaxEmpties(t, TRUE)
       IN  WakeUp(RelaxLinked(u, v, TRUE), v)

RelaxVariable(s, v) ==
  IF Untouched(s, v) THEN s ELSE NotifyRelaxed(RelaxedDomain(s, v), v)

(* ConstrainedVariable::reset: RELAXED, if the domain lets itself be       *)
(* relaxed, then RESET in any case.                                        *)
ResetDomain(s, v) ==
  LET t == [s EXCEPT !.spec[v] = NoValue]
  IN  IF t.dom[v] = t.base[v] THEN t ELSE Restricted(RelaxVariable(t, v), v)

(* ConstrainedVariable::internalSpecify                                    *)
SpecifyDomain(s, v, value) ==
  LET t == IF value \notin s.dom[v] /\ allow THEN ResetDomain(s, v) ELSE s
      u == [t EXCEPT !.spec[v] = value]
  IN  IF s.spec[v] = value THEN s
      ELSE IF value \in u.dom[v] THEN Restricted([u EXCEPT !.dom[v] = {value}], v)
      ELSE Emptied([u EXCEPT !.dom[v] = {}], v)
-----------------------------------------------------------------------------
(* Client calls.                                                           *)
Idle == ~propagating

Dirtied == dirty' = TRUE /\ UNCHANGED <<allow, propagating, started>>

Singleton(D) == \E value \in D : D = {value}

(* A variable whose base domain is a singleton is specified from the start.*)
InitialValue(v) ==
  IF Singleton(BaseDomain[v]) THEN CHOOSE value \in BaseDomain[v] : TRUE ELSE NoValue

AddVariable(v) ==
  /\ Idle /\ v \notin variables
  /\ variables' = variables \cup {v}
  /\ out' = [out EXCEPT ![v] = 0]
  /\ Become([Now EXCEPT !.base[v] = BaseDomain[v], !.dom[v] = BaseDomain[v],
                        !.spec[v] = InitialValue(v)])
  /\ Dirtied /\ UNCHANGED status

(* Deleting an empty variable clears the record of all empty variables.    *)
RemoveVariable(v) ==
  /\ Idle /\ v \in variables \cap Disposable /\ On(Now, v) = {}
  /\ variables' = variables \ {v}
  /\ Become([Now EXCEPT !.relaxed = @ \ {v}, !.fresh = @ \ {v},
                        !.empties = IF v \in @ THEN {} ELSE @])
  /\ Dirtied /\ UNCHANGED <<out, status>>

(* Constraint::testIsRedundant                                             *)
AllSingleton(c, b) == \A v \in Vars(c) : Singleton(b[v])

(* A new constraint is deactivated once for each inactive variable.        *)
Withheld(c) == Cardinality({v \in Vars(c) : Inactive(v)}) % UIntMod

AddConstraint(c) ==
  LET scheduled == IF Withheld(c) = 0 THEN {c} ELSE {}
  IN  /\ Idle /\ c \notin constraints /\ Vars(c) \subseteq variables
      /\ Become([Now EXCEPT !.constraints = @ \cup {c}, !.held[c] = Withheld(c),
                            !.agenda = @ \cup scheduled])
      /\ redundant' = IF AllSingleton(c, base) THEN redundant \cup {c} ELSE redundant
      /\ buffered' = IF AllSingleton(c, base) THEN buffered \cup scheduled ELSE buffered
      /\ Dirtied /\ UNCHANGED <<variables, out>>

(* What an active constraint may have taken away is given back.            *)
GivenBack(s, c) ==
  IF s.held[c] > 0 THEN s
  ELSE FoldLeft(LAMBDA t, v : IF v \in t.fresh THEN t ELSE RelaxVariable(t, v), s, Scope[c])

(* c leaves the engine and its propagator.                                 *)
UnlinkedStillQueued(s, c) == [s EXCEPT !.constraints = @ \ {c}]
Unlinked(s, c) == [s EXCEPT !.constraints = @ \ {c}, !.agenda = @ \ {c}]

RemoveConstraint(c) ==
  LET relinked == GivenBack(Unlinked(Now, c), c)
  IN  /\ Idle /\ c \in constraints
      /\ Become([relinked EXCEPT !.violated = @ \ {c}, !.held[c] = 0])
      /\ redundant' = redundant \ {c} /\ buffered' = buffered \ {c}
      /\ Dirtied /\ UNCHANGED <<variables, out>>

Specify(v, value) ==
  /\ Idle /\ v \in variables /\ ~Inactive(v)
  /\ value \in base[v] /\ value # spec[v]
  /\ Become(SpecifyDomain(Now, v, value))
  /\ Dirtied /\ UNCHANGED <<variables, out, status>>

Reset(v) ==
  /\ Idle /\ v \in variables
  /\ Become(ResetDomain(Now, v))
  /\ dirty' = (dirty \/ dom[v] # base[v])
  /\ UNCHANGED <<variables, out, status, allow, propagating, started>>

RestrictedBase(v, D) ==
  LET b == base[v] \cap D
      s == [Now EXCEPT !.base[v] = b, !.dom[v] = @ \cap b]
      t == IF s.dom[v] = dom[v] THEN s
           ELSE IF s.dom[v] = {} THEN Emptied(s, v) ELSE Restricted(s, v)
      u == IF Singleton(b) /\ spec[v] = NoValue
           THEN SpecifyDomain(t, v, CHOOSE value \in b : TRUE) ELSE t
  IN  Restricted(u, v)

RestrictBaseDomain(v, D) ==
  LET s == RestrictedBase(v, D)
      now == {c \in On(s, v) \ redundant : AllSingleton(c, s.base)}
  IN  /\ Idle /\ v \in variables /\ ~Inactive(v)
      /\ base[v] \cap D # {} /\ ~ base[v] \subseteq D
      /\ Become([s EXCEPT !.agenda = @ \cup (now \cap Active(s))])
      /\ redundant' = redundant \cup now
      /\ buffered' = buffered \cup (now \cap Active(s))
      /\ Dirtied /\ UNCHANGED <<variables, out>>

(* Nothing is relaxed: what the constraints on v took away stays away.     *)
Deactivate(v) ==
  /\ Idle /\ v \in variables \cap Holdable /\ out[v] < MaxHeld
  /\ out' = [out EXCEPT ![v] = @ + 1]
  /\ Become(Deactivated(Now, On(Now, v)))
  /\ dirty' = (dirty \/ ~Inactive(v) \/ On(Now, v) \cap Active(Now) # {})
  /\ UNCHANGED <<variables, status, allow, propagating, started>>

Reactivate(v) ==
  /\ Idle /\ v \in variables /\ Inactive(v)
  /\ out' = [out EXCEPT ![v] = @ - 1]
  /\ Become(UndoDeactivation(Now, On(Now, v)))
  /\ dirty' = (dirty \/ out[v] = 1 \/ Active(Now)' # Active(Now))
  /\ UNCHANGED <<variables, status, allow, propagating, started>>

(* Reading a domain, when there is nothing to propagate but some domain is *)
(* empty, empties it.  (With something to propagate, propagate() is called *)
(* first.)                                                                 *)
Pending ==
  /\ dirty
  /\ \/ \E v \in relaxed : On(Now, v) \cap Active(Now) # {}
     \/ empties = {} /\ agenda # {}

ReadDerivedDomain(v) ==
  /\ Idle /\ v \in variables /\ ~Pending /\ empties # {}
  /\ Become(Emptied([Now EXCEPT !.dom[v] = {}], v))
  /\ Dirtied /\ UNCHANGED <<variables, out, status>>

SetAllowViolations(b) ==
  /\ Idle /\ violated = {}
  /\ allow' = b
  /\ UNCHANGED <<variables, net, out, status, dirty, propagating, started>>
-----------------------------------------------------------------------------
(* propagate()                                                             *)
NewCycle(s) == [s EXCEPT !.fresh = {}, !.relaxed = {}]

StartPropagation ==
  /\ Idle /\ dirty
  /\ Become(NewCycle(RelaxEmpties(Now, TRUE)))
  /\ propagating' = TRUE /\ started' = FALSE
  /\ UNCHANGED <<variables, out, status, allow, dirty>>

(* DefaultPropagator::execute.  The constraint that is executed does not   *)
(* notify itself; when it empties a domain and violations are not allowed  *)
(* the whole agenda is dropped.                                            *)
Propagating == propagating /\ empties = {} /\ started' = TRUE

ExecutionChanges(c) == {v \in Vars(c) : Filtered(c, dom)[v] # dom[v]}

ExecuteConsistently(c) ==
  LET s == [Now EXCEPT !.dom = Filtered(c, dom)]
      t == FoldSet(LAMBDA v, r : Restricted(r, v), s, ExecutionChanges(c))
  IN  /\ Propagating /\ c \in agenda /\ held[c] = 0
      /\ Supports(c, dom) # {}
      /\ Become([t EXCEPT !.agenda = @ \ {c}])
      /\ dirty' = TRUE
      /\ UNCHANGED <<variables, out, status, allow, propagating>>

ExecuteInconsistently(c) ==
  /\ Propagating /\ c \in agenda /\ held[c] = 0
  /\ Supports(c, dom) = {}
  /\ \E v \in Vars(c) :
       LET s == Emptied([Now EXCEPT !.dom[v] = {}], v)
       IN  IF ~Inactive(v) /\ allow
           THEN Become(SetAside(s, c))
           ELSE Become([s EXCEPT !.agenda = {}])
  /\ dirty' = TRUE
  /\ UNCHANGED <<variables, out, status, allow, propagating>>

Execute(c) == ExecuteConsistently(c) \/ ExecuteInconsistently(c)

(* Nothing is left to execute: redundant constraints are deactivated.      *)
CompletePropagation ==
  /\ propagating /\ empties = {} /\ agenda = {}
  /\ propagating' = FALSE
  /\ Become(NewCycle(IF started THEN Deactivated(Now, buffered) ELSE Now))
  /\ buffered' = IF started THEN {} ELSE buffered
  /\ dirty' = IF started THEN buffered \cap Active(Now) # {} ELSE dirty
  /\ UNCHANGED <<variables, out, redundant, allow, started>>

(* A domain was emptied, and violations are not allowed.                   *)
PreemptPropagation ==
  /\ propagating /\ empties # {} /\ ~allow
  /\ propagating' = FALSE
  /\ Become(NewCycle(Now))
  /\ UNCHANGED <<variables, out, status, allow, dirty, started>>

(* A domain was emptied, but its constraint now counts as violated.        *)
ResumePropagation ==
  /\ propagating /\ empties # {} /\ allow
  /\ started' = FALSE
  /\ Become(NewCycle(RelaxEmpties(NewCycle(Now), FALSE)))
  /\ UNCHANGED <<variables, out, status, allow, dirty, propagating>>

Propagate ==
  \/ \E c \in Constraint : Execute(c)
  \/ CompletePropagation \/ PreemptPropagation \/ ResumePropagation

(* What the client restricts a base domain to.                             *)
Respects(v, D) == Overruling \/ spec[v] \in D \cup {NoValue}

Client ==
  \/ \E v \in Var : \/ AddVariable(v) \/ RemoveVariable(v) \/ Reset(v)
                    \/ Deactivate(v) \/ Reactivate(v) \/ ReadDerivedDomain(v)
                    \/ \E value \in Value : Specify(v, value)
                    \/ \E r \in Restrictions : /\ r[1] = v /\ Respects(v, r[2])
                                               /\ RestrictBaseDomain(v, r[2])
  \/ \E c \in Constraint : AddConstraint(c) \/ RemoveConstraint(c)
  \/ \E b \in Tolerances : SetAllowViolations(b)
  \/ StartPropagation

Next == Propagate \/ Client

Spec == Init /\ [][Next]_vars

(* The loops of propagate() run to their end.                              *)
FairSpec == Spec /\ WF_vars(Propagate)
=============================================================================
