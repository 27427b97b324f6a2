----------------------- MODULE ConstraintEngineProofs -----------------------
(***************************************************************************)
(* What the constraint engine promises, proved for any network.            *)
(*                                                                         *)
(* First what each of the operators that change the network does to each   *)
(* part of it; everything after that is proved from these facts.  Then     *)
(* what propagation and retraction leave behind:                           *)
(*   I.  no value that a solution needs is ever lost, when violations are  *)
(*       not allowed;                                                      *)
(*   II. no constraint that could still take a value away is forgotten,    *)
(*       when they are.                                                    *)
(***************************************************************************)
EXTENDS ConstraintEngineProperties, FiniteSetTheorems, TLAPS

Networks ==
  [constraints : SUBSET Constraint, base : Domains, dom : Domains,
   spec : [Var -> Value \cup {NoValue}], held : [Constraint -> Count],
   fresh : SUBSET Var, relaxed : SUBSET Var, empties : SUBSET Var,
   violated : SUBSET Constraint, agenda : SUBSET Constraint]

(* What no operator changes but the client's own calls.                    *)
SameGround(s, t) == t.constraints = s.constraints /\ t.base = s.base

(* All but the agenda and the record of relaxed variables.                 *)
Alike(s, t) ==
  /\ SameGround(s, t) /\ t.dom = s.dom /\ t.spec = s.spec /\ t.held = s.held
  /\ t.fresh = s.fresh /\ t.empties = s.empties /\ t.violated = s.violated

LEMMA CountIsNat == UIntMod \in Nat /\ UIntMod > 1 /\ Count = 0 .. UIntMod - 1 /\ NoValue \notin Value
BY EngineAssumption DEF EngineAssumption, Count

LEMMA NowIsNetwork ==
  ASSUME TypeOK
  PROVE  Now \in Networks
BY DEF TypeOK, Now, Networks

(* Setting parts of a network.                                             *)
LEMMA SetAgenda ==
  ASSUME NEW s, NEW A, s \in Networks, A \subseteq Constraint
  PROVE  /\ [s EXCEPT !.agenda = A] \in Networks /\ Alike(s, [s EXCEPT !.agenda = A])
         /\ [s EXCEPT !.agenda = A].agenda = A /\ [s EXCEPT !.agenda = A].relaxed = s.relaxed
BY DEF Networks, Alike, SameGround

LEMMA SetRelaxed ==
  ASSUME NEW s, NEW A, s \in Networks, A \subseteq Var
  PROVE  /\ [s EXCEPT !.relaxed = A] \in Networks /\ Alike(s, [s EXCEPT !.relaxed = A])
         /\ [s EXCEPT !.relaxed = A].relaxed = A /\ [s EXCEPT !.relaxed = A].agenda = s.agenda
BY DEF Networks, Alike, SameGround

LEMMA WakeUpEffect ==
  ASSUME NEW s, NEW v, s \in Networks
  PROVE  /\ WakeUp(s, v) \in Networks /\ Alike(s, WakeUp(s, v))
         /\ WakeUp(s, v).agenda = s.agenda \cup (On(s, v) \cap Active(s))
         /\ WakeUp(s, v).relaxed = s.relaxed
<1> DEFINE A == s.agenda \cup (On(s, v) \cap Active(s))
<1>1. A \subseteq Constraint
  BY DEF Networks, On
<1>2. WakeUp(s, v) = [s EXCEPT !.agenda = A]
  BY DEF WakeUp
<1> HIDE DEF A
<1>3. /\ WakeUp(s, v) \in Networks /\ Alike(s, WakeUp(s, v))
      /\ WakeUp(s, v).agenda = A /\ WakeUp(s, v).relaxed = s.relaxed
  BY <1>1, <1>2, SetAgenda
<1>4. QED
  BY <1>3 DEF A

LEMMA RestrictedEffect ==
  ASSUME NEW s, NEW v, s \in Networks
  PROVE  /\ Restricted(s, v) \in Networks /\ Alike(s, Restricted(s, v))
         /\ Restricted(s, v).relaxed \subseteq s.relaxed
         /\ s.agenda \subseteq Restricted(s, v).agenda
         /\ Restricted(s, v).agenda \subseteq s.agenda \cup Active(s)
         /\ ~Inactive(v) => On(s, v) \cap Active(s) \subseteq Restricted(s, v).agenda
<1>1. CASE Inactive(v)
  BY <1>1 DEF Restricted, Alike, SameGround
<1>2. CASE ~Inactive(v)
  <2> DEFINE A == s.relaxed \ {v}
             t == [s EXCEPT !.relaxed = A]
  <2>1. A \subseteq Var /\ A \subseteq s.relaxed
    BY DEF Networks
  <2>2. Restricted(s, v) = WakeUp(t, v)
    BY <1>2 DEF Restricted
  <2>3. t \in Networks /\ Alike(s, t) /\ t.relaxed = A /\ t.agenda = s.agenda
    <3> HIDE DEF A
    <3>1. QED
      BY <2>1, SetRelaxed
  <2> HIDE DEF t, A
  <2>4. On(t, v) = On(s, v) /\ Active(t) = Active(s)
    BY <2>3 DEF On, Active, Alike, SameGround
  <2>5. /\ WakeUp(t, v) \in Networks /\ Alike(t, WakeUp(t, v))
        /\ WakeUp(t, v).agenda = t.agenda \cup (On(t, v) \cap Active(t))
        /\ WakeUp(t, v).relaxed = t.relaxed
    BY <2>3, WakeUpEffect
  <2>6. Alike(s, WakeUp(t, v))
    BY <2>3, <2>5 DEF Alike, SameGround
  <2>7. QED
    BY <2>1, <2>2, <2>3, <2>4, <2>5, <2>6
<1>3. QED
  BY <1>1, <1>2

LEMMA EmptiedEffect ==
  ASSUME NEW s, NEW v, s \in Networks, v \in Var
  PROVE  /\ Emptied(s, v) \in Networks /\ SameGround(s, Emptied(s, v))
         /\ Emptied(s, v).dom = s.dom /\ Emptied(s, v).spec = s.spec
         /\ Emptied(s, v).held = s.held /\ Emptied(s, v).violated = s.violated
         /\ Emptied(s, v).fresh = s.fresh /\ Emptied(s, v).relaxed = s.relaxed
         /\ Emptied(s, v).agenda = s.agenda
         /\ s.empties \subseteq Emptied(s, v).empties
         /\ Emptied(s, v).empties \subseteq s.empties \cup {v}
         /\ ~Inactive(v) => v \in Emptied(s, v).empties
<1>1. CASE Inactive(v)
  BY <1>1 DEF Emptied, SameGround
<1>2. CASE ~Inactive(v)
  <2> DEFINE E == s.empties \cup {v}
  <2>1. E \subseteq Var /\ s.empties \subseteq E /\ v \in E
    BY DEF Networks
  <2>2. Emptied(s, v) = [s EXCEPT !.empties = E]
    BY <1>2 DEF Emptied
  <2> HIDE DEF E
  <2>3. QED
    BY <1>2, <2>1, <2>2 DEF Networks, SameGround, E
<1>3. QED
  BY <1>1, <1>2

LEMMA Modulo ==
  ASSUME NEW n, n \in Int
  PROVE  n % UIntMod \in Count
BY CountIsNat

LEMMA HeldIsCount ==
  ASSUME NEW s, NEW c, s \in Networks, c \in Constraint
  PROVE  s.held[c] \in Count /\ s.held[c] \in Nat /\ s.held[c] < UIntMod
BY CountIsNat DEF Networks, Count

(* The constraints of C are deactivated once more.                         *)
LEMMA DeactivatedEffect ==
  ASSUME NEW s, NEW C, s \in Networks, C \subseteq Constraint
  PROVE  /\ Deactivated(s, C) \in Networks /\ SameGround(s, Deactivated(s, C))
         /\ Deactivated(s, C).dom = s.dom /\ Deactivated(s, C).spec = s.spec
         /\ Deactivated(s, C).fresh = s.fresh /\ Deactivated(s, C).relaxed = s.relaxed
         /\ Deactivated(s, C).empties = s.empties /\ Deactivated(s, C).violated = s.violated
         /\ Deactivated(s, C).agenda = s.agenda \ C
         /\ \A c \in Constraint \ C : Deactivated(s, C).held[c] = s.held[c]
         /\ \A c \in C : Deactivated(s, C).held[c] = (s.held[c] + 1) % UIntMod
<1> DEFINE count == [c \in Constraint |-> IF c \in C THEN (s.held[c] + 1) % UIntMod ELSE s.held[c]]
           A == s.agenda \ C
<1>1. count \in [Constraint -> Count]
  <2>1. ASSUME NEW c \in Constraint
        PROVE  (s.held[c] + 1) % UIntMod \in Count /\ s.held[c] \in Count
    BY HeldIsCount, Modulo
  <2>2. QED
    BY <2>1
<1>2. A \subseteq Constraint
  BY DEF Networks
<1>3. /\ \A c \in Constraint \ C : count[c] = s.held[c]
      /\ \A c \in C : count[c] = (s.held[c] + 1) % UIntMod
  OBVIOUS
<1>4. Deactivated(s, C) = [s EXCEPT !.held = count, !.agenda = A]
  BY DEF Deactivated
<1> HIDE DEF count, A
<1>5. /\ Deactivated(s, C) \in Networks /\ SameGround(s, Deactivated(s, C))
      /\ Deactivated(s, C).dom = s.dom /\ Deactivated(s, C).spec = s.spec
      /\ Deactivated(s, C).fresh = s.fresh /\ Deactivated(s, C).relaxed = s.relaxed
      /\ Deactivated(s, C).empties = s.empties /\ Deactivated(s, C).violated = s.violated
      /\ Deactivated(s, C).agenda = A /\ Deactivated(s, C).held = count
  BY <1>1, <1>2, <1>4 DEF Networks, SameGround
<1>6. QED
  BY <1>3, <1>5 DEF A

(* A deactivation of the constraints of C is undone, except for those that *)
(* are redundant.                                                          *)
Undone(s, C, t) ==
  /\ t \in Networks /\ SameGround(s, t) /\ t.dom = s.dom /\ t.spec = s.spec
  /\ t.fresh = s.fresh /\ t.relaxed = s.relaxed /\ t.empties = s.empties
  /\ \A c \in Constraint : c \notin C \ redundant => t.held[c] = s.held[c]
  /\ \A c \in C \ redundant : t.held[c] = (s.held[c] - 1) % UIntMod
  /\ t.agenda = s.agenda \cup {c \in C \ redundant : t.held[c] = 0}

LEMMA UndoDeactivationEffect ==
  ASSUME NEW s, NEW C, s \in Networks, C \subseteq Constraint
  PROVE  Undone(s, C, UndoDeactivation(s, C)) /\ UndoDeactivation(s, C).violated = s.violated
<1> DEFINE count == [c \in Constraint |-> IF c \in C \ redundant THEN (s.held[c] - 1) % UIntMod
                                                                 ELSE s.held[c]]
           A == s.agenda \cup {c \in C \ redundant : count[c] = 0}
           t == UndoDeactivation(s, C)
<1>1. count \in [Constraint -> Count]
  <2>1. ASSUME NEW c \in Constraint
        PROVE  (s.held[c] - 1) % UIntMod \in Count /\ s.held[c] \in Count
    BY HeldIsCount, Modulo
  <2>2. QED
    BY <2>1
<1>2. A \subseteq Constraint
  BY DEF Networks
<1>3. /\ \A c \in Constraint : c \notin C \ redundant => count[c] = s.held[c]
      /\ \A c \in C \ redundant : count[c] = (s.held[c] - 1) % UIntMod
  OBVIOUS
<1>4. t = [s EXCEPT !.held = count, !.agenda = A]
  BY DEF UndoDeactivation
<1> HIDE DEF count, A, t
<1>5. /\ t \in Networks /\ SameGround(s, t) /\ t.dom = s.dom /\ t.spec = s.spec
      /\ t.fresh = s.fresh /\ t.relaxed = s.relaxed
      /\ t.empties = s.empties /\ t.violated = s.violated /\ t.agenda = A /\ t.held = count
  BY <1>1, <1>2, <1>4 DEF Networks, SameGround
<1>6. t.agenda = s.agenda \cup {c \in C \ redundant : t.held[c] = 0}
  BY <1>5 DEF A
<1>7. Undone(s, C, t)
  BY <1>3, <1>5, <1>6 DEF Undone
<1>8. QED
  BY <1>5, <1>7 DEF t

(* The violated constraints on the variables of W.                         *)
Back(s, W) == s.violated \cap UNION {On(s, w) : w \in W}

LEMMA BackMembers ==
  ASSUME NEW s, NEW W
  PROVE  \A c : c \in Back(s, W) <=> /\ c \in s.violated /\ c \in s.constraints
                                     /\ Vars(c) \cap W # {}
BY DEF Back, On

LEMMA RestoredEffect ==
  ASSUME NEW s, NEW W, s \in Networks
  PROVE  /\ Undone(s, Back(s, W), Restored(s, W))
         /\ Restored(s, W).violated = s.violated \ Back(s, W)
<1> DEFINE B == Back(s, W)
           u == UndoDeactivation(s, B)
           V == s.violated \ B
           t == Restored(s, W)
<1>1. B \subseteq Constraint /\ V \subseteq Constraint
  BY DEF Networks, Back
<1>2. t = [u EXCEPT !.violated = u.violated \ B]
  BY DEF Restored, Back
<1> HIDE DEF B, t, u
<1>3. Undone(s, B, u) /\ u.violated = s.violated
  BY <1>1, UndoDeactivationEffect DEF u
<1>4. t = [u EXCEPT !.violated = V] /\ u \in Networks
  BY <1>2, <1>3 DEF Undone
<1> HIDE DEF V
<1>5. /\ t \in Networks /\ SameGround(u, t) /\ t.dom = u.dom /\ t.spec = u.spec /\ t.held = u.held
      /\ t.fresh = u.fresh /\ t.relaxed = u.relaxed /\ t.empties = u.empties
      /\ t.agenda = u.agenda /\ t.violated = V
  BY <1>1, <1>4 DEF Networks, SameGround
<1>6. Undone(s, B, t)
  BY <1>3, <1>5 DEF Undone, SameGround
<1>7. QED
  BY <1>5, <1>6 DEF V, B, t

LEMMA InitiateEffect ==
  ASSUME NEW s, NEW v, s \in Networks, v \in Var
  PROVE  /\ Initiate(s, v) \in Networks /\ SameGround(s, Initiate(s, v))
         /\ Initiate(s, v).dom = s.dom /\ Initiate(s, v).spec = s.spec
         /\ Initiate(s, v).held = s.held /\ Initiate(s, v).violated = s.violated
         /\ Initiate(s, v).empties = s.empties /\ Initiate(s, v).agenda = s.agenda
         /\ v \in Initiate(s, v).fresh /\ Initiate(s, v).fresh \subseteq s.fresh \cup {v}
         /\ Initiate(s, v).relaxed = s.relaxed \cup {v}
<1> DEFINE F == IF s.relaxed = {} THEN {v} ELSE s.fresh \cup {v}
           R == s.relaxed \cup {v}
<1>1. F \subseteq Var /\ R \subseteq Var /\ v \in F /\ F \subseteq s.fresh \cup {v}
  BY DEF Networks
<1>2. Initiate(s, v) = [s EXCEPT !.fresh = F, !.relaxed = R]
  BY DEF Initiate
<1> HIDE DEF F
<1>3. QED
  BY <1>1, <1>2 DEF Networks, SameGround

(* What is known of a variable without looking at any constraint.          *)
FreeIn(s, v) == IF s.spec[v] = NoValue THEN s.base[v] ELSE {s.spec[v]}

LEMMA FreeInType ==
  ASSUME NEW s, NEW v, s \in Networks, v \in Var
  PROVE  FreeIn(s, v) \subseteq Value
BY CountIsNat DEF Networks, FreeIn, Domains

LEMMA RelaxedDomainEffect ==
  ASSUME NEW s, NEW v, s \in Networks, v \in Var
  PROVE  /\ RelaxedDomain(s, v) \in Networks /\ SameGround(s, RelaxedDomain(s, v))
         /\ RelaxedDomain(s, v).spec = s.spec /\ RelaxedDomain(s, v).held = s.held
         /\ RelaxedDomain(s, v).fresh = s.fresh /\ RelaxedDomain(s, v).relaxed = s.relaxed
         /\ RelaxedDomain(s, v).empties = s.empties /\ RelaxedDomain(s, v).violated = s.violated
         /\ RelaxedDomain(s, v).agenda = s.agenda
         /\ RelaxedDomain(s, v).dom[v] = FreeIn(s, v)
         /\ \A w \in Var : w # v => RelaxedDomain(s, v).dom[w] = s.dom[w]
<1> DEFINE D == FreeIn(s, v)
           d == [s.dom EXCEPT ![v] = D]
<1>1. RelaxedDomain(s, v) = [s EXCEPT !.dom = d]
  BY DEF RelaxedDomain, FreeIn
<1>2. d \in Domains /\ d[v] = D /\ \A w \in Var : w # v => d[w] = s.dom[w]
  <2>1. s.dom \in [Var -> SUBSET Value] /\ D \in SUBSET Value
    BY FreeInType DEF Networks, Domains
  <2> HIDE DEF D
  <2>2. QED
    BY <2>1 DEF Domains
<1> HIDE DEF d, D
<1>3. QED
  BY <1>1, <1>2 DEF Networks, SameGround, D

(* Relaxing what is linked to v, without the violated constraints.         *)
LinkRelaxed(s, v) == RelaxLinked(s, v, FALSE)

(* Of what is linked to v, what lets itself be relaxed.                    *)
Moved(s, v) == {w \in Linked(s, v) : ~Untouched(s, w)}

Woken(s, L) == {c \in Active(s) : \E w \in L : ~Inactive(w) /\ w \in Vars(c)}

LEMMA LinkRelaxedEffect ==
  ASSUME NEW s, NEW v, s \in Networks
  PROVE  /\ LinkRelaxed(s, v) \in Networks /\ SameGround(s, LinkRelaxed(s, v))
         /\ LinkRelaxed(s, v).spec = s.spec /\ LinkRelaxed(s, v).held = s.held
         /\ LinkRelaxed(s, v).relaxed = s.relaxed
         /\ LinkRelaxed(s, v).empties = s.empties /\ LinkRelaxed(s, v).violated = s.violated
         /\ LinkRelaxed(s, v).fresh = s.fresh \cup Linked(s, v)
         /\ LinkRelaxed(s, v).agenda = s.agenda \cup Woken(s, Moved(s, v))
         /\ \A w \in Moved(s, v) : LinkRelaxed(s, v).dom[w] = s.base[w]
         /\ \A w \in Var : w \notin Moved(s, v) => LinkRelaxed(s, v).dom[w] = s.dom[w]
<1> DEFINE L == Linked(s, v)
           M == Moved(s, v)
           d == [w \in Var |-> IF w \in M THEN s.base[w] ELSE s.dom[w]]
           F == s.fresh \cup L
           W == UNION {On(s, w) \cap Active(s) : w \in {u \in M : ~Inactive(u)}}
           A == s.agenda \cup W
           t == LinkRelaxed(s, v)
<1>1. L \subseteq Var /\ M \subseteq Var /\ M = {w \in L : ~Untouched(s, w)}
  BY DEF Linked, Moved
<1> HIDE DEF L, M
<1>2. t = [s EXCEPT !.dom = d, !.fresh = F, !.agenda = A]
  BY <1>1 DEF LinkRelaxed, RelaxLinked, L
<1>3. d \in Domains
  <2>1. \A w \in Var : s.base[w] \in SUBSET Value /\ s.dom[w] \in SUBSET Value
    BY DEF Networks, Domains
  <2>2. QED
    BY <2>1 DEF Domains
<1>4. /\ \A w \in M : d[w] = s.base[w]
      /\ \A w \in Var : w \notin M => d[w] = s.dom[w]
  BY <1>1
<1>5. F \subseteq Var
  BY <1>1 DEF Networks
<1>6. W \subseteq Active(s) /\ Active(s) \subseteq Constraint
  BY DEF Active, Networks
<1>7. A \subseteq Constraint
  BY <1>6 DEF Networks
<1>8. \A c : c \in W <=> c \in Woken(s, M)
  BY DEF Woken, On, Active
<1>9. W = Woken(s, M)
  <2>1. Woken(s, M) \subseteq Active(s)
    BY DEF Woken
  <2> HIDE DEF W
  <2>2. QED
    BY ONLY <1>6, <1>8, <2>1
<1> HIDE DEF d, F, t, W
<1>10. /\ t \in Networks /\ SameGround(s, t) /\ t.spec = s.spec /\ t.held = s.held
       /\ t.relaxed = s.relaxed /\ t.empties = s.empties /\ t.violated = s.violated
       /\ t.dom = d /\ t.fresh = F /\ t.agenda = A
  <2> HIDE DEF A
  <2>1. QED
    BY <1>2, <1>3, <1>5, <1>7 DEF Networks, SameGround
<1>11. QED
  BY <1>4, <1>9, <1>10 DEF F, L, M, t

LEMMA RelaxLinkedEffect ==
  ASSUME NEW s, NEW v, NEW restoring \in BOOLEAN
  PROVE  /\ restoring => RelaxLinked(s, v, restoring) = Restored(LinkRelaxed(s, v), Linked(s, v))
         /\ ~restoring => RelaxLinked(s, v, restoring) = LinkRelaxed(s, v)
BY DEF RelaxLinked, LinkRelaxed
-----------------------------------------------------------------------------
(* What always holds of the network, in the middle of a call too; V are    *)
(* the variables, O their deactivations, R the redundant constraints and C *)
(* the constraints that the engine knew when the call came.                *)

(* The deactivations of the variables of c.                                *)
Load(O, c) == SumFunctionOnSet(O, Vars(c))

(* Each variable is deactivated once at a time at most, and the count of a *)
(* constraint is wide enough for that.                                     *)
Narrow ==
  /\ MaxHeld = 1
  /\ \A c \in Constraint : Cardinality(Vars(c)) + 1 < UIntMod

CountedIn(s, O, R) ==
  \A c \in s.constraints \ R :
    /\ c \in s.violated => s.held[c] = Load(O, c) + 1
    /\ c \notin s.violated => s.held[c] = Load(O, c)

(* No variable can be deactivated or deleted.                              *)
Undisturbed == Holdable = {} /\ Disposable = {}

(* No base domain is restricted against the value that a variable is       *)
(* specified to; then no domain has a value that the base domain lacks.    *)
Obliging == Overruling => Restrictions = {}

Contained(s) ==
  \A v \in Var : s.dom[v] \subseteq s.base[v] /\ s.spec[v] \in s.base[v] \cup {NoValue}

BasicIn(s, V, O, R, C) ==
  /\ s \in Networks
  /\ \A v \in Var : s.base[v] # {}
  /\ s.fresh \subseteq V /\ s.relaxed \subseteq V /\ s.empties \subseteq V
  /\ \A c \in s.constraints : Vars(c) \subseteq V
  /\ s.agenda \subseteq s.constraints /\ s.violated \subseteq C
  /\ Narrow => CountedIn(s, O, R)
  /\ Undisturbed => \A v \in Var : s.dom[v] = {} => v \in s.empties
  /\ Obliging => Contained(s)

(* The part of the state that no operator changes.                         *)
Settings ==
  /\ variables \subseteq Var
  /\ \A c \in Constraint : Load(out, c) \in Nat
  /\ Undisturbed => \A v \in Var : ~Inactive(v)

Basic(s) == BasicIn(s, variables, out, redundant, constraints) /\ Settings

LEMMA BasicIsNetwork ==
  ASSUME NEW s, Basic(s)
  PROVE  s \in Networks /\ variables \subseteq Var /\ s.agenda \subseteq s.constraints
BY DEF Basic, BasicIn, Settings

LEMMA BasicAlike ==
  ASSUME NEW s, NEW t, Basic(s), t \in Networks, Alike(s, t),
         t.relaxed \subseteq s.relaxed, t.agenda \subseteq s.agenda \cup Active(s)
  PROVE  Basic(t)
<1>1. t.relaxed \subseteq variables /\ t.agenda \subseteq t.constraints
  BY DEF Basic, BasicIn, Active, Alike, SameGround
<1>2. CountedIn(s, out, redundant) => CountedIn(t, out, redundant)
  BY DEF CountedIn, Alike, SameGround
<1>3. Contained(s) => Contained(t)
  BY DEF Contained, Alike, SameGround
<1>4. QED
  BY <1>1, <1>2, <1>3 DEF Basic, BasicIn, Alike, SameGround

LEMMA BasicWakeUp ==
  ASSUME NEW s, NEW v, Basic(s)
  PROVE  Basic(WakeUp(s, v)) /\ SameGround(s, WakeUp(s, v))
<1>1. s \in Networks
  BY DEF Basic, BasicIn
<1>2. /\ WakeUp(s, v) \in Networks /\ Alike(s, WakeUp(s, v))
      /\ WakeUp(s, v).agenda \subseteq s.agenda \cup Active(s)
      /\ WakeUp(s, v).relaxed \subseteq s.relaxed
  BY <1>1, WakeUpEffect
<1>3. QED
  BY <1>2, BasicAlike DEF Alike

LEMMA BasicRestricted ==
  ASSUME NEW s, NEW v, Basic(s)
  PROVE  Basic(Restricted(s, v)) /\ SameGround(s, Restricted(s, v))
<1>1. s \in Networks
  BY DEF Basic, BasicIn
<1>2. /\ Restricted(s, v) \in Networks /\ Alike(s, Restricted(s, v))
      /\ Restricted(s, v).agenda \subseteq s.agenda \cup Active(s)
      /\ Restricted(s, v).relaxed \subseteq s.relaxed
  BY <1>1, RestrictedEffect
<1>3. QED
  BY <1>2, BasicAlike DEF Alike

LEMMA BasicRestored ==
  ASSUME NEW s, NEW W, Basic(s)
  PROVE  Basic(Restored(s, W)) /\ SameGround(s, Restored(s, W))
<1> DEFINE t == Restored(s, W)
           B == Back(s, W)
<1>1. Undone(s, B, t) /\ t.violated = s.violated \ B /\ s \in Networks
  BY RestoredEffect DEF Basic, BasicIn
<1>2. B \subseteq s.constraints /\ B \subseteq s.violated
  BY BackMembers
<1> HIDE DEF t, B
<1>3. ASSUME Narrow
      PROVE  CountedIn(t, out, redundant)
  <2> SUFFICES ASSUME NEW c \in t.constraints \ redundant
               PROVE  /\ c \in t.violated => t.held[c] = Load(out, c) + 1
                      /\ c \notin t.violated => t.held[c] = Load(out, c)
    BY DEF CountedIn
  <2>1. /\ c \in s.violated => s.held[c] = Load(out, c) + 1
        /\ c \notin s.violated => s.held[c] = Load(out, c)
        /\ c \in s.constraints /\ c \in Constraint
    BY <1>1, <1>3 DEF Basic, BasicIn, CountedIn, Undone, SameGround, Networks
  <2>2. CASE c \notin B
    BY <1>1, <2>1, <2>2 DEF Undone
  <2>3. CASE c \in B
    <3>1. s.held[c] = Load(out, c) + 1 /\ t.held[c] = (s.held[c] - 1) % UIntMod
      BY <1>1, <1>2, <2>1, <2>3 DEF Undone
    <3>2. Load(out, c) \in Nat /\ s.held[c] < UIntMod
      BY <1>1, <2>1, HeldIsCount DEF Basic, Settings
    <3>3. (s.held[c] - 1) % UIntMod = Load(out, c)
      BY <3>1, <3>2, CountIsNat
    <3>4. QED
      BY <1>1, <2>3, <3>1, <3>3
  <2>4. QED
    BY <2>2, <2>3
<1>4. t.agenda \subseteq t.constraints /\ t.violated \subseteq s.violated
  BY <1>1, <1>2 DEF Basic, BasicIn, Undone, SameGround
<1>5. Contained(s) => Contained(t)
  BY <1>1 DEF Contained, Undone, SameGround
<1>6. Basic(t)
  BY <1>1, <1>3, <1>4, <1>5 DEF Basic, BasicIn, Undone, SameGround
<1>7. QED
  BY <1>1, <1>6 DEF Undone, t

LEMMA BasicEmptied ==
  ASSUME NEW s, NEW v, Basic(s), v \in variables
  PROVE  Basic(Emptied(s, v)) /\ SameGround(s, Emptied(s, v))
<1> DEFINE t == Emptied(s, v)
<1>1. /\ t \in Networks /\ SameGround(s, t) /\ t.dom = s.dom /\ t.spec = s.spec
      /\ t.held = s.held /\ t.violated = s.violated
      /\ t.fresh = s.fresh /\ t.relaxed = s.relaxed /\ t.agenda = s.agenda
      /\ s.empties \subseteq t.empties /\ t.empties \subseteq s.empties \cup {v}
  BY EmptiedEffect DEF Basic, BasicIn, Settings
<1> HIDE DEF t
<1>2. CountedIn(s, out, redundant) => CountedIn(t, out, redundant)
  BY <1>1 DEF CountedIn, SameGround
<1>3. Contained(s) => Contained(t)
  BY <1>1 DEF Contained, SameGround
<1>4. Basic(t)
  BY <1>1, <1>2, <1>3 DEF Basic, BasicIn, SameGround
<1>5. QED
  BY <1>1, <1>4 DEF t

LEMMA BasicSame ==
  ASSUME NEW s, NEW t, Basic(s), t \in Networks, SameGround(s, t),
         t.held = s.held, t.violated = s.violated,
         t.fresh \subseteq variables, t.relaxed \subseteq variables, t.empties \subseteq variables,
         t.agenda \subseteq s.agenda \cup Active(s),
         \A w \in Var : t.dom[w] = {} /\ (s.dom[w] = {} => w \in s.empties) => w \in t.empties,
         Obliging /\ Contained(s) => Contained(t)
  PROVE  Basic(t)
<1>1. t.agenda \subseteq t.constraints
  BY DEF Basic, BasicIn, Active, SameGround
<1>2. CountedIn(s, out, redundant) => CountedIn(t, out, redundant)
  BY DEF CountedIn, SameGround
<1>3. QED
  BY <1>1, <1>2 DEF Basic, BasicIn, SameGround

LEMMA FreeInNonempty ==
  ASSUME NEW s, NEW v, Basic(s), v \in Var
  PROVE  FreeIn(s, v) # {} /\ s.base[v] # {}
BY DEF Basic, BasicIn, FreeIn

(* Every domain, and every specified value, is as it was or what is known  *)
(* of the variable by itself.                                              *)
LEMMA ContainedFree ==
  ASSUME NEW s, NEW t, t.base = s.base, t.spec = s.spec,
         \A w \in Var : \/ t.dom[w] \subseteq s.dom[w] \/ t.dom[w] = FreeIn(s, w)
                        \/ t.dom[w] = s.base[w],
         Contained(s)
  PROVE  Contained(t)
<1>1. \A w \in Var : FreeIn(s, w) \subseteq s.base[w]
  BY DEF Contained, FreeIn
<1>2. QED
  BY <1>1 DEF Contained

LEMMA BasicRelaxedDomain ==
  ASSUME NEW s, NEW v, Basic(s), v \in variables
  PROVE  Basic(RelaxedDomain(s, v)) /\ SameGround(s, RelaxedDomain(s, v))
<1> DEFINE t == RelaxedDomain(s, v)
<1>0. v \in Var /\ s \in Networks
  BY DEF Basic, BasicIn, Settings
<1>1. /\ t \in Networks /\ SameGround(s, t) /\ t.spec = s.spec
      /\ t.held = s.held /\ t.violated = s.violated /\ t.agenda = s.agenda
      /\ t.fresh = s.fresh /\ t.relaxed = s.relaxed /\ t.empties = s.empties
      /\ t.dom[v] = FreeIn(s, v) /\ \A w \in Var : w # v => t.dom[w] = s.dom[w]
  BY <1>0, RelaxedDomainEffect
<1>2. FreeIn(s, v) # {}
  BY <1>0, FreeInNonempty
<1> HIDE DEF t
<1>3. \A w \in Var : t.dom[w] = {} => s.dom[w] = {}
  BY <1>1, <1>2
<1>4. t.fresh \subseteq variables /\ t.relaxed \subseteq variables /\ t.empties \subseteq variables
  BY <1>1 DEF Basic, BasicIn
<1>5. Contained(s) => Contained(t)
  BY <1>1, ContainedFree DEF SameGround
<1>6. Basic(t)
  BY <1>1, <1>3, <1>4, <1>5, BasicSame
<1>7. QED
  BY <1>1, <1>6 DEF t

LEMMA BasicInitiate ==
  ASSUME NEW s, NEW v, Basic(s), v \in variables
  PROVE  Basic(Initiate(s, v)) /\ SameGround(s, Initiate(s, v))
<1> DEFINE t == Initiate(s, v)
<1>0. v \in Var /\ s \in Networks
  BY DEF Basic, BasicIn, Settings
<1>1. /\ t \in Networks /\ SameGround(s, t) /\ t.spec = s.spec
      /\ t.held = s.held /\ t.violated = s.violated /\ t.agenda = s.agenda
      /\ t.dom = s.dom /\ t.empties = s.empties
      /\ t.fresh \subseteq s.fresh \cup {v} /\ t.relaxed = s.relaxed \cup {v}
  BY <1>0, InitiateEffect
<1> HIDE DEF t
<1>2. t.fresh \subseteq variables /\ t.relaxed \subseteq variables /\ t.empties \subseteq variables
  BY <1>1 DEF Basic, BasicIn
<1>3. Contained(s) => Contained(t)
  BY <1>1, ContainedFree DEF SameGround
<1>4. Basic(t)
  BY <1>1, <1>2, <1>3, BasicSame
<1>5. QED
  BY <1>1, <1>4 DEF t

(* Nothing is linked to a variable of the engine that is not one itself.   *)
LEMMA LinkedKnown ==
  ASSUME NEW s, NEW v, Basic(s), v \in variables
  PROVE  Linked(s, v) \subseteq variables
<1>1. variables \cup {v} = variables /\ variables \in SUBSET Var
  BY DEF Basic, Settings
<1>2. Neighbours(s, variables) \subseteq variables
  BY DEF Neighbours, Active, Basic, BasicIn
<1>3. QED
  BY <1>1, <1>2 DEF Linked

LEMMA BasicLinkRelaxed ==
  ASSUME NEW s, NEW v, Basic(s), v \in variables
  PROVE  Basic(LinkRelaxed(s, v)) /\ SameGround(s, LinkRelaxed(s, v))
<1> DEFINE t == LinkRelaxed(s, v)
           L == Linked(s, v)
           M == Moved(s, v)
<1>0. v \in Var /\ s \in Networks
  BY DEF Basic, BasicIn, Settings
<1>1. /\ t \in Networks /\ SameGround(s, t) /\ t.spec = s.spec
      /\ t.held = s.held /\ t.violated = s.violated /\ t.agenda = s.agenda \cup Woken(s, M)
      /\ t.empties = s.empties
      /\ t.fresh = s.fresh \cup L /\ t.relaxed = s.relaxed
      /\ \A w \in M : t.dom[w] = s.base[w]
      /\ \A w \in Var : w \notin M => t.dom[w] = s.dom[w]
  BY <1>0, LinkRelaxedEffect
<1>2. L \subseteq variables
  BY LinkedKnown
<1> HIDE DEF t, L, M
<1>3. \A w \in Var : t.dom[w] = {} => s.dom[w] = {}
  BY <1>1, FreeInNonempty
<1>4. t.fresh \subseteq variables /\ t.relaxed \subseteq variables /\ t.empties \subseteq variables
  BY <1>1, <1>2 DEF Basic, BasicIn
<1>5. t.agenda \subseteq s.agenda \cup Active(s)
  BY <1>1 DEF Woken
<1>6. Contained(s) => Contained(t)
  BY <1>1, ContainedFree DEF SameGround
<1>7. Basic(t)
  BY <1>1, <1>3, <1>4, <1>5, <1>6, BasicSame
<1>8. QED
  BY <1>1, <1>7 DEF t

LEMMA BasicRelaxLinked ==
  ASSUME NEW s, NEW v, NEW restoring \in BOOLEAN, Basic(s), v \in variables
  PROVE  Basic(RelaxLinked(s, v, restoring)) /\ SameGround(s, RelaxLinked(s, v, restoring))
<1>1. Basic(LinkRelaxed(s, v)) /\ SameGround(s, LinkRelaxed(s, v))
  BY BasicLinkRelaxed
<1>2. CASE restoring
  <2> DEFINE t == LinkRelaxed(s, v)
             r == Restored(t, Linked(s, v))
  <2>1. RelaxLinked(s, v, restoring) = r
    BY <1>2, RelaxLinkedEffect
  <2>2. Basic(r) /\ SameGround(t, r)
    BY <1>1, BasicRestored
  <2>3. SameGround(s, r)
    BY <1>1, <2>2 DEF SameGround
  <2>4. QED
    BY <2>1, <2>2, <2>3, Zenon
<1>3. CASE ~restoring
  BY <1>1, <1>3, RelaxLinkedEffect
<1>4. QED
  BY <1>2, <1>3

(* Violated constraints that come back change no domain.                   *)
LEMMA RelaxLinkedDomains ==
  ASSUME NEW s, NEW v, NEW restoring \in BOOLEAN, s \in Networks
  PROVE  /\ RelaxLinked(s, v, restoring) \in Networks
         /\ SameGround(s, RelaxLinked(s, v, restoring))
         /\ RelaxLinked(s, v, restoring).spec = s.spec
         /\ RelaxLinked(s, v, restoring).relaxed = s.relaxed
         /\ RelaxLinked(s, v, restoring).empties = s.empties
         /\ RelaxLinked(s, v, restoring).fresh = s.fresh \cup Linked(s, v)
         /\ \A w \in Moved(s, v) : RelaxLinked(s, v, restoring).dom[w] = s.base[w]
         /\ \A w \in Var : w \notin Moved(s, v) => RelaxLinked(s, v, restoring).dom[w] = s.dom[w]
<1> DEFINE t == LinkRelaxed(s, v)
           r == RelaxLinked(s, v, restoring)
           L == Linked(s, v)
           M == Moved(s, v)
<1>1. /\ t \in Networks /\ SameGround(s, t) /\ t.spec = s.spec
      /\ t.empties = s.empties /\ t.fresh = s.fresh \cup L /\ t.relaxed = s.relaxed
      /\ \A w \in M : t.dom[w] = s.base[w]
      /\ \A w \in Var : w \notin M => t.dom[w] = s.dom[w]
  BY LinkRelaxedEffect
<1>2. restoring => r = Restored(t, L)
  BY RelaxLinkedEffect
<1>3. ~restoring => r = t
  BY RelaxLinkedEffect
<1> HIDE DEF t, L, M, r
<1>4. CASE ~restoring
  BY <1>1, <1>3, <1>4 DEF r, L, M
<1>5. CASE restoring
  <2>1. Undone(t, Back(t, L), Restored(t, L))
    BY <1>1, RestoredEffect
  <2>2. /\ r \in Networks /\ SameGround(t, r) /\ r.spec = t.spec
        /\ r.empties = t.empties /\ r.fresh = t.fresh /\ r.relaxed = t.relaxed /\ r.dom = t.dom
    BY <1>2, <1>5, <2>1 DEF Undone
  <2>3. SameGround(s, r)
    BY <1>1, <2>2 DEF SameGround
  <2>4. QED
    BY <1>1, <2>2, <2>3 DEF r, L, M
<1>6. QED
  BY <1>4, <1>5

(* How an empty variable is relaxed, when it is.                           *)
Refilled(s, e, restoring) ==
  IF restoring THEN Restored(RelaxedDomain(s, e), {e}) ELSE RelaxedDomain(s, e)

Announced(s, e, restoring) == Initiate(Refilled(s, e, restoring), e)

EmptyRelaxed(s, e, restoring) == WakeUp(RelaxLinked(Announced(s, e, restoring), e, restoring), e)

OffRecord(s, e) == [s EXCEPT !.empties = @ \ {e}]

LEMMA RelaxEmptyCases ==
  ASSUME NEW s, NEW e, NEW restoring
  PROVE  /\ Untouched(s, e) => RelaxEmpty(s, e, restoring) = OffRecord(s, e)
         /\ ~Untouched(s, e) /\ Inactive(e) =>
              RelaxEmpty(s, e, restoring) = OffRecord(RelaxedDomain(s, e), e)
         /\ ~Untouched(s, e) /\ ~Inactive(e) =>
              RelaxEmpty(s, e, restoring) = OffRecord(EmptyRelaxed(s, e, restoring), e)
BY Zenon DEF RelaxEmpty, OffRecord, EmptyRelaxed, Announced, Refilled

LEMMA OffRecordEffect ==
  ASSUME NEW s, NEW e, s \in Networks
  PROVE  /\ OffRecord(s, e) \in Networks /\ SameGround(s, OffRecord(s, e))
         /\ OffRecord(s, e).dom = s.dom /\ OffRecord(s, e).spec = s.spec
         /\ OffRecord(s, e).held = s.held /\ OffRecord(s, e).violated = s.violated
         /\ OffRecord(s, e).fresh = s.fresh /\ OffRecord(s, e).relaxed = s.relaxed
         /\ OffRecord(s, e).agenda = s.agenda
         /\ OffRecord(s, e).empties = s.empties \ {e}
<1> DEFINE E == s.empties \ {e}
<1>1. E \subseteq Var
  BY DEF Networks
<1>2. OffRecord(s, e) = [s EXCEPT !.empties = E]
  BY DEF OffRecord
<1> HIDE DEF E
<1>3. QED
  BY <1>1, <1>2 DEF Networks, SameGround, E

LEMMA BasicOffRecord ==
  ASSUME NEW s, NEW e, Basic(s), e \in Var, s.dom[e] # {}
  PROVE  Basic(OffRecord(s, e)) /\ SameGround(s, OffRecord(s, e))
<1> DEFINE t == OffRecord(s, e)
<1>1. /\ t \in Networks /\ SameGround(s, t) /\ t.dom = s.dom /\ t.spec = s.spec /\ t.held = s.held
      /\ t.violated = s.violated /\ t.fresh = s.fresh /\ t.relaxed = s.relaxed
      /\ t.agenda = s.agenda /\ t.empties = s.empties \ {e}
  BY OffRecordEffect DEF Basic, BasicIn
<1> HIDE DEF t
<1>2. t.fresh \subseteq variables /\ t.relaxed \subseteq variables /\ t.empties \subseteq variables
  BY <1>1 DEF Basic, BasicIn
<1>3. \A w \in Var : t.dom[w] = {} /\ (s.dom[w] = {} => w \in s.empties) => w \in t.empties
  BY <1>1
<1>4. t.agenda \subseteq s.agenda \cup Active(s)
  BY <1>1
<1>5. Contained(s) => Contained(t)
  BY <1>1, ContainedFree DEF SameGround
<1>6. Basic(t)
  BY <1>1, <1>2, <1>3, <1>4, <1>5, BasicSame
<1>7. QED
  BY <1>1, <1>6 DEF t

(* What becomes of the variable itself.                                    *)
LEMMA BasicAnnounced ==
  ASSUME NEW s, NEW e, NEW restoring \in BOOLEAN, Basic(s), e \in variables
  PROVE  /\ Basic(Announced(s, e, restoring)) /\ SameGround(s, Announced(s, e, restoring))
         /\ Announced(s, e, restoring).spec = s.spec
         /\ Announced(s, e, restoring).empties = s.empties
         /\ Announced(s, e, restoring).relaxed = s.relaxed \cup {e}
         /\ e \in Announced(s, e, restoring).fresh
         /\ Announced(s, e, restoring).fresh \subseteq s.fresh \cup {e}
         /\ Announced(s, e, restoring).dom[e] = FreeIn(s, e)
         /\ \A w \in Var : w # e => Announced(s, e, restoring).dom[w] = s.dom[w]
<1> DEFINE t == RelaxedDomain(s, e)
           u == Refilled(s, e, restoring)
           r == Announced(s, e, restoring)
<1>0. e \in Var /\ s \in Networks
  BY DEF Basic, BasicIn, Settings
<1>1. Basic(t) /\ SameGround(s, t)
  BY BasicRelaxedDomain
<1>2. /\ t.spec = s.spec /\ t.fresh = s.fresh /\ t.relaxed = s.relaxed /\ t.empties = s.empties
      /\ t.dom[e] = FreeIn(s, e) /\ \A w \in Var : w # e => t.dom[w] = s.dom[w]
  BY <1>0, RelaxedDomainEffect
<1>3. restoring => u = Restored(t, {e})
  BY DEF Refilled
<1>4. ~restoring => u = t
  BY DEF Refilled
<1>5. r = Initiate(u, e)
  BY DEF Announced
<1> HIDE DEF t, u, r
<1>6. /\ Basic(u) /\ SameGround(t, u) /\ u.spec = t.spec /\ u.fresh = t.fresh
      /\ u.relaxed = t.relaxed /\ u.empties = t.empties /\ u.dom = t.dom
  <2>1. CASE restoring
    <3>1. Basic(Restored(t, {e})) /\ Undone(t, Back(t, {e}), Restored(t, {e}))
      BY <1>1, BasicRestored, RestoredEffect, BasicIsNetwork
    <3>2. QED
      BY <1>3, <2>1, <3>1 DEF Undone
  <2>2. CASE ~restoring
    BY <1>1, <1>4, <2>2 DEF SameGround
  <2>3. QED
    BY <2>1, <2>2
<1>7. Basic(r) /\ SameGround(u, r)
  BY <1>5, <1>6, BasicInitiate
<1>8. /\ r.dom = u.dom /\ r.spec = u.spec /\ r.empties = u.empties
      /\ e \in r.fresh /\ r.fresh \subseteq u.fresh \cup {e} /\ r.relaxed = u.relaxed \cup {e}
  BY <1>0, <1>5, <1>6, InitiateEffect, BasicIsNetwork
<1>9. SameGround(s, r)
  BY <1>1, <1>6, <1>7 DEF SameGround
<1>10. QED
  BY <1>2, <1>6, <1>7, <1>8, <1>9 DEF r

LEMMA BasicEmptyRelaxed ==
  ASSUME NEW s, NEW e, NEW restoring \in BOOLEAN, Basic(s), e \in variables
  PROVE  /\ Basic(EmptyRelaxed(s, e, restoring)) /\ SameGround(s, EmptyRelaxed(s, e, restoring))
         /\ EmptyRelaxed(s, e, restoring).dom[e] # {}
<1> DEFINE t == Announced(s, e, restoring)
           u == RelaxLinked(t, e, restoring)
           r == EmptyRelaxed(s, e, restoring)
<1>0. e \in Var
  BY DEF Basic, Settings
<1>1. Basic(t) /\ SameGround(s, t) /\ t.dom[e] = FreeIn(s, e) /\ t \in Networks
  BY BasicAnnounced, BasicIsNetwork
<1>2. r = WakeUp(u, e)
  BY DEF EmptyRelaxed
<1> HIDE DEF t
<1>3. Basic(u) /\ SameGround(t, u)
  BY <1>1, BasicRelaxLinked
<1>4. /\ e \in Moved(t, e) => u.dom[e] = t.base[e]
      /\ e \notin Moved(t, e) => u.dom[e] = t.dom[e]
  BY <1>0, <1>1, RelaxLinkedDomains
<1> HIDE DEF u, r
<1>5. u.dom[e] # {}
  BY <1>0, <1>1, <1>4, FreeInNonempty
<1>6. Basic(r) /\ SameGround(u, r) /\ r.dom = u.dom
  BY <1>2, <1>3, BasicWakeUp, WakeUpEffect, BasicIsNetwork DEF Alike
<1>7. SameGround(s, r)
  BY <1>1, <1>3, <1>6 DEF SameGround
<1>8. QED
  BY <1>5, <1>6, <1>7 DEF r

LEMMA BasicRelaxEmpty ==
  ASSUME NEW s, NEW e, NEW restoring \in BOOLEAN, Basic(s), e \in variables
  PROVE  Basic(RelaxEmpty(s, e, restoring)) /\ SameGround(s, RelaxEmpty(s, e, restoring))
<1> DEFINE r == RelaxEmpty(s, e, restoring)
           t == RelaxedDomain(s, e)
           u == EmptyRelaxed(s, e, restoring)
<1>0. e \in Var /\ s \in Networks
  BY DEF Basic, BasicIn, Settings
<1>1. /\ Untouched(s, e) => r = OffRecord(s, e)
      /\ ~Untouched(s, e) /\ Inactive(e) => r = OffRecord(t, e)
      /\ ~Untouched(s, e) /\ ~Inactive(e) => r = OffRecord(u, e)
  BY RelaxEmptyCases
<1>2. Basic(u) /\ SameGround(s, u) /\ u.dom[e] # {}
  BY BasicEmptyRelaxed
<1>3. Basic(t) /\ SameGround(s, t) /\ t.dom[e] # {}
  BY <1>0, BasicRelaxedDomain, RelaxedDomainEffect, FreeInNonempty
<1> HIDE DEF r, t, u
<1>4. CASE Untouched(s, e)
  BY <1>0, <1>1, <1>4, BasicOffRecord DEF Untouched, r
<1>5. CASE ~Untouched(s, e) /\ Inactive(e)
  <2>1. Basic(OffRecord(t, e)) /\ SameGround(t, OffRecord(t, e))
    BY <1>0, <1>3, BasicOffRecord
  <2>2. QED
    BY <1>1, <1>3, <1>5, <2>1 DEF SameGround, r
<1>6. CASE ~Untouched(s, e) /\ ~Inactive(e)
  <2>1. Basic(OffRecord(u, e)) /\ SameGround(u, OffRecord(u, e))
    BY <1>0, <1>2, BasicOffRecord
  <2>2. QED
    BY <1>1, <1>2, <1>6, <2>1 DEF SameGround, r
<1>7. QED
  BY <1>4, <1>5, <1>6

(* relaxEmptyVariables is a loop over the empty variables; k says whether  *)
(* violated constraints come back, and what the network was before.        *)
RelaxOne(k, e, t) == RelaxEmpty(t, e, k.restoring)
AnyOf(S) == CHOOSE x \in S : TRUE
BasicKept(k, S, t) == Basic(t) /\ SameGround(k.start, t)

BasicLoop == INSTANCE FoldInduction WITH Op <- RelaxOne, Pick <- AnyOf, I <- BasicKept

LEMMA FiniteEmpties ==
  ASSUME NEW s, s \in Networks
  PROVE  IsFiniteSet(s.empties)
<1>1. s.empties \subseteq Var /\ IsFiniteSet(Var)
  BY NetworkAssumption DEF Networks
<1>2. QED
  BY <1>1, FS_Subset

LEMMA BasicRelaxEmpties ==
  ASSUME NEW s, NEW restoring \in BOOLEAN, Basic(s)
  PROVE  Basic(RelaxEmpties(s, restoring)) /\ SameGround(s, RelaxEmpties(s, restoring))
<1> DEFINE k == [restoring |-> restoring, start |-> s]
           S == s.empties
<1>1. RelaxEmpties(s, restoring) = BasicLoop!Fold(k, s, S)
  BY DEF RelaxEmpties, FoldSet, BasicLoop!Fold, BasicLoop!MapThenFoldSet, MapThenFoldSet,
         RelaxOne, AnyOf
<1>2. k.restoring = restoring /\ k.start = s /\ S \subseteq variables
  BY DEF Basic, BasicIn
<1>3. BasicLoop!IsFiniteSet(S)
  BY FiniteEmpties, BasicIsNetwork, Zenon DEF BasicLoop!IsFiniteSet, IsFiniteSet
<1> HIDE DEF k, S
<1>4. BasicLoop!Picks(S)
  BY DEF BasicLoop!Picks, AnyOf
<1>5. BasicKept(k, {}, s)
  BY <1>2 DEF BasicKept, SameGround
<1>6. ASSUME NEW T \in SUBSET S, NEW t, T # {}, BasicKept(k, T \ {AnyOf(T)}, t)
      PROVE  BasicKept(k, T, RelaxOne(k, AnyOf(T), t))
  <2>1. AnyOf(T) \in variables
    BY <1>2, <1>6 DEF AnyOf
  <2>2. Basic(t) /\ SameGround(s, t)
    BY <1>2, <1>6 DEF BasicKept
  <2>3. /\ Basic(RelaxEmpty(t, AnyOf(T), restoring))
        /\ SameGround(t, RelaxEmpty(t, AnyOf(T), restoring))
    BY <2>1, <2>2, BasicRelaxEmpty
  <2>4. QED
    BY <1>2, <2>2, <2>3 DEF BasicKept, RelaxOne, SameGround
<1>7. BasicKept(k, S, BasicLoop!Fold(k, s, S))
  BY ONLY <1>3, <1>4, <1>5, <1>6, BasicLoop!FoldKeeps
<1>8. QED
  BY <1>1, <1>2, <1>7 DEF BasicKept

(* A client's change of one domain or one specified value.                 *)
WithDomain(s, v, D) == [s EXCEPT !.dom[v] = D]
WithSpec(s, v, x) == [s EXCEPT !.spec[v] = x]

LEMMA WithDomainEffect ==
  ASSUME NEW s, NEW v, NEW D, s \in Networks, v \in Var, D \subseteq Value
  PROVE  /\ WithDomain(s, v, D) \in Networks /\ SameGround(s, WithDomain(s, v, D))
         /\ WithDomain(s, v, D).spec = s.spec /\ WithDomain(s, v, D).held = s.held
         /\ WithDomain(s, v, D).fresh = s.fresh /\ WithDomain(s, v, D).relaxed = s.relaxed
         /\ WithDomain(s, v, D).empties = s.empties /\ WithDomain(s, v, D).violated = s.violated
         /\ WithDomain(s, v, D).agenda = s.agenda
         /\ WithDomain(s, v, D).dom[v] = D
         /\ \A w \in Var : w # v => WithDomain(s, v, D).dom[w] = s.dom[w]
<1> DEFINE d == [s.dom EXCEPT ![v] = D]
<1>1. WithDomain(s, v, D) = [s EXCEPT !.dom = d]
  BY DEF WithDomain
<1>2. d \in Domains /\ d[v] = D /\ \A w \in Var : w # v => d[w] = s.dom[w]
  BY DEF Networks, Domains
<1> HIDE DEF d
<1>3. QED
  BY <1>1, <1>2 DEF Networks, SameGround

LEMMA WithSpecEffect ==
  ASSUME NEW s, NEW v, NEW x, s \in Networks, v \in Var, x \in Value \cup {NoValue}
  PROVE  /\ WithSpec(s, v, x) \in Networks /\ SameGround(s, WithSpec(s, v, x))
         /\ WithSpec(s, v, x).dom = s.dom /\ WithSpec(s, v, x).held = s.held
         /\ WithSpec(s, v, x).fresh = s.fresh /\ WithSpec(s, v, x).relaxed = s.relaxed
         /\ WithSpec(s, v, x).empties = s.empties /\ WithSpec(s, v, x).violated = s.violated
         /\ WithSpec(s, v, x).agenda = s.agenda
         /\ WithSpec(s, v, x).spec[v] = x
         /\ \A w \in Var : w # v => WithSpec(s, v, x).spec[w] = s.spec[w]
<1> DEFINE d == [s.spec EXCEPT ![v] = x]
<1>1. WithSpec(s, v, x) = [s EXCEPT !.spec = d]
  BY DEF WithSpec
<1>2. d \in [Var -> Value \cup {NoValue}] /\ d[v] = x /\ \A w \in Var : w # v => d[w] = s.spec[w]
  BY DEF Networks
<1> HIDE DEF d
<1>3. QED
  BY <1>1, <1>2 DEF Networks, SameGround

LEMMA BasicWithDomain ==
  ASSUME NEW s, NEW v, NEW D, Basic(s), v \in variables, D \subseteq Value, D # {},
         Obliging => D \subseteq s.base[v]
  PROVE  Basic(WithDomain(s, v, D)) /\ SameGround(s, WithDomain(s, v, D))
<1> DEFINE t == WithDomain(s, v, D)
<1>0. v \in Var /\ s \in Networks
  BY DEF Basic, BasicIn, Settings
<1>1. /\ t \in Networks /\ SameGround(s, t) /\ t.spec = s.spec
      /\ t.held = s.held /\ t.violated = s.violated /\ t.agenda = s.agenda
      /\ t.fresh = s.fresh /\ t.relaxed = s.relaxed /\ t.empties = s.empties
      /\ t.dom[v] = D /\ \A w \in Var : w # v => t.dom[w] = s.dom[w]
  BY <1>0, WithDomainEffect
<1> HIDE DEF t
<1>2. \A w \in Var : t.dom[w] = {} => s.dom[w] = {}
  BY <1>1
<1>3. t.fresh \subseteq variables /\ t.relaxed \subseteq variables /\ t.empties \subseteq variables
  BY <1>1 DEF Basic, BasicIn
<1>4. Obliging /\ Contained(s) => Contained(t)
  BY <1>1 DEF Contained, SameGround
<1>5. Basic(t)
  BY <1>1, <1>2, <1>3, <1>4, BasicSame
<1>6. QED
  BY <1>1, <1>5 DEF t

(* A domain is emptied, and the engine told.                               *)
WithoutValues(s, v) == Emptied(WithDomain(s, v, {}), v)

LEMMA WithoutValuesEffect ==
  ASSUME NEW s, NEW v, s \in Networks, v \in Var
  PROVE  /\ WithoutValues(s, v) \in Networks /\ SameGround(s, WithoutValues(s, v))
         /\ WithoutValues(s, v).spec = s.spec /\ WithoutValues(s, v).held = s.held
         /\ WithoutValues(s, v).violated = s.violated /\ WithoutValues(s, v).agenda = s.agenda
         /\ WithoutValues(s, v).fresh = s.fresh /\ WithoutValues(s, v).relaxed = s.relaxed
         /\ WithoutValues(s, v).dom[v] = {}
         /\ \A w \in Var : w # v => WithoutValues(s, v).dom[w] = s.dom[w]
         /\ s.empties \subseteq WithoutValues(s, v).empties
         /\ WithoutValues(s, v).empties \subseteq s.empties \cup {v}
         /\ ~Inactive(v) => v \in WithoutValues(s, v).empties
<1> DEFINE D == {}
           t == WithDomain(s, v, D)
           r == Emptied(t, v)
<1>1. D \subseteq Value /\ WithoutValues(s, v) = r
  BY DEF WithoutValues
<1>2. D = {}
  OBVIOUS
<1> HIDE DEF D
<1>3. /\ t \in Networks /\ SameGround(s, t) /\ t.spec = s.spec
      /\ t.held = s.held /\ t.violated = s.violated /\ t.agenda = s.agenda
      /\ t.fresh = s.fresh /\ t.relaxed = s.relaxed /\ t.empties = s.empties
      /\ t.dom[v] = D /\ \A w \in Var : w # v => t.dom[w] = s.dom[w]
  BY <1>1, WithDomainEffect
<1> HIDE DEF t
<1>4. /\ r \in Networks /\ SameGround(t, r) /\ r.dom = t.dom /\ r.spec = t.spec
      /\ r.held = t.held /\ r.violated = t.violated /\ r.agenda = t.agenda
      /\ r.fresh = t.fresh /\ r.relaxed = t.relaxed
      /\ t.empties \subseteq r.empties /\ r.empties \subseteq t.empties \cup {v}
      /\ ~Inactive(v) => v \in r.empties
  BY <1>3, EmptiedEffect
<1> HIDE DEF r
<1>5. QED
  BY <1>1, <1>2, <1>3, <1>4 DEF SameGround

LEMMA BasicWithoutValues ==
  ASSUME NEW s, NEW v, Basic(s), v \in variables
  PROVE  Basic(WithoutValues(s, v)) /\ SameGround(s, WithoutValues(s, v))
<1> DEFINE t == WithoutValues(s, v)
<1>0. v \in Var /\ s \in Networks
  BY DEF Basic, BasicIn, Settings
<1>1. /\ t \in Networks /\ SameGround(s, t) /\ t.spec = s.spec
      /\ t.held = s.held /\ t.violated = s.violated /\ t.agenda = s.agenda
      /\ t.fresh = s.fresh /\ t.relaxed = s.relaxed
      /\ t.dom[v] = {} /\ \A w \in Var : w # v => t.dom[w] = s.dom[w]
      /\ s.empties \subseteq t.empties /\ t.empties \subseteq s.empties \cup {v}
      /\ ~Inactive(v) => v \in t.empties
  BY <1>0, WithoutValuesEffect
<1> HIDE DEF t
<1>2. CountedIn(s, out, redundant) => CountedIn(t, out, redundant)
  BY <1>1 DEF CountedIn, SameGround
<1>3. Undisturbed => \A w \in Var : t.dom[w] = {} => w \in t.empties
  <2> SUFFICES ASSUME Undisturbed, NEW w \in Var, t.dom[w] = {}
               PROVE  w \in t.empties
    OBVIOUS
  <2>1. CASE w = v
    BY <1>1, <2>1, <1>0 DEF Basic, Settings
  <2>2. CASE w # v
    BY <1>1, <2>2 DEF Basic, BasicIn
  <2>3. QED
    BY <2>1, <2>2
<1>4. Contained(s) => Contained(t)
  BY <1>1, ContainedFree DEF SameGround
<1>5. Basic(t)
  BY <1>1, <1>2, <1>3, <1>4 DEF Basic, BasicIn, SameGround
<1>6. QED
  BY <1>1, <1>5 DEF t

LEMMA BasicWithSpec ==
  ASSUME NEW s, NEW v, NEW x, Basic(s), v \in variables, x \in Value \cup {NoValue},
         Obliging => x \in s.base[v] \cup {NoValue}
  PROVE  Basic(WithSpec(s, v, x)) /\ SameGround(s, WithSpec(s, v, x))
<1> DEFINE t == WithSpec(s, v, x)
<1>0. v \in Var /\ s \in Networks
  BY DEF Basic, BasicIn, Settings
<1>1. /\ t \in Networks /\ SameGround(s, t) /\ t.dom = s.dom
      /\ t.held = s.held /\ t.violated = s.violated /\ t.agenda = s.agenda
      /\ t.fresh = s.fresh /\ t.relaxed = s.relaxed /\ t.empties = s.empties
      /\ t.spec[v] = x /\ \A w \in Var : w # v => t.spec[w] = s.spec[w]
  BY <1>0, WithSpecEffect
<1> HIDE DEF t
<1>2. t.fresh \subseteq variables /\ t.relaxed \subseteq variables /\ t.empties \subseteq variables
  BY <1>1 DEF Basic, BasicIn
<1>3. Obliging /\ Contained(s) => Contained(t)
  BY <1>1 DEF Contained, SameGround
<1>4. Basic(t)
  BY <1>1, <1>2, <1>3, BasicSame
<1>5. QED
  BY <1>1, <1>4 DEF t

(* How v is reported as relaxed.                                           *)
Told(s, v) == Initiate(Restored(s, {v}), v)
Cleared(s, v) == IF v \in Told(s, v).empties THEN Told(s, v) ELSE RelaxEmpties(Told(s, v), TRUE)

LEMMA NotifyRelaxedCases ==
  ASSUME NEW s, NEW v
  PROVE  /\ Inactive(v) => NotifyRelaxed(s, v) = s
         /\ ~Inactive(v) => NotifyRelaxed(s, v) = WakeUp(RelaxLinked(Cleared(s, v), v, TRUE), v)
BY Zenon DEF NotifyRelaxed, Cleared, Told

LEMMA ToldEffect ==
  ASSUME NEW s, NEW v, Basic(s), v \in variables
  PROVE  /\ Basic(Told(s, v)) /\ SameGround(s, Told(s, v)) /\ Told(s, v).dom = s.dom
         /\ Told(s, v).spec = s.spec /\ Told(s, v).empties = s.empties
         /\ Told(s, v).relaxed = s.relaxed \cup {v}
         /\ v \in Told(s, v).fresh /\ Told(s, v).fresh \subseteq s.fresh \cup {v}
<1> DEFINE W == {v}
           t == Restored(s, W)
           r == Told(s, v)
<1>0. v \in Var /\ s \in Networks
  BY DEF Basic, BasicIn, Settings
<1>1. r = Initiate(t, v)
  BY DEF Told
<1> HIDE DEF r, W
<1>2. Basic(t) /\ SameGround(s, t) /\ Undone(s, Back(s, W), t)
  BY <1>0, BasicRestored, RestoredEffect
<1> HIDE DEF t
<1>3. /\ Basic(r) /\ SameGround(t, r)
      /\ r.dom = t.dom /\ r.spec = t.spec /\ r.empties = t.empties
      /\ v \in r.fresh /\ r.fresh \subseteq t.fresh \cup {v} /\ r.relaxed = t.relaxed \cup {v}
  BY <1>0, <1>1, <1>2, BasicInitiate, InitiateEffect, BasicIsNetwork
<1>4. QED
  BY <1>2, <1>3 DEF Undone, SameGround, r

LEMMA BasicCleared ==
  ASSUME NEW s, NEW v, Basic(s), v \in variables
  PROVE  Basic(Cleared(s, v)) /\ SameGround(s, Cleared(s, v))
<1> DEFINE yes == TRUE
           t == Told(s, v)
           u == RelaxEmpties(t, yes)
<1>1. /\ v \in t.empties => Cleared(s, v) = t
      /\ v \notin t.empties => Cleared(s, v) = u
      /\ yes \in BOOLEAN
  BY DEF Cleared
<1> HIDE DEF yes
<1>2. Basic(t) /\ SameGround(s, t)
  BY ToldEffect
<1> HIDE DEF t
<1>3. Basic(u) /\ SameGround(t, u)
  BY <1>1, <1>2, BasicRelaxEmpties
<1>4. SameGround(s, u)
  BY <1>2, <1>3 DEF SameGround
<1>5. QED
  BY <1>1, <1>2, <1>3, <1>4

LEMMA BasicNotifyRelaxed ==
  ASSUME NEW s, NEW v, Basic(s), v \in variables
  PROVE  Basic(NotifyRelaxed(s, v)) /\ SameGround(s, NotifyRelaxed(s, v))
<1> DEFINE yes == TRUE
           t == Cleared(s, v)
           u == RelaxLinked(t, v, yes)
           r == WakeUp(u, v)
<1>1. /\ Inactive(v) => NotifyRelaxed(s, v) = s
      /\ ~Inactive(v) => NotifyRelaxed(s, v) = r
      /\ yes \in BOOLEAN
  BY NotifyRelaxedCases
<1> HIDE DEF yes
<1>2. Basic(t) /\ SameGround(s, t)
  BY BasicCleared
<1> HIDE DEF t
<1>3. Basic(u) /\ SameGround(t, u)
  BY <1>1, <1>2, BasicRelaxLinked
<1> HIDE DEF u
<1>4. Basic(r) /\ SameGround(u, r)
  BY <1>3, BasicWakeUp
<1>5. SameGround(s, r) /\ SameGround(s, s)
  BY <1>2, <1>3, <1>4 DEF SameGround
<1> HIDE DEF r
<1>6. QED
  BY <1>1, <1>4, <1>5

LEMMA BasicRelaxVariable ==
  ASSUME NEW s, NEW v, Basic(s), v \in variables
  PROVE  Basic(RelaxVariable(s, v)) /\ SameGround(s, RelaxVariable(s, v))
<1> DEFINE t == RelaxedDomain(s, v)
           r == NotifyRelaxed(t, v)
<1>1. /\ Untouched(s, v) => RelaxVariable(s, v) = s
      /\ ~Untouched(s, v) => RelaxVariable(s, v) = r
  BY DEF RelaxVariable
<1>2. Basic(t) /\ SameGround(s, t)
  BY BasicRelaxedDomain
<1> HIDE DEF t
<1>3. Basic(r) /\ SameGround(t, r)
  BY <1>2, BasicNotifyRelaxed
<1>4. SameGround(s, r) /\ SameGround(s, s)
  BY <1>2, <1>3 DEF SameGround
<1> HIDE DEF r
<1>5. QED
  BY <1>1, <1>3, <1>4

LEMMA ResetDomainCases ==
  ASSUME NEW s, NEW v
  PROVE  LET t == WithSpec(s, v, NoValue)
         IN  /\ t.dom[v] = t.base[v] => ResetDomain(s, v) = t
             /\ t.dom[v] # t.base[v] =>
                  ResetDomain(s, v) = Restricted(RelaxVariable(t, v), v)
BY Zenon DEF ResetDomain, WithSpec

LEMMA BasicResetDomain ==
  ASSUME NEW s, NEW v, Basic(s), v \in variables
  PROVE  Basic(ResetDomain(s, v)) /\ SameGround(s, ResetDomain(s, v))
<1> DEFINE t == WithSpec(s, v, NoValue)
           n == RelaxVariable(t, v)
           r == Restricted(n, v)
<1>1. /\ t.dom[v] = t.base[v] => ResetDomain(s, v) = t
      /\ t.dom[v] # t.base[v] => ResetDomain(s, v) = r
  BY ResetDomainCases
<1>2. Basic(t) /\ SameGround(s, t)
  BY BasicWithSpec
<1> HIDE DEF t
<1>3. Basic(n) /\ SameGround(t, n)
  BY <1>2, BasicRelaxVariable
<1> HIDE DEF n
<1>4. Basic(r) /\ SameGround(n, r)
  BY <1>3, BasicRestricted
<1> HIDE DEF r
<1>5. SameGround(s, r)
  BY <1>2, <1>3, <1>4 DEF SameGround
<1>6. QED
  BY <1>1, <1>2, <1>4, <1>5

(* What specify does when the value is not the one specified already.      *)
Readied(s, v, value) == IF value \notin s.dom[v] /\ allow THEN ResetDomain(s, v) ELSE s
Specified(s, v, value) == WithSpec(Readied(s, v, value), v, value)

LEMMA SpecifyDomainCases ==
  ASSUME NEW s, NEW v, NEW value
  PROVE  LET u == Specified(s, v, value)
         IN  /\ s.spec[v] = value => SpecifyDomain(s, v, value) = s
             /\ s.spec[v] # value /\ value \in u.dom[v] =>
                  SpecifyDomain(s, v, value) = Restricted(WithDomain(u, v, {value}), v)
             /\ s.spec[v] # value /\ value \notin u.dom[v] =>
                  SpecifyDomain(s, v, value) = WithoutValues(u, v)
BY Zenon DEF SpecifyDomain, Specified, Readied, WithSpec, WithDomain, WithoutValues

LEMMA BasicSpecifyDomain ==
  ASSUME NEW s, NEW v, NEW value, Basic(s), v \in variables, value \in Value, value \in s.base[v]
  PROVE  Basic(SpecifyDomain(s, v, value)) /\ SameGround(s, SpecifyDomain(s, v, value))
<1> DEFINE t == Readied(s, v, value)
           u == Specified(s, v, value)
           D == {value}
           w == WithDomain(u, v, D)
           q == Restricted(w, v)
           r == WithoutValues(u, v)
           z == SpecifyDomain(s, v, value)
<1>1. /\ s.spec[v] = value => z = s
      /\ s.spec[v] # value /\ value \in u.dom[v] => z = q
      /\ s.spec[v] # value /\ value \notin u.dom[v] => z = r
  BY SpecifyDomainCases
<1>2. D \subseteq Value /\ D # {} /\ \A x : x \in D => x = value
  OBVIOUS
<1> HIDE DEF D
<1>3. Basic(t) /\ SameGround(s, t)
  BY BasicResetDomain DEF Readied, SameGround
<1>4. u = WithSpec(t, v, value)
  BY DEF Specified
<1> HIDE DEF t, u, z
<1>5. Basic(u) /\ SameGround(t, u)
  BY <1>3, <1>4, BasicWithSpec DEF SameGround
<1>6. Basic(w) /\ SameGround(u, w)
  <2>1. D \subseteq u.base[v]
    BY <1>2, <1>3, <1>5 DEF SameGround
  <2>2. QED
    BY <1>2, <1>5, <2>1, BasicWithDomain
<1> HIDE DEF w
<1>7. Basic(q) /\ SameGround(w, q)
  BY <1>6, BasicRestricted
<1>8. Basic(r) /\ SameGround(u, r)
  BY <1>5, BasicWithoutValues
<1> HIDE DEF q, r
<1>9. SameGround(s, q) /\ SameGround(s, r) /\ SameGround(s, s)
  BY <1>3, <1>5, <1>6, <1>7, <1>8 DEF SameGround
<1>10. QED
  BY <1>1, <1>7, <1>8, <1>9 DEF z

(* The last of a set of positions.                                         *)
LEMMA LastPosition ==
  ASSUME NEW n, NEW S, n \in Nat, S \subseteq 1 .. n, S # {}
  PROVE  Max(S) \in S /\ \A i \in S : i <= Max(S)
<1>1. \E m \in S : \A i \in S : m >= i
  BY BasicLoop!Extremes
<1>2. Max(S) \in S /\ \A i \in S : Max(S) >= i
  BY <1>1, Zenon DEF Max
<1>3. QED
  BY <1>2

LEMMA ScopeType ==
  ASSUME NEW c \in Constraint
  PROVE  /\ Len(Scope[c]) \in Nat /\ DOMAIN Scope[c] = 1 .. Len(Scope[c])
         /\ IsFiniteSet(DOMAIN Scope[c])
         /\ Vars(c) = {Scope[c][i] : i \in DOMAIN Scope[c]}
         /\ Vars(c) \subseteq Var /\ IsFiniteSet(Vars(c))
<1>1. Scope[c] \in Seq(Var)
  BY NetworkAssumption
<1>2. Len(Scope[c]) \in Nat /\ DOMAIN Scope[c] = 1 .. Len(Scope[c])
  BY <1>1
<1>3. IsFiniteSet(DOMAIN Scope[c])
  BY <1>2, FS_Interval
<1>4. Vars(c) = {Scope[c][i] : i \in DOMAIN Scope[c]}
  BY DEF Vars, Range
<1>5. Vars(c) \subseteq Var
  BY <1>1, <1>4
<1>6. IsFiniteSet(Vars(c))
  BY <1>5, NetworkAssumption, FS_Subset
<1>7. QED
  BY <1>2, <1>3, <1>4, <1>5, <1>6

(* remove(constraint) is a loop over the scope k.scope of the constraint.  *)
GiveBackOne(k, i, t) ==
  IF k.scope[i] \in t.fresh THEN t ELSE RelaxVariable(t, k.scope[i])
LastOf(S) == Max(S)

BasicScope == INSTANCE FoldInduction WITH Op <- GiveBackOne, Pick <- LastOf, I <- BasicKept

LEMMA BasicGivenBack ==
  ASSUME NEW s, NEW c \in Constraint, Basic(s), Vars(c) \subseteq variables
  PROVE  Basic(GivenBack(s, c)) /\ SameGround(s, GivenBack(s, c))
<1> DEFINE k == [scope |-> Scope[c], start |-> s]
           S == DOMAIN Scope[c]
<1>1. /\ s.held[c] > 0 => GivenBack(s, c) = s
      /\ ~(s.held[c] > 0) => GivenBack(s, c) = BasicScope!Fold(k, s, S)
  BY DEF GivenBack, FoldLeft, BasicScope!Fold, BasicScope!MapThenFoldSet, MapThenFoldSet,
         GiveBackOne, LastOf
<1>2. k.scope = Scope[c] /\ k.start = s
  OBVIOUS
<1>3. BasicScope!IsFiniteSet(S)
  BY ScopeType, Zenon DEF BasicScope!IsFiniteSet, IsFiniteSet
<1>4. \A i \in S : Scope[c][i] \in variables
  BY ScopeType
<1>5. \A T \in SUBSET S : T # {} => LastOf(T) \in T
  BY ScopeType, LastPosition DEF LastOf
<1> HIDE DEF k, S
<1>6. BasicScope!Picks(S)
  BY <1>5 DEF BasicScope!Picks
<1>7. BasicKept(k, {}, s)
  BY <1>2 DEF BasicKept, SameGround
<1>8. ASSUME NEW T \in SUBSET S, NEW t, T # {}, BasicKept(k, T \ {LastOf(T)}, t)
      PROVE  BasicKept(k, T, GiveBackOne(k, LastOf(T), t))
  <2> DEFINE v == Scope[c][LastOf(T)]
  <2>1. v \in variables
    BY <1>4, <1>5, <1>8
  <2>2. Basic(t) /\ SameGround(s, t)
    BY <1>2, <1>8 DEF BasicKept
  <2>3. /\ v \in t.fresh => GiveBackOne(k, LastOf(T), t) = t
        /\ v \notin t.fresh => GiveBackOne(k, LastOf(T), t) = RelaxVariable(t, v)
    BY <1>2 DEF GiveBackOne
  <2> HIDE DEF v
  <2>4. Basic(RelaxVariable(t, v)) /\ SameGround(t, RelaxVariable(t, v))
    BY <2>1, <2>2, BasicRelaxVariable
  <2>5. SameGround(s, RelaxVariable(t, v))
    BY <2>2, <2>4 DEF SameGround
  <2>6. QED
    BY <1>2, <2>2, <2>3, <2>4, <2>5 DEF BasicKept
<1>9. BasicKept(k, S, BasicScope!Fold(k, s, S))
  BY ONLY <1>3, <1>6, <1>7, <1>8, BasicScope!FoldKeeps
<1>10. QED
  <2>1. Basic(BasicScope!Fold(k, s, S)) /\ SameGround(s, BasicScope!Fold(k, s, S))
    BY <1>2, <1>9 DEF BasicKept
  <2>2. SameGround(s, s)
    BY DEF SameGround
  <2>3. QED
    BY <1>1, <2>1, <2>2
-----------------------------------------------------------------------------
(* Sums.                                                                   *)
Plus(k, v, n) == k.summand[v] + n
SumIsNat(k, S, n) == n \in Nat
SumIsMoved(k, S, n) ==
  /\ k.v \in S => n = SumFunctionOnSet(k.other, S) + 1
  /\ k.v \notin S => n = SumFunctionOnSet(k.other, S)
SumIsCardinality(k, S, n) == n = Cardinality({v \in S : k.summand[v] > 0})

NatSum == INSTANCE FoldInduction WITH Op <- Plus, Pick <- AnyOf, I <- SumIsNat
MovedSum == INSTANCE FoldInduction WITH Op <- Plus, Pick <- AnyOf, I <- SumIsMoved
CardinalSum == INSTANCE FoldInduction WITH Op <- Plus, Pick <- AnyOf, I <- SumIsCardinality

LEMMA SumType ==
  ASSUME NEW f, NEW S, IsFiniteSet(S), \A v \in S : f[v] \in Nat
  PROVE  SumFunctionOnSet(f, S) \in Nat
<1> DEFINE k == [summand |-> f]
           b == 0
<1>1. SumFunctionOnSet(f, S) = NatSum!Fold(k, b, S)
  BY DEF SumFunctionOnSet, FoldFunctionOnSet, NatSum!Fold, NatSum!MapThenFoldSet, MapThenFoldSet,
         Plus, AnyOf
<1>2. k.summand = f /\ b \in Nat
  OBVIOUS
<1>3. NatSum!IsFiniteSet(S)
  BY Zenon DEF NatSum!IsFiniteSet, IsFiniteSet
<1> HIDE DEF k, b
<1>4. NatSum!Picks(S)
  BY DEF NatSum!Picks, AnyOf
<1>5. SumIsNat(k, {}, b)
  BY <1>2 DEF SumIsNat
<1>6. ASSUME NEW T \in SUBSET S, NEW n, T # {}, SumIsNat(k, T \ {AnyOf(T)}, n)
      PROVE  SumIsNat(k, T, Plus(k, AnyOf(T), n))
  <2>1. AnyOf(T) \in S
    BY <1>6 DEF AnyOf
  <2>2. f[AnyOf(T)] \in Nat /\ n \in Nat
    BY <1>6, <2>1 DEF SumIsNat
  <2>3. QED
    BY <1>2, <2>2 DEF SumIsNat, Plus
<1>7. SumIsNat(k, S, NatSum!Fold(k, b, S))
  BY ONLY <1>3, <1>4, <1>5, <1>6, NatSum!FoldKeeps
<1>8. QED
  BY <1>1, <1>7 DEF SumIsNat

LEMMA SumUnfolds ==
  ASSUME NEW f, NEW S, IsFiniteSet(S)
  PROVE  /\ S = {} => SumFunctionOnSet(f, S) = 0
         /\ S # {} => SumFunctionOnSet(f, S)
                        = f[AnyOf(S)] + SumFunctionOnSet(f, S \ {AnyOf(S)})
<1> DEFINE k == [summand |-> f]
           b == 0
<1>1. ASSUME NEW T
      PROVE  SumFunctionOnSet(f, T) = NatSum!Fold(k, b, T)
  BY DEF SumFunctionOnSet, FoldFunctionOnSet, NatSum!Fold, NatSum!MapThenFoldSet, MapThenFoldSet,
         Plus, AnyOf
<1>2. k.summand = f
  OBVIOUS
<1>3. NatSum!IsFiniteSet(S)
  BY Zenon DEF NatSum!IsFiniteSet, IsFiniteSet
<1> HIDE DEF k
<1>4. NatSum!Picks(S)
  BY DEF NatSum!Picks, AnyOf
<1>5. b = 0
  OBVIOUS
<1> HIDE DEF b
<1>6. /\ S = {} => NatSum!Fold(k, b, S) = b
      /\ S # {} => NatSum!Fold(k, b, S) = Plus(k, AnyOf(S), NatSum!Fold(k, b, NatSum!Rest(S)))
  BY ONLY <1>3, <1>4, NatSum!FoldUnfolds
<1>7. NatSum!Rest(S) = S \ {AnyOf(S)}
  BY DEF NatSum!Rest
<1>8. QED
  BY <1>1, <1>2, <1>5, <1>6, <1>7, Zenon DEF Plus

(* One summand is one higher.                                              *)
LEMMA SumMoves ==
  ASSUME NEW f, NEW g, NEW S, NEW v, IsFiniteSet(S), \A w \in S : f[w] \in Nat /\ g[w] \in Nat,
         \A w \in S : w # v => g[w] = f[w], v \in S => g[v] = f[v] + 1
  PROVE  /\ v \in S => SumFunctionOnSet(g, S) = SumFunctionOnSet(f, S) + 1
         /\ v \notin S => SumFunctionOnSet(g, S) = SumFunctionOnSet(f, S)
<1> DEFINE k == [summand |-> g, other |-> f, v |-> v]
           b == 0
<1>1. SumFunctionOnSet(g, S) = MovedSum!Fold(k, b, S)
  BY DEF SumFunctionOnSet, FoldFunctionOnSet, MovedSum!Fold, MovedSum!MapThenFoldSet, MapThenFoldSet,
         Plus, AnyOf
<1>2. k.summand = g /\ k.other = f /\ k.v = v /\ b = 0
  OBVIOUS
<1>3. MovedSum!IsFiniteSet(S)
  BY Zenon DEF MovedSum!IsFiniteSet, IsFiniteSet
<1> HIDE DEF k, b
<1>4. MovedSum!Picks(S)
  BY DEF MovedSum!Picks, AnyOf
<1>5. SumIsMoved(k, {}, b)
  <2>1. SumFunctionOnSet(f, {}) = 0
    BY SumUnfolds, FS_EmptySet
  <2>2. QED
    BY <1>2, <2>1 DEF SumIsMoved
<1>6. ASSUME NEW T \in SUBSET S, NEW n, T # {}, SumIsMoved(k, T \ {AnyOf(T)}, n)
      PROVE  SumIsMoved(k, T, Plus(k, AnyOf(T), n))
  <2> DEFINE e == AnyOf(T)
             R == T \ {e}
             sum == SumFunctionOnSet(f, R)
  <2>1. e \in T /\ e \in S /\ IsFiniteSet(T) /\ IsFiniteSet(R) /\ R \subseteq S
    BY <1>6, FS_Subset DEF AnyOf
  <2>2. SumFunctionOnSet(f, T) = f[e] + sum
    BY <1>6, <2>1, SumUnfolds
  <2>3. sum \in Nat /\ f[e] \in Nat /\ g[e] \in Nat
    BY <2>1, SumType
  <2>4. /\ v \in R => n = sum + 1
        /\ v \notin R => n = sum
    BY <1>2, <1>6 DEF SumIsMoved
  <2>5. Plus(k, e, n) = g[e] + n
    BY <1>2 DEF Plus
  <2> HIDE DEF e, sum, R
  <2>6. CASE v = e
    <3>1. v \notin R /\ v \in T /\ g[e] = f[e] + 1
      BY <2>1, <2>6 DEF R
    <3>2. g[e] + n = SumFunctionOnSet(f, T) + 1
      BY <2>2, <2>3, <2>4, <3>1
    <3>3. QED
      BY <1>2, <2>5, <3>1, <3>2 DEF SumIsMoved, e
  <2>7. CASE v # e /\ v \in T
    <3>1. v \in R /\ g[e] = f[e]
      BY <2>1, <2>7 DEF R
    <3>2. g[e] + n = SumFunctionOnSet(f, T) + 1
      BY <2>2, <2>3, <2>4, <3>1
    <3>3. QED
      BY <1>2, <2>5, <2>7, <3>2 DEF SumIsMoved, e
  <2>8. CASE v \notin T
    <3>1. v \notin R /\ g[e] = f[e]
      BY <2>1, <2>8 DEF R
    <3>2. g[e] + n = SumFunctionOnSet(f, T)
      BY <2>2, <2>3, <2>4, <3>1
    <3>3. QED
      BY <1>2, <2>5, <2>8, <3>2 DEF SumIsMoved, e
  <2>9. QED
    BY <2>1, <2>6, <2>7, <2>8
<1>7. SumIsMoved(k, S, MovedSum!Fold(k, b, S))
  BY ONLY <1>3, <1>4, <1>5, <1>6, MovedSum!FoldKeeps
<1>8. QED
  BY <1>1, <1>2, <1>7 DEF SumIsMoved

(* Of zeros and ones, the sum is the number of ones.                       *)
LEMMA SumCounts ==
  ASSUME NEW f, NEW S, IsFiniteSet(S), \A w \in S : f[w] \in {0, 1}
  PROVE  SumFunctionOnSet(f, S) = Cardinality({w \in S : f[w] > 0})
<1> DEFINE k == [summand |-> f]
           b == 0
<1>1. SumFunctionOnSet(f, S) = CardinalSum!Fold(k, b, S)
  BY DEF SumFunctionOnSet, FoldFunctionOnSet, CardinalSum!Fold, CardinalSum!MapThenFoldSet,
         MapThenFoldSet, Plus, AnyOf
<1>2. k.summand = f /\ b = 0
  OBVIOUS
<1>3. CardinalSum!IsFiniteSet(S)
  BY Zenon DEF CardinalSum!IsFiniteSet, IsFiniteSet
<1> HIDE DEF k, b
<1>4. CardinalSum!Picks(S)
  BY DEF CardinalSum!Picks, AnyOf
<1>5. SumIsCardinality(k, {}, b)
  <2>1. {w \in {} : k.summand[w] > 0} = {}
    OBVIOUS
  <2>2. QED
    BY <1>2, <2>1, FS_EmptySet DEF SumIsCardinality
<1>6. ASSUME NEW T \in SUBSET S, NEW n, T # {}, SumIsCardinality(k, T \ {AnyOf(T)}, n)
      PROVE  SumIsCardinality(k, T, Plus(k, AnyOf(T), n))
  <2> DEFINE e == AnyOf(T)
             R == T \ {e}
             ones(U) == {w \in U : f[w] > 0}
  <2>1. e \in T /\ e \in S
    BY <1>6 DEF AnyOf
  <2>2. IsFiniteSet(ones(R)) /\ ones(R) \subseteq R
    <3>1. ones(R) \subseteq S
      OBVIOUS
    <3>2. QED
      BY <3>1, FS_Subset
  <2>3. Cardinality(ones(R)) \in Nat /\ n = Cardinality(ones(R)) /\ e \notin ones(R)
    BY <1>2, <1>6, <2>2, FS_CardinalityType DEF SumIsCardinality
  <2>4. Plus(k, e, n) = f[e] + n /\ f[e] \in {0, 1}
    BY <1>2, <2>1 DEF Plus
  <2>5. CASE f[e] = 0
    <3>1. ones(T) = ones(R)
      BY <2>5
    <3> HIDE DEF ones, e, R
    <3>2. Plus(k, e, n) = Cardinality(ones(T))
      BY <2>3, <2>4, <2>5, <3>1
    <3>3. QED
      BY <1>2, <3>2 DEF SumIsCardinality, ones, e
  <2>6. CASE f[e] = 1
    <3>1. ones(T) = ones(R) \cup {e}
      BY <2>1, <2>6
    <3> HIDE DEF ones, e, R
    <3>2. Cardinality(ones(R) \cup {e}) = Cardinality(ones(R)) + 1
      BY <2>2, <2>3, FS_AddElement
    <3>3. Plus(k, e, n) = Cardinality(ones(T))
      BY <2>3, <2>4, <2>6, <3>1, <3>2
    <3>4. QED
      BY <1>2, <3>3 DEF SumIsCardinality, ones, e
  <2>7. QED
    BY <2>4, <2>5, <2>6
<1>7. SumIsCardinality(k, S, CardinalSum!Fold(k, b, S))
  BY ONLY <1>3, <1>4, <1>5, <1>6, CardinalSum!FoldKeeps
<1>8. QED
  BY <1>1, <1>2, <1>7 DEF SumIsCardinality
-----------------------------------------------------------------------------
Modes == allow \in BOOLEAN /\ dirty \in BOOLEAN /\ propagating \in BOOLEAN /\ started \in BOOLEAN

(* The inductive invariant.                                                *)
Inv ==
  /\ BasicIn(Now, variables, out, redundant, constraints)
  /\ variables \subseteq Var
  /\ out \in [Var -> 0 .. MaxHeld]
  /\ Undisturbed => \A v \in Var : out[v] = 0
  /\ redundant \subseteq constraints /\ buffered \subseteq redundant
  /\ Modes

LEMMA LoadType ==
  ASSUME NEW c \in Constraint, out \in [Var -> 0 .. MaxHeld]
  PROVE  Load(out, c) \in Nat
<1>1. \A v \in Vars(c) : out[v] \in Nat
  BY ScopeType, EngineAssumption DEF EngineAssumption
<1>2. QED
  BY <1>1, ScopeType, SumType DEF Load

LEMMA InvBasic ==
  ASSUME Inv
  PROVE  Basic(Now) /\ Now \in Networks /\ Settings
<1>1. Undisturbed => \A v \in Var : ~Inactive(v)
  BY DEF Inv, Inactive
<1>2. Settings
  BY <1>1, LoadType DEF Inv, Settings
<1>3. QED
  BY <1>2 DEF Inv, Basic, BasicIn

LEMMA NowFields ==
  /\ Now.constraints = constraints /\ Now.base = base /\ Now.dom = dom /\ Now.spec = spec
  /\ Now.held = held /\ Now.fresh = fresh /\ Now.relaxed = relaxed /\ Now.empties = empties
  /\ Now.violated = violated /\ Now.agenda = agenda
BY DEF Now

LEMMA BecomeIs ==
  ASSUME NEW t, t \in Networks, Become(t)
  PROVE  Now' = t
BY DEF Networks, Become, Now

(* A step that changes neither the variables nor the constraints.          *)
LEMMA InvStep ==
  ASSUME Inv, NEW t, Basic(t), SameGround(Now, t), Become(t),
         UNCHANGED <<variables, out, redundant>>, buffered' \subseteq redundant, Modes'
  PROVE  Inv'
<1>1. Now' = t
  BY BecomeIs, BasicIsNetwork
<1>2. constraints' = constraints
  BY NowFields DEF Become, SameGround
<1>3. BasicIn(Now', variables', out', redundant', constraints')
  BY <1>1, <1>2 DEF Basic
<1>4. QED
  BY <1>2, <1>3 DEF Inv

LEMMA InvReset ==
  ASSUME Inv, NEW v \in Var, Reset(v)
  PROVE  Inv'
<1>1. Basic(Now)
  BY InvBasic
<1>2. Basic(ResetDomain(Now, v)) /\ SameGround(Now, ResetDomain(Now, v))
  BY <1>1, BasicResetDomain DEF Reset
<1>3. Modes'
  BY DEF Reset, Inv, Modes
<1>4. QED
  BY <1>2, <1>3, InvStep DEF Reset, Inv, status

LEMMA InvSpecify ==
  ASSUME Inv, NEW v \in Var, NEW value \in Value, Specify(v, value)
  PROVE  Inv'
<1>1. Basic(Now)
  BY InvBasic
<1>2. Basic(SpecifyDomain(Now, v, value)) /\ SameGround(Now, SpecifyDomain(Now, v, value))
  BY <1>1, NowFields, BasicSpecifyDomain DEF Specify
<1>3. Modes'
  BY DEF Specify, Dirtied, Inv, Modes
<1>4. QED
  BY <1>2, <1>3, InvStep DEF Specify, Inv, status

LEMMA InvReadDerivedDomain ==
  ASSUME Inv, NEW v \in Var, ReadDerivedDomain(v)
  PROVE  Inv'
<1>1. Basic(Now)
  BY InvBasic
<1>2. Become(WithoutValues(Now, v))
  BY DEF ReadDerivedDomain, WithoutValues, WithDomain
<1>3. Basic(WithoutValues(Now, v)) /\ SameGround(Now, WithoutValues(Now, v))
  BY <1>1, BasicWithoutValues DEF ReadDerivedDomain
<1>4. Modes'
  BY DEF ReadDerivedDomain, Dirtied, Inv, Modes
<1>5. QED
  BY <1>2, <1>3, <1>4, InvStep DEF ReadDerivedDomain, Inv, status

LEMMA InvSetAllowViolations ==
  ASSUME Inv, NEW b \in Tolerances, SetAllowViolations(b)
  PROVE  Inv'
<1>1. Modes'
  BY EngineAssumption DEF EngineAssumption, SetAllowViolations, Inv, Modes
<1>2. Now' = Now /\ UNCHANGED <<variables, out, redundant, buffered, constraints>>
  BY DEF SetAllowViolations, Now, net, status
<1>3. QED
  BY <1>1, <1>2 DEF Inv

LEMMA NewCycleEffect ==
  ASSUME NEW s, s \in Networks
  PROVE  /\ NewCycle(s) \in Networks /\ SameGround(s, NewCycle(s))
         /\ NewCycle(s).held = s.held /\ NewCycle(s).violated = s.violated
         /\ NewCycle(s).agenda = s.agenda /\ NewCycle(s).dom = s.dom
         /\ NewCycle(s).spec = s.spec /\ NewCycle(s).empties = s.empties
         /\ NewCycle(s).fresh = {} /\ NewCycle(s).relaxed = {}
<1> DEFINE none == {}
<1>1. none \subseteq Var /\ none = {}
  OBVIOUS
<1>2. NewCycle(s) = [s EXCEPT !.fresh = none, !.relaxed = none]
  BY DEF NewCycle
<1> HIDE DEF none
<1>3. QED
  BY <1>1, <1>2 DEF Networks, SameGround

LEMMA BasicNewCycle ==
  ASSUME NEW s, Basic(s)
  PROVE  Basic(NewCycle(s)) /\ SameGround(s, NewCycle(s))
<1> DEFINE t == NewCycle(s)
<1>1. /\ t \in Networks /\ SameGround(s, t) /\ t.held = s.held /\ t.violated = s.violated
      /\ t.agenda = s.agenda /\ t.dom = s.dom /\ t.spec = s.spec /\ t.empties = s.empties
      /\ t.fresh = {} /\ t.relaxed = {}
  BY BasicIsNetwork, NewCycleEffect
<1> HIDE DEF t
<1>2. t.empties \subseteq variables /\ t.fresh \subseteq variables /\ t.relaxed \subseteq variables
  BY <1>1 DEF Basic, BasicIn
<1>3. Contained(s) => Contained(t)
  BY <1>1, ContainedFree DEF SameGround
<1>4. Basic(t)
  BY <1>1, <1>2, <1>3, BasicSame
<1>5. QED
  BY <1>1, <1>4 DEF t

LEMMA InvStartPropagation ==
  ASSUME Inv, StartPropagation
  PROVE  Inv'
<1> DEFINE yes == TRUE
           t == RelaxEmpties(Now, yes)
           r == NewCycle(t)
<1>1. Become(r) /\ yes \in BOOLEAN
  BY DEF StartPropagation
<1> HIDE DEF yes
<1>2. Basic(t) /\ SameGround(Now, t)
  BY <1>1, InvBasic, BasicRelaxEmpties
<1> HIDE DEF t
<1>3. Basic(r) /\ SameGround(t, r)
  BY <1>2, BasicNewCycle
<1> HIDE DEF r
<1>4. SameGround(Now, r)
  BY <1>2, <1>3 DEF SameGround
<1>5. Modes'
  BY DEF StartPropagation, Inv, Modes
<1>6. QED
  BY <1>1, <1>3, <1>4, <1>5, InvStep DEF StartPropagation, Inv, status

LEMMA InvPreemptPropagation ==
  ASSUME Inv, PreemptPropagation
  PROVE  Inv'
<1>1. Basic(NewCycle(Now)) /\ SameGround(Now, NewCycle(Now))
  BY InvBasic, BasicNewCycle
<1>2. Modes'
  BY DEF PreemptPropagation, Inv, Modes
<1>3. QED
  BY <1>1, <1>2, InvStep DEF PreemptPropagation, Inv, status

LEMMA InvResumePropagation ==
  ASSUME Inv, ResumePropagation
  PROVE  Inv'
<1> DEFINE no == FALSE
           s == NewCycle(Now)
           t == RelaxEmpties(s, no)
           r == NewCycle(t)
<1>1. Become(r) /\ no \in BOOLEAN
  BY DEF ResumePropagation
<1> HIDE DEF no
<1>2. Basic(s) /\ SameGround(Now, s)
  BY InvBasic, BasicNewCycle
<1> HIDE DEF s
<1>3. Basic(t) /\ SameGround(s, t)
  BY <1>1, <1>2, BasicRelaxEmpties
<1> HIDE DEF t
<1>4. Basic(r) /\ SameGround(t, r)
  BY <1>3, BasicNewCycle
<1> HIDE DEF r
<1>5. SameGround(Now, r)
  BY <1>2, <1>3, <1>4 DEF SameGround
<1>6. Modes'
  BY DEF ResumePropagation, Inv, Modes
<1>7. QED
  BY <1>1, <1>4, <1>5, <1>6, InvStep DEF ResumePropagation, Inv, status

(* All the domains that an execution has changed are reported.             *)
WithDomains(s, d) == [s EXCEPT !.dom = d]

LEMMA WithDomainsEffect ==
  ASSUME NEW s, NEW d, s \in Networks, d \in Domains
  PROVE  /\ WithDomains(s, d) \in Networks /\ SameGround(s, WithDomains(s, d))
         /\ WithDomains(s, d).spec = s.spec /\ WithDomains(s, d).held = s.held
         /\ WithDomains(s, d).fresh = s.fresh /\ WithDomains(s, d).relaxed = s.relaxed
         /\ WithDomains(s, d).empties = s.empties /\ WithDomains(s, d).violated = s.violated
         /\ WithDomains(s, d).agenda = s.agenda /\ WithDomains(s, d).dom = d
BY DEF WithDomains, Networks, SameGround

RestrictOne(k, v, t) == Restricted(t, v)
ReportedKept(k, S, t) ==
  /\ t \in Networks /\ Alike(k.start, t)
  /\ t.relaxed \subseteq k.start.relaxed
  /\ k.start.agenda \subseteq t.agenda /\ t.agenda \subseteq k.start.agenda \cup Active(k.start)
  /\ \A v \in S : ~Inactive(v) => On(k.start, v) \cap Active(k.start) \subseteq t.agenda

ReportLoop == INSTANCE FoldInduction WITH Op <- RestrictOne, Pick <- AnyOf, I <- ReportedKept

Reported(s, S) == FoldSet(LAMBDA v, r : Restricted(r, v), s, S)

LEMMA ReportedEffect ==
  ASSUME NEW s, NEW S, s \in Networks, IsFiniteSet(S)
  PROVE  /\ Reported(s, S) \in Networks /\ Alike(s, Reported(s, S))
         /\ Reported(s, S).relaxed \subseteq s.relaxed
         /\ s.agenda \subseteq Reported(s, S).agenda
         /\ Reported(s, S).agenda \subseteq s.agenda \cup Active(s)
         /\ \A v \in S : ~Inactive(v) => On(s, v) \cap Active(s) \subseteq Reported(s, S).agenda
<1> DEFINE k == [start |-> s]
<1>1. Reported(s, S) = ReportLoop!Fold(k, s, S)
  BY DEF Reported, FoldSet, ReportLoop!Fold, ReportLoop!MapThenFoldSet, MapThenFoldSet,
         RestrictOne, AnyOf
<1>2. k.start = s
  OBVIOUS
<1>3. ReportLoop!IsFiniteSet(S)
  BY Zenon DEF ReportLoop!IsFiniteSet, IsFiniteSet
<1> HIDE DEF k
<1>4. ReportLoop!Picks(S)
  BY DEF ReportLoop!Picks, AnyOf
<1>5. ReportedKept(k, {}, s)
  BY <1>2 DEF ReportedKept, Alike, SameGround
<1>6. ASSUME NEW T \in SUBSET S, NEW t, T # {}, ReportedKept(k, T \ {AnyOf(T)}, t)
      PROVE  ReportedKept(k, T, RestrictOne(k, AnyOf(T), t))
  <2> DEFINE v == AnyOf(T)
             r == Restricted(t, v)
  <2>1. /\ t \in Networks /\ Alike(s, t) /\ t.relaxed \subseteq s.relaxed
        /\ s.agenda \subseteq t.agenda /\ t.agenda \subseteq s.agenda \cup Active(s)
        /\ \A w \in T \ {v} : ~Inactive(w) => On(s, w) \cap Active(s) \subseteq t.agenda
    BY <1>2, <1>6 DEF ReportedKept
  <2>2. RestrictOne(k, v, t) = r
    BY DEF RestrictOne
  <2> HIDE DEF v
  <2>3. /\ r \in Networks /\ Alike(t, r) /\ r.relaxed \subseteq t.relaxed
        /\ t.agenda \subseteq r.agenda /\ r.agenda \subseteq t.agenda \cup Active(t)
        /\ ~Inactive(v) => On(t, v) \cap Active(t) \subseteq r.agenda
    BY <2>1, RestrictedEffect
  <2> HIDE DEF r
  <2>4. On(t, v) = On(s, v) /\ Active(t) = Active(s)
    BY <2>1 DEF On, Active, Alike, SameGround
  <2>5. Alike(s, r)
    BY <2>1, <2>3 DEF Alike, SameGround
  <2>6. ASSUME NEW w \in T, ~Inactive(w)
        PROVE  On(s, w) \cap Active(s) \subseteq r.agenda
    <3>1. CASE w = v
      BY <2>3, <2>4, <2>6, <3>1
    <3>2. CASE w # v
      BY <2>1, <2>3, <2>6, <3>2
    <3>3. QED
      BY <3>1, <3>2
  <2>7. ReportedKept(k, T, r)
    BY <1>2, <2>1, <2>3, <2>4, <2>5, <2>6 DEF ReportedKept
  <2>8. QED
    BY <2>2, <2>7 DEF v
<1>7. ReportedKept(k, S, ReportLoop!Fold(k, s, S))
  BY ONLY <1>3, <1>4, <1>5, <1>6, ReportLoop!FoldKeeps
<1>8. QED
  BY <1>1, <1>2, <1>7 DEF ReportedKept

(* What is left after an execution.                                        *)
LEMMA FilteredType ==
  ASSUME NEW c \in Constraint, NEW d \in Domains
  PROVE  /\ Filtered(c, d) \in Domains
         /\ \A v \in Var : Filtered(c, d)[v] \subseteq d[v]
         /\ Supports(c, d) # {} => \A v \in Var : Filtered(c, d)[v] = {} => d[v] = {}
         /\ \A v \in Var : v \notin Vars(c) => Filtered(c, d)[v] = d[v]
<1> DEFINE f == Filtered(c, d)
<1>1. \A v \in Var : d[v] \subseteq Value
  BY DEF Domains
<1>2. ASSUME NEW v \in Var
      PROVE  /\ v \in Vars(c) => f[v] = {t[v] : t \in Supports(c, d)}
             /\ v \notin Vars(c) => f[v] = d[v]
  BY DEF Filtered
<1>3. \A v \in Vars(c) : {t[v] : t \in Supports(c, d)} \subseteq d[v]
  BY DEF Supports
<1>4. Supports(c, d) # {} => \A v \in Vars(c) : {t[v] : t \in Supports(c, d)} # {}
  OBVIOUS
<1>5. f = [v \in Var |-> f[v]]
  BY DEF Filtered
<1> HIDE DEF f
<1>6. ASSUME NEW v \in Var
      PROVE  /\ f[v] \subseteq d[v]
             /\ Supports(c, d) # {} => (f[v] = {} => d[v] = {})
  <2>1. CASE v \in Vars(c)
    BY <1>2, <1>3, <1>4, <2>1
  <2>2. CASE v \notin Vars(c)
    BY <1>2, <2>2
  <2>3. QED
    BY <2>1, <2>2
<1>7. f \in Domains
  BY <1>1, <1>5, <1>6 DEF Domains
<1>8. QED
  BY <1>2, <1>6, <1>7 DEF f

(* The network after a consistent execution of c.                          *)
Executed(c) == Reported(WithDomains(Now, Filtered(c, dom)), ExecutionChanges(c))

LEMMA ExecutedEffect ==
  ASSUME Inv, NEW c \in Constraint
  PROVE  LET s == WithDomains(Now, Filtered(c, dom))
             r == Executed(c)
         IN  /\ s \in Networks /\ r \in Networks /\ Alike(s, r)
             /\ r.relaxed \subseteq s.relaxed
             /\ s.agenda \subseteq r.agenda /\ r.agenda \subseteq s.agenda \cup Active(s)
             /\ \A v \in ExecutionChanges(c) :
                  ~Inactive(v) => On(s, v) \cap Active(s) \subseteq r.agenda
<1> DEFINE s == WithDomains(Now, Filtered(c, dom))
           S == ExecutionChanges(c)
<1>1. dom \in Domains
  BY InvBasic DEF Networks, Now
<1>2. s \in Networks
  BY <1>1, FilteredType, WithDomainsEffect, InvBasic
<1>3. IsFiniteSet(S)
  <2>1. S \subseteq Vars(c)
    BY DEF ExecutionChanges
  <2>2. QED
    BY <2>1, ScopeType, FS_Subset
<1>4. Executed(c) = Reported(s, S)
  BY DEF Executed
<1> HIDE DEF s, S
<1>5. QED
  BY <1>2, <1>3, <1>4, ReportedEffect DEF s, S

LEMMA InvExecuteConsistently ==
  ASSUME Inv, NEW c \in Constraint, ExecuteConsistently(c)
  PROVE  Inv'
<1> DEFINE s == WithDomains(Now, Filtered(c, dom))
           r == Executed(c)
           A == r.agenda \ {c}
           t == [r EXCEPT !.agenda = A]
<1>1. /\ s \in Networks /\ r \in Networks /\ Alike(s, r) /\ r.relaxed \subseteq s.relaxed
      /\ r.agenda \subseteq s.agenda \cup Active(s)
  BY ExecutedEffect
<1>2. Become([r EXCEPT !.agenda = @ \ {c}])
  BY DEF ExecuteConsistently, Executed, Reported, WithDomains
<1>3. Become(t)
  BY <1>2
<1>4. dom \in Domains /\ Now \in Networks /\ Now.dom = dom /\ Basic(Now) /\ Supports(c, dom) # {}
  BY InvBasic DEF Networks, Now, ExecuteConsistently
<1>5. /\ SameGround(Now, s) /\ s.spec = Now.spec /\ s.held = Now.held /\ s.violated = Now.violated
      /\ s.fresh = Now.fresh /\ s.relaxed = Now.relaxed /\ s.empties = Now.empties
      /\ s.agenda = Now.agenda /\ s.dom = Filtered(c, dom)
  BY <1>4, FilteredType, WithDomainsEffect
<1>6. \A v \in Var : /\ Filtered(c, dom)[v] = {} => dom[v] = {}
                     /\ Filtered(c, dom)[v] \subseteq dom[v]
  BY <1>4, FilteredType
<1> HIDE DEF s
<1>7. Basic(s)
  <2>1. s.fresh \subseteq variables /\ s.relaxed \subseteq variables /\ s.empties \subseteq variables
    BY <1>4, <1>5 DEF Basic, BasicIn
  <2>2. Contained(Now) => Contained(s)
    BY <1>4, <1>5, <1>6 DEF Contained, SameGround
  <2>3. QED
    BY <1>1, <1>4, <1>5, <1>6, <2>1, <2>2, BasicSame
<1> HIDE DEF r
<1>8. Basic(r) /\ SameGround(Now, r)
  BY <1>1, <1>5, <1>7, BasicAlike DEF Alike, SameGround
<1>9. A \subseteq Constraint /\ A \subseteq r.agenda
  BY <1>1 DEF Networks
<1> HIDE DEF A
<1>10. t \in Networks /\ Alike(r, t) /\ t.agenda = A /\ t.relaxed = r.relaxed
  BY <1>1, <1>9, SetAgenda
<1> HIDE DEF t
<1>11. Basic(t) /\ SameGround(Now, t)
  BY <1>8, <1>9, <1>10, BasicAlike DEF Alike, SameGround
<1>12. Modes'
  BY DEF ExecuteConsistently, Propagating, Inv, Modes
<1>13. QED
  BY <1>3, <1>11, <1>12, InvStep DEF ExecuteConsistently, Inv, status

(* A constraint set aside as violated.                                     *)
LEMMA SetAsideEffect ==
  ASSUME NEW s, NEW c, s \in Networks, c \in Constraint
  PROVE  /\ SetAside(s, c) \in Networks /\ SameGround(s, SetAside(s, c))
         /\ SetAside(s, c).dom = s.dom /\ SetAside(s, c).spec = s.spec
         /\ SetAside(s, c).fresh = s.fresh /\ SetAside(s, c).relaxed = s.relaxed
         /\ SetAside(s, c).empties = s.empties
         /\ SetAside(s, c).violated = s.violated \cup {c}
         /\ SetAside(s, c).agenda = s.agenda \ {c}
         /\ SetAside(s, c).held[c] = (s.held[c] + 1) % UIntMod
         /\ \A d \in Constraint : d # c => SetAside(s, c).held[d] = s.held[d]
<1> DEFINE C == {c}
           t == Deactivated(s, C)
           V == s.violated \cup C
           r == SetAside(s, c)
<1>1. C \subseteq Constraint /\ V \subseteq Constraint
  BY DEF Networks
<1>2. r = [t EXCEPT !.violated = t.violated \cup C]
  BY DEF SetAside
<1> HIDE DEF C, r
<1>3. /\ t \in Networks /\ SameGround(s, t) /\ t.dom = s.dom /\ t.spec = s.spec
      /\ t.fresh = s.fresh /\ t.relaxed = s.relaxed /\ t.empties = s.empties
      /\ t.violated = s.violated /\ t.agenda = s.agenda \ C
      /\ \A d \in Constraint \ C : t.held[d] = s.held[d]
      /\ \A d \in C : t.held[d] = (s.held[d] + 1) % UIntMod
  BY <1>1, DeactivatedEffect
<1> HIDE DEF t
<1>4. r = [t EXCEPT !.violated = V]
  BY <1>2, <1>3
<1>5. V = s.violated \cup C
  OBVIOUS
<1> HIDE DEF V
<1>6. /\ r \in Networks /\ SameGround(t, r) /\ r.dom = t.dom /\ r.spec = t.spec
      /\ r.fresh = t.fresh /\ r.relaxed = t.relaxed /\ r.empties = t.empties
      /\ r.violated = V /\ r.agenda = t.agenda /\ r.held = t.held
  BY <1>1, <1>3, <1>4 DEF Networks, SameGround
<1>7. QED
  BY <1>3, <1>5, <1>6 DEF SameGround, C, r

LEMMA BasicSetAside ==
  ASSUME NEW s, NEW c, Basic(s), c \in s.constraints, s.constraints \subseteq constraints, s.held[c] = 0
  PROVE  Basic(SetAside(s, c)) /\ SameGround(s, SetAside(s, c))
<1> DEFINE t == SetAside(s, c)
<1>0. s \in Networks /\ c \in Constraint
  BY DEF Basic, BasicIn, Networks
<1>1. /\ t \in Networks /\ SameGround(s, t) /\ t.dom = s.dom /\ t.spec = s.spec
      /\ t.fresh = s.fresh /\ t.relaxed = s.relaxed /\ t.empties = s.empties
      /\ t.violated = s.violated \cup {c} /\ t.agenda = s.agenda \ {c}
      /\ t.held[c] = (s.held[c] + 1) % UIntMod
      /\ \A d \in Constraint : d # c => t.held[d] = s.held[d]
  BY <1>0, SetAsideEffect
<1> HIDE DEF t
<1>2. CountedIn(s, out, redundant) => CountedIn(t, out, redundant)
  <2> SUFFICES ASSUME CountedIn(s, out, redundant), NEW d \in t.constraints \ redundant
               PROVE  /\ d \in t.violated => t.held[d] = Load(out, d) + 1
                      /\ d \notin t.violated => t.held[d] = Load(out, d)
    BY DEF CountedIn
  <2>1. /\ d \in s.violated => s.held[d] = Load(out, d) + 1
        /\ d \notin s.violated => s.held[d] = Load(out, d)
        /\ d \in s.constraints /\ d \in Constraint
    BY <1>0, <1>1 DEF CountedIn, SameGround, Networks
  <2>2. CASE d # c
    BY <1>1, <2>1, <2>2
  <2>3. CASE d = c
    <3>1. Load(out, c) \in Nat
      BY <1>0 DEF Basic, Settings
    <3>2. Load(out, c) = 0
      BY <2>1, <2>3, <3>1
    <3>3. t.held[c] = 1
      BY <1>1, CountIsNat
    <3>4. QED
      BY <1>1, <2>3, <3>2, <3>3
  <2>4. QED
    BY <2>2, <2>3
<1>3. t.agenda \subseteq t.constraints /\ t.violated \subseteq constraints
  BY <1>1 DEF Basic, BasicIn, SameGround
<1>4. Contained(s) => Contained(t)
  BY <1>1 DEF Contained, SameGround
<1>5. Basic(t)
  BY <1>1, <1>2, <1>3, <1>4 DEF Basic, BasicIn, SameGround
<1>6. QED
  BY <1>1, <1>5 DEF t

(* An inconsistency drops the agenda when violations are not allowed.      *)
Dropped(s) == [s EXCEPT !.agenda = {}]

LEMMA DroppedEffect ==
  ASSUME NEW s, s \in Networks
  PROVE  /\ Dropped(s) \in Networks /\ Alike(s, Dropped(s))
         /\ Dropped(s).agenda = {} /\ Dropped(s).relaxed = s.relaxed
<1> DEFINE none == {}
<1>1. none \subseteq Constraint /\ none = {} /\ Dropped(s) = [s EXCEPT !.agenda = none]
  BY DEF Dropped
<1> HIDE DEF none
<1>2. QED
  BY <1>1, SetAgenda

LEMMA ExecuteInconsistentlyIs ==
  ASSUME NEW c, ExecuteInconsistently(c)
  PROVE  \E v \in Vars(c) :
           /\ ~Inactive(v) /\ allow => Become(SetAside(WithoutValues(Now, v), c))
           /\ Inactive(v) \/ ~allow => Become(Dropped(WithoutValues(Now, v)))
BY Zenon DEF ExecuteInconsistently, SetAside, Dropped, WithoutValues, WithDomain

LEMMA InvExecuteInconsistently ==
  ASSUME Inv, NEW c \in Constraint, ExecuteInconsistently(c)
  PROVE  Inv'
<1>1. PICK v \in Vars(c) :
        /\ ~Inactive(v) /\ allow => Become(SetAside(WithoutValues(Now, v), c))
        /\ Inactive(v) \/ ~allow => Become(Dropped(WithoutValues(Now, v)))
  BY ExecuteInconsistentlyIs
<1> DEFINE s == WithoutValues(Now, v)
           t == SetAside(s, c)
           r == Dropped(s)
<1>2. /\ Basic(Now) /\ c \in constraints /\ v \in variables /\ held[c] = 0
      /\ v \in Var /\ Now \in Networks
  <2>1. Basic(Now) /\ Now \in Networks
    BY InvBasic
  <2>2. c \in Now.constraints /\ c \in constraints /\ held[c] = 0
    BY <2>1, NowFields DEF ExecuteInconsistently, Basic, BasicIn
  <2>3. v \in variables /\ v \in Var
    BY <2>1, <2>2 DEF Basic, BasicIn, Settings
  <2>4. QED
    BY <2>1, <2>2, <2>3
<1>3. Basic(s) /\ SameGround(Now, s) /\ s.held = held
  BY <1>2, BasicWithoutValues, WithoutValuesEffect, NowFields
<1> HIDE DEF s
<1>4. s.constraints = constraints
  BY <1>3, NowFields DEF SameGround
<1>5. Basic(t) /\ SameGround(s, t)
  BY <1>2, <1>3, <1>4, BasicSetAside
<1>6. r \in Networks /\ Alike(s, r) /\ r.agenda = {} /\ r.relaxed = s.relaxed
  BY <1>3, DroppedEffect, BasicIsNetwork
<1> HIDE DEF t, r
<1>7. Basic(r)
  BY <1>3, <1>6, BasicAlike
<1>8. SameGround(Now, t) /\ SameGround(Now, r)
  BY <1>3, <1>5, <1>6 DEF SameGround, Alike
<1>9. Modes'
  BY DEF ExecuteInconsistently, Propagating, Inv, Modes
<1>10. /\ UNCHANGED <<variables, out, redundant>>
       /\ buffered' \subseteq redundant
  BY DEF ExecuteInconsistently, Inv, status
<1>11. CASE ~Inactive(v) /\ allow
  BY <1>1, <1>5, <1>8, <1>9, <1>10, <1>11, InvStep DEF s, t
<1>12. CASE Inactive(v) \/ ~allow
  BY <1>1, <1>7, <1>8, <1>9, <1>10, <1>12, InvStep DEF s, r
<1>13. QED
  BY <1>11, <1>12

LEMMA InvCompletePropagation ==
  ASSUME Inv, CompletePropagation
  PROVE  Inv'
<1> DEFINE d == Deactivated(Now, buffered)
           s == IF started THEN d ELSE Now
           r == NewCycle(s)
<1>0. Basic(Now) /\ Now \in Networks /\ buffered \subseteq redundant /\ buffered \subseteq Constraint
  BY InvBasic DEF Inv, Networks, Now
<1>1. Become(r)
  BY DEF CompletePropagation
<1>2. /\ d \in Networks /\ SameGround(Now, d) /\ d.dom = Now.dom /\ d.spec = Now.spec /\ d.fresh = Now.fresh
      /\ d.relaxed = Now.relaxed /\ d.empties = Now.empties /\ d.violated = Now.violated
      /\ d.agenda = Now.agenda \ buffered
      /\ \A c \in Constraint \ buffered : d.held[c] = Now.held[c]
  BY <1>0, DeactivatedEffect
<1> HIDE DEF d
<1>3. CountedIn(Now, out, redundant) => CountedIn(d, out, redundant)
  <2>1. d.constraints \subseteq Constraint
    BY <1>2 DEF Networks
  <2>2. QED
    BY <1>0, <1>2, <2>1 DEF CountedIn, SameGround
<1>4. Basic(d)
  <2>1. Contained(Now) => Contained(d)
    BY <1>2 DEF Contained, SameGround
  <2>2. QED
    BY <1>0, <1>2, <1>3, <2>1 DEF Basic, BasicIn, SameGround
<1>5. Basic(s) /\ SameGround(Now, s)
  BY <1>0, <1>2, <1>4 DEF SameGround
<1> HIDE DEF s
<1>6. Basic(r) /\ SameGround(s, r)
  BY <1>5, BasicNewCycle
<1> HIDE DEF r
<1>7. SameGround(Now, r)
  BY <1>5, <1>6 DEF SameGround
<1>8. Modes'
  BY DEF CompletePropagation, Inv, Modes
<1>9. buffered' \subseteq redundant /\ UNCHANGED <<variables, out, redundant>>
  BY <1>0 DEF CompletePropagation
<1>10. QED
  BY <1>1, <1>6, <1>7, <1>8, <1>9, InvStep

LEMMA LoadMoves ==
  ASSUME NEW c \in Constraint, NEW v, NEW O \in [Var -> Nat], NEW P \in [Var -> Nat],
         \A w \in Var : w # v => P[w] = O[w]
  PROVE  /\ v \notin Vars(c) => Load(P, c) = Load(O, c)
         /\ v \in Vars(c) /\ P[v] = O[v] + 1 => Load(P, c) = Load(O, c) + 1
<1>1. \A w \in Vars(c) : O[w] \in Nat /\ P[w] \in Nat /\ (w # v => P[w] = O[w])
  BY ScopeType
<1>2. IsFiniteSet(Vars(c))
  BY ScopeType
<1>3. CASE v \notin Vars(c)
  BY <1>1, <1>2, <1>3, SumMoves DEF Load
<1>4. CASE v \in Vars(c) /\ P[v] = O[v] + 1
  BY <1>1, <1>2, <1>4, SumMoves DEF Load
<1>5. QED
  BY <1>3, <1>4

LEMMA OutType ==
  ASSUME NEW O \in [Var -> 0 .. MaxHeld]
  PROVE  O \in [Var -> Nat]
BY EngineAssumption DEF EngineAssumption

NewVariable(s, v) ==
  [s EXCEPT !.base[v] = BaseDomain[v], !.dom[v] = BaseDomain[v],
            !.spec[v] = InitialValue(v)]

LEMMA NewVariableEffect ==
  ASSUME NEW s, NEW v, s \in Networks, v \in Var
  PROVE  /\ NewVariable(s, v) \in Networks /\ NewVariable(s, v).constraints = s.constraints
         /\ NewVariable(s, v).held = s.held /\ NewVariable(s, v).violated = s.violated
         /\ NewVariable(s, v).fresh = s.fresh /\ NewVariable(s, v).relaxed = s.relaxed
         /\ NewVariable(s, v).empties = s.empties /\ NewVariable(s, v).agenda = s.agenda
         /\ NewVariable(s, v).dom[v] = BaseDomain[v] /\ NewVariable(s, v).base[v] = BaseDomain[v]
         /\ NewVariable(s, v).spec[v] = InitialValue(v)
         /\ InitialValue(v) \in BaseDomain[v] \cup {NoValue}
         /\ \A w \in Var : w # v => /\ NewVariable(s, v).dom[w] = s.dom[w]
                                    /\ NewVariable(s, v).base[w] = s.base[w]
                                    /\ NewVariable(s, v).spec[w] = s.spec[w]
         /\ BaseDomain[v] # {}
<1> DEFINE B == BaseDomain[v]
           b == [s.base EXCEPT ![v] = B]
           d == [s.dom EXCEPT ![v] = B]
           x == InitialValue(v)
           p == [s.spec EXCEPT ![v] = x]
<1>1. B \subseteq Value /\ B # {} /\ x \in B \cup {NoValue}
  BY NetworkAssumption DEF InitialValue, Singleton
<1>2. NewVariable(s, v) = [s EXCEPT !.base = b, !.dom = d, !.spec = p]
  BY DEF NewVariable
<1> HIDE DEF x
<1>3. /\ b \in Domains /\ b[v] = B /\ \A w \in Var : w # v => b[w] = s.base[w]
      /\ d \in Domains /\ d[v] = B /\ \A w \in Var : w # v => d[w] = s.dom[w]
  <2> HIDE DEF B
  <2>1. QED
    BY <1>1 DEF Networks, Domains
<1>4. /\ p \in [Var -> Value \cup {NoValue}] /\ p[v] = x
      /\ \A w \in Var : w # v => p[w] = s.spec[w]
  BY <1>1 DEF Networks
<1> HIDE DEF b, d, p
<1>5. /\ NewVariable(s, v) \in Networks /\ NewVariable(s, v).constraints = s.constraints
      /\ NewVariable(s, v).held = s.held /\ NewVariable(s, v).violated = s.violated
      /\ NewVariable(s, v).fresh = s.fresh /\ NewVariable(s, v).relaxed = s.relaxed
      /\ NewVariable(s, v).empties = s.empties /\ NewVariable(s, v).agenda = s.agenda
      /\ NewVariable(s, v).dom = d /\ NewVariable(s, v).base = b /\ NewVariable(s, v).spec = p
  BY <1>2, <1>3, <1>4 DEF Networks
<1>6. QED
  BY <1>1, <1>3, <1>4, <1>5 DEF x

LEMMA InvAddVariable ==
  ASSUME Inv, NEW v \in Var, AddVariable(v)
  PROVE  Inv'
<1> DEFINE t == NewVariable(Now, v)
           P == [out EXCEPT ![v] = 0]
<1>0. Basic(Now) /\ Now \in Networks
  BY InvBasic
<1>1. Become(t) /\ v \notin variables /\ variables' = variables \cup {v} /\ out' = P
      /\ redundant' = redundant /\ buffered' = buffered
  BY DEF AddVariable, NewVariable, status
<1>2. /\ t \in Networks /\ t.constraints = constraints
      /\ t.held = Now.held /\ t.violated = Now.violated
      /\ t.fresh = Now.fresh /\ t.relaxed = Now.relaxed
      /\ t.empties = Now.empties /\ t.agenda = Now.agenda
      /\ t.dom[v] # {} /\ t.base[v] # {}
      /\ t.dom[v] = t.base[v] /\ t.spec[v] \in t.base[v] \cup {NoValue}
      /\ \A w \in Var : w # v => /\ t.dom[w] = Now.dom[w] /\ t.base[w] = Now.base[w]
                                 /\ t.spec[w] = Now.spec[w]
  BY <1>0, NewVariableEffect, NowFields
<1> HIDE DEF t
<1>3. P \in [Var -> 0 .. MaxHeld] /\ out \in [Var -> 0 .. MaxHeld]
      /\ P[v] = 0 /\ \A w \in Var : w # v => P[w] = out[w]
  BY EngineAssumption DEF EngineAssumption, Inv
<1> HIDE DEF P
<1>4. \A c \in constraints : Load(P, c) = Load(out, c)
  <2> SUFFICES ASSUME NEW c \in constraints
               PROVE  Load(P, c) = Load(out, c)
    OBVIOUS
  <2>1. c \in Constraint /\ v \notin Vars(c)
    BY <1>0, <1>1, NowFields DEF Basic, BasicIn, Networks
  <2>2. out \in [Var -> Nat] /\ P \in [Var -> Nat]
    BY <1>3, OutType
  <2>3. QED
    BY <1>3, <2>1, <2>2, LoadMoves
<1>5. CountedIn(Now, out, redundant) => CountedIn(t, P, redundant)
  BY <1>2, <1>4, NowFields DEF CountedIn
<1>6. BasicIn(t, variables \cup {v}, P, redundant, constraints)
  <2>1. \A c \in t.constraints : Vars(c) \subseteq variables \cup {v}
    BY <1>0, <1>2, NowFields DEF Basic, BasicIn
  <2>2. \A w \in Var : t.base[w] # {}
    BY <1>0, <1>2 DEF Basic, BasicIn
  <2>3. Undisturbed => \A w \in Var : t.dom[w] = {} => w \in t.empties
    BY <1>0, <1>2 DEF Basic, BasicIn
  <2>4. Narrow => CountedIn(t, P, redundant)
    BY <1>0, <1>5 DEF Basic, BasicIn
  <2>5. /\ t.fresh \subseteq variables \cup {v} /\ t.relaxed \subseteq variables \cup {v}
        /\ t.empties \subseteq variables \cup {v} /\ t.agenda \subseteq t.constraints
        /\ t.violated \subseteq constraints
    BY <1>0, <1>2, NowFields DEF Basic, BasicIn
  <2>6. Contained(Now) => Contained(t)
    BY <1>2 DEF Contained
  <2>7. Obliging => Contained(t)
    BY <1>0, <2>6 DEF Basic, BasicIn
  <2>8. QED
    BY <1>2, <2>1, <2>2, <2>3, <2>4, <2>5, <2>7 DEF BasicIn
<1>7. Now' = t /\ constraints' = constraints
  BY <1>1, <1>2, BecomeIs DEF Become
<1>8. Modes'
  BY DEF AddVariable, Dirtied, Inv, Modes
<1>9. Undisturbed => \A w \in Var : P[w] = 0
  BY <1>3 DEF Inv
<1>10. QED
  BY <1>1, <1>3, <1>6, <1>7, <1>8, <1>9 DEF Inv

LEMMA InvRemoveVariable ==
  ASSUME Inv, NEW v \in Var, RemoveVariable(v)
  PROVE  Inv'
<1> DEFINE R == Now.relaxed \ {v}
           F == Now.fresh \ {v}
           E == IF v \in Now.empties THEN {} ELSE Now.empties
           t == [Now EXCEPT !.relaxed = R, !.fresh = F, !.empties = E]
           V == variables \ {v}
<1>0. Basic(Now) /\ Now \in Networks
  BY InvBasic
<1>1. /\ Become(t) /\ v \in Disposable /\ On(Now, v) = {} /\ variables' = V
      /\ UNCHANGED <<out, redundant, buffered>>
  BY DEF RemoveVariable, status
<1>2. R \subseteq V /\ F \subseteq V /\ E \subseteq V
  BY <1>0 DEF Basic, BasicIn
<1>3. V \subseteq Var
  BY DEF Inv
<1> HIDE DEF R, F, E, V
<1>4. /\ t \in Networks /\ SameGround(Now, t) /\ t.dom = Now.dom /\ t.spec = Now.spec
      /\ t.held = Now.held
      /\ t.violated = Now.violated /\ t.agenda = Now.agenda
      /\ t.relaxed = R /\ t.fresh = F /\ t.empties = E
  <2>1. R \subseteq Var /\ F \subseteq Var /\ E \subseteq Var
    BY <1>2, <1>3
  <2>2. QED
    BY <1>0, <2>1 DEF Networks, SameGround
<1> HIDE DEF t
<1>5. \A c \in t.constraints : Vars(c) \subseteq V
  BY <1>0, <1>1, <1>4 DEF Basic, BasicIn, On, SameGround, V
<1>6. CountedIn(Now, out, redundant) => CountedIn(t, out, redundant)
  BY <1>4 DEF CountedIn, SameGround
<1>7. ~Undisturbed
  BY <1>1 DEF Undisturbed
<1>8. BasicIn(t, V, out, redundant, constraints)
  <2>1. Contained(Now) => Contained(t)
    BY <1>4 DEF Contained, SameGround
  <2>2. QED
    BY <1>0, <1>2, <1>4, <1>5, <1>6, <1>7, <2>1 DEF Basic, BasicIn, SameGround
<1>9. Now' = t /\ constraints' = constraints
  BY <1>1, <1>4, BecomeIs, NowFields DEF Become, SameGround
<1>10. Modes'
  BY DEF RemoveVariable, Dirtied, Inv, Modes
<1>11. QED
  BY <1>1, <1>3, <1>7, <1>8, <1>9, <1>10 DEF Inv

(* With each variable deactivated once at most, the deactivations of a     *)
(* constraint's variables are what its constructor counts.                 *)
LEMMA LoadIsWithheld ==
  ASSUME NEW c \in Constraint, Narrow, out \in [Var -> 0 .. MaxHeld]
  PROVE  /\ Withheld(c) = Load(out, c)
         /\ Load(out, c) + 1 < UIntMod
         /\ Load(out, c) = 0 => \A v \in Vars(c) : ~Inactive(v)
<1> DEFINE W == {v \in Vars(c) : Inactive(v)}
           n == Cardinality(W)
<1>1. IsFiniteSet(Vars(c)) /\ Vars(c) \subseteq Var
  BY ScopeType
<1>2. \A v \in Vars(c) : out[v] \in {0, 1}
  BY <1>1 DEF Narrow
<1>3. W = {v \in Vars(c) : out[v] > 0}
  BY DEF Inactive
<1>4. Load(out, c) = n
  BY <1>1, <1>2, <1>3, SumCounts DEF Load
<1>5. IsFiniteSet(W) /\ n \in Nat /\ Cardinality(Vars(c)) \in Nat /\ n <= Cardinality(Vars(c))
  <2>1. W \subseteq Vars(c)
    OBVIOUS
  <2> HIDE DEF W
  <2>2. QED
    BY <1>1, <2>1, FS_Subset, FS_CardinalityType
<1>6. Cardinality(Vars(c)) + 1 < UIntMod
  BY DEF Narrow
<1>7. n = 0 => W = {}
  BY <1>5, FS_EmptySet
<1>8. Withheld(c) = n % UIntMod
  BY DEF Withheld
<1>9. n % UIntMod = n
  <2> HIDE DEF n
  <2>1. QED
    BY <1>5, <1>6, CountIsNat
<1>10. Load(out, c) = 0 => \A v \in Vars(c) : ~Inactive(v)
  BY <1>4, <1>7
<1> HIDE DEF n
<1>11. QED
  BY <1>4, <1>5, <1>6, <1>8, <1>9, <1>10, CountIsNat

LEMMA WithheldType ==
  ASSUME NEW c \in Constraint
  PROVE  Withheld(c) \in Count
<1> DEFINE W == {v \in Vars(c) : Inactive(v)}
<1>1. IsFiniteSet(W)
  <2>1. W \subseteq Vars(c)
    OBVIOUS
  <2>2. QED
    BY <2>1, ScopeType, FS_Subset
<1>2. Cardinality(W) \in Int
  BY <1>1, FS_CardinalityType
<1>3. QED
  BY <1>2, Modulo DEF Withheld

(* The network with a new constraint.                                      *)
Joined(s, c, S) ==
  [s EXCEPT !.constraints = @ \cup {c}, !.held[c] = Withheld(c), !.agenda = @ \cup S]

LEMMA JoinedEffect ==
  ASSUME NEW s, NEW c, NEW S, s \in Networks, c \in Constraint, S \subseteq {c}
  PROVE  /\ Joined(s, c, S) \in Networks
         /\ Joined(s, c, S).constraints = s.constraints \cup {c}
         /\ Joined(s, c, S).base = s.base /\ Joined(s, c, S).dom = s.dom
         /\ Joined(s, c, S).spec = s.spec /\ Joined(s, c, S).fresh = s.fresh
         /\ Joined(s, c, S).relaxed = s.relaxed /\ Joined(s, c, S).empties = s.empties
         /\ Joined(s, c, S).violated = s.violated
         /\ Joined(s, c, S).agenda = s.agenda \cup S
         /\ Joined(s, c, S).held[c] = Withheld(c)
         /\ \A d \in Constraint : d # c => Joined(s, c, S).held[d] = s.held[d]
<1> DEFINE C == s.constraints \cup {c}
           A == s.agenda \cup S
           n == Withheld(c)
           h == [s.held EXCEPT ![c] = n]
<1>1. Joined(s, c, S) = [s EXCEPT !.constraints = C, !.held = h, !.agenda = A]
  BY DEF Joined
<1>2. n \in Count
  BY WithheldType
<1>3. C \subseteq Constraint /\ A \subseteq Constraint
  BY DEF Networks
<1> HIDE DEF n
<1>4. h \in [Constraint -> Count] /\ h[c] = n /\ \A d \in Constraint : d # c => h[d] = s.held[d]
  BY <1>2 DEF Networks
<1> HIDE DEF h, C, A
<1>5. /\ Joined(s, c, S) \in Networks
      /\ Joined(s, c, S).constraints = C
      /\ Joined(s, c, S).base = s.base /\ Joined(s, c, S).dom = s.dom
      /\ Joined(s, c, S).spec = s.spec /\ Joined(s, c, S).fresh = s.fresh
      /\ Joined(s, c, S).relaxed = s.relaxed /\ Joined(s, c, S).empties = s.empties
      /\ Joined(s, c, S).violated = s.violated
      /\ Joined(s, c, S).agenda = A /\ Joined(s, c, S).held = h
  BY <1>1, <1>3, <1>4 DEF Networks
<1>6. QED
  BY <1>4, <1>5 DEF C, A, n

LEMMA InvAddConstraint ==
  ASSUME Inv, NEW c \in Constraint, AddConstraint(c)
  PROVE  Inv'
<1> DEFINE S == IF Withheld(c) = 0 THEN {c} ELSE {}
           t == Joined(Now, c, S)
           C == constraints \cup {c}
<1>0. Basic(Now) /\ Now \in Networks
  BY InvBasic
<1>1. /\ Become(t) /\ c \notin constraints /\ Vars(c) \subseteq variables
      /\ UNCHANGED <<variables, out>>
      /\ redundant \subseteq redundant' /\ redundant' \subseteq redundant \cup {c}
      /\ buffered' \subseteq redundant'
  BY DEF AddConstraint, Joined, Inv
<1>2. S \subseteq {c}
  OBVIOUS
<1> HIDE DEF S
<1>3. /\ t \in Networks /\ t.constraints = C
      /\ t.base = Now.base /\ t.dom = Now.dom /\ t.spec = Now.spec /\ t.fresh = Now.fresh
      /\ t.relaxed = Now.relaxed /\ t.empties = Now.empties /\ t.violated = Now.violated
      /\ t.agenda = Now.agenda \cup S
      /\ t.held[c] = Withheld(c)
      /\ \A d \in Constraint : d # c => t.held[d] = Now.held[d]
  BY <1>0, <1>2, JoinedEffect, NowFields
<1> HIDE DEF t
<1>4. Narrow => CountedIn(t, out, redundant')
  <2> SUFFICES ASSUME Narrow, NEW d \in t.constraints \ redundant'
               PROVE  /\ d \in t.violated => t.held[d] = Load(out, d) + 1
                      /\ d \notin t.violated => t.held[d] = Load(out, d)
    BY DEF CountedIn
  <2>1. d \in Constraint
    BY <1>3 DEF Networks
  <2>2. CASE d = c
    <3>1. t.held[d] = Load(out, d)
      BY <1>3, <2>1, <2>2, LoadIsWithheld DEF Inv
    <3>2. d \notin t.violated
      BY <1>0, <1>1, <1>3, <2>2 DEF Inv, BasicIn
    <3>3. QED
      BY <3>1, <3>2
  <2>3. CASE d # c
    <3>1. d \in Now.constraints \ redundant
      BY <1>1, <1>3, <2>3, NowFields
    <3>2. CountedIn(Now, out, redundant)
      BY <1>0 DEF Basic, BasicIn
    <3>3. QED
      BY <1>3, <2>1, <2>3, <3>1, <3>2 DEF CountedIn
  <2>4. QED
    BY <2>2, <2>3
<1>5. BasicIn(t, variables, out, redundant', C)
  <2>1. t.agenda \subseteq t.constraints /\ t.violated \subseteq C
    BY <1>0, <1>2, <1>3, NowFields DEF Basic, BasicIn
  <2>2. \A d \in t.constraints : Vars(d) \subseteq variables
    BY <1>0, <1>1, <1>3, NowFields DEF Basic, BasicIn
  <2>3. Contained(Now) => Contained(t)
    BY <1>3 DEF Contained
  <2>4. QED
    BY <1>0, <1>3, <1>4, <2>1, <2>2, <2>3 DEF Basic, BasicIn
<1>6. Now' = t /\ constraints' = C
  BY <1>1, <1>3, BecomeIs DEF Become
<1>7. Modes'
  BY DEF AddConstraint, Dirtied, Inv, Modes
<1>8. redundant' \subseteq C
  BY <1>1 DEF Inv
<1>9. QED
  BY <1>1, <1>5, <1>6, <1>7, <1>8 DEF Inv

(* The network without a constraint.                                       *)
LEMMA UnlinkedEffect ==
  ASSUME NEW s, NEW c, s \in Networks
  PROVE  /\ Unlinked(s, c) \in Networks
         /\ Unlinked(s, c).constraints = s.constraints \ {c}
         /\ Unlinked(s, c).base = s.base /\ Unlinked(s, c).dom = s.dom
         /\ Unlinked(s, c).spec = s.spec /\ Unlinked(s, c).fresh = s.fresh
         /\ Unlinked(s, c).relaxed = s.relaxed /\ Unlinked(s, c).empties = s.empties
         /\ Unlinked(s, c).violated = s.violated
         /\ Unlinked(s, c).agenda = s.agenda \ {c} /\ Unlinked(s, c).held = s.held
<1> DEFINE C == s.constraints \ {c}
           A == s.agenda \ {c}
<1>1. Unlinked(s, c) = [s EXCEPT !.constraints = C, !.agenda = A]
  BY DEF Unlinked
<1>2. C \subseteq Constraint /\ A \subseteq Constraint
  BY DEF Networks
<1> HIDE DEF C, A
<1>3. QED
  BY <1>1, <1>2 DEF Networks, C, A

Forgotten(s, c) == [s EXCEPT !.violated = @ \ {c}, !.held[c] = 0]

LEMMA ForgottenEffect ==
  ASSUME NEW s, NEW c, s \in Networks, c \in Constraint
  PROVE  /\ Forgotten(s, c) \in Networks /\ SameGround(s, Forgotten(s, c))
         /\ Forgotten(s, c).dom = s.dom /\ Forgotten(s, c).spec = s.spec
         /\ Forgotten(s, c).fresh = s.fresh /\ Forgotten(s, c).relaxed = s.relaxed
         /\ Forgotten(s, c).empties = s.empties /\ Forgotten(s, c).agenda = s.agenda
         /\ Forgotten(s, c).violated = s.violated \ {c}
         /\ \A d \in Constraint : d # c => Forgotten(s, c).held[d] = s.held[d]
<1> DEFINE V == s.violated \ {c}
           n == 0
           h == [s.held EXCEPT ![c] = n]
<1>1. Forgotten(s, c) = [s EXCEPT !.violated = V, !.held = h]
  BY DEF Forgotten
<1>2. n \in Count
  BY CountIsNat
<1> HIDE DEF n
<1>3. V \subseteq Constraint
  BY DEF Networks
<1>4. h \in [Constraint -> Count] /\ \A d \in Constraint : d # c => h[d] = s.held[d]
  BY <1>2 DEF Networks
<1> HIDE DEF h, V
<1>5. /\ Forgotten(s, c) \in Networks /\ SameGround(s, Forgotten(s, c))
      /\ Forgotten(s, c).dom = s.dom /\ Forgotten(s, c).spec = s.spec
      /\ Forgotten(s, c).fresh = s.fresh /\ Forgotten(s, c).relaxed = s.relaxed
      /\ Forgotten(s, c).empties = s.empties /\ Forgotten(s, c).agenda = s.agenda
      /\ Forgotten(s, c).violated = V /\ Forgotten(s, c).held = h
  BY <1>1, <1>3, <1>4 DEF Networks, SameGround
<1>6. QED
  BY <1>4, <1>5 DEF V

LEMMA InvRemoveConstraint ==
  ASSUME Inv, NEW c \in Constraint, RemoveConstraint(c)
  PROVE  Inv'
<1> DEFINE s == Unlinked(Now, c)
           u == GivenBack(s, c)
           t == Forgotten(u, c)
<1>0. Basic(Now) /\ Now \in Networks
  BY InvBasic
<1>1. /\ Become(t) /\ c \in constraints /\ UNCHANGED <<variables, out>>
      /\ redundant' = redundant \ {c} /\ buffered' = buffered \ {c}
  BY DEF RemoveConstraint, Forgotten
<1>2. /\ s \in Networks /\ s.constraints = constraints \ {c}
      /\ s.base = Now.base /\ s.dom = Now.dom /\ s.spec = Now.spec /\ s.fresh = Now.fresh
      /\ s.relaxed = Now.relaxed /\ s.empties = Now.empties /\ s.violated = Now.violated
      /\ s.agenda = Now.agenda \ {c} /\ s.held = Now.held
  BY <1>0, UnlinkedEffect, NowFields
<1> HIDE DEF s
<1>3. CountedIn(Now, out, redundant) => CountedIn(s, out, redundant)
  BY <1>2, NowFields DEF CountedIn
<1>4. Basic(s)
  <2>1. s.agenda \subseteq s.constraints
    BY <1>0, <1>2, NowFields DEF Basic, BasicIn
  <2>2. \A d \in s.constraints : Vars(d) \subseteq variables
    BY <1>0, <1>2, NowFields DEF Basic, BasicIn
  <2>3. Contained(Now) => Contained(s)
    BY <1>2 DEF Contained
  <2>4. QED
    BY <1>0, <1>2, <1>3, <2>1, <2>2, <2>3 DEF Basic, BasicIn
<1>5. Vars(c) \subseteq variables
  BY <1>0, <1>1, NowFields DEF Basic, BasicIn
<1>6. Basic(u) /\ SameGround(s, u)
  BY <1>4, <1>5, BasicGivenBack
<1> HIDE DEF u
<1>7. /\ t \in Networks /\ SameGround(u, t) /\ t.dom = u.dom /\ t.spec = u.spec
      /\ t.fresh = u.fresh /\ t.relaxed = u.relaxed /\ t.empties = u.empties
      /\ t.agenda = u.agenda /\ t.violated = u.violated \ {c}
      /\ \A d \in Constraint : d # c => t.held[d] = u.held[d]
  BY <1>6, ForgottenEffect, BasicIsNetwork
<1> HIDE DEF t
<1>8. t.constraints = constraints \ {c}
  BY <1>2, <1>6, <1>7 DEF SameGround
<1>9. CountedIn(u, out, redundant) => CountedIn(t, out, redundant \ {c})
  <2>1. u.constraints = constraints \ {c} /\ u.constraints \subseteq Constraint
    BY <1>2, <1>6 DEF SameGround, Basic, BasicIn, Networks
  <2>2. QED
    BY <1>7, <1>8, <2>1 DEF CountedIn
<1>10. BasicIn(t, variables, out, redundant \ {c}, constraints \ {c})
  <2>1. t.agenda \subseteq t.constraints /\ t.violated \subseteq constraints \ {c}
    BY <1>6, <1>7 DEF Basic, BasicIn, SameGround
  <2>2. Contained(u) => Contained(t)
    BY <1>7 DEF Contained, SameGround
  <2>3. QED
    BY <1>6, <1>7, <1>9, <2>1, <2>2 DEF Basic, BasicIn, SameGround
<1>11. Now' = t /\ constraints' = constraints \ {c}
  BY <1>1, <1>7, <1>8, BecomeIs DEF Become
<1>12. Modes'
  BY DEF RemoveConstraint, Dirtied, Inv, Modes
<1>13. QED
  BY <1>1, <1>10, <1>11, <1>12 DEF Inv

(* A restriction of the base domain of v, before anything follows from it. *)
Narrowed(s, v, D) == [s EXCEPT !.base[v] = base[v] \cap D, !.dom[v] = @ \cap (base[v] \cap D)]

LEMMA NarrowedEffect ==
  ASSUME NEW s, NEW v, NEW D, s \in Networks, v \in Var, s.base = base
  PROVE  LET t == Narrowed(s, v, D)
         IN  /\ t \in Networks /\ t.constraints = s.constraints /\ t.spec = s.spec
             /\ t.held = s.held /\ t.violated = s.violated /\ t.agenda = s.agenda
             /\ t.fresh = s.fresh /\ t.relaxed = s.relaxed /\ t.empties = s.empties
             /\ t.base[v] = base[v] \cap D /\ t.dom[v] = s.dom[v] \cap (base[v] \cap D)
             /\ \A w \in Var : w # v => t.dom[w] = s.dom[w] /\ t.base[w] = s.base[w]
<1> DEFINE B == base[v] \cap D
           E == s.dom[v] \cap (base[v] \cap D)
           b == [s.base EXCEPT ![v] = B]
           d == [s.dom EXCEPT ![v] = E]
           t == Narrowed(s, v, D)
<1>1. B \subseteq Value /\ E \subseteq Value
  BY DEF Networks, Domains
<1>2. t = [s EXCEPT !.base = b, !.dom = d]
  BY DEF Narrowed
<1>3. /\ b \in Domains /\ b[v] = B /\ \A w \in Var : w # v => b[w] = s.base[w]
      /\ d \in Domains /\ d[v] = E /\ \A w \in Var : w # v => d[w] = s.dom[w]
  <2> HIDE DEF B, E
  <2>1. QED
    BY <1>1 DEF Networks, Domains
<1> HIDE DEF b, d, t
<1>4. /\ t \in Networks /\ t.constraints = s.constraints /\ t.spec = s.spec
      /\ t.held = s.held /\ t.violated = s.violated /\ t.agenda = s.agenda
      /\ t.fresh = s.fresh /\ t.relaxed = s.relaxed /\ t.empties = s.empties
      /\ t.base = b /\ t.dom = d
  BY <1>2, <1>3 DEF Networks
<1>5. QED
  BY <1>3, <1>4 DEF t

(* What follows from it: for the domain, and for a variable whose base     *)
(* domain has one value left.                                              *)
Shrunk(s, v, D) ==
  LET t == Narrowed(s, v, D)
  IN  IF t.dom[v] = dom[v] THEN t ELSE IF t.dom[v] = {} THEN Emptied(t, v) ELSE Restricted(t, v)

Settled(s, v, D) ==
  IF Singleton(base[v] \cap D) /\ spec[v] = NoValue
  THEN SpecifyDomain(Shrunk(s, v, D), v, CHOOSE value \in base[v] \cap D : TRUE)
  ELSE Shrunk(s, v, D)

LEMMA RestrictedBaseIs ==
  ASSUME NEW v, NEW D
  PROVE  RestrictedBase(v, D) = Restricted(Settled(Now, v, D), v)
BY Zenon DEF RestrictedBase, Settled, Shrunk, Narrowed

(* The invariant of the network when a base domain may have changed.       *)
LEMMA BasicNarrowed ==
  ASSUME NEW s, NEW t, NEW v, Basic(s), v \in variables, t \in Networks,
         t.constraints = s.constraints, t.spec = s.spec,
         t.held = s.held, t.violated = s.violated, t.agenda = s.agenda,
         t.fresh = s.fresh, t.relaxed = s.relaxed, s.empties \subseteq t.empties,
         t.empties \subseteq s.empties \cup {v}, t.base[v] # {},
         \A w \in Var : w # v => t.dom[w] = s.dom[w] /\ t.base[w] = s.base[w],
         Undisturbed /\ t.dom[v] = {} => s.dom[v] = {} \/ v \in t.empties,
         t.dom[v] \subseteq t.base[v],
         Obliging => t.spec[v] \in t.base[v] \cup {NoValue}
  PROVE  Basic(t)
<1>1. CountedIn(s, out, redundant) => CountedIn(t, out, redundant)
  BY DEF CountedIn
<1>2. \A w \in Var : t.base[w] # {}
  BY DEF Basic, BasicIn
<1>3. Undisturbed => \A w \in Var : t.dom[w] = {} => w \in t.empties
  BY DEF Basic, BasicIn
<1>4. Obliging /\ Contained(s) => Contained(t)
  BY DEF Contained
<1>5. QED
  BY <1>1, <1>2, <1>3, <1>4 DEF Basic, BasicIn

LEMMA BasicShrunk ==
  ASSUME NEW s, NEW v, NEW D, Basic(s), v \in variables, s.base = base, s.dom = dom,
         base[v] \cap D # {}, Obliging => s.spec[v] \in D \cup {NoValue}
  PROVE  /\ Basic(Shrunk(s, v, D)) /\ Shrunk(s, v, D).constraints = s.constraints
         /\ Shrunk(s, v, D).base[v] = base[v] \cap D
<1> DEFINE t == Narrowed(s, v, D)
           e == Emptied(t, v)
           r == Restricted(t, v)
           z == Shrunk(s, v, D)
<1>0. v \in Var /\ s \in Networks
  BY DEF Basic, BasicIn, Settings
<1>1. /\ t.dom[v] = dom[v] => z = t
      /\ t.dom[v] # dom[v] /\ t.dom[v] = {} => z = e
      /\ t.dom[v] # dom[v] /\ t.dom[v] # {} => z = r
  BY Zenon DEF Shrunk
<1>2. /\ t \in Networks /\ t.constraints = s.constraints /\ t.spec = s.spec
      /\ t.held = s.held /\ t.violated = s.violated /\ t.agenda = s.agenda
      /\ t.fresh = s.fresh /\ t.relaxed = s.relaxed /\ t.empties = s.empties
      /\ t.base[v] # {} /\ t.base[v] = base[v] \cap D /\ t.dom[v] \subseteq t.base[v]
      /\ \A w \in Var : w # v => t.dom[w] = s.dom[w] /\ t.base[w] = s.base[w]
  BY <1>0, NarrowedEffect
<1> HIDE DEF t, z
<1>3. /\ s.empties \subseteq s.empties \cup {v}
      /\ Obliging => t.spec[v] \in t.base[v] \cup {NoValue}
  BY <1>0, <1>2 DEF Basic, BasicIn, Contained
<1>4. CASE t.dom[v] = dom[v]
  BY <1>1, <1>2, <1>3, <1>4, BasicNarrowed DEF z
<1>5. CASE t.dom[v] # dom[v] /\ t.dom[v] = {}
  <2>1. /\ e \in Networks /\ SameGround(t, e) /\ e.dom = t.dom /\ e.spec = t.spec
        /\ e.held = t.held /\ e.violated = t.violated /\ e.agenda = t.agenda
        /\ e.fresh = t.fresh /\ e.relaxed = t.relaxed
        /\ t.empties \subseteq e.empties /\ e.empties \subseteq t.empties \cup {v}
        /\ ~Inactive(v) => v \in e.empties
    BY <1>0, <1>2, EmptiedEffect
  <2> HIDE DEF e
  <2>2. Undisturbed => v \in e.empties
    BY <1>0, <2>1 DEF Basic, Settings
  <2>3. Basic(e)
    BY <1>2, <1>3, <2>1, <2>2, BasicNarrowed DEF SameGround
  <2>4. QED
    BY <1>1, <1>2, <1>5, <2>1, <2>3 DEF SameGround, z
<1>6. CASE t.dom[v] # dom[v] /\ t.dom[v] # {}
  <2>1. Basic(t)
    BY <1>2, <1>3, <1>6, BasicNarrowed
  <2>2. Basic(r) /\ SameGround(t, r)
    BY <2>1, BasicRestricted
  <2>3. QED
    BY <1>1, <1>2, <1>6, <2>2 DEF SameGround, z
<1>7. QED
  BY <1>4, <1>5, <1>6

LEMMA BasicSettled ==
  ASSUME NEW s, NEW v, NEW D, Basic(s), v \in variables, s.base = base, s.dom = dom,
         base[v] \cap D # {}, Obliging => s.spec[v] \in D \cup {NoValue}
  PROVE  Basic(Settled(s, v, D)) /\ Settled(s, v, D).constraints = s.constraints
<1> DEFINE t == Shrunk(s, v, D)
           value == CHOOSE x \in base[v] \cap D : TRUE
           u == SpecifyDomain(t, v, value)
<1>0. v \in Var /\ s \in Networks
  BY DEF Basic, BasicIn, Settings
<1>1. value \in Value /\ value \in base[v] \cap D
  BY <1>0 DEF Networks, Domains
<1>2. Settled(s, v, D) = t \/ Settled(s, v, D) = u
  BY DEF Settled
<1>3. Basic(t) /\ t.constraints = s.constraints /\ t.base[v] = base[v] \cap D
  BY BasicShrunk
<1> HIDE DEF t, value
<1>4. Basic(u) /\ SameGround(t, u)
  BY <1>1, <1>3, BasicSpecifyDomain
<1> HIDE DEF u
<1>5. QED
  BY <1>2, <1>3, <1>4 DEF SameGround

LEMMA InvRestrictBaseDomain ==
  ASSUME Inv, NEW v \in Var, NEW D, RestrictBaseDomain(v, D),
         Obliging => spec[v] \in D \cup {NoValue}
  PROVE  Inv'
<1> DEFINE s == RestrictedBase(v, D)
           now == {c \in On(s, v) \ redundant : AllSingleton(c, s.base)}
           A == s.agenda \cup (now \cap Active(s))
           t == [s EXCEPT !.agenda = A]
           R == redundant \cup now
<1>0. Basic(Now) /\ Now.base = base /\ Now.dom = dom
  BY InvBasic, NowFields
<1>1. /\ v \in variables /\ base[v] \cap D # {} /\ Become(t)
      /\ redundant' = R
      /\ buffered' = buffered \cup (now \cap Active(s))
      /\ UNCHANGED <<variables, out>>
  BY DEF RestrictBaseDomain
<1>2. Basic(s) /\ s.constraints = constraints
  <2> DEFINE z == Settled(Now, v, D)
  <2>1. s = Restricted(z, v)
    BY RestrictedBaseIs
  <2>2. Basic(z) /\ z.constraints = constraints
    BY <1>0, <1>1, NowFields, BasicSettled
  <2> HIDE DEF s, z
  <2>3. Basic(Restricted(z, v)) /\ SameGround(z, Restricted(z, v))
    BY <2>2, BasicRestricted
  <2>4. QED
    BY <2>1, <2>2, <2>3 DEF SameGround
<1>3. now \subseteq constraints /\ now \cap Active(s) \subseteq now
  BY <1>2 DEF On
<1>4. A \subseteq s.agenda \cup Active(s)
  OBVIOUS
<1>5. buffered' \subseteq redundant' /\ redundant' \subseteq constraints
  BY <1>1, <1>3 DEF Inv
<1>6. redundant \subseteq R
  OBVIOUS
<1> HIDE DEF s, now, A, R
<1>7. A \subseteq Constraint
  BY <1>2, <1>4 DEF Basic, BasicIn, Networks, Active
<1>8. t \in Networks /\ Alike(s, t) /\ t.agenda = A /\ t.relaxed = s.relaxed
  BY <1>2, <1>7, SetAgenda, BasicIsNetwork
<1> HIDE DEF t
<1>9. Basic(t)
  BY <1>2, <1>4, <1>8, BasicAlike
<1>10. CountedIn(t, out, redundant) => CountedIn(t, out, R)
  BY <1>6 DEF CountedIn
<1>11. BasicIn(t, variables, out, R, constraints)
  BY <1>9, <1>10 DEF Basic, BasicIn
<1>12. Now' = t /\ constraints' = constraints
  BY <1>1, <1>2, <1>8, BecomeIs DEF Become, Alike, SameGround
<1>13. Modes'
  BY DEF RestrictBaseDomain, Dirtied, Inv, Modes
<1>14. QED
  BY <1>1, <1>5, <1>11, <1>12, <1>13 DEF Inv

LEMMA LoadBounded ==
  ASSUME NEW c \in Constraint, Narrow, NEW O \in [Var -> 0 .. MaxHeld]
  PROVE  Load(O, c) + 1 < UIntMod
<1> DEFINE W == {v \in Vars(c) : O[v] > 0}
           n == Cardinality(W)
<1>1. IsFiniteSet(Vars(c)) /\ Vars(c) \subseteq Var
  BY ScopeType
<1>2. \A v \in Vars(c) : O[v] \in {0, 1}
  BY <1>1 DEF Narrow
<1>3. Load(O, c) = n
  BY <1>1, <1>2, SumCounts DEF Load
<1>4. n \in Nat /\ Cardinality(Vars(c)) \in Nat /\ n <= Cardinality(Vars(c))
  <2>1. W \subseteq Vars(c)
    OBVIOUS
  <2> HIDE DEF W
  <2>2. QED
    BY <1>1, <2>1, FS_Subset, FS_CardinalityType
<1>5. Cardinality(Vars(c)) + 1 < UIntMod
  BY DEF Narrow
<1> HIDE DEF n
<1>6. QED
  BY <1>3, <1>4, <1>5, CountIsNat

LEMMA InvDeactivate ==
  ASSUME Inv, NEW v \in Var, Deactivate(v)
  PROVE  Inv'
<1> DEFINE P == [out EXCEPT ![v] = @ + 1]
           C == On(Now, v)
           t == Deactivated(Now, C)
<1>0. Basic(Now) /\ Now \in Networks
  BY InvBasic
<1>1. /\ v \in Holdable /\ out[v] < MaxHeld /\ out' = P /\ Become(t)
      /\ UNCHANGED <<variables, redundant, buffered>>
  BY DEF Deactivate, status
<1>2. /\ P \in [Var -> 0 .. MaxHeld] /\ out \in [Var -> 0 .. MaxHeld]
      /\ P[v] = out[v] + 1 /\ \A w \in Var : w # v => P[w] = out[w]
  BY <1>1, EngineAssumption DEF EngineAssumption, Inv
<1>3. C \subseteq Constraint /\ \A c \in constraints : c \in C <=> v \in Vars(c)
  BY <1>0, NowFields DEF On, Networks
<1> HIDE DEF P, C
<1>4. /\ t \in Networks /\ SameGround(Now, t) /\ t.dom = Now.dom /\ t.spec = Now.spec
      /\ t.fresh = Now.fresh /\ t.relaxed = Now.relaxed
      /\ t.empties = Now.empties /\ t.violated = Now.violated
      /\ t.agenda = Now.agenda \ C
      /\ \A c \in Constraint \ C : t.held[c] = Now.held[c]
      /\ \A c \in C : t.held[c] = (Now.held[c] + 1) % UIntMod
  BY <1>0, <1>3, DeactivatedEffect
<1> HIDE DEF t
<1>5. ~Undisturbed
  BY <1>1 DEF Undisturbed
<1>6. ASSUME Narrow
      PROVE  CountedIn(t, P, redundant)
  <2> SUFFICES ASSUME NEW c \in t.constraints \ redundant
               PROVE  /\ c \in t.violated => t.held[c] = Load(P, c) + 1
                      /\ c \notin t.violated => t.held[c] = Load(P, c)
    BY DEF CountedIn
  <2>1. /\ c \in t.violated => Now.held[c] = Load(out, c) + 1
        /\ c \notin t.violated => Now.held[c] = Load(out, c)
        /\ c \in constraints /\ c \in Constraint
    BY <1>0, <1>4, <1>6, NowFields DEF Basic, BasicIn, CountedIn, SameGround, Networks
  <2>2. out \in [Var -> Nat] /\ P \in [Var -> Nat]
    BY <1>2, OutType
  <2>3. CASE v \notin Vars(c)
    <3>1. Load(P, c) = Load(out, c)
      BY <1>2, <2>1, <2>2, <2>3, LoadMoves
    <3>2. t.held[c] = Now.held[c]
      BY <1>3, <1>4, <2>1, <2>3
    <3>3. QED
      BY <2>1, <3>1, <3>2
  <2>4. CASE v \in Vars(c)
    <3>1. Load(P, c) = Load(out, c) + 1
      BY <1>2, <2>1, <2>2, <2>4, LoadMoves
    <3>2. t.held[c] = (Now.held[c] + 1) % UIntMod
      BY <1>3, <1>4, <2>1, <2>4
    <3>3. Load(P, c) + 1 < UIntMod
      BY ONLY <1>2, <1>6, <2>1, LoadBounded
    <3>4. Load(out, c) \in Nat
      BY <1>2, <2>1, LoadType
    <3>5. Now.held[c] \in Nat /\ Now.held[c] + 1 < UIntMod
      <4>1. CASE c \in t.violated
        BY <2>1, <3>1, <3>3, <3>4, <4>1, CountIsNat
      <4>2. CASE c \notin t.violated
        BY <2>1, <3>1, <3>3, <3>4, <4>2, CountIsNat
      <4>3. QED
        BY <4>1, <4>2
    <3>6. t.held[c] = Now.held[c] + 1
      BY <3>2, <3>5, CountIsNat
    <3>7. QED
      BY <2>1, <3>1, <3>4, <3>6
  <2>5. QED
    BY <2>3, <2>4
<1>7. BasicIn(t, variables, P, redundant, constraints)
  <2>1. Contained(Now) => Contained(t)
    BY <1>4 DEF Contained, SameGround
  <2>2. QED
    BY <1>0, <1>4, <1>5, <1>6, <2>1 DEF Basic, BasicIn, SameGround
<1>8. Now' = t /\ constraints' = constraints
  BY <1>1, <1>4, BecomeIs, NowFields DEF Become, SameGround
<1>9. Modes'
  BY DEF Deactivate, Inv, Modes
<1>10. QED
  BY <1>1, <1>2, <1>5, <1>7, <1>8, <1>9 DEF Inv

LEMMA InvReactivate ==
  ASSUME Inv, NEW v \in Var, Reactivate(v)
  PROVE  Inv'
<1> DEFINE P == [out EXCEPT ![v] = @ - 1]
           C == On(Now, v)
           t == UndoDeactivation(Now, C)
<1>0. Basic(Now) /\ Now \in Networks
  BY InvBasic
<1>1. /\ out[v] > 0 /\ out' = P /\ Become(t)
      /\ UNCHANGED <<variables, redundant, buffered>>
  BY DEF Reactivate, Inactive, status
<1>2. /\ P \in [Var -> 0 .. MaxHeld] /\ out \in [Var -> 0 .. MaxHeld]
      /\ out[v] = P[v] + 1 /\ \A w \in Var : w # v => out[w] = P[w]
  BY <1>1, EngineAssumption DEF EngineAssumption, Inv
<1>3. C \subseteq constraints /\ C \subseteq Constraint /\ \A c \in constraints : c \in C <=> v \in Vars(c)
  BY <1>0, NowFields DEF On, Networks
<1> HIDE DEF P, C
<1>4. Undone(Now, C, t) /\ t.violated = Now.violated
  BY <1>0, <1>3, UndoDeactivationEffect
<1> HIDE DEF t
<1>5. ~Undisturbed
  BY <1>1 DEF Inv
<1>6. ASSUME Narrow
      PROVE  CountedIn(t, P, redundant)
  <2> SUFFICES ASSUME NEW c \in t.constraints \ redundant
               PROVE  /\ c \in t.violated => t.held[c] = Load(P, c) + 1
                      /\ c \notin t.violated => t.held[c] = Load(P, c)
    BY DEF CountedIn
  <2>1. /\ c \in t.violated => Now.held[c] = Load(out, c) + 1
        /\ c \notin t.violated => Now.held[c] = Load(out, c)
        /\ c \in constraints /\ c \in Constraint /\ c \notin redundant
    BY <1>0, <1>4, <1>6, NowFields DEF Basic, BasicIn, CountedIn, Undone, SameGround, Networks
  <2>2. out \in [Var -> Nat] /\ P \in [Var -> Nat]
    BY <1>2, OutType
  <2>3. CASE v \notin Vars(c)
    <3>1. Load(P, c) = Load(out, c)
      BY <1>2, <2>1, <2>2, <2>3, LoadMoves
    <3>2. t.held[c] = Now.held[c]
      BY <1>3, <1>4, <2>1, <2>3 DEF Undone
    <3>3. QED
      BY <2>1, <3>1, <3>2
  <2>4. CASE v \in Vars(c)
    <3>1. Load(out, c) = Load(P, c) + 1
      BY <1>2, <2>1, <2>2, <2>4, LoadMoves
    <3>2. t.held[c] = (Now.held[c] - 1) % UIntMod
      BY <1>3, <1>4, <2>1, <2>4 DEF Undone
    <3>3. Load(P, c) \in Nat
      BY <1>1, <1>2, <2>1, SumType, ScopeType, EngineAssumption DEF Load, EngineAssumption
    <3>4. Now.held[c] \in Nat /\ Now.held[c] < UIntMod
      BY <1>0, <2>1, HeldIsCount
    <3>5. CASE c \in t.violated
      BY <2>1, <3>1, <3>2, <3>3, <3>4, <3>5, CountIsNat
    <3>6. CASE c \notin t.violated
      BY <2>1, <3>1, <3>2, <3>3, <3>4, <3>6, CountIsNat
    <3>7. QED
      BY <3>5, <3>6
  <2>5. QED
    BY <2>3, <2>4
<1>7. BasicIn(t, variables, P, redundant, constraints)
  <2>1. t.agenda \subseteq t.constraints
    BY <1>0, <1>3, <1>4, NowFields DEF Basic, BasicIn, Undone, SameGround
  <2>2. Contained(Now) => Contained(t)
    BY <1>4 DEF Contained, Undone, SameGround
  <2>3. QED
    BY <1>0, <1>4, <1>5, <1>6, <2>1, <2>2 DEF Basic, BasicIn, Undone, SameGround
<1>8. Now' = t /\ constraints' = constraints
  BY <1>1, <1>4, BecomeIs, NowFields DEF Become, Undone, SameGround
<1>9. Modes'
  BY DEF Reactivate, Inv, Modes
<1>10. QED
  BY <1>1, <1>2, <1>5, <1>7, <1>8, <1>9 DEF Inv
-----------------------------------------------------------------------------
LEMMA InvInit ==
  ASSUME Init
  PROVE  Inv
<1>1. /\ constraints = {} /\ fresh = {} /\ relaxed = {} /\ empties = {} /\ violated = {}
      /\ agenda = {} /\ variables = {} /\ redundant = {} /\ buffered = {}
      /\ base = BaseDomain /\ dom = BaseDomain /\ spec = [v \in Var |-> NoValue]
      /\ out = [v \in Var |-> 0] /\ held = [c \in Constraint |-> 0]
  BY DEF Init
<1>2. BaseDomain \in Domains /\ \A v \in Var : BaseDomain[v] # {}
  BY NetworkAssumption DEF NetworkAssumption, Domains
<1>3. held \in [Constraint -> Count] /\ spec \in [Var -> Value \cup {NoValue}]
  BY <1>1, CountIsNat
<1>4. Now \in Networks
  BY <1>1, <1>2, <1>3 DEF Now, Networks
<1>5. CountedIn(Now, out, redundant)
  BY <1>1, NowFields DEF CountedIn
<1>6. BasicIn(Now, variables, out, redundant, constraints)
  <2>1. Contained(Now)
    BY <1>1, NowFields DEF Contained
  <2>2. QED
    BY <1>1, <1>2, <1>4, <1>5, <2>1, NowFields DEF BasicIn
<1>7. Modes
  BY EngineAssumption DEF EngineAssumption, Init, Modes
<1>8. out \in [Var -> 0 .. MaxHeld] /\ \A v \in Var : out[v] = 0
  BY <1>1, EngineAssumption DEF EngineAssumption
<1>9. QED
  BY <1>1, <1>6, <1>7, <1>8 DEF Inv

LEMMA RespectsWhenObliging ==
  ASSUME NEW r \in Restrictions, NEW v, Respects(v, r[2]), Obliging
  PROVE  spec[v] \in r[2] \cup {NoValue}
BY DEF Respects, Obliging

LEMMA InvNext ==
  ASSUME Inv, [Next]_vars
  PROVE  Inv'
<1>1. CASE UNCHANGED vars
  <2>1. Now' = Now /\ UNCHANGED <<variables, constraints, out, redundant, buffered, mode>>
    BY <1>1 DEF vars, net, status, Now
  <2>2. Modes'
    BY <2>1 DEF Inv, Modes, mode
  <2>3. QED
    BY <2>1, <2>2 DEF Inv
<1>2. CASE Propagate
  <2>1. ASSUME NEW c \in Constraint, Execute(c)
        PROVE  Inv'
    BY <2>1, InvExecuteConsistently, InvExecuteInconsistently DEF Execute
  <2>2. QED
    BY <1>2, <2>1, InvCompletePropagation, InvPreemptPropagation, InvResumePropagation DEF Propagate
<1>3. CASE Client
  <2>1. ASSUME NEW v \in Var,
               \/ AddVariable(v) \/ RemoveVariable(v) \/ Reset(v)
               \/ Deactivate(v) \/ Reactivate(v) \/ ReadDerivedDomain(v)
               \/ \E value \in Value : Specify(v, value)
               \/ \E r \in Restrictions : /\ r[1] = v /\ Respects(v, r[2])
                                          /\ RestrictBaseDomain(v, r[2])
        PROVE  Inv'
    <3>1. ASSUME NEW r \in Restrictions, Respects(v, r[2]), RestrictBaseDomain(v, r[2])
          PROVE  Inv'
      <4>1. Obliging => spec[v] \in r[2] \cup {NoValue}
        BY <3>1, RespectsWhenObliging
      <4>2. QED
        BY <3>1, <4>1, InvRestrictBaseDomain
    <3>2. QED
      BY <2>1, <3>1, InvAddVariable, InvRemoveVariable, InvReset, InvDeactivate, InvReactivate,
         InvReadDerivedDomain, InvSpecify
  <2>2. ASSUME NEW c \in Constraint, AddConstraint(c) \/ RemoveConstraint(c)
        PROVE  Inv'
    BY <2>2, InvAddConstraint, InvRemoveConstraint
  <2>3. ASSUME NEW b \in Tolerances, SetAllowViolations(b)
        PROVE  Inv'
    BY <2>3, InvSetAllowViolations
  <2>4. CASE StartPropagation
    BY <2>4, InvStartPropagation
  <2>5. QED
    BY <1>3, <2>1, <2>2, <2>3, <2>4 DEF Client
<1>4. QED
  BY <1>1, <1>2, <1>3 DEF Next

LEMMA InvHolds == Spec => []Inv
<1>1. Init => Inv
  BY InvInit
<1>2. Inv /\ [Next]_vars => Inv'
  BY InvNext
<1>3. QED
  BY <1>1, <1>2, PTL DEF Spec

(* Every part of the state has its type, after every call and in the       *)
(* middle of a propagation: only variables of the engine are on record as  *)
(* relaxed or empty, only its constraints as violated or on the agenda,    *)
(* and the count of a constraint keeps to the width of its type.           *)
THEOREM TypeCorrect == Spec => []TypeOK
<1>1. Inv => TypeOK
  <2> SUFFICES ASSUME Inv
               PROVE  TypeOK
    OBVIOUS
  <2>1. Now \in Networks
    BY InvBasic
  <2>2. /\ constraints \subseteq Constraint /\ base \in Domains /\ dom \in Domains
        /\ spec \in [Var -> Value \cup {NoValue}] /\ held \in [Constraint -> Count]
    BY <2>1, NowFields DEF Networks
  <2>3. /\ fresh \subseteq variables /\ relaxed \subseteq variables /\ empties \subseteq variables
        /\ violated \subseteq constraints /\ agenda \subseteq constraints
    BY NowFields DEF Inv, BasicIn
  <2>4. QED
    BY <2>2, <2>3 DEF TypeOK, Inv, Modes
<1>2. QED
  BY <1>1, InvHolds, PTL

(* A domain that is empty is on record as empty, whoever emptied it and    *)
(* whatever has been relaxed since, when no variable may be deactivated    *)
(* (an inactive variable reports nothing) or deleted (which clears the     *)
(* record of all of them): no way of emptying a domain bypasses the        *)
(* record, and nothing is taken off it but a variable whose domain has     *)
(* values again.                                                           *)
THEOREM EmptyIsKnown ==
  ASSUME Undisturbed
  PROVE  Spec => []EmptyKnown
<1>1. Inv => EmptyKnown
  BY NowFields DEF Inv, BasicIn, EmptyKnown
<1>2. QED
  BY <1>1, InvHolds, PTL

(* A variable that is not specified, or no longer, has no value that its   *)
(* base domain does not have: what reset retracts is gone, whatever the    *)
(* client has specified, restricted, propagated and reset before, as long  *)
(* as it restricts no base domain against a specified value.  When it does *)
(* reset may leave the value: MCConstraintEngineReset.cfg.                 *)
THEOREM RetractedIsGoneWhenObliging ==
  ASSUME Obliging
  PROVE  Spec => []RetractedIsGone
<1>1. Inv => RetractedIsGone
  BY NowFields DEF Inv, BasicIn, Contained, RetractedIsGone
<1>2. QED
  BY <1>1, InvHolds, PTL

(* The count of a constraint is the number of times its variables are      *)
(* deactivated, and one more while it is violated, however deactivations,  *)
(* reactivations, violations and their relaxation are interleaved, when a  *)
(* variable is deactivated at most once at a time (the constructor of a    *)
(* constraint counts an inactive variable once, however often it has been  *)
(* deactivated) and the count does not wrap round.                         *)
THEOREM ActivityIsCounted ==
  ASSUME Narrow
  PROVE  Spec => []ActivityCounts
<1>1. Inv => ActivityCounts
  <2> SUFFICES ASSUME Inv, NEW c \in constraints \ redundant
               PROVE  held[c] = SumFunctionOnSet(out, Vars(c)) + (IF c \in violated THEN 1 ELSE 0)
    BY DEF ActivityCounts
  <2>1. /\ c \in violated => held[c] = Load(out, c) + 1
        /\ c \notin violated => held[c] = Load(out, c)
    BY NowFields DEF Inv, BasicIn, CountedIn
  <2>2. Load(out, c) \in Nat
    BY InvBasic, NowFields DEF Settings, Inv, Networks
  <2>3. Load(out, c) = SumFunctionOnSet(out, Vars(c))
    BY DEF Load
  <2>4. QED
    BY <2>1, <2>2, <2>3
<1>2. QED
  BY <1>1, InvHolds, PTL

(***************************************************************************)
(* I. What was inferred from a constraint, or from a value, that has been  *)
(* retracted is given back.  No variable may be deactivated or deleted,    *)
(* and no base domain restricted against a specified value.                *)
(*                                                                         *)
(* The property itself is not inductive: while domains are being restored  *)
(* one after the other, some are missing values that nothing justifies any *)
(* more.  What is invariant is that every such set of missing values has a *)
(* variable that is still to be relaxed in it or next to it.               *)
(***************************************************************************)
Strict == Undisturbed /\ Obliging /\ Tolerances = {FALSE}

(* Nothing is missing from the domain of v.                                *)
Full(s, v) == FreeIn(s, v) \subseteq s.dom[v]

(* What holds of the network besides its types, in the middle of a call    *)
(* too; R are the redundant constraints.                                   *)
SoundIn(s, R) ==
  /\ s.violated = {}
  /\ \A v \in Var : s.dom[v] \subseteq FreeIn(s, v)
  /\ \A v \in s.fresh : v \notin s.empties => Full(s, v)
  /\ \A c \in s.constraints : s.held[c] # 0 => c \in R
  /\ R \subseteq Constraint /\ \A c \in R : \A v \in Vars(c) : Singleton(s.base[v])

Good(s) == Undisturbed /\ Obliging /\ Basic(s) /\ SoundIn(s, redundant)

Satisfied(c, a) == \E t \in Allowed[c] : \A v \in Vars(c) : t[v] = a[v]

(* The values that a gives to the variables of X are missing from their    *)
(* domains, and from the rest of the network nothing speaks against them.  *)
(* The variables of Z and Y do not count: those of Z are to be relaxed,    *)
(* those of Y have just been, what is linked to them has not.              *)
Lost(s, X, a, Z, Y) ==
  /\ X \subseteq Var /\ X # {}
  /\ \A w \in X : /\ w \notin s.empties /\ w \notin Z /\ w \notin Y
                  /\ a[w] \in FreeIn(s, w) /\ a[w] \notin s.dom[w]
  /\ \A c \in s.constraints : \A w \in X :
       w \in Vars(c) =>
         /\ Satisfied(c, a)
         /\ \A u \in Vars(c) : u \notin Y /\ (u \in X \/ a[u] \in s.dom[u])

Kept(s, Z, Y) == \A X, a : ~Lost(s, X, a, Z, Y)

Also(Y, v) == Y \cup {v}

LEMMA GoodFacts ==
  ASSUME NEW s, Good(s)
  PROVE  /\ s \in Networks /\ variables \subseteq Var /\ s.empties \subseteq variables
         /\ s.fresh \subseteq variables
         /\ \A v \in Var : ~Inactive(v)
         /\ \A v \in Var : s.dom[v] = {} => v \in s.empties
         /\ Contained(s) /\ \A v \in Var : Untouched(s, v) => s.spec[v] # NoValue
         /\ \A c \in s.constraints : c \in Constraint /\ Vars(c) \subseteq variables
<1>1. /\ s \in Networks /\ variables \subseteq Var /\ s.empties \subseteq variables
      /\ s.fresh \subseteq variables
      /\ \A v \in Var : ~Inactive(v)
      /\ \A v \in Var : s.dom[v] = {} => v \in s.empties
      /\ \A c \in s.constraints : c \in Constraint /\ Vars(c) \subseteq variables
  BY DEF Good, Basic, BasicIn, Settings, Networks
<1>2. Contained(s)
  BY DEF Good, Basic, BasicIn
<1>3. \A v \in Var : Untouched(s, v) => s.spec[v] # NoValue
  BY <1>2 DEF Contained, Untouched
<1>4. QED
  BY <1>1, <1>2, <1>3

(* Values are missing only from variables that are not specified, not      *)
(* fresh and not bound to one value from the start, so that all the        *)
(* constraints on them are active.                                         *)
LEMMA MissingIsOpen ==
  ASSUME NEW s, NEW w, Good(s), w \in Var, w \notin s.empties, ~Full(s, w)
  PROVE  /\ s.spec[w] = NoValue /\ w \notin s.fresh
         /\ \A c \in s.constraints : w \in Vars(c) => c \in Active(s)
<1>1. s.dom[w] # {} /\ s.dom[w] \subseteq FreeIn(s, w) /\ w \notin s.fresh
  BY GoodFacts DEF Good, SoundIn
<1>2. ~Singleton(FreeIn(s, w))
  BY <1>1 DEF Singleton, Full
<1>3. s.spec[w] = NoValue /\ ~Singleton(s.base[w])
  <2>1. s.spec[w] # NoValue => Singleton({s.spec[w]})
    BY DEF Singleton
  <2>2. QED
    BY <1>2, <2>1 DEF FreeIn
<1>4. ASSUME NEW c \in s.constraints, w \in Vars(c)
      PROVE  c \in Active(s)
  BY <1>3, <1>4 DEF Good, SoundIn, Active
<1>5. QED
  BY <1>1, <1>3, <1>4
-----------------------------------------------------------------------------
(* What leaves the invariant as it is.                                     *)

(* No domain is touched.                                                   *)
Unmoved(s, t) ==
  /\ SameGround(s, t) /\ t.dom = s.dom /\ t.spec = s.spec /\ t.empties = s.empties

LEMMA KeptUnmoved ==
  ASSUME NEW s, NEW t, NEW Z, NEW Y, Unmoved(s, t), Kept(s, Z, Y)
  PROVE  Kept(t, Z, Y)
<1> SUFFICES ASSUME NEW X, NEW a, Lost(t, X, a, Z, Y)
             PROVE  FALSE
  BY DEF Kept
<1>1. \A w : FreeIn(t, w) = FreeIn(s, w)
  BY DEF Unmoved, SameGround, FreeIn
<1>2. Lost(s, X, a, Z, Y)
  BY <1>1 DEF Lost, Unmoved, SameGround
<1>3. QED
  BY <1>2 DEF Kept

LEMMA SoundUnmoved ==
  ASSUME NEW s, NEW t, NEW R, Unmoved(s, t), SoundIn(s, R), t.violated = {},
         \A c \in t.constraints : t.held[c] # 0 => s.held[c] # 0 \/ c \in R,
         \A v \in t.fresh : v \in s.fresh \/ Full(s, v)
  PROVE  SoundIn(t, R) /\ \A w \in Var : Full(s, w) => Full(t, w)
<1>1. \A w : FreeIn(t, w) = FreeIn(s, w)
  BY DEF Unmoved, SameGround, FreeIn
<1>2. \A w : Full(s, w) <=> Full(t, w)
  BY <1>1 DEF Full, Unmoved
<1>3. QED
  BY <1>1, <1>2 DEF SoundIn, Unmoved, SameGround

(* One variable changes.                                                   *)
ChangedAt(s, t, v) ==
  /\ t.constraints = s.constraints
  /\ \A w \in Var : w # v => t.dom[w] = s.dom[w] /\ t.base[w] = s.base[w] /\ t.spec[w] = s.spec[w]

LEMMA FreeElsewhere ==
  ASSUME NEW s, NEW t, NEW v, ChangedAt(s, t, v)
  PROVE  \A w \in Var : w # v => FreeIn(t, w) = FreeIn(s, w) /\ (Full(s, w) <=> Full(t, w))
<1>1. \A w \in Var : w # v => FreeIn(t, w) = FreeIn(s, w)
  BY DEF ChangedAt, FreeIn
<1>2. QED
  BY <1>1 DEF Full, ChangedAt

(* It gains values: what is linked to it has yet to follow.                *)
LEMMA KeptLoosened ==
  ASSUME NEW s, NEW t, NEW v, NEW Z, NEW Y, s \in Networks, \A c \in Constraint : Vars(c) \subseteq Var,
         ChangedAt(s, t, v), t.empties = s.empties, Kept(s, Z, Y)
  PROVE  Kept(t, Z, Also(Y, v))
<1> DEFINE W == Also(Y, v)
<1>1. \A u : u \in W <=> u \in Y \/ u = v
  BY DEF Also
<1> HIDE DEF W
<1>2. SUFFICES ASSUME NEW X, NEW a, Lost(t, X, a, Z, W)
               PROVE  FALSE
  BY DEF Kept, W
<1>3. /\ X \subseteq Var /\ X # {}
      /\ \A w \in X : /\ w \notin t.empties /\ w \notin Z /\ w \notin Y /\ w # v
                      /\ a[w] \in FreeIn(t, w) /\ a[w] \notin t.dom[w]
  BY <1>1, <1>2 DEF Lost
<1>4. \A w \in X : w \notin s.empties /\ a[w] \in FreeIn(s, w) /\ a[w] \notin s.dom[w]
  BY <1>3, FreeElsewhere DEF ChangedAt
<1>5. ASSUME NEW c \in s.constraints, NEW w \in X, w \in Vars(c)
      PROVE  Satisfied(c, a) /\ \A u \in Vars(c) : u \notin Y /\ (u \in X \/ a[u] \in s.dom[u])
  <2>1. c \in t.constraints /\ Vars(c) \subseteq Var
    BY DEF ChangedAt, Networks
  <2>2. Satisfied(c, a) /\ \A u \in Vars(c) : u \notin W /\ (u \in X \/ a[u] \in t.dom[u])
    BY <1>2, <1>5, <2>1 DEF Lost
  <2>3. QED
    BY <1>1, <2>1, <2>2 DEF ChangedAt
<1>6. Lost(s, X, a, Z, Y)
  BY <1>3, <1>4, <1>5 DEF Lost
<1>7. QED
  BY <1>6 DEF Kept

(* It loses values, and those it could have still: nothing else is missing *)
(* from it than before.                                                    *)
LEMMA KeptTightened ==
  ASSUME NEW s, NEW t, NEW v, NEW Z, NEW Y, s \in Networks, \A c \in Constraint : Vars(c) \subseteq Var,
         ChangedAt(s, t, v), s.empties \subseteq t.empties, t.dom[v] \subseteq s.dom[v],
         v \notin t.empties => \A x \in FreeIn(t, v) : x \in t.dom[v] \/ (x \in FreeIn(s, v) /\ x \notin s.dom[v]),
         Kept(s, Z, Y)
  PROVE  Kept(t, Z, Y)
<1> SUFFICES ASSUME NEW X, NEW a, Lost(t, X, a, Z, Y)
             PROVE  FALSE
  BY DEF Kept
<1>1. /\ X \subseteq Var /\ X # {}
      /\ \A w \in X : /\ w \notin t.empties /\ w \notin Z /\ w \notin Y
                      /\ a[w] \in FreeIn(t, w) /\ a[w] \notin t.dom[w]
  BY DEF Lost
<1>2. ASSUME NEW w \in X
      PROVE  w \notin s.empties /\ a[w] \in FreeIn(s, w) /\ a[w] \notin s.dom[w]
  <2>1. CASE w = v
    BY <1>1, <2>1
  <2>2. CASE w # v
    BY <1>1, <2>2, FreeElsewhere DEF ChangedAt
  <2>3. QED
    BY <2>1, <2>2
<1>3. ASSUME NEW c \in s.constraints, NEW w \in X, w \in Vars(c)
      PROVE  Satisfied(c, a) /\ \A u \in Vars(c) : u \notin Y /\ (u \in X \/ a[u] \in s.dom[u])
  <2>1. c \in t.constraints /\ Vars(c) \subseteq Var
    BY DEF ChangedAt, Networks
  <2>2. Satisfied(c, a) /\ \A u \in Vars(c) : u \notin Y /\ (u \in X \/ a[u] \in t.dom[u])
    BY <1>3, <2>1 DEF Lost
  <2>3. \A u \in Var : t.dom[u] \subseteq s.dom[u]
    BY DEF ChangedAt
  <2>4. QED
    BY <2>1, <2>2, <2>3
<1>4. Lost(s, X, a, Z, Y)
  BY <1>1, <1>2, <1>3 DEF Lost
<1>5. QED
  BY <1>4 DEF Kept
-----------------------------------------------------------------------------
(* What is linked to a variable follows it.                                *)
LEMMA LinkedMembers ==
  ASSUME NEW s, NEW v, Good(s), NEW w \in Linked(s, v)
  PROVE  w \in Var /\ s.spec[w] = NoValue /\ w \notin s.fresh
<1> DEFINE W == {u \in Var : s.spec[u] = NoValue /\ u \notin s.fresh}
           N == Neighbours(s, W \cup {v})
<1>1. w \in Var /\ \A U \in SUBSET Var : Neighbours(s, U \cup {v}) \subseteq U => w \in U
  BY DEF Linked
<1>2. \A u \in N : u \in Var /\ s.spec[u] = NoValue /\ u \notin s.fresh
  BY GoodFacts DEF Neighbours, Active
<1>3. N \subseteq W /\ W \in SUBSET Var
  BY <1>2
<1>4. w \in W
  <2> HIDE DEF W
  <2>1. QED
    BY <1>1, <1>3
<1>5. QED
  BY <1>4

LEMMA LinkedIsClosed ==
  ASSUME NEW s, NEW v, NEW c \in Active(s), NEW w \in Vars(c), NEW u \in Vars(c),
         w \in Var, s.spec[w] = NoValue, w \notin s.fresh, u = v \/ u \in Linked(s, v)
  PROVE  w \in Linked(s, v)
<1> SUFFICES ASSUME NEW W \in SUBSET Var, Neighbours(s, W \cup {v}) \subseteq W
             PROVE  w \in W
  BY DEF Linked
<1>1. u \in W \cup {v}
  BY DEF Linked
<1>2. w \in Neighbours(s, W \cup {v})
  BY <1>1 DEF Neighbours
<1>3. QED
  BY <1>2

(* Once everything linked to v has been relaxed, v is settled.             *)
LEMMA KeptLinked ==
  ASSUME NEW s, NEW t, NEW v, NEW Z, NEW Y, Good(s), v \in variables, Full(s, v),
         SameGround(s, t), t.spec = s.spec, t.empties = s.empties,
         \A w \in Linked(s, v) : t.dom[w] = s.base[w],
         \A w \in Var : w \notin Linked(s, v) => t.dom[w] = s.dom[w],
         Kept(s, Z, Also(Y, v))
  PROVE  Kept(t, Z, Y)
<1> DEFINE W == Also(Y, v)
           L == Linked(s, v)
<1>0. SUFFICES ASSUME NEW X, NEW a, Lost(t, X, a, Z, Y)
               PROVE  FALSE
  BY DEF Kept
<1>1. \A u : u \in W <=> u \in Y \/ u = v
  BY DEF Also
<1>2. Kept(s, Z, W)
  OBVIOUS
<1>3. \A u \in L : u \in Var /\ s.spec[u] = NoValue
  BY LinkedMembers
<1>4. \A u \in Var : u = v \/ u \in L => \A c \in Active(s) : \A w \in Vars(c) :
        u \in Vars(c) /\ w \in Var /\ s.spec[w] = NoValue /\ w \notin s.fresh => w \in L
  BY LinkedIsClosed
<1> HIDE DEF W, L
<1>5. \A w : FreeIn(t, w) = FreeIn(s, w)
  BY DEF SameGround, FreeIn
<1>6. \A w \in L : t.dom[w] = FreeIn(s, w)
  BY <1>3 DEF FreeIn, L
<1>7. \A w \in Var : w \notin L => t.dom[w] = s.dom[w]
  BY DEF L
<1>8. ASSUME NEW w \in X
      PROVE  /\ w \in Var /\ w \notin s.empties /\ w \notin Z /\ w \notin W /\ w \notin L
             /\ a[w] \in FreeIn(s, w) /\ a[w] \notin s.dom[w]
  <2>1. /\ w \in Var /\ w \notin s.empties /\ w \notin Z /\ w \notin Y
        /\ a[w] \in FreeIn(s, w) /\ a[w] \notin t.dom[w]
    BY <1>0, <1>5 DEF Lost
  <2>2. w \notin L
    BY <1>6, <2>1
  <2>3. a[w] \notin s.dom[w]
    BY <1>7, <2>1, <2>2
  <2>4. w # v
    BY <2>1, <2>3 DEF Full
  <2>5. QED
    BY <1>1, <2>1, <2>2, <2>3, <2>4
<1>9. ASSUME NEW c \in s.constraints, NEW w \in X, w \in Vars(c)
      PROVE  Satisfied(c, a) /\ \A u \in Vars(c) : u \notin W /\ (u \in X \/ a[u] \in s.dom[u])
  <2>1. c \in t.constraints
    BY DEF SameGround
  <2>2. Satisfied(c, a) /\ \A u \in Vars(c) : u \notin Y /\ (u \in X \/ a[u] \in t.dom[u])
    BY <1>0, <1>9, <2>1 DEF Lost
  <2>3. ~Full(s, w)
    BY <1>8 DEF Full
  <2>4. s.spec[w] = NoValue /\ w \notin s.fresh /\ c \in Active(s)
    BY <1>8, <1>9, <2>3, MissingIsOpen
  <2>5. ASSUME NEW u \in Vars(c)
        PROVE  u \in Var /\ u # v /\ u \notin L
    <3>1. u \in Var
      BY GoodFacts
    <3>2. QED
      BY <1>4, <1>8, <1>9, <2>4, <3>1
  <2>6. QED
    BY <1>1, <1>7, <2>2, <2>5
<1>10. Lost(s, X, a, Z, W)
  BY <1>0, <1>8, <1>9 DEF Lost
<1>11. QED
  BY <1>2, <1>10 DEF Kept

(* A variable from which nothing is missing need not be waited for, nor    *)
(* one that is on record as empty.                                         *)
LEMMA KeptDropped ==
  ASSUME NEW s, NEW Z, NEW V, NEW Y, Kept(s, Z, Y),
         \A u \in Z : u \in V \/ Full(s, u) \/ u \in s.empties
  PROVE  Kept(s, V, Y)
<1> SUFFICES ASSUME NEW X, NEW a, Lost(s, X, a, V, Y)
             PROVE  FALSE
  BY DEF Kept
<1>1. \A w \in X : w \notin Z
  BY DEF Lost, Full
<1>2. Lost(s, X, a, Z, Y)
  BY <1>1 DEF Lost
<1>3. QED
  BY <1>2 DEF Kept

LEMMA KeptOffRecord ==
  ASSUME NEW s, NEW t, NEW v, NEW Z, NEW Y, Kept(s, Z, Y), Full(s, v),
         SameGround(s, t), t.dom = s.dom, t.spec = s.spec,
         \A u \in s.empties : u \in t.empties \/ u = v
  PROVE  Kept(t, Z, Y)
<1> SUFFICES ASSUME NEW X, NEW a, Lost(t, X, a, Z, Y)
             PROVE  FALSE
  BY DEF Kept
<1>1. \A w : FreeIn(t, w) = FreeIn(s, w)
  BY DEF SameGround, FreeIn
<1>2. \A w \in X : w \notin s.empties
  BY <1>1 DEF Lost, Full
<1>3. Lost(s, X, a, Z, Y)
  BY <1>1, <1>2 DEF Lost, SameGround
<1>4. QED
  BY <1>3 DEF Kept
-----------------------------------------------------------------------------
(* The operators.                                                          *)
Fuller(s, t) == \A w \in Var : Full(s, w) => Full(t, w)

LEMMA GoodUnmoved ==
  ASSUME NEW s, NEW t, Good(s), Basic(t), Unmoved(s, t), t.violated = s.violated,
         \A c \in Constraint : t.held[c] = s.held[c],
         \A v \in t.fresh : v \in s.fresh \/ Full(s, v)
  PROVE  Good(t) /\ Fuller(s, t)
<1>1. \A c \in t.constraints : c \in Constraint
  BY DEF Basic, BasicIn, Networks
<1>2. SoundIn(s, redundant)
  BY DEF Good
<1>3. t.violated = {} /\ \A c \in t.constraints : t.held[c] # 0 => s.held[c] # 0 \/ c \in redundant
  BY <1>1, <1>2 DEF SoundIn
<1>4. SoundIn(t, redundant) /\ \A w \in Var : Full(s, w) => Full(t, w)
  BY <1>2, <1>3, SoundUnmoved
<1>5. QED
  BY <1>4 DEF Good, Fuller

LEMMA GoodAlike ==
  ASSUME NEW s, NEW t, Good(s), Basic(t), Alike(s, t)
  PROVE  Good(t) /\ Unmoved(s, t) /\ Fuller(s, t)
<1>1. Unmoved(s, t)
  BY DEF Unmoved, Alike
<1>2. QED
  BY <1>1, GoodUnmoved DEF Alike

LEMMA GoodRestored ==
  ASSUME NEW s, NEW W, Good(s)
  PROVE  /\ Good(Restored(s, W)) /\ Unmoved(s, Restored(s, W)) /\ Fuller(s, Restored(s, W))
         /\ Restored(s, W).fresh = s.fresh
<1> DEFINE t == Restored(s, W)
           B == Back(s, W)
<1>1. Undone(s, B, t) /\ t.violated = s.violated \ B /\ Basic(t)
  BY RestoredEffect, BasicRestored, GoodFacts DEF Good
<1>2. \A c : c \notin B
  BY BackMembers DEF Good, SoundIn
<1> HIDE DEF t, B
<1>3. Unmoved(s, t) /\ t.fresh = s.fresh /\ t.violated = s.violated
  BY <1>1, <1>2 DEF Undone, Unmoved, Good, SoundIn
<1>4. \A c \in Constraint : t.held[c] = s.held[c]
  BY <1>1, <1>2 DEF Undone
<1>5. Good(t) /\ Fuller(s, t)
  BY <1>1, <1>3, <1>4, GoodUnmoved
<1>6. QED
  BY <1>3, <1>5 DEF t

(* v has been given all its values, and is reported as relaxed.            *)
LEMMA GoodTold ==
  ASSUME NEW s, NEW v, Good(s), v \in variables, Full(s, v)
  PROVE  Good(Told(s, v)) /\ Unmoved(s, Told(s, v)) /\ Fuller(s, Told(s, v))
<1> DEFINE W == {v}
           t == Restored(s, W)
           r == Told(s, v)
<1>0. v \in Var
  BY GoodFacts
<1>1. r = Initiate(t, v)
  BY DEF Told
<1> HIDE DEF r, W
<1>2. Good(t) /\ Unmoved(s, t) /\ Fuller(s, t) /\ t \in Networks
  BY GoodRestored, GoodFacts
<1> HIDE DEF t
<1>3. /\ SameGround(t, r) /\ r.dom = t.dom /\ r.spec = t.spec
      /\ r.held = t.held /\ r.violated = t.violated
      /\ r.empties = t.empties /\ r.fresh \subseteq t.fresh \cup {v} /\ Basic(r)
  BY <1>0, <1>1, <1>2, InitiateEffect, BasicInitiate DEF Good
<1>4. Unmoved(t, r)
  BY <1>3 DEF Unmoved
<1>5. \A w \in r.fresh : w \in t.fresh \/ Full(t, w)
  BY <1>0, <1>2, <1>3 DEF Fuller
<1>6. Good(r) /\ Fuller(t, r)
  BY <1>2, <1>3, <1>4, <1>5, GoodUnmoved
<1>7. Unmoved(s, r) /\ Fuller(s, r)
  BY <1>2, <1>4, <1>6 DEF Unmoved, SameGround, Fuller
<1>8. QED
  BY <1>6, <1>7 DEF r

LEMMA GoodFilled ==
  ASSUME NEW s, NEW t, NEW v, NEW Z, NEW Y, s \in Networks, Undisturbed, Obliging,
         SoundIn(s, redundant),
         Kept(s, Z, Y), Basic(t), SameGround(s, t), v \in Var,
         t.held = s.held, t.violated = s.violated, t.fresh = s.fresh, t.empties = s.empties,
         t.dom[v] = FreeIn(t, v),
         \A w \in Var : w # v => t.dom[w] = s.dom[w] /\ t.spec[w] = s.spec[w]
  PROVE  Good(t) /\ Full(t, v) /\ Fuller(s, t) /\ Kept(t, Z, Also(Y, v))
<1>1. ChangedAt(s, t, v)
  BY DEF ChangedAt, SameGround
<1>2. Full(t, v)
  BY DEF Full
<1>3. \A w \in Var : w # v => FreeIn(t, w) = FreeIn(s, w) /\ (Full(s, w) <=> Full(t, w))
  BY <1>1, FreeElsewhere
<1>4. SoundIn(t, redundant)
  <2>1. \A w \in Var : t.dom[w] \subseteq FreeIn(t, w)
    BY <1>3 DEF SoundIn
  <2>2. \A w \in t.fresh : w \notin t.empties => Full(t, w)
    BY <1>2, <1>3 DEF SoundIn, Networks
  <2>3. QED
    BY <2>1, <2>2 DEF SoundIn, SameGround
<1>5. Fuller(s, t)
  BY <1>2, <1>3 DEF Fuller
<1>6. \A c \in Constraint : Vars(c) \subseteq Var
  BY ScopeType
<1>7. Kept(t, Z, Also(Y, v))
  BY <1>1, <1>6, KeptLoosened
<1>8. QED
  BY <1>2, <1>4, <1>5, <1>7 DEF Good

LEMMA GoodRelaxedDomain ==
  ASSUME NEW s, NEW v, NEW Z, NEW Y, Good(s), v \in variables, Kept(s, Z, Y)
  PROVE  /\ Good(RelaxedDomain(s, v)) /\ Full(RelaxedDomain(s, v), v)
         /\ Fuller(s, RelaxedDomain(s, v)) /\ Kept(RelaxedDomain(s, v), Z, Also(Y, v))
<1> DEFINE t == RelaxedDomain(s, v)
<1>0. v \in Var /\ s \in Networks
  BY GoodFacts
<1>1. /\ SameGround(s, t) /\ t.spec = s.spec /\ t.held = s.held
      /\ t.fresh = s.fresh /\ t.empties = s.empties /\ t.violated = s.violated
      /\ t.dom[v] = FreeIn(s, v) /\ \A w \in Var : w # v => t.dom[w] = s.dom[w]
  BY <1>0, RelaxedDomainEffect
<1>2. Basic(t)
  BY BasicRelaxedDomain DEF Good
<1> HIDE DEF t
<1>3. t.dom[v] = FreeIn(t, v)
  BY <1>1 DEF FreeIn, SameGround
<1>4. Undisturbed /\ Obliging /\ SoundIn(s, redundant)
  BY DEF Good
<1>5. Good(t) /\ Full(t, v) /\ Fuller(s, t) /\ Kept(t, Z, Also(Y, v))
  BY <1>0, <1>1, <1>2, <1>3, <1>4, GoodFilled
<1>6. QED
  BY <1>5 DEF t

LEMMA GoodRelaxLinked ==
  ASSUME NEW s, NEW v, NEW Z, NEW Y, NEW restoring, Good(s), v \in variables, Full(s, v),
         Kept(s, Z, Also(Y, v)), restoring = TRUE
  PROVE  /\ Good(RelaxLinked(s, v, restoring)) /\ Kept(RelaxLinked(s, v, restoring), Z, Y)
         /\ Fuller(s, RelaxLinked(s, v, restoring))
<1> DEFINE L == Linked(s, v)
           t == LinkRelaxed(s, v)
           r == Restored(t, L)
<1>0. s \in Networks /\ RelaxLinked(s, v, restoring) = r
  BY GoodFacts, RelaxLinkedEffect
<1>1. \A w \in L : w \in Var /\ s.spec[w] = NoValue
  BY LinkedMembers
<1>2. Moved(s, v) = L
  BY <1>1, GoodFacts DEF Moved
<1>3. /\ SameGround(s, t) /\ t.spec = s.spec /\ t.held = s.held
      /\ t.empties = s.empties /\ t.violated = s.violated
      /\ t.fresh = s.fresh \cup L
      /\ \A w \in L : t.dom[w] = s.base[w]
      /\ \A w \in Var : w \notin L => t.dom[w] = s.dom[w]
  BY <1>0, <1>2, LinkRelaxedEffect
<1>4. Basic(t)
  BY BasicLinkRelaxed DEF Good
<1> HIDE DEF t
<1>5. Kept(t, Z, Y)
  BY <1>3, KeptLinked
<1> HIDE DEF L
<1>6. \A w : FreeIn(t, w) = FreeIn(s, w)
  BY <1>3 DEF FreeIn, SameGround
<1>7. \A w \in L : t.dom[w] = FreeIn(t, w)
  BY <1>3, <1>1, <1>6 DEF FreeIn
<1>8. Fuller(s, t) /\ \A w \in L : Full(t, w)
  BY <1>3, <1>6, <1>7 DEF Fuller, Full
<1>9. SoundIn(t, redundant)
  <2>1. SoundIn(s, redundant) /\ \A w \in s.fresh : w \in Var
    BY GoodFacts DEF Good
  <2>2. \A w \in Var : t.dom[w] \subseteq FreeIn(t, w)
    BY <1>3, <1>6, <1>7, <2>1 DEF SoundIn
  <2>3. \A w \in t.fresh : w \notin t.empties => Full(t, w)
    BY <1>3, <1>8, <2>1 DEF SoundIn, Fuller
  <2>4. QED
    BY <1>3, <2>1, <2>2, <2>3 DEF SoundIn, SameGround
<1>10. Good(t)
  BY <1>4, <1>9 DEF Good
<1>11. Good(r) /\ Unmoved(t, r) /\ Fuller(t, r)
  BY <1>10, GoodRestored
<1> HIDE DEF r
<1>12. Kept(r, Z, Y)
  BY <1>5, <1>11, KeptUnmoved
<1>13. Fuller(s, r)
  BY <1>8, <1>11 DEF Fuller
<1>14. QED
  BY <1>0, <1>11, <1>12, <1>13

(* One empty variable is relaxed, with all that is linked to it.           *)
LEMMA GoodRelaxEmpty ==
  ASSUME NEW s, NEW e, NEW Z, NEW Y, NEW restoring, Good(s), e \in variables,
         Kept(s, Z, Y), restoring = TRUE
  PROVE  /\ Good(RelaxEmpty(s, e, restoring)) /\ Kept(RelaxEmpty(s, e, restoring), Z, Y)
         /\ Fuller(s, RelaxEmpty(s, e, restoring))
<1> DEFINE t == RelaxedDomain(s, e)
           u == Told(t, e)
           x == RelaxLinked(u, e, restoring)
           w == WakeUp(x, e)
           r == RelaxEmpty(s, e, restoring)
<1>0. e \in Var /\ ~Inactive(e) /\ restoring \in BOOLEAN
  BY GoodFacts
<1>1. /\ Untouched(s, e) => r = OffRecord(s, e)
      /\ ~Untouched(s, e) => r = OffRecord(w, e)
  <2>1. EmptyRelaxed(s, e, restoring) = w
    BY DEF EmptyRelaxed, Announced, Refilled, Told
  <2> HIDE DEF w
  <2>2. Untouched(s, e) => r = OffRecord(s, e)
    BY RelaxEmptyCases
  <2>3. ~Untouched(s, e) => r = OffRecord(EmptyRelaxed(s, e, restoring), e)
    BY ONLY <1>0, RelaxEmptyCases
  <2>4. QED
    BY <2>1, <2>2, <2>3
<1>2. Basic(r)
  BY <1>0, BasicRelaxEmpty DEF Good
<1>3. ASSUME NEW y, Good(y), Kept(y, Z, Y), Full(y, e), r = OffRecord(y, e)
      PROVE  Good(r) /\ Kept(r, Z, Y) /\ Fuller(y, r)
  <2>1. /\ SameGround(y, r) /\ r.dom = y.dom /\ r.spec = y.spec
        /\ r.held = y.held /\ r.violated = y.violated
        /\ r.fresh = y.fresh /\ r.empties = y.empties \ {e}
    BY <1>3, OffRecordEffect, GoodFacts
  <2> HIDE DEF r
  <2>2. \A z : FreeIn(r, z) = FreeIn(y, z)
    BY <2>1 DEF FreeIn, SameGround
  <2>3. Fuller(y, r) /\ Full(r, e)
    BY <1>3, <2>1, <2>2 DEF Fuller, Full
  <2>4. SoundIn(r, redundant)
    <3>1. SoundIn(y, redundant) /\ \A z \in y.fresh : z \in Var
      BY <1>3, GoodFacts DEF Good
    <3>2. \A z \in r.fresh : z \notin r.empties => Full(r, z)
      BY <2>1, <2>3, <3>1 DEF SoundIn, Fuller
    <3>3. QED
      BY <2>1, <2>2, <3>1, <3>2 DEF SoundIn, SameGround
  <2>5. \A z \in y.empties : z \in r.empties \/ z = e
    BY <2>1
  <2>6. Kept(r, Z, Y)
    BY <1>3, <2>1, <2>5, KeptOffRecord
  <2>7. QED
    BY <1>2, <1>3, <2>3, <2>4, <2>6 DEF Good
<1>4. CASE Untouched(s, e)
  <2>1. Full(s, e)
    <3>1. e \in Var /\ s.dom[e] \subseteq FreeIn(s, e)
      BY <1>0 DEF Good, SoundIn
    <3>2. QED
      BY <1>0, <1>4, <3>1, GoodFacts DEF Untouched, Full, FreeIn
  <2> HIDE DEF r
  <2>2. QED
    BY <1>1, <1>3, <1>4, <2>1 DEF r
<1>5. CASE ~Untouched(s, e)
  <2>1. Good(t) /\ Full(t, e) /\ Fuller(s, t) /\ Kept(t, Z, Also(Y, e))
    BY GoodRelaxedDomain
  <2> HIDE DEF t
  <2>2. Good(u) /\ Unmoved(t, u) /\ Fuller(t, u)
    BY <2>1, GoodTold
  <2>3. Kept(u, Z, Also(Y, e)) /\ Full(u, e)
    BY <1>0, <2>1, <2>2, KeptUnmoved DEF Fuller
  <2> HIDE DEF u
  <2>4. Good(x) /\ Kept(x, Z, Y) /\ Fuller(u, x)
    BY <2>2, <2>3, GoodRelaxLinked
  <2> HIDE DEF x
  <2>5. Basic(w) /\ Alike(x, w)
    BY <2>4, BasicWakeUp, WakeUpEffect, GoodFacts DEF Good
  <2>6. Good(w) /\ Kept(w, Z, Y) /\ Fuller(x, w)
    BY <2>4, <2>5, GoodAlike, KeptUnmoved
  <2> HIDE DEF w, r
  <2>7. Full(w, e)
    BY <1>0, <2>3, <2>4, <2>6 DEF Fuller
  <2>8. Good(r) /\ Kept(r, Z, Y) /\ Fuller(w, r)
    BY <1>1, <1>3, <1>5, <2>6, <2>7
  <2>9. Fuller(s, r)
    BY <2>1, <2>2, <2>4, <2>6, <2>8 DEF Fuller
  <2>10. QED
    BY <2>8, <2>9 DEF r
<1>6. QED
  BY <1>4, <1>5

KeptLoop(k, S, t) ==
  Good(t) /\ Kept(t, k.waiting, k.pending) /\ Fuller(k.start, t)

RelaxLoop == INSTANCE FoldInduction WITH Op <- RelaxOne, Pick <- AnyOf, I <- KeptLoop

LEMMA GoodRelaxEmpties ==
  ASSUME NEW s, NEW Z, NEW Y, NEW restoring, Good(s), Kept(s, Z, Y), restoring = TRUE
  PROVE  /\ Good(RelaxEmpties(s, restoring)) /\ Kept(RelaxEmpties(s, restoring), Z, Y)
         /\ Fuller(s, RelaxEmpties(s, restoring))
<1> DEFINE k == [restoring |-> restoring, start |-> s, waiting |-> Z, pending |-> Y]
           S == s.empties
<1>1. RelaxEmpties(s, restoring) = RelaxLoop!Fold(k, s, S)
  BY DEF RelaxEmpties, FoldSet, RelaxLoop!Fold, RelaxLoop!MapThenFoldSet, MapThenFoldSet,
         RelaxOne, AnyOf
<1>2. /\ k.restoring = restoring /\ k.start = s /\ k.waiting = Z /\ k.pending = Y
      /\ S \subseteq variables
  BY GoodFacts
<1>3. RelaxLoop!IsFiniteSet(S)
  BY FiniteEmpties, GoodFacts, Zenon DEF RelaxLoop!IsFiniteSet, IsFiniteSet
<1> HIDE DEF k, S
<1>4. RelaxLoop!Picks(S)
  BY DEF RelaxLoop!Picks, AnyOf
<1>5. KeptLoop(k, {}, s)
  BY <1>2 DEF KeptLoop, Fuller
<1>6. ASSUME NEW T \in SUBSET S, NEW t, T # {}, KeptLoop(k, T \ {AnyOf(T)}, t)
      PROVE  KeptLoop(k, T, RelaxOne(k, AnyOf(T), t))
  <2> DEFINE e == AnyOf(T)
             r == RelaxEmpty(t, e, restoring)
  <2>1. e \in variables
    BY <1>2, <1>6 DEF AnyOf
  <2>2. Good(t) /\ Kept(t, Z, Y) /\ Fuller(s, t)
    BY <1>2, <1>6 DEF KeptLoop
  <2> HIDE DEF e
  <2>3. Good(r) /\ Kept(r, Z, Y) /\ Fuller(t, r)
    BY <2>1, <2>2, GoodRelaxEmpty
  <2>4. RelaxOne(k, e, t) = r
    BY <1>2 DEF RelaxOne
  <2> HIDE DEF r
  <2>5. KeptLoop(k, T, RelaxOne(k, e, t))
    BY <1>2, <2>2, <2>3, <2>4 DEF KeptLoop, Fuller
  <2>6. QED
    BY <2>5 DEF e
<1>7. KeptLoop(k, S, RelaxLoop!Fold(k, s, S))
  BY ONLY <1>3, <1>4, <1>5, <1>6, RelaxLoop!FoldKeeps
<1>8. QED
  BY <1>1, <1>2, <1>7 DEF KeptLoop

(* v has been given all its values, and the rest follows.                  *)
LEMMA GoodNotifyRelaxed ==
  ASSUME NEW s, NEW v, NEW Z, NEW Y, Good(s), v \in variables, Full(s, v),
         Kept(s, Z, Also(Y, v))
  PROVE  /\ Good(NotifyRelaxed(s, v)) /\ Kept(NotifyRelaxed(s, v), Z, Y)
         /\ Fuller(s, NotifyRelaxed(s, v))
<1> DEFINE yes == TRUE
           W == Also(Y, v)
           t == Told(s, v)
           u == Cleared(s, v)
           x == RelaxLinked(u, v, yes)
           r == WakeUp(x, v)
<1>0. v \in Var /\ ~Inactive(v)
  BY GoodFacts
<1>1. NotifyRelaxed(s, v) = r
  BY <1>0, NotifyRelaxedCases
<1>2. yes = TRUE /\ (u = t \/ u = RelaxEmpties(t, yes))
  BY DEF Cleared
<1> HIDE DEF yes, W
<1>3. Good(t) /\ Fuller(s, t) /\ Kept(t, Z, W)
  BY GoodTold, KeptUnmoved DEF W
<1> HIDE DEF t
<1>4. Good(u) /\ Fuller(t, u) /\ Kept(u, Z, W)
  <2>1. Fuller(t, t)
    BY DEF Fuller
  <2>2. /\ Good(RelaxEmpties(t, yes)) /\ Kept(RelaxEmpties(t, yes), Z, W)
        /\ Fuller(t, RelaxEmpties(t, yes))
    BY <1>2, <1>3, GoodRelaxEmpties
  <2> HIDE DEF u
  <2>3. QED
    BY <1>2, <1>3, <2>1, <2>2
<1> HIDE DEF u
<1>5. Full(u, v)
  BY <1>0, <1>3, <1>4 DEF Fuller
<1>6. Good(x) /\ Kept(x, Z, Y) /\ Fuller(u, x)
  BY <1>2, <1>4, <1>5, GoodRelaxLinked DEF W
<1> HIDE DEF x
<1>7. Basic(r) /\ Alike(x, r)
  BY <1>6, BasicWakeUp, WakeUpEffect, GoodFacts DEF Good
<1>8. Good(r) /\ Kept(r, Z, Y) /\ Fuller(x, r)
  BY <1>6, <1>7, GoodAlike, KeptUnmoved
<1> HIDE DEF r
<1>9. Fuller(s, r)
  BY <1>3, <1>4, <1>6, <1>8 DEF Fuller
<1>10. QED
  BY <1>1, <1>8, <1>9

LEMMA GoodRestricted ==
  ASSUME NEW s, NEW v, NEW Z, NEW Y, Good(s), Kept(s, Z, Y)
  PROVE  Good(Restricted(s, v)) /\ Kept(Restricted(s, v), Z, Y) /\ Fuller(s, Restricted(s, v))
<1>1. Basic(Restricted(s, v)) /\ Alike(s, Restricted(s, v))
  BY BasicRestricted, RestrictedEffect, GoodFacts DEF Good
<1>2. QED
  BY <1>1, GoodAlike, KeptUnmoved

LEMMA GoodRelaxVariable ==
  ASSUME NEW s, NEW v, NEW Z, NEW Y, Good(s), v \in variables, Kept(s, Z, Y)
  PROVE  /\ Good(RelaxVariable(s, v)) /\ Kept(RelaxVariable(s, v), Z, Y)
         /\ Full(RelaxVariable(s, v), v)
<1> DEFINE t == RelaxedDomain(s, v)
           r == NotifyRelaxed(t, v)
<1>0. v \in Var /\ s.dom[v] \subseteq FreeIn(s, v)
  BY GoodFacts DEF Good, SoundIn
<1>1. /\ Untouched(s, v) => RelaxVariable(s, v) = s
      /\ ~Untouched(s, v) => RelaxVariable(s, v) = r
  BY DEF RelaxVariable
<1>2. Untouched(s, v) => Full(s, v)
  BY <1>0, GoodFacts DEF Untouched, Full, FreeIn
<1>3. Good(t) /\ Full(t, v) /\ Kept(t, Z, Also(Y, v))
  BY GoodRelaxedDomain
<1> HIDE DEF t
<1>4. Good(r) /\ Kept(r, Z, Y) /\ Full(r, v)
  BY <1>0, <1>3, GoodNotifyRelaxed DEF Fuller
<1> HIDE DEF r
<1>5. QED
  BY <1>1, <1>2, <1>4

(* What a constraint may have taken away is given back, one variable of    *)
(* its scope after the other.                                              *)
Waiting(scope, S) == {scope[i] : i \in DOMAIN scope \ S}
GivingBack(k, S, t) == Good(t) /\ Kept(t, Waiting(k.scope, S), k.pending)

GiveBackLoop == INSTANCE FoldInduction WITH Op <- GiveBackOne, Pick <- LastOf, I <- GivingBack

LEMMA GoodGivenBack ==
  ASSUME NEW s, NEW c, NEW Y, c \in Constraint, Good(s), Vars(c) \subseteq variables,
         s.held[c] = 0, Kept(s, Vars(c), Y)
  PROVE  \A V : Good(GivenBack(s, c)) /\ Kept(GivenBack(s, c), V, Y)
<1> DEFINE k == [scope |-> Scope[c], pending |-> Y]
           S == DOMAIN Scope[c]
           b == s
           r == GivenBack(s, c)
<1>1. r = GiveBackLoop!Fold(k, b, S)
  BY DEF GivenBack, FoldLeft, GiveBackLoop!Fold, GiveBackLoop!MapThenFoldSet, MapThenFoldSet,
         GiveBackOne, LastOf
<1>2. k.scope = Scope[c] /\ k.pending = Y
  OBVIOUS
<1>3. GiveBackLoop!IsFiniteSet(S)
  BY ScopeType, Zenon DEF GiveBackLoop!IsFiniteSet, IsFiniteSet
<1>4. \A i \in S : Scope[c][i] \in variables
  BY ScopeType
<1>5. \A T \in SUBSET S : T # {} => LastOf(T) \in T
  BY ScopeType, LastPosition DEF LastOf
<1>6. \A T : \A u : u \in Waiting(Scope[c], T) <=> \E i \in S : i \notin T /\ u = Scope[c][i]
  BY DEF Waiting
<1>7. \A u : u \in Waiting(Scope[c], {}) => u \in Vars(c)
  BY <1>6, ScopeType
<1>8. \A u : u \notin Waiting(Scope[c], S)
  BY <1>6
<1> HIDE DEF k, S, b, r
<1>9. GiveBackLoop!Picks(S)
  BY <1>5 DEF GiveBackLoop!Picks
<1>10. GivingBack(k, {}, b)
  <2> DEFINE V == Waiting(Scope[c], {})
             Z == Vars(c)
  <2>1. \A u \in Z : u \in V
    BY <1>6, ScopeType DEF S
  <2>2. Kept(s, Z, Y) /\ \A u \in Z : u \in V \/ Full(s, u) \/ u \in s.empties
    BY <2>1
  <2> HIDE DEF V, Z
  <2>3. Kept(s, V, Y)
    BY ONLY <2>2, KeptDropped
  <2>4. QED
    BY <1>2, <2>3 DEF GivingBack, b, V
<1>11. ASSUME NEW T \in SUBSET S, NEW t, T # {}, GivingBack(k, T \ {LastOf(T)}, t)
       PROVE  GivingBack(k, T, GiveBackOne(k, LastOf(T), t))
  <2> DEFINE i == LastOf(T)
             v == Scope[c][i]
             Z == Waiting(Scope[c], T \ {i})
             V == Waiting(Scope[c], T)
             x == RelaxVariable(t, v)
  <2>1. Good(t) /\ Kept(t, Z, Y)
    BY <1>2, <1>11 DEF GivingBack
  <2>2. v \in variables /\ v \in Var
    BY <1>4, <1>5, <1>11, <2>1, GoodFacts
  <2>3. \A u \in Z : u \in V \/ u = v
    BY <1>6
  <2>4. /\ v \in t.fresh => GiveBackOne(k, i, t) = t
        /\ v \notin t.fresh => GiveBackOne(k, i, t) = x
    BY <1>2 DEF GiveBackOne
  <2> HIDE DEF i, v, Z, V
  <2>5. CASE v \in t.fresh
    <3>1. Full(t, v) \/ v \in t.empties
      BY <2>1, <2>5 DEF Good, SoundIn
    <3>2. Kept(t, V, Y)
      BY <2>1, <2>3, <3>1, KeptDropped
    <3>3. QED
      BY <1>2, <2>1, <2>4, <2>5, <3>2 DEF GivingBack, i, V
  <2>6. CASE v \notin t.fresh
    <3>1. Good(x) /\ Kept(x, Z, Y) /\ Full(x, v)
      BY <2>1, <2>2, GoodRelaxVariable
    <3> HIDE DEF x
    <3>2. Kept(x, V, Y)
      BY <2>3, <3>1, KeptDropped
    <3>3. QED
      BY <1>2, <2>4, <2>6, <3>1, <3>2 DEF GivingBack, i, V
  <2>7. QED
    BY <2>5, <2>6
<1>12. GivingBack(k, S, GiveBackLoop!Fold(k, b, S))
  BY ONLY <1>3, <1>9, <1>10, <1>11, GiveBackLoop!FoldKeeps
<1>13. SUFFICES ASSUME NEW V
                PROVE  Good(r) /\ Kept(r, V, Y)
  BY DEF r
<1>14. Good(r) /\ Kept(r, Waiting(Scope[c], S), Y)
  BY <1>1, <1>2, <1>12 DEF GivingBack
<1>15. QED
  BY <1>8, <1>14, KeptDropped

(* A client changes one variable, and it loses values.                     *)
LEMMA GoodTightened ==
  ASSUME NEW s, NEW t, NEW v, NEW Z, NEW Y, s \in Networks, Undisturbed, Obliging,
         SoundIn(s, redundant),
         Kept(s, Z, Y), Basic(t), v \in Var, ChangedAt(s, t, v), t.base[v] \subseteq s.base[v],
         t.held = s.held, t.violated = s.violated, t.fresh = s.fresh,
         s.empties \subseteq t.empties,
         t.dom[v] \subseteq s.dom[v], t.dom[v] \subseteq FreeIn(t, v),
         v \in s.fresh /\ v \notin t.empties => Full(t, v),
         v \notin t.empties => \A x \in FreeIn(t, v) : x \in t.dom[v] \/ (x \in FreeIn(s, v) /\ x \notin s.dom[v])
  PROVE  Good(t) /\ Kept(t, Z, Y)
<1>1. \A w \in Var : w # v => FreeIn(t, w) = FreeIn(s, w) /\ (Full(s, w) <=> Full(t, w))
  BY FreeElsewhere
<1>2. \A w \in Var : t.dom[w] \subseteq FreeIn(t, w)
  BY <1>1 DEF SoundIn, ChangedAt
<1>3. \A w \in t.fresh : w \notin t.empties => Full(t, w)
  BY <1>1 DEF SoundIn, Networks
<1>4. ASSUME NEW c \in redundant, NEW w \in Vars(c), w \in Var
      PROVE  Singleton(t.base[w])
  <2>1. Singleton(s.base[w]) /\ t.base[w] # {}
    BY <1>4 DEF SoundIn, Basic, BasicIn
  <2>2. CASE w = v
    BY <2>1, <2>2 DEF Singleton
  <2>3. CASE w # v
    BY <1>4, <2>1, <2>3 DEF ChangedAt
  <2>4. QED
    BY <2>2, <2>3
<1>5. \A c \in Constraint : Vars(c) \subseteq Var
  BY ScopeType
<1>6. Kept(t, Z, Y)
  BY <1>5, KeptTightened
<1>7. QED
  BY <1>2, <1>3, <1>4, <1>5, <1>6 DEF Good, SoundIn, ChangedAt

LEMMA GoodWithoutValues ==
  ASSUME NEW s, NEW v, NEW x, NEW Z, NEW Y, Good(s), Kept(s, Z, Y), v \in variables,
         x \in Value \cup {NoValue}, x \in s.base[v] \cup {NoValue}
  PROVE  LET t == WithoutValues(WithSpec(s, v, x), v)
         IN  Good(t) /\ Kept(t, Z, Y)
<1> DEFINE u == WithSpec(s, v, x)
           t == WithoutValues(u, v)
<1>0. v \in Var /\ s \in Networks /\ ~Inactive(v) /\ Undisturbed /\ Obliging /\ SoundIn(s, redundant)
  BY GoodFacts DEF Good
<1>1. /\ SameGround(s, u) /\ u.dom = s.dom /\ u.held = s.held
      /\ u.fresh = s.fresh /\ u.empties = s.empties /\ u.violated = s.violated
      /\ \A w \in Var : w # v => u.spec[w] = s.spec[w]
  BY <1>0, WithSpecEffect
<1>2. Basic(u) /\ u \in Networks
  BY <1>0, BasicWithSpec, WithSpecEffect DEF Good
<1> HIDE DEF u
<1>3. /\ SameGround(u, t) /\ t.spec = u.spec /\ t.held = u.held
      /\ t.violated = u.violated /\ t.fresh = u.fresh
      /\ t.dom[v] = {} /\ \A w \in Var : w # v => t.dom[w] = u.dom[w]
      /\ u.empties \subseteq t.empties /\ v \in t.empties
  BY <1>0, <1>2, WithoutValuesEffect
<1>4. Basic(t)
  BY <1>2, BasicWithoutValues
<1> HIDE DEF t
<1>5. ChangedAt(s, t, v) /\ t.base[v] \subseteq s.base[v] /\ s.empties \subseteq t.empties
  BY <1>1, <1>3 DEF ChangedAt, SameGround
<1>6. t.held = s.held /\ t.violated = s.violated /\ t.fresh = s.fresh
  BY <1>1, <1>3
<1>7. t.dom[v] \subseteq s.dom[v] /\ t.dom[v] \subseteq FreeIn(t, v)
  BY <1>3
<1>8. Good(t) /\ Kept(t, Z, Y)
  BY <1>0, <1>3, <1>4, <1>5, <1>6, <1>7, GoodTightened
<1>9. QED
  BY <1>8 DEF t, u

LEMMA GoodResetDomain ==
  ASSUME NEW s, NEW v, NEW Z, NEW Y, Good(s), Kept(s, Z, Y), v \in variables
  PROVE  Good(ResetDomain(s, v)) /\ Kept(ResetDomain(s, v), Z, Y)
<1> DEFINE t == WithSpec(s, v, NoValue)
           u == RelaxedDomain(t, v)
           n == NotifyRelaxed(u, v)
           r == Restricted(n, v)
<1>0. v \in Var /\ s \in Networks /\ Undisturbed /\ Obliging /\ SoundIn(s, redundant)
  BY GoodFacts DEF Good
<1>1. /\ t.dom[v] = t.base[v] => ResetDomain(s, v) = t
      /\ t.dom[v] # t.base[v] /\ ~Untouched(t, v) => ResetDomain(s, v) = r
  BY ResetDomainCases DEF RelaxVariable
<1>2. /\ SameGround(s, t) /\ t.dom = s.dom /\ t.held = s.held
      /\ t.fresh = s.fresh /\ t.empties = s.empties /\ t.violated = s.violated
      /\ t.spec[v] = NoValue /\ \A w \in Var : w # v => t.spec[w] = s.spec[w]
  BY <1>0, WithSpecEffect
<1>3. Basic(t) /\ t \in Networks
  BY <1>0, BasicWithSpec, WithSpecEffect DEF Good
<1> HIDE DEF t
<1>4. FreeIn(t, v) = t.base[v] /\ ~Untouched(t, v)
  BY <1>0, <1>2, GoodFacts DEF FreeIn, Untouched, Contained, SameGround
<1>5. CASE t.dom[v] = t.base[v]
  <2>1. ChangedAt(s, t, v) /\ t.base[v] \subseteq s.base[v] /\ s.empties \subseteq t.empties
    BY <1>2 DEF ChangedAt, SameGround
  <2>2. t.dom[v] \subseteq s.dom[v] /\ t.dom[v] \subseteq FreeIn(t, v) /\ Full(t, v)
    BY <1>2, <1>4, <1>5 DEF Full
  <2>3. \A x \in FreeIn(t, v) : x \in t.dom[v] \/ (x \in FreeIn(s, v) /\ x \notin s.dom[v])
    BY <2>2 DEF Full
  <2>4. Good(t) /\ Kept(t, Z, Y)
    BY <1>0, <1>2, <1>3, <2>1, <2>2, <2>3, GoodTightened
  <2>5. QED
    BY <1>1, <1>5, <2>4
<1>6. CASE t.dom[v] # t.base[v]
  <2>1. /\ SameGround(t, u) /\ u.spec = t.spec /\ u.held = t.held
        /\ u.fresh = t.fresh /\ u.empties = t.empties /\ u.violated = t.violated
        /\ u.dom[v] = FreeIn(t, v) /\ \A w \in Var : w # v => u.dom[w] = t.dom[w]
    BY <1>0, <1>3, RelaxedDomainEffect
  <2>2. Basic(u)
    BY <1>3, BasicRelaxedDomain
  <2> HIDE DEF u
  <2>3. u.dom[v] = FreeIn(u, v)
    BY <2>1 DEF FreeIn, SameGround
  <2>4. /\ SameGround(s, u) /\ u.held = s.held /\ u.violated = s.violated
        /\ u.fresh = s.fresh /\ u.empties = s.empties
        /\ \A w \in Var : w # v => u.dom[w] = s.dom[w] /\ u.spec[w] = s.spec[w]
    BY <1>2, <2>1 DEF SameGround
  <2>5. Good(u) /\ Full(u, v) /\ Kept(u, Z, Also(Y, v))
    BY <1>0, <2>2, <2>3, <2>4, GoodFilled
  <2>6. Good(n) /\ Kept(n, Z, Y)
    BY <2>5, GoodNotifyRelaxed
  <2> HIDE DEF n
  <2>7. Good(r) /\ Kept(r, Z, Y)
    BY <2>6, GoodRestricted
  <2>8. QED
    BY <1>1, <1>4, <1>6, <2>7
<1>7. QED
  BY <1>5, <1>6

LEMMA GoodSpecifyDomain ==
  ASSUME NEW s, NEW v, NEW value, NEW Z, NEW Y, Good(s), Kept(s, Z, Y), v \in variables,
         value \in Value, value \in s.base[v], ~allow
  PROVE  Good(SpecifyDomain(s, v, value)) /\ Kept(SpecifyDomain(s, v, value), Z, Y)
<1> DEFINE u == Specified(s, v, value)
           D == {value}
           w == WithDomain(u, v, D)
           q == Restricted(w, v)
           r == WithoutValues(u, v)
           z == SpecifyDomain(s, v, value)
<1>0. /\ v \in Var /\ s \in Networks /\ Undisturbed /\ Obliging /\ SoundIn(s, redundant)
      /\ value \in Value \cup {NoValue} /\ value # NoValue
  BY GoodFacts, CountIsNat DEF Good
<1>1. u = WithSpec(s, v, value)
  BY DEF Specified, Readied
<1>2. /\ s.spec[v] = value => z = s
      /\ s.spec[v] # value /\ value \in u.dom[v] => z = q
      /\ s.spec[v] # value /\ value \notin u.dom[v] => z = r
  BY SpecifyDomainCases
<1>3. D \subseteq Value /\ D # {} /\ \A x : x \in D <=> x = value
  OBVIOUS
<1> HIDE DEF u
<1>4. Good(r) /\ Kept(r, Z, Y)
  BY <1>0, <1>1, GoodWithoutValues
<1>5. /\ SameGround(s, u) /\ u.dom = s.dom /\ u.held = s.held
      /\ u.fresh = s.fresh /\ u.empties = s.empties /\ u.violated = s.violated
      /\ u.spec[v] = value /\ \A x \in Var : x # v => u.spec[x] = s.spec[x]
  BY <1>0, <1>1, WithSpecEffect
<1>6. Basic(u) /\ u \in Networks
  BY <1>0, <1>1, BasicWithSpec, WithSpecEffect DEF Good
<1> HIDE DEF D, z, r
<1>7. CASE value \in u.dom[v]
  <2>1. /\ SameGround(u, w) /\ w.spec = u.spec /\ w.held = u.held
        /\ w.fresh = u.fresh /\ w.empties = u.empties /\ w.violated = u.violated
        /\ w.dom[v] = D /\ \A x \in Var : x # v => w.dom[x] = u.dom[x]
    BY <1>0, <1>3, <1>6, WithDomainEffect
  <2>2. Basic(w)
    <3>1. D \subseteq u.base[v]
      BY <1>3, <1>5 DEF SameGround
    <3>2. QED
      BY <1>3, <1>6, <3>1, BasicWithDomain
  <2> HIDE DEF w
  <2>3. ChangedAt(s, w, v) /\ w.base[v] \subseteq s.base[v] /\ s.empties \subseteq w.empties
    BY <1>5, <2>1 DEF ChangedAt, SameGround
  <2>4. \A x : x \in FreeIn(w, v) <=> x = value
    BY <1>0, <1>5, <2>1 DEF FreeIn
  <2>5. w.dom[v] \subseteq s.dom[v] /\ w.dom[v] \subseteq FreeIn(w, v) /\ Full(w, v)
    BY <1>3, <1>5, <1>7, <2>1, <2>4 DEF Full
  <2>6. \A x \in FreeIn(w, v) : x \in w.dom[v] \/ (x \in FreeIn(s, v) /\ x \notin s.dom[v])
    BY <2>5 DEF Full
  <2>7. w.held = s.held /\ w.violated = s.violated /\ w.fresh = s.fresh
    BY <1>5, <2>1
  <2>8. Good(w) /\ Kept(w, Z, Y)
    BY <1>0, <2>2, <2>3, <2>5, <2>6, <2>7, GoodTightened
  <2>9. Good(q) /\ Kept(q, Z, Y)
    BY <2>8, GoodRestricted
  <2> HIDE DEF q
  <2>10. QED
    BY <1>2, <1>7, <2>9 DEF z
<1>8. CASE value \notin u.dom[v]
  <2> HIDE DEF q
  <2>1. QED
    BY <1>2, <1>4, <1>8 DEF z
<1>9. QED
  BY <1>7, <1>8

(* A base domain is restricted.                                            *)
LEMMA GoodShrunk ==
  ASSUME NEW s, NEW v, NEW D, NEW Z, NEW Y, Good(s), Kept(s, Z, Y), v \in variables,
         s.base = base, s.dom = dom, base[v] \cap D # {}, s.spec[v] \in D \cup {NoValue}
  PROVE  /\ Good(Shrunk(s, v, D)) /\ Kept(Shrunk(s, v, D), Z, Y)
         /\ Shrunk(s, v, D).base[v] = base[v] \cap D
<1> DEFINE t == Narrowed(s, v, D)
           e == Emptied(t, v)
           r == Restricted(t, v)
           z == Shrunk(s, v, D)
<1>0. v \in Var /\ s \in Networks /\ Undisturbed /\ Obliging /\ SoundIn(s, redundant) /\ Basic(s) /\ ~Inactive(v)
  BY GoodFacts DEF Good
<1>1. /\ t.dom[v] = dom[v] => z = t
      /\ t.dom[v] # dom[v] /\ t.dom[v] = {} => z = e
      /\ t.dom[v] # dom[v] /\ t.dom[v] # {} => z = r
  BY Zenon DEF Shrunk
<1>2. /\ t \in Networks /\ t.constraints = s.constraints /\ t.spec = s.spec
      /\ t.held = s.held /\ t.violated = s.violated /\ t.agenda = s.agenda
      /\ t.fresh = s.fresh /\ t.relaxed = s.relaxed /\ t.empties = s.empties
      /\ t.base[v] = base[v] \cap D /\ t.dom[v] = s.dom[v] \cap (base[v] \cap D)
      /\ \A w \in Var : w # v => t.dom[w] = s.dom[w] /\ t.base[w] = s.base[w]
  BY <1>0, NarrowedEffect
<1>3. Basic(z) /\ z.base[v] = base[v] \cap D
  BY <1>0, BasicShrunk
<1> HIDE DEF t, z
<1>4. ASSUME NEW y, Basic(y), SameGround(t, y), y.dom = t.dom, y.spec = t.spec, y.held = t.held,
             y.violated = t.violated, y.fresh = t.fresh, t.empties \subseteq y.empties
      PROVE  Good(y) /\ Kept(y, Z, Y)
  <2>1. ChangedAt(s, y, v) /\ y.base[v] = base[v] \cap D /\ y.dom[v] = s.dom[v] \cap (base[v] \cap D)
    BY <1>2, <1>4 DEF ChangedAt, SameGround
  <2>2. /\ s.spec[v] = NoValue => FreeIn(y, v) = base[v] \cap D /\ FreeIn(s, v) = base[v]
        /\ s.spec[v] # NoValue => FreeIn(y, v) = {s.spec[v]} /\ FreeIn(s, v) = {s.spec[v]}
    BY <1>2, <1>4, <2>1 DEF FreeIn
  <2>3. s.dom[v] \subseteq FreeIn(s, v)
    BY <1>0 DEF SoundIn
  <2>4. y.dom[v] = {} => v \in y.empties
    BY <1>0, <1>4 DEF Basic, BasicIn
  <2>5. /\ y.dom[v] \subseteq s.dom[v] /\ y.dom[v] \subseteq FreeIn(y, v)
        /\ y.base[v] \subseteq s.base[v]
    BY <2>1, <2>2, <2>3
  <2>6. y.held = s.held /\ y.violated = s.violated /\ y.fresh = s.fresh /\ s.empties \subseteq y.empties
    BY <1>2, <1>4
  <2>7. ASSUME v \notin y.empties
        PROVE  /\ v \in s.fresh => Full(y, v)
               /\ \A x \in FreeIn(y, v) : x \in y.dom[v] \/ (x \in FreeIn(s, v) /\ x \notin s.dom[v])
    <3>1. CASE s.spec[v] = NoValue
      <4>1. v \in s.fresh => FreeIn(s, v) \subseteq s.dom[v]
        BY <1>0, <2>6, <2>7 DEF SoundIn, Full
      <4>2. QED
        BY <2>1, <2>2, <3>1, <4>1 DEF Full
    <3>2. CASE s.spec[v] # NoValue
      <4>1. s.spec[v] \in y.dom[v]
        BY <2>2, <2>4, <2>5, <2>7, <3>2
      <4>2. QED
        BY <2>2, <3>2, <4>1 DEF Full
    <3>3. QED
      BY <3>1, <3>2
  <2>8. QED
    BY <1>0, <1>4, <2>1, <2>5, <2>6, <2>7, GoodTightened
<1>5. CASE t.dom[v] = dom[v]
  <2>1. SameGround(t, t)
    BY DEF SameGround
  <2>2. QED
    BY <1>1, <1>3, <1>4, <1>5, <2>1 DEF z
<1>6. CASE t.dom[v] # dom[v] /\ t.dom[v] = {}
  <2>1. /\ SameGround(t, e) /\ e.dom = t.dom /\ e.spec = t.spec /\ e.held = t.held
        /\ e.violated = t.violated /\ e.fresh = t.fresh /\ t.empties \subseteq e.empties
    BY <1>0, <1>2, EmptiedEffect
  <2> HIDE DEF e
  <2>2. QED
    BY <1>1, <1>3, <1>4, <1>6, <2>1 DEF z
<1>7. CASE t.dom[v] # dom[v] /\ t.dom[v] # {}
  <2>1. /\ SameGround(t, r) /\ r.dom = t.dom /\ r.spec = t.spec /\ r.held = t.held
        /\ r.violated = t.violated /\ r.fresh = t.fresh /\ t.empties \subseteq r.empties
    BY <1>2, RestrictedEffect DEF Alike
  <2> HIDE DEF r
  <2>2. QED
    BY <1>1, <1>3, <1>4, <1>7, <2>1 DEF z
<1>8. QED
  BY <1>5, <1>6, <1>7

LEMMA GoodRestrictedBase ==
  ASSUME NEW v, NEW D, NEW Z, NEW Y, Good(Now), Kept(Now, Z, Y), v \in variables, ~allow,
         base[v] \cap D # {}, spec[v] \in D \cup {NoValue}
  PROVE  Good(RestrictedBase(v, D)) /\ Kept(RestrictedBase(v, D), Z, Y)
<1> DEFINE t == Shrunk(Now, v, D)
           value == CHOOSE x \in base[v] \cap D : TRUE
           u == SpecifyDomain(t, v, value)
           w == Settled(Now, v, D)
<1>1. value \in Value /\ value \in base[v] \cap D
  BY GoodFacts, NowFields DEF Networks, Domains
<1>2. w = t \/ w = u
  BY DEF Settled
<1>3. Good(t) /\ Kept(t, Z, Y) /\ t.base[v] = base[v] \cap D
  <2>1. Now.base = base /\ Now.dom = dom /\ Now.spec[v] \in D \cup {NoValue}
    BY NowFields
  <2> HIDE DEF t
  <2>2. QED
    BY <2>1, GoodShrunk DEF t
<1> HIDE DEF t, value
<1>4. Good(u) /\ Kept(u, Z, Y)
  BY <1>1, <1>3, GoodSpecifyDomain
<1> HIDE DEF u
<1>5. RestrictedBase(v, D) = Restricted(w, v)
  BY RestrictedBaseIs
<1>6. Good(w) /\ Kept(w, Z, Y)
  BY <1>2, <1>3, <1>4
<1> HIDE DEF w
<1>7. Good(Restricted(w, v)) /\ Kept(Restricted(w, v), Z, Y)
  BY <1>6, GoodRestricted
<1>8. QED
  BY <1>5, <1>7, Zenon
-----------------------------------------------------------------------------
(* The invariant.                                                          *)
NoVar == {}

LosslessIn(s, R) == SoundIn(s, R) /\ Kept(s, NoVar, NoVar)

Lossless == LosslessIn(Now, redundant) /\ ~allow /\ (propagating => fresh = {})

LEMMA LosslessNow ==
  ASSUME Strict, Inv, Lossless
  PROVE  /\ Good(Now) /\ Kept(Now, NoVar, NoVar) /\ SoundIn(Now, redundant) /\ ~allow
         /\ \A v \in Var : ~Inactive(v)
<1>1. Good(Now)
  BY InvBasic DEF Strict, Lossless, LosslessIn, Good
<1>2. QED
  BY <1>1, GoodFacts DEF Lossless, LosslessIn

LEMMA LosslessStep ==
  ASSUME NEW t, t \in Networks, Become(t), SoundIn(t, redundant'), Kept(t, NoVar, NoVar), ~allow',
         propagating' => t.fresh = {}
  PROVE  Lossless'
<1>1. Now' = t /\ fresh' = t.fresh
  BY BecomeIs DEF Become
<1>2. LosslessIn(t, redundant')
  BY DEF LosslessIn
<1>3. QED
  BY <1>1, <1>2 DEF Lossless

(* A call of a client that leaves the redundant constraints as they are.   *)
LEMMA LosslessCall ==
  ASSUME Lossless, NEW t, Good(t), Kept(t, NoVar, NoVar), Become(t), UNCHANGED <<redundant, allow, propagating>>,
         ~propagating
  PROVE  Lossless'
<1>1. t \in Networks /\ SoundIn(t, redundant) /\ ~allow
  BY GoodFacts DEF Good, Lossless
<1>2. QED
  BY <1>1, LosslessStep

LEMMA LosslessReset ==
  ASSUME Strict, Inv, Lossless, NEW v \in Var, Reset(v)
  PROVE  Lossless'
<1>1. /\ v \in variables /\ Become(ResetDomain(Now, v)) /\ ~propagating
      /\ UNCHANGED <<redundant, allow, propagating>>
  BY DEF Reset, Idle, status
<1>2. Good(ResetDomain(Now, v)) /\ Kept(ResetDomain(Now, v), NoVar, NoVar)
  BY <1>1, LosslessNow, GoodResetDomain
<1>3. QED
  BY <1>1, <1>2, LosslessCall

LEMMA LosslessSpecify ==
  ASSUME Strict, Inv, Lossless, NEW v \in Var, NEW value \in Value, Specify(v, value)
  PROVE  Lossless'
<1>1. /\ v \in variables /\ value \in Now.base[v] /\ Become(SpecifyDomain(Now, v, value)) /\ ~propagating
      /\ UNCHANGED <<redundant, allow, propagating>>
  BY NowFields DEF Specify, Dirtied, Idle, status
<1>2. Good(SpecifyDomain(Now, v, value)) /\ Kept(SpecifyDomain(Now, v, value), NoVar, NoVar)
  BY <1>1, LosslessNow, GoodSpecifyDomain
<1>3. QED
  BY <1>1, <1>2, LosslessCall

LEMMA LosslessSetAllowViolations ==
  ASSUME Strict, Lossless, NEW b \in Tolerances, SetAllowViolations(b)
  PROVE  Lossless'
<1>1. Now' = Now /\ UNCHANGED <<redundant, propagating, fresh>> /\ ~allow'
  BY DEF SetAllowViolations, Now, net, status, Strict
<1>2. QED
  BY <1>1 DEF Lossless

LEMMA LosslessNewCycle ==
  ASSUME NEW s, Good(s), Kept(s, NoVar, NoVar)
  PROVE  Good(NewCycle(s)) /\ Kept(NewCycle(s), NoVar, NoVar) /\ NewCycle(s).fresh = {}
<1> DEFINE t == NewCycle(s)
<1>1. /\ SameGround(s, t) /\ t.held = s.held /\ t.violated = s.violated /\ t.dom = s.dom
      /\ t.spec = s.spec /\ t.empties = s.empties /\ t.fresh = {} /\ Basic(t)
  BY NewCycleEffect, BasicNewCycle, GoodFacts DEF Good
<1> HIDE DEF t
<1>2. Unmoved(s, t)
  BY <1>1 DEF Unmoved
<1>3. Good(t) /\ Kept(t, NoVar, NoVar)
  BY <1>1, <1>2, GoodUnmoved, KeptUnmoved
<1>4. QED
  BY <1>1, <1>3 DEF t

LEMMA LosslessStartPropagation ==
  ASSUME Strict, Inv, Lossless, StartPropagation
  PROVE  Lossless'
<1> DEFINE yes == TRUE
           t == RelaxEmpties(Now, yes)
           r == NewCycle(t)
<1>1. Become(r) /\ UNCHANGED <<redundant, allow>> /\ yes = TRUE
  BY DEF StartPropagation, status
<1> HIDE DEF yes
<1>2. Good(t) /\ Kept(t, NoVar, NoVar)
  BY <1>1, LosslessNow, GoodRelaxEmpties
<1> HIDE DEF t
<1>3. Good(r) /\ Kept(r, NoVar, NoVar) /\ r.fresh = {}
  BY <1>2, LosslessNewCycle
<1> HIDE DEF r
<1>4. r \in Networks /\ SoundIn(r, redundant) /\ ~allow
  BY <1>3, GoodFacts DEF Good, Lossless
<1>5. QED
  BY <1>1, <1>3, <1>4, LosslessStep

LEMMA LosslessPreemptPropagation ==
  ASSUME Strict, Inv, Lossless, PreemptPropagation
  PROVE  Lossless'
<1> DEFINE r == NewCycle(Now)
<1>1. Become(r) /\ UNCHANGED <<redundant, allow>>
  BY DEF PreemptPropagation, status
<1>2. Good(r) /\ Kept(r, NoVar, NoVar) /\ r.fresh = {}
  BY LosslessNow, LosslessNewCycle
<1> HIDE DEF r
<1>3. r \in Networks /\ SoundIn(r, redundant) /\ ~allow
  BY <1>2, GoodFacts DEF Good, Lossless
<1>4. QED
  BY <1>1, <1>2, <1>3, LosslessStep

LEMMA InitialIsFree ==
  ASSUME NEW v
  PROVE  InitialValue(v) # NoValue => BaseDomain[v] = {InitialValue(v)}
BY DEF InitialValue, Singleton

LEMMA LosslessAddVariable ==
  ASSUME Strict, Inv, Lossless, NEW v \in Var, AddVariable(v)
  PROVE  Lossless'
<1> DEFINE t == NewVariable(Now, v)
<1>0. Good(Now) /\ Kept(Now, NoVar, NoVar) /\ SoundIn(Now, redundant) /\ Now \in Networks
  BY LosslessNow, GoodFacts
<1>1. /\ Become(t) /\ v \notin variables /\ ~propagating
      /\ UNCHANGED <<redundant, allow, propagating>>
  BY DEF AddVariable, NewVariable, Dirtied, Idle, status
<1>2. /\ t \in Networks /\ t.constraints = Now.constraints
      /\ t.held = Now.held /\ t.violated = Now.violated
      /\ t.fresh = Now.fresh /\ t.empties = Now.empties
      /\ t.dom[v] = BaseDomain[v] /\ t.base[v] = BaseDomain[v] /\ t.spec[v] = InitialValue(v)
      /\ \A w \in Var : w # v => /\ t.dom[w] = Now.dom[w] /\ t.base[w] = Now.base[w]
                                 /\ t.spec[w] = Now.spec[w]
  BY <1>0, NewVariableEffect
<1> HIDE DEF t
<1>3. \A c \in t.constraints : \A w \in Vars(c) : w \in Var /\ w # v
  BY <1>0, <1>1, <1>2, GoodFacts
<1>4. \A c \in redundant : c \in t.constraints
  BY <1>2, NowFields DEF Inv
<1>5. t.dom[v] = FreeIn(t, v) /\ Full(t, v)
  BY <1>2, InitialIsFree DEF FreeIn, Full
<1>6. ChangedAt(Now, t, v)
  BY <1>2 DEF ChangedAt
<1>7. \A w \in Var : w # v => FreeIn(t, w) = FreeIn(Now, w) /\ (Full(Now, w) <=> Full(t, w))
  BY <1>6, FreeElsewhere
<1>8. SoundIn(t, redundant)
  <2>1. \A w \in Var : t.dom[w] \subseteq FreeIn(t, w)
    BY <1>0, <1>2, <1>5, <1>7 DEF SoundIn
  <2>2. \A w \in t.fresh : w \notin t.empties => Full(t, w)
    BY <1>0, <1>2, <1>5, <1>7 DEF SoundIn, Networks
  <2>3. \A c \in redundant : \A w \in Vars(c) : Singleton(t.base[w])
    BY <1>0, <1>2, <1>3, <1>4 DEF SoundIn
  <2>4. QED
    BY <1>0, <1>2, <2>1, <2>2, <2>3 DEF SoundIn
<1>9. Kept(t, NoVar, NoVar)
  <2> SUFFICES ASSUME NEW X, NEW a, Lost(t, X, a, NoVar, NoVar)
               PROVE  FALSE
    BY DEF Kept
  <2>1. \A w \in X : w \in Var /\ w # v /\ a[w] \in FreeIn(Now, w) /\ a[w] \notin Now.dom[w]
    BY <1>2, <1>5, <1>7 DEF Lost
  <2>2. Lost(Now, X, a, NoVar, NoVar)
    BY <1>2, <1>3, <2>1 DEF Lost
  <2>3. QED
    BY <1>0, <2>2 DEF Kept
<1>10. QED
  BY <1>1, <1>2, <1>8, <1>9, LosslessStep DEF Lossless

LEMMA SameSpec ==
  ASSUME NEW s, NEW v, s \in Networks, v \in Var
  PROVE  WithSpec(s, v, s.spec[v]) = s /\ s.spec[v] \in Value \cup {NoValue}
<1>1. [s.spec EXCEPT ![v] = s.spec[v]] = s.spec
  BY DEF Networks
<1>2. QED
  BY <1>1 DEF WithSpec, Networks

LEMMA LosslessEmptied ==
  ASSUME NEW s, NEW v, Good(s), Kept(s, NoVar, NoVar), v \in variables
  PROVE  Good(WithoutValues(s, v)) /\ Kept(WithoutValues(s, v), NoVar, NoVar)
<1> DEFINE x == s.spec[v]
           N == NoVar
<1>1. v \in Var /\ s \in Networks
  BY GoodFacts
<1>2. WithSpec(s, v, x) = s /\ x \in Value \cup {NoValue} /\ x \in s.base[v] \cup {NoValue}
  BY <1>1, SameSpec, GoodFacts DEF Contained
<1>3. Kept(s, N, N)
  OBVIOUS
<1> HIDE DEF x, N
<1>4. /\ Good(WithoutValues(WithSpec(s, v, x), v))
      /\ Kept(WithoutValues(WithSpec(s, v, x), v), N, N)
  BY <1>2, <1>3, GoodWithoutValues
<1>5. QED
  BY <1>2, <1>4 DEF N

LEMMA LosslessReadDerivedDomain ==
  ASSUME Strict, Inv, Lossless, NEW v \in Var, ReadDerivedDomain(v)
  PROVE  Lossless'
<1> DEFINE t == WithoutValues(Now, v)
<1>1. /\ v \in variables /\ Become(t) /\ ~propagating
      /\ UNCHANGED <<redundant, allow, propagating>>
  BY DEF ReadDerivedDomain, WithoutValues, WithDomain, Dirtied, Idle, status
<1>2. Good(t) /\ Kept(t, NoVar, NoVar)
  BY <1>1, LosslessNow, LosslessEmptied
<1> HIDE DEF t
<1>3. QED
  BY <1>1, <1>2, LosslessCall

LEMMA LosslessExecuteInconsistently ==
  ASSUME Strict, Inv, Lossless, NEW c \in Constraint, ExecuteInconsistently(c)
  PROVE  Lossless'
<1>1. PICK v \in Vars(c) : Inactive(v) \/ ~allow => Become(Dropped(WithoutValues(Now, v)))
  BY ExecuteInconsistentlyIs
<1> DEFINE t == WithoutValues(Now, v)
           r == Dropped(t)
<1>2. Good(Now) /\ Kept(Now, NoVar, NoVar) /\ ~allow /\ Now \in Networks /\ Basic(Now)
  BY LosslessNow, GoodFacts DEF Good
<1>3. v \in variables /\ v \in Var
  <2>1. c \in Now.constraints
    BY <1>2, NowFields DEF ExecuteInconsistently, Basic, BasicIn
  <2>2. QED
    BY <1>2, <2>1, GoodFacts
<1>4. Become(r) /\ UNCHANGED <<redundant, allow, propagating>> /\ propagating
  BY <1>1, <1>2 DEF ExecuteInconsistently, Propagating, status
<1>5. t.fresh = Now.fresh
  BY <1>2, <1>3, WithoutValuesEffect
<1>6. Good(t) /\ Kept(t, NoVar, NoVar)
  BY <1>2, <1>3, LosslessEmptied
<1> HIDE DEF t
<1>7. r \in Networks /\ Alike(t, r) /\ r.agenda = {} /\ r.relaxed = t.relaxed
  BY <1>6, DroppedEffect, GoodFacts
<1>8. r.agenda \subseteq t.agenda \cup Active(t) /\ r.relaxed \subseteq t.relaxed
  BY <1>7
<1> HIDE DEF r
<1>9. Basic(r)
  BY <1>6, <1>7, <1>8, BasicAlike DEF Good
<1>10. Good(r) /\ Unmoved(t, r)
  BY <1>6, <1>7, <1>9, GoodAlike
<1>11. Kept(r, NoVar, NoVar)
  BY <1>6, <1>10, KeptUnmoved
<1>12. r.fresh = {}
  BY <1>4, <1>5, <1>7, NowFields DEF Alike, Lossless
<1>13. SoundIn(r, redundant)
  BY <1>10 DEF Good
<1>14. QED
  BY <1>2, <1>4, <1>7, <1>11, <1>12, <1>13, LosslessStep

LEMMA LosslessCompletePropagation ==
  ASSUME Strict, Inv, Lossless, CompletePropagation
  PROVE  Lossless'
<1> DEFINE d == Deactivated(Now, buffered)
           s == IF started THEN d ELSE Now
           r == NewCycle(s)
<1>0. /\ SoundIn(Now, redundant) /\ Kept(Now, NoVar, NoVar) /\ Now \in Networks
      /\ buffered \subseteq redundant /\ buffered \subseteq Constraint
      /\ \A c \in Now.constraints : c \in Constraint
  BY LosslessNow, GoodFacts DEF Inv, SoundIn
<1>1. Become(r) /\ UNCHANGED <<redundant, allow>>
  BY DEF CompletePropagation
<1>2. /\ d \in Networks /\ SameGround(Now, d) /\ d.dom = Now.dom /\ d.spec = Now.spec
      /\ d.empties = Now.empties /\ d.violated = Now.violated
      /\ \A c \in Constraint : c \notin buffered => d.held[c] = Now.held[c]
  BY <1>0, DeactivatedEffect
<1> HIDE DEF d
<1>3. /\ s \in Networks /\ SameGround(Now, s) /\ s.dom = Now.dom /\ s.spec = Now.spec
      /\ s.empties = Now.empties /\ s.violated = Now.violated
      /\ \A c \in Constraint : c \notin buffered => s.held[c] = Now.held[c]
  BY <1>0, <1>2 DEF SameGround
<1> HIDE DEF s
<1>4. /\ r \in Networks /\ SameGround(s, r) /\ r.held = s.held /\ r.violated = s.violated
      /\ r.dom = s.dom /\ r.spec = s.spec /\ r.empties = s.empties /\ r.fresh = {}
  BY <1>3, NewCycleEffect
<1> HIDE DEF r
<1>5. Unmoved(Now, r)
  BY <1>3, <1>4 DEF Unmoved, SameGround
<1>6. \A c \in r.constraints : r.held[c] # 0 => Now.held[c] # 0 \/ c \in redundant
  BY <1>0, <1>3, <1>4 DEF SameGround
<1>7. r.violated = {}
  BY <1>0, <1>3, <1>4 DEF SoundIn
<1>8. \A v \in r.fresh : v \in Now.fresh \/ Full(Now, v)
  BY <1>4
<1>9. SoundIn(r, redundant)
  BY <1>0, <1>5, <1>6, <1>7, <1>8, SoundUnmoved
<1>10. Kept(r, NoVar, NoVar)
  BY <1>0, <1>5, KeptUnmoved
<1>11. QED
  BY <1>1, <1>4, <1>9, <1>10, LosslessStep DEF Lossless

LEMMA LosslessAddConstraint ==
  ASSUME Strict, Inv, Lossless, NEW c \in Constraint, AddConstraint(c)
  PROVE  Lossless'
<1> DEFINE S == IF Withheld(c) = 0 THEN {c} ELSE {}
           t == Joined(Now, c, S)
<1>0. /\ SoundIn(Now, redundant) /\ Kept(Now, NoVar, NoVar) /\ Now \in Networks
      /\ \A v \in Var : ~Inactive(v)
      /\ \A d \in Now.constraints : d \in Constraint
  BY LosslessNow, GoodFacts
<1>1. /\ Become(t) /\ c \notin constraints /\ UNCHANGED <<allow, propagating>> /\ ~propagating
      /\ redundant' = IF AllSingleton(c, base) THEN redundant \cup {c} ELSE redundant
  BY DEF AddConstraint, Joined, Idle, Dirtied
<1>2. S \subseteq {c}
  OBVIOUS
<1> HIDE DEF S
<1>3. /\ t \in Networks /\ t.constraints = Now.constraints \cup {c}
      /\ t.base = Now.base /\ t.dom = Now.dom /\ t.spec = Now.spec /\ t.fresh = Now.fresh
      /\ t.empties = Now.empties /\ t.violated = Now.violated
      /\ t.held[c] = Withheld(c)
      /\ \A d \in Constraint : d # c => t.held[d] = Now.held[d]
  BY <1>0, <1>2, JoinedEffect
<1> HIDE DEF t
<1>4. Withheld(c) = 0
  <2>1. {v \in Vars(c) : Inactive(v)} = {}
    BY <1>0, ScopeType
  <2>2. Cardinality({}) = 0
    BY FS_EmptySet
  <2>3. Withheld(c) = 0 % UIntMod
    BY <2>1, <2>2 DEF Withheld
  <2>4. QED
    BY <2>3, CountIsNat
<1>5. \A w : FreeIn(t, w) = FreeIn(Now, w)
  BY <1>3 DEF FreeIn
<1>6. redundant' \subseteq Constraint /\ \A d \in redundant' : \A v \in Vars(d) : Singleton(t.base[v])
  BY <1>0, <1>1, <1>3, NowFields DEF SoundIn, AllSingleton
<1>7. \A d \in t.constraints : t.held[d] # 0 => d \in redundant'
  BY <1>0, <1>1, <1>3, <1>4 DEF SoundIn
<1>8. SoundIn(t, redundant')
  BY <1>0, <1>3, <1>5, <1>6, <1>7 DEF SoundIn, Full
<1>9. Kept(t, NoVar, NoVar)
  <2> SUFFICES ASSUME NEW X, NEW a, Lost(t, X, a, NoVar, NoVar)
               PROVE  FALSE
    BY DEF Kept
  <2>1. Lost(Now, X, a, NoVar, NoVar)
    BY <1>3, <1>5 DEF Lost
  <2>2. QED
    BY <1>0, <2>1 DEF Kept
<1>10. QED
  BY <1>1, <1>3, <1>8, <1>9, LosslessStep DEF Lossless

LEMMA LosslessRemoveConstraint ==
  ASSUME Strict, Inv, Lossless, NEW c \in Constraint, RemoveConstraint(c)
  PROVE  Lossless'
<1> DEFINE s == Unlinked(Now, c)
           u == GivenBack(s, c)
           t == Forgotten(u, c)
<1>0. /\ Basic(Now) /\ SoundIn(Now, redundant) /\ Kept(Now, NoVar, NoVar) /\ Now \in Networks
      /\ Good(Now) /\ \A d \in Now.constraints : d \in Constraint /\ Vars(d) \subseteq variables
  BY LosslessNow, GoodFacts DEF Good
<1>1. /\ Become(t) /\ c \in constraints /\ UNCHANGED <<allow, propagating>> /\ ~propagating
      /\ redundant' = redundant \ {c}
  BY DEF RemoveConstraint, Forgotten, Idle, Dirtied
<1>2. /\ s \in Networks /\ s.constraints = Now.constraints \ {c}
      /\ s.base = Now.base /\ s.dom = Now.dom /\ s.spec = Now.spec /\ s.fresh = Now.fresh
      /\ s.relaxed = Now.relaxed /\ s.empties = Now.empties /\ s.violated = Now.violated
      /\ s.agenda = Now.agenda \ {c} /\ s.held = Now.held
  BY <1>0, UnlinkedEffect
<1> HIDE DEF s
<1>3. CountedIn(Now, out, redundant) => CountedIn(s, out, redundant)
  BY <1>2 DEF CountedIn
<1>4. Basic(s)
  <2>1. s.agenda \subseteq s.constraints
    BY <1>0, <1>2 DEF Basic, BasicIn
  <2>2. \A d \in s.constraints : Vars(d) \subseteq variables
    BY <1>0, <1>2
  <2>3. Contained(Now) => Contained(s)
    BY <1>2 DEF Contained
  <2>4. QED
    BY <1>0, <1>2, <1>3, <2>1, <2>2, <2>3 DEF Basic, BasicIn
<1>5. \A w : FreeIn(s, w) = FreeIn(Now, w)
  BY <1>2 DEF FreeIn
<1>6. Good(s)
  <2>1. SoundIn(s, redundant)
    BY <1>0, <1>2, <1>5 DEF SoundIn, Full
  <2>2. QED
    BY <1>0, <1>4, <2>1 DEF Good
<1>7. c \in Now.constraints /\ Vars(c) \subseteq variables
  BY <1>0, <1>1, NowFields
<1>8. ASSUME NEW X, NEW a, NEW Z, Lost(s, X, a, Z, NoVar), \A w \in X : w \notin Vars(c)
      PROVE  FALSE
  <2>1. Lost(Now, X, a, NoVar, NoVar)
    BY <1>2, <1>5, <1>8 DEF Lost, NoVar
  <2>2. QED
    BY <1>0, <2>1 DEF Kept
<1>9. Good(u) /\ Kept(u, NoVar, NoVar)
  <2>1. CASE s.held[c] = 0
    <3>1. Kept(s, Vars(c), NoVar)
      BY <1>8 DEF Kept, Lost
    <3> HIDE DEF u
    <3>2. \A V : Good(u) /\ Kept(u, V, NoVar)
      BY <1>6, <1>7, <2>1, <3>1, GoodGivenBack DEF u
    <3>3. QED
      BY <3>2
  <2>2. CASE s.held[c] # 0
    <3>1. u = s
      <4>1. s.held[c] \in Nat
        BY <1>2, HeldIsCount
      <4>2. s.held[c] > 0
        BY <2>2, <4>1
      <4>3. QED
        BY <4>2, Zenon DEF GivenBack
    <3>2. ASSUME NEW X, NEW a, Lost(s, X, a, NoVar, NoVar)
          PROVE  FALSE
      <4>1. \A w \in X : w \in Var /\ w \notin Now.empties /\ ~Full(Now, w)
        BY <1>2, <1>5, <3>2 DEF Lost, Full
      <4>2. \A w \in X : w \in Vars(c) => c \in Active(Now)
        BY <1>0, <1>7, <4>1, MissingIsOpen
      <4>3. \A w \in X : w \notin Vars(c)
        BY <1>2, <2>2, <4>2 DEF Active
      <4>4. QED
        BY <1>8, <3>2, <4>3
    <3>3. QED
      BY <1>6, <3>1, <3>2 DEF Kept
  <2>3. QED
    BY <2>1, <2>2
<1>10. Basic(u) /\ SameGround(s, u)
  BY <1>4, <1>7, BasicGivenBack
<1> HIDE DEF u
<1>11. /\ t \in Networks /\ SameGround(u, t) /\ t.dom = u.dom /\ t.spec = u.spec
       /\ t.fresh = u.fresh /\ t.empties = u.empties /\ t.violated = u.violated \ {c}
       /\ \A d \in Constraint : d # c => t.held[d] = u.held[d]
  BY <1>10, ForgottenEffect, BasicIsNetwork
<1> HIDE DEF t
<1>12. Unmoved(u, t)
  BY <1>11 DEF Unmoved
<1>13. Kept(t, NoVar, NoVar)
  BY <1>9, <1>12, KeptUnmoved
<1>14. SoundIn(t, redundant \ {c})
  <2>1. SoundIn(u, redundant) /\ \A w : FreeIn(t, w) = FreeIn(u, w)
    BY <1>9, <1>11 DEF Good, SameGround, FreeIn
  <2>2. \A d \in t.constraints : d # c /\ d \in Constraint /\ d \in u.constraints
    BY <1>0, <1>2, <1>10, <1>11 DEF SameGround
  <2>3. QED
    BY <1>11, <2>1, <2>2 DEF SoundIn, SameGround, Full
<1>15. QED
  BY <1>1, <1>11, <1>13, <1>14, LosslessStep DEF Lossless

LEMMA LosslessRestrictBaseDomain ==
  ASSUME Strict, Inv, Lossless, NEW v \in Var, NEW D, RestrictBaseDomain(v, D),
         spec[v] \in D \cup {NoValue}
  PROVE  Lossless'
<1> DEFINE s == RestrictedBase(v, D)
           now == {c \in On(s, v) \ redundant : AllSingleton(c, s.base)}
           A == s.agenda \cup (now \cap Active(s))
           t == [s EXCEPT !.agenda = A]
           R == redundant \cup now
<1>1. /\ v \in variables /\ base[v] \cap D # {} /\ Become(t) /\ redundant' = R
      /\ UNCHANGED <<allow, propagating>> /\ ~propagating
  BY DEF RestrictBaseDomain, Idle, Dirtied
<1>2. Good(s) /\ Kept(s, NoVar, NoVar)
  BY <1>1, LosslessNow, GoodRestrictedBase
<1>3. now \subseteq s.constraints /\ \A c \in now : \A w \in Vars(c) : Singleton(s.base[w])
  BY DEF On, AllSingleton
<1>4. \A c : c \in R <=> c \in redundant \/ c \in now
  OBVIOUS
<1>5. A \subseteq s.agenda \cup Active(s)
  OBVIOUS
<1> HIDE DEF s, now, A, R
<1>6. s \in Networks /\ SoundIn(s, redundant) /\ s.constraints \subseteq Constraint
  BY <1>2, GoodFacts DEF Good
<1>7. A \subseteq Constraint
  BY <1>5, <1>6 DEF Networks, Active
<1>8. t \in Networks /\ Alike(s, t)
  BY <1>6, <1>7, SetAgenda
<1> HIDE DEF t
<1>9. Unmoved(s, t)
  BY <1>8 DEF Unmoved, Alike
<1>10. Kept(t, NoVar, NoVar)
  BY <1>2, <1>9, KeptUnmoved
<1>11. SoundIn(t, R)
  <2>1. \A w : FreeIn(t, w) = FreeIn(s, w)
    BY <1>8 DEF Alike, SameGround, FreeIn
  <2>2. R \subseteq Constraint /\ \A c \in R : \A w \in Vars(c) : Singleton(t.base[w])
    BY <1>3, <1>4, <1>6, <1>8 DEF SoundIn, Alike, SameGround
  <2>3. \A c \in t.constraints : t.held[c] # 0 => c \in R
    BY <1>4, <1>6, <1>8 DEF SoundIn, Alike, SameGround
  <2>4. QED
    BY <1>6, <1>8, <2>1, <2>2, <2>3 DEF SoundIn, Alike, SameGround, Full
<1>12. QED
  BY <1>1, <1>8, <1>10, <1>11, LosslessStep DEF Lossless

(* Filtering takes no value that the assignments to c still support.       *)
LEMMA KeptFiltered ==
  ASSUME NEW c \in Constraint, NEW s, Kept(Now, NoVar, NoVar), c \in constraints, SameGround(Now, s),
         s.spec = Now.spec, s.empties = Now.empties, s.dom = Filtered(c, dom),
         dom \in Domains, \A d \in constraints : Vars(d) \subseteq Var
  PROVE  Kept(s, NoVar, NoVar)
<1> DEFINE f == Filtered(c, dom)
<1>1. SUFFICES ASSUME NEW X, NEW a, Lost(s, X, a, NoVar, NoVar)
               PROVE  FALSE
  BY DEF Kept
<1>2. /\ \A v \in Var : f[v] \subseteq dom[v]
      /\ \A v \in Var : v \notin Vars(c) => f[v] = dom[v]
  BY FilteredType
<1>3. \A v \in Vars(c) : \A t \in Supports(c, dom) : t[v] \in f[v]
  BY ScopeType DEF Filtered
<1> HIDE DEF f
<1>4. \A w : FreeIn(s, w) = FreeIn(Now, w)
  BY DEF SameGround, FreeIn
<1>5. /\ X \subseteq Var /\ X # {}
      /\ \A w \in X : /\ w \notin empties /\ w \notin NoVar
                      /\ a[w] \in FreeIn(Now, w) /\ a[w] \notin f[w]
      /\ \A d \in constraints : \A w \in X :
           w \in Vars(d) =>
             /\ Satisfied(d, a)
             /\ \A u \in Vars(d) : u \notin NoVar /\ (u \in X \/ a[u] \in f[u])
  BY <1>1, <1>4, NowFields DEF Lost, SameGround, f
<1>6. \A d \in constraints : \A w \in X : w \in Vars(d) => \A u \in Vars(d) : u \in X \/ a[u] \in dom[u]
  BY <1>2, <1>5
<1>7. CASE \A w \in X : a[w] \in dom[w]
  <2>1. PICK w \in X : w \in Var /\ a[w] \in dom[w] /\ a[w] \notin f[w]
    BY <1>5, <1>7
  <2>2. w \in Vars(c)
    BY <1>2, <2>1
  <2>3. PICK t \in Allowed[c] : \A v \in Vars(c) : t[v] = a[v]
    BY <1>5, <2>2 DEF Satisfied
  <2>4. t \in Supports(c, dom)
    BY <1>6, <1>7, <2>2, <2>3 DEF Supports
  <2>5. QED
    BY <1>3, <2>1, <2>2, <2>3, <2>4
<1>8. CASE \E w \in X : a[w] \notin dom[w]
  <2> DEFINE Y == {w \in X : a[w] \notin dom[w]}
  <2>1. /\ Y \subseteq Var /\ Y # {} /\ Y \subseteq X
        /\ \A w \in Y : w \notin empties /\ w \notin NoVar /\ a[w] \in FreeIn(Now, w) /\ a[w] \notin dom[w]
    BY <1>5, <1>8
  <2>2. \A w \in X : w \in Y \/ a[w] \in dom[w]
    OBVIOUS
  <2> HIDE DEF Y
  <2>3. \A d \in constraints : \A w \in Y :
          w \in Vars(d) =>
            /\ Satisfied(d, a)
            /\ \A u \in Vars(d) : u \notin NoVar /\ (u \in Y \/ a[u] \in dom[u])
    BY <1>5, <1>6, <2>1, <2>2
  <2>4. Lost(Now, Y, a, NoVar, NoVar)
    BY <2>1, <2>3, NowFields DEF Lost
  <2>5. QED
    BY <2>4 DEF Kept
<1>9. QED
  BY <1>7, <1>8

LEMMA LosslessExecuteConsistently ==
  ASSUME Strict, Inv, Lossless, NEW c \in Constraint, ExecuteConsistently(c)
  PROVE  Lossless'
<1> DEFINE s == WithDomains(Now, Filtered(c, dom))
           r == Executed(c)
           A == r.agenda \ {c}
           t == [r EXCEPT !.agenda = A]
<1>0. /\ SoundIn(Now, redundant) /\ Kept(Now, NoVar, NoVar) /\ Now \in Networks
      /\ \A d \in constraints : d \in Constraint /\ Vars(d) \subseteq Var
      /\ dom \in Domains /\ ~allow
  BY LosslessNow, GoodFacts, NowFields, ScopeType DEF Networks
<1>1. s \in Networks /\ r \in Networks /\ Alike(s, r)
  BY ExecutedEffect
<1>2. Become([r EXCEPT !.agenda = @ \ {c}])
  BY DEF ExecuteConsistently, Executed, Reported, WithDomains
<1>3. /\ Become(t) /\ UNCHANGED <<redundant, allow, propagating>> /\ propagating
      /\ c \in constraints
  BY <1>2 DEF ExecuteConsistently, Propagating, status, Inv, BasicIn, Now
<1>4. /\ SameGround(Now, s) /\ s.spec = Now.spec /\ s.held = Now.held /\ s.violated = Now.violated
      /\ s.fresh = Now.fresh /\ s.empties = Now.empties /\ s.dom = Filtered(c, dom)
  BY <1>0, FilteredType, WithDomainsEffect
<1> HIDE DEF s
<1>5. Kept(s, NoVar, NoVar)
  BY <1>0, <1>3, <1>4, KeptFiltered
<1>6. s.fresh = {}
  BY <1>3, <1>4, NowFields DEF Lossless
<1>7. SoundIn(s, redundant)
  <2>1. \A w : FreeIn(s, w) = FreeIn(Now, w)
    BY <1>4 DEF SameGround, FreeIn
  <2>2. \A w \in Var : s.dom[w] \subseteq Now.dom[w]
    BY <1>0, <1>4, FilteredType, NowFields
  <2>3. QED
    BY <1>0, <1>4, <1>6, <2>1, <2>2 DEF SoundIn, SameGround
<1> HIDE DEF r
<1>8. A \subseteq Constraint
  BY <1>1 DEF Networks
<1> HIDE DEF A
<1>9. t \in Networks /\ Alike(r, t)
  BY <1>1, <1>8, SetAgenda
<1> HIDE DEF t
<1>10. Alike(s, t)
  BY <1>1, <1>9 DEF Alike, SameGround
<1>11. Unmoved(s, t) /\ t.fresh = {} /\ t.held = s.held /\ t.violated = s.violated
  BY <1>6, <1>10 DEF Unmoved, Alike
<1>12. Kept(t, NoVar, NoVar)
  BY <1>5, <1>11, KeptUnmoved
<1>13. SoundIn(t, redundant)
  <2>1. \A w : FreeIn(t, w) = FreeIn(s, w)
    BY <1>10 DEF Alike, SameGround, FreeIn
  <2>2. QED
    BY <1>7, <1>10, <1>11, <2>1 DEF SoundIn, Alike, SameGround
<1>14. QED
  BY <1>0, <1>3, <1>9, <1>11, <1>12, <1>13, LosslessStep

LEMMA LosslessInit ==
  ASSUME Strict, Init
  PROVE  Lossless
<1>1. /\ constraints = {} /\ fresh = {} /\ violated = {} /\ redundant = {} /\ dom = base
      /\ \A v \in Var : spec[v] = NoValue
      /\ ~allow
  BY DEF Init, Strict
<1>2. \A v \in Var : FreeIn(Now, v) = Now.dom[v]
  BY <1>1, NowFields DEF FreeIn
<1>3. SoundIn(Now, redundant)
  BY <1>1, <1>2, NowFields DEF SoundIn
<1>4. Kept(Now, NoVar, NoVar)
  BY <1>2 DEF Kept, Lost
<1>5. QED
  BY <1>1, <1>3, <1>4 DEF Lossless, LosslessIn

LEMMA LosslessNext ==
  ASSUME Strict, Inv, Lossless, [Next]_vars
  PROVE  Lossless'
<1>1. CASE UNCHANGED vars
  <2>1. Now' = Now /\ UNCHANGED <<redundant, allow, propagating, fresh>>
    BY <1>1 DEF vars, net, status, mode, Now
  <2>2. QED
    BY <2>1 DEF Lossless
<1>2. CASE Propagate
  <2>1. ASSUME NEW c \in Constraint, Execute(c)
        PROVE  Lossless'
    BY <2>1, LosslessExecuteConsistently, LosslessExecuteInconsistently DEF Execute
  <2>2. ~ResumePropagation
    BY DEF ResumePropagation, Lossless
  <2>3. QED
    BY <1>2, <2>1, <2>2, LosslessCompletePropagation, LosslessPreemptPropagation DEF Propagate
<1>3. CASE Client
  <2>1. ASSUME NEW v \in Var, RemoveVariable(v) \/ Deactivate(v) \/ Reactivate(v)
        PROVE  FALSE
    <3>1. ~Inactive(v)
      BY LosslessNow
    <3>2. QED
      BY <2>1, <3>1 DEF RemoveVariable, Deactivate, Reactivate, Strict, Undisturbed
  <2>2. ASSUME NEW v \in Var,
               \/ AddVariable(v) \/ Reset(v) \/ ReadDerivedDomain(v)
               \/ \E value \in Value : Specify(v, value)
               \/ \E r \in Restrictions : /\ r[1] = v /\ Respects(v, r[2])
                                          /\ RestrictBaseDomain(v, r[2])
        PROVE  Lossless'
    <3>1. ASSUME NEW r \in Restrictions, Respects(v, r[2]), RestrictBaseDomain(v, r[2])
          PROVE  Lossless'
      <4>1. spec[v] \in r[2] \cup {NoValue}
        BY <3>1, RespectsWhenObliging DEF Strict
      <4>2. QED
        BY <3>1, <4>1, LosslessRestrictBaseDomain
    <3>2. QED
      BY <2>2, <3>1, LosslessAddVariable, LosslessReset, LosslessReadDerivedDomain, LosslessSpecify
  <2>3. ASSUME NEW c \in Constraint, AddConstraint(c) \/ RemoveConstraint(c)
        PROVE  Lossless'
    BY <2>3, LosslessAddConstraint, LosslessRemoveConstraint
  <2>4. ASSUME NEW b \in Tolerances, SetAllowViolations(b)
        PROVE  Lossless'
    BY <2>4, LosslessSetAllowViolations
  <2>5. CASE StartPropagation
    BY <2>5, LosslessStartPropagation
  <2>6. QED
    BY <1>3, <2>1, <2>2, <2>3, <2>4, <2>5 DEF Client
<1>4. QED
  BY <1>1, <1>2, <1>3 DEF Next

(* A solution some of whose values are missing from their domains is a set *)
(* of missing values that nothing speaks against.                          *)
LEMMA LosslessMeans ==
  ASSUME Strict, Inv, Lossless
  PROVE  NoSolutionLost
<1> DEFINE F == [v \in Var |-> IF v \in variables THEN Free[v] ELSE Value]
<1>1. SUFFICES ASSUME empties = {}, NEW a \in Solutions(F, Active(Now)), NEW w \in variables,
                      a[w] \notin dom[w]
               PROVE  FALSE
  BY DEF NoSolutionLost
<1> DEFINE X == {v \in variables : a[v] \notin dom[v]}
<1>2. /\ Good(Now) /\ Kept(Now, NoVar, NoVar) /\ variables \subseteq Var
      /\ \A c \in constraints : Vars(c) \subseteq variables
  BY LosslessNow, GoodFacts, NowFields
<1>3. \A v \in variables : a[v] \in FreeIn(Now, v)
  <2>1. ASSUME NEW v \in variables
        PROVE  v \in Var /\ F[v] = FreeIn(Now, v)
    BY <1>2, NowFields DEF Free, FreeIn
  <2>2. QED
    BY <2>1 DEF Solutions
<1>4. \A c \in Active(Now) : Satisfied(c, a)
  BY DEF Solutions, Satisfied
<1> HIDE DEF F
<1>5. X \subseteq Var /\ X # {} /\ \A v \in X : v \in variables /\ a[v] \notin dom[v]
  BY <1>1, <1>2
<1>6. \A v \in variables : v \in X \/ a[v] \in dom[v]
  OBVIOUS
<1> HIDE DEF X
<1>7. ASSUME NEW c \in constraints, NEW v \in X, v \in Vars(c)
      PROVE  Satisfied(c, a)
  <2>1. ~Full(Now, v) /\ v \in Var /\ v \notin Now.empties
    BY <1>1, <1>3, <1>5, NowFields DEF Full
  <2>2. c \in Active(Now)
    BY <1>2, <1>7, <2>1, MissingIsOpen, NowFields
  <2>3. QED
    BY <1>4, <2>2
<1>8. Lost(Now, X, a, NoVar, NoVar)
  BY <1>1, <1>2, <1>3, <1>5, <1>6, <1>7, NowFields DEF Lost, NoVar
<1>9. QED
  BY <1>2, <1>8 DEF Kept

(* Every value that some solution of the specified values and the active   *)
(* constraints needs is in its domain, before, during and after every      *)
(* propagation, whatever has been asserted, propagated and retracted       *)
(* before and in whatever order: adding and removing constraints, setting  *)
(* and resetting values, restricting base domains, emptied domains and     *)
(* interrupted propagations included.  No variable may be deactivated      *)
(* (nothing is relaxed then) or deleted (which clears the record of empty  *)
(* variables), violations are not allowed, and the client restricts no     *)
(* base domain against the value that its variable is specified to (a      *)
(* reset would keep that value, and lose those of the base domain).        *)
THEOREM NothingNeededIsLost ==
  ASSUME Strict
  PROVE  Spec => []NoSolutionLost
<1>1. Init => Lossless
  BY LosslessInit
<1>2. Inv /\ Lossless /\ [Next]_vars => Lossless'
  BY LosslessNext
<1>3. Inv /\ Lossless => NoSolutionLost
  BY LosslessMeans
<1>4. QED
  BY <1>1, <1>2, <1>3, InvHolds, PTL DEF Spec
(***************************************************************************)
(* II. Whatever changes a domain puts the active constraints on it on the  *)
(* agenda, and whatever makes a constraint active again puts it there.     *)
(***************************************************************************)
(* Violations are allowed all the time (otherwise an inconsistency drops   *)
(* the agenda), counts mean what they should, and no constraint is ever    *)
(* redundant (one that is redundant ignores that its variables are active  *)
(* again).                                                                 *)
Lenient ==
  /\ Narrow /\ Tolerances = {TRUE} /\ Restrictions = {}
  /\ \A c \in Constraint : ~AllSingleton(c, BaseDomain)

(* What may happen to c is still to come; the variables of Y have changed  *)
(* and their constraints are about to be told.                             *)
Waits(s, c, Y) == c \in s.agenda \/ \E v \in Vars(c) : v \in s.empties \/ v \in Y

Attended(s, Y) == \A c \in Active(s) : Waits(s, c, Y) \/ Consistent(c, s.dom)

Ready(s) == Lenient /\ Basic(s) /\ redundant = {} /\ out \in [Var -> 0 .. MaxHeld]

With(Y, v) == Y \cup {v}
-----------------------------------------------------------------------------
(* Consistency is a matter of the domains of the variables alone.          *)
LEMMA ConsistentElsewhere ==
  ASSUME NEW c \in Constraint, NEW d \in Domains, NEW e \in Domains,
         \A v \in Vars(c) : d[v] = e[v], Consistent(c, d)
  PROVE  Consistent(c, e)
<1>1. Supports(c, e) = Supports(c, d)
  BY DEF Supports
<1>2. ASSUME NEW v \in Vars(c)
      PROVE  {t[v] : t \in Supports(c, d)} = d[v]
  <2>1. Filtered(c, d) = d /\ v \in Var
    BY ScopeType DEF Consistent
  <2>2. Filtered(c, d)[v] = {t[v] : t \in Supports(c, d)}
    BY <2>1 DEF Filtered
  <2>3. QED
    BY <2>1, <2>2
<1>3. ASSUME NEW v \in Var
      PROVE  (IF v \in Vars(c) THEN {t[v] : t \in Supports(c, e)} ELSE e[v]) = e[v]
  BY <1>1, <1>2
<1>4. Filtered(c, e) = e
  BY <1>3 DEF Filtered, Domains
<1>5. QED
  BY <1>1, <1>4 DEF Consistent

(* Once executed, a constraint has nothing left to take.                   *)
LEMMA FilteredConsistent ==
  ASSUME NEW c \in Constraint, NEW d \in Domains, Supports(c, d) # {}
  PROVE  Consistent(c, Filtered(c, d))
<1> DEFINE f == Filtered(c, d)
           P == Supports(c, d)
<1>1. \A v \in Vars(c) : v \in Var
  BY ScopeType
<1>2. \A v \in Vars(c) : f[v] = {t[v] : t \in P}
  BY <1>1 DEF Filtered
<1>3. Supports(c, f) = P
  <2>1. \A v \in Vars(c) : f[v] \subseteq d[v]
    BY <1>1, FilteredType
  <2>2. \A t \in P : \A v \in Vars(c) : t[v] \in f[v]
    BY <1>2
  <2>3. \A t \in P : t \in Allowed[c]
    BY DEF Supports
  <2> HIDE DEF f
  <2>4. Supports(c, f) \subseteq P
    BY <2>1 DEF Supports
  <2>5. P \subseteq Supports(c, f)
    <3> HIDE DEF P
    <3>1. QED
      BY <2>2, <2>3 DEF Supports
  <2>6. QED
    BY <2>4, <2>5
<1>4. Filtered(c, f) = f
  <2>1. f = [v \in Var |-> f[v]]
    BY DEF Filtered
  <2>2. Filtered(c, f) = [v \in Var |-> IF v \in Vars(c) THEN {t[v] : t \in P} ELSE f[v]]
    BY <1>3 DEF Filtered
  <2> HIDE DEF f
  <2>3. QED
    BY <1>2, <2>1, <2>2
<1>5. QED
  BY <1>3, <1>4 DEF Consistent
-----------------------------------------------------------------------------
(* The variables of an active constraint are active.                       *)
LEMMA ReadyFacts ==
  ASSUME NEW s, Ready(s)
  PROVE  /\ s \in Networks /\ variables \subseteq Var /\ s.empties \subseteq variables
         /\ s.agenda \subseteq s.constraints
         /\ \A c \in s.constraints : c \in Constraint /\ Vars(c) \subseteq variables
         /\ \A c \in Active(s) : c \in s.constraints /\ \A v \in Vars(c) : ~Inactive(v)
         /\ Contained(s) /\ \A v \in Var : Untouched(s, v) => s.spec[v] # NoValue
<1>1. /\ s \in Networks /\ variables \subseteq Var /\ s.empties \subseteq variables
      /\ s.agenda \subseteq s.constraints
      /\ \A c \in s.constraints : c \in Constraint /\ Vars(c) \subseteq variables
  BY DEF Ready, Basic, BasicIn, Settings, Networks
<1>2. ASSUME NEW c \in Active(s)
      PROVE  c \in s.constraints /\ \A v \in Vars(c) : ~Inactive(v)
  <2>1. c \in s.constraints /\ c \in Constraint /\ s.held[c] = 0
    BY <1>1 DEF Active
  <2>2. /\ c \in s.violated => s.held[c] = Load(out, c) + 1
        /\ c \notin s.violated => s.held[c] = Load(out, c)
    BY <2>1 DEF Ready, Lenient, Basic, BasicIn, CountedIn
  <2>3. Load(out, c) \in Nat
    BY <2>1 DEF Ready, Basic, Settings
  <2>4. Load(out, c) = 0
    BY <2>1, <2>2, <2>3
  <2>5. QED
    BY <2>1, <2>4, LoadIsWithheld DEF Ready, Lenient
<1>3. Contained(s)
  BY DEF Ready, Lenient, Obliging, Basic, BasicIn
<1>4. \A v \in Var : Untouched(s, v) => s.spec[v] # NoValue
  BY <1>3 DEF Contained, Untouched
<1>5. QED
  BY <1>1, <1>2, <1>3, <1>4

(* A step from s to t leaves nothing unattended when what it makes active  *)
(* or changes waits, and what waited waits.                                *)
LEMMA AttendedStep ==
  ASSUME NEW s, NEW t, NEW Y, NEW Z, s \in Networks, t \in Networks, Attended(s, Y),
         \A c \in Active(t) : c \in Active(s) \/ Waits(t, c, Z),
         \A c \in Active(t) : Waits(s, c, Y) => Waits(t, c, Z),
         \A c \in Active(t) : Waits(t, c, Z) \/ \A v \in Vars(c) : s.dom[v] = t.dom[v]
  PROVE  Attended(t, Z)
<1> SUFFICES ASSUME NEW c \in Active(t), ~Waits(t, c, Z)
             PROVE  Consistent(c, t.dom)
  BY DEF Attended
<1>1. c \in Active(s) /\ ~Waits(s, c, Y) /\ \A v \in Vars(c) : s.dom[v] = t.dom[v]
  OBVIOUS
<1>2. Consistent(c, s.dom) /\ c \in Constraint /\ s.dom \in Domains /\ t.dom \in Domains
  BY <1>1 DEF Attended, Active, Networks
<1>3. QED
  BY <1>1, <1>2, ConsistentElsewhere
-----------------------------------------------------------------------------
(* The operators.                                                          *)
Minded(s, Y) == Ready(s) /\ Attended(s, Y)

LEMMA MindedGrown ==
  ASSUME NEW s, NEW t, NEW Y, Minded(s, Y), Basic(t), SameGround(s, t), t.dom = s.dom,
         t.held = s.held, t.empties = s.empties, s.agenda \subseteq t.agenda
  PROVE  Minded(t, Y)
<1>1. Ready(t)
  BY DEF Minded, Ready
<1>2. s \in Networks /\ t \in Networks
  BY <1>1, ReadyFacts DEF Minded
<1>3. Active(t) = Active(s)
  BY DEF Active, SameGround
<1>4. \A c \in Active(t) : Waits(s, c, Y) => Waits(t, c, Y)
  BY DEF Waits
<1>5. Attended(t, Y)
  BY <1>2, <1>3, <1>4, AttendedStep DEF Minded
<1>6. QED
  BY <1>1, <1>5 DEF Minded

LEMMA MindedRestored ==
  ASSUME NEW s, NEW W, NEW Y, Minded(s, Y)
  PROVE  /\ Minded(Restored(s, W), Y)
         /\ SameGround(s, Restored(s, W)) /\ Restored(s, W).dom = s.dom
         /\ Restored(s, W).spec = s.spec /\ Restored(s, W).empties = s.empties
<1> DEFINE t == Restored(s, W)
           B == Back(s, W)
<1>0. Ready(s) /\ s \in Networks /\ \A c \in s.constraints : c \in Constraint
  BY ReadyFacts DEF Minded
<1>1. Undone(s, B, t) /\ Basic(t)
  BY <1>0, RestoredEffect, BasicRestored DEF Ready
<1> HIDE DEF t, B
<1>2. /\ t \in Networks /\ SameGround(s, t) /\ t.dom = s.dom /\ t.spec = s.spec
      /\ t.empties = s.empties /\ s.agenda \subseteq t.agenda
  BY <1>1 DEF Undone
<1>3. ASSUME NEW c \in Active(t)
      PROVE  c \in Active(s) \/ Waits(t, c, Y)
  <2>1. c \in s.constraints /\ c \in Constraint /\ t.held[c] = 0
    BY <1>0, <1>2 DEF Active, SameGround
  <2>2. CASE c \in B
    BY <1>0, <1>1, <2>1, <2>2 DEF Undone, Waits, Ready
  <2>3. CASE c \notin B
    BY <1>0, <1>1, <2>1, <2>3 DEF Undone, Active
  <2>4. QED
    BY <2>2, <2>3
<1>4. \A c \in Active(t) : Waits(s, c, Y) => Waits(t, c, Y)
  BY <1>2 DEF Waits
<1>5. Attended(t, Y)
  BY <1>0, <1>2, <1>3, <1>4, AttendedStep DEF Minded
<1>6. Ready(t)
  BY <1>0, <1>1 DEF Ready
<1>7. QED
  BY <1>2, <1>5, <1>6 DEF Minded, t

LEMMA MindedTold ==
  ASSUME NEW s, NEW v, NEW Y, Minded(s, Y), v \in variables
  PROVE  /\ Minded(Told(s, v), Y)
         /\ SameGround(s, Told(s, v)) /\ Told(s, v).dom = s.dom
         /\ Told(s, v).spec = s.spec /\ Told(s, v).empties = s.empties
<1> DEFINE W == {v}
           t == Restored(s, W)
           r == Told(s, v)
<1>0. v \in Var
  BY ReadyFacts DEF Minded
<1>1. r = Initiate(t, v)
  BY DEF Told
<1> HIDE DEF r, W
<1>2. /\ Minded(t, Y) /\ SameGround(s, t) /\ t.dom = s.dom /\ t.spec = s.spec
      /\ t.empties = s.empties
  BY MindedRestored
<1>3. t \in Networks /\ Basic(t)
  BY <1>2, ReadyFacts DEF Minded, Ready
<1> HIDE DEF t
<1>4. /\ SameGround(t, r) /\ r.dom = t.dom /\ r.spec = t.spec /\ r.held = t.held
      /\ r.empties = t.empties /\ r.agenda = t.agenda /\ Basic(r)
  BY <1>0, <1>1, <1>3, InitiateEffect, BasicInitiate
<1>5. Minded(r, Y)
  BY <1>2, <1>4, MindedGrown
<1>6. QED
  BY <1>2, <1>4, <1>5 DEF SameGround, r

LEMMA MindedRelaxedDomain ==
  ASSUME NEW s, NEW v, NEW Y, Minded(s, Y), v \in variables
  PROVE  Minded(RelaxedDomain(s, v), With(Y, v))
<1> DEFINE t == RelaxedDomain(s, v)
           Z == With(Y, v)
<1>0. v \in Var /\ Ready(s) /\ s \in Networks /\ \A c \in s.constraints : Vars(c) \subseteq Var
  BY ReadyFacts DEF Minded
<1>1. \A u : u \in Z <=> u \in Y \/ u = v
  BY DEF With
<1>2. /\ t \in Networks /\ SameGround(s, t) /\ t.held = s.held
      /\ t.empties = s.empties /\ t.agenda = s.agenda
      /\ \A w \in Var : w # v => t.dom[w] = s.dom[w]
  BY <1>0, RelaxedDomainEffect
<1>3. Basic(t)
  BY <1>0, BasicRelaxedDomain DEF Ready
<1> HIDE DEF t, Z
<1>4. Active(t) = Active(s) /\ \A c \in Active(t) : Vars(c) \subseteq Var
  BY <1>0, <1>2 DEF Active, SameGround
<1>5. \A c \in Active(t) : Waits(s, c, Y) => Waits(t, c, Z)
  BY <1>1, <1>2 DEF Waits
<1>6. \A c \in Active(t) : Waits(t, c, Z) \/ \A w \in Vars(c) : s.dom[w] = t.dom[w]
  BY <1>1, <1>2, <1>4 DEF Waits
<1>7. Attended(t, Z)
  BY <1>0, <1>2, <1>4, <1>5, <1>6, AttendedStep DEF Minded
<1>8. Ready(t)
  BY <1>0, <1>3 DEF Ready
<1>9. QED
  BY <1>7, <1>8 DEF Minded, t, Z

LEMMA MindedLinkRelaxed ==
  ASSUME NEW s, NEW v, NEW Y, Minded(s, Y), v \in variables
  PROVE  Minded(LinkRelaxed(s, v), Y) /\ LinkRelaxed(s, v).empties = s.empties
<1> DEFINE t == LinkRelaxed(s, v)
           M == Moved(s, v)
<1>0. /\ Ready(s) /\ s \in Networks
      /\ \A c \in Active(s) : c \in s.constraints /\ \A w \in Vars(c) : w \in Var /\ ~Inactive(w)
  BY ReadyFacts DEF Minded
<1>1. /\ t \in Networks /\ SameGround(s, t) /\ t.held = s.held /\ t.empties = s.empties
      /\ t.agenda = s.agenda \cup Woken(s, M)
      /\ \A w \in Var : w \notin M => t.dom[w] = s.dom[w]
  BY <1>0, LinkRelaxedEffect
<1>2. Basic(t)
  BY <1>0, BasicLinkRelaxed DEF Ready
<1> HIDE DEF t, M
<1>3. Active(t) = Active(s)
  BY <1>1 DEF Active, SameGround
<1>4. \A c \in Active(t) : Waits(s, c, Y) => Waits(t, c, Y)
  BY <1>1 DEF Waits
<1>5. \A c \in Active(t) : Waits(t, c, Y) \/ \A w \in Vars(c) : s.dom[w] = t.dom[w]
  BY <1>0, <1>1, <1>3 DEF Waits, Woken
<1>6. Attended(t, Y)
  BY <1>0, <1>1, <1>3, <1>4, <1>5, AttendedStep DEF Minded
<1>7. Ready(t)
  BY <1>0, <1>2 DEF Ready
<1>8. QED
  BY <1>1, <1>6, <1>7 DEF Minded, t

LEMMA MindedRelaxLinked ==
  ASSUME NEW s, NEW v, NEW Y, NEW restoring \in BOOLEAN, Minded(s, Y), v \in variables
  PROVE  /\ Minded(RelaxLinked(s, v, restoring), Y)
         /\ RelaxLinked(s, v, restoring).empties = s.empties
<1> DEFINE t == LinkRelaxed(s, v)
           L == Linked(s, v)
           r == Restored(t, L)
<1>1. /\ restoring => RelaxLinked(s, v, restoring) = r
      /\ ~restoring => RelaxLinked(s, v, restoring) = t
  BY RelaxLinkedEffect
<1>2. Minded(t, Y) /\ t.empties = s.empties
  BY MindedLinkRelaxed
<1> HIDE DEF t, L
<1>3. Minded(r, Y) /\ r.empties = t.empties
  BY <1>2, MindedRestored
<1> HIDE DEF r
<1>4. CASE restoring
  BY <1>1, <1>2, <1>3, <1>4
<1>5. CASE ~restoring
  BY <1>1, <1>2, <1>5
<1>6. QED
  BY <1>4, <1>5

LEMMA MindedWakeUp ==
  ASSUME NEW s, NEW v, NEW Y, Minded(s, With(Y, v))
  PROVE  /\ Minded(WakeUp(s, v), Y) /\ WakeUp(s, v).empties = s.empties
         /\ \A c \in Active(WakeUp(s, v)) : v \in Vars(c) => c \in WakeUp(s, v).agenda
<1> DEFINE t == WakeUp(s, v)
           Z == With(Y, v)
<1>0. Ready(s) /\ s \in Networks /\ Attended(s, Z)
  BY ReadyFacts DEF Minded
<1>1. \A u : u \in Z <=> u \in Y \/ u = v
  BY DEF With
<1>2. t \in Networks /\ Alike(s, t) /\ t.agenda = s.agenda \cup (On(s, v) \cap Active(s)) /\ Basic(t)
  BY <1>0, WakeUpEffect, BasicWakeUp DEF Ready
<1> HIDE DEF t, Z
<1>3. Active(t) = Active(s)
  BY <1>2 DEF Active, Alike, SameGround
<1>4. \A c \in Active(t) : v \in Vars(c) => c \in t.agenda
  BY <1>2, <1>3 DEF On, Active
<1>5. \A c \in Active(t) : Waits(s, c, Z) => Waits(t, c, Y)
  BY <1>1, <1>2, <1>4 DEF Waits, Alike
<1>6. Attended(t, Y)
  BY <1>0, <1>2, <1>3, <1>5, AttendedStep DEF Alike
<1>7. Ready(t)
  BY <1>0, <1>2 DEF Ready
<1>8. QED
  BY <1>2, <1>4, <1>6, <1>7 DEF Minded, Alike, t

(* Nobody needs to be told of an inactive variable.                        *)
LEMMA MindedInactive ==
  ASSUME NEW s, NEW v, NEW Y, Minded(s, With(Y, v)), Inactive(v)
  PROVE  Minded(s, Y)
<1>1. \A c \in Active(s) : v \notin Vars(c)
  BY ReadyFacts DEF Minded
<1>2. \A c \in Active(s) : Waits(s, c, With(Y, v)) => Waits(s, c, Y)
  BY <1>1 DEF Waits, With
<1>3. QED
  BY <1>2 DEF Minded, Attended

LEMMA MindedRestricted ==
  ASSUME NEW s, NEW v, NEW Y, Minded(s, With(Y, v))
  PROVE  Minded(Restricted(s, v), Y) /\ Restricted(s, v).empties = s.empties
<1> DEFINE t == Restricted(s, v)
           Z == With(Y, v)
<1>0. Ready(s) /\ s \in Networks /\ Attended(s, Z)
  BY ReadyFacts DEF Minded
<1>1. /\ t \in Networks /\ Alike(s, t) /\ s.agenda \subseteq t.agenda /\ Basic(t)
      /\ ~Inactive(v) => On(s, v) \cap Active(s) \subseteq t.agenda
  BY <1>0, RestrictedEffect, BasicRestricted DEF Ready
<1> HIDE DEF t
<1>2. Minded(t, Z)
  BY <1>1, MindedGrown DEF Alike
<1>3. CASE Inactive(v)
  BY <1>1, <1>2, <1>3, MindedInactive DEF Alike, t
<1>4. CASE ~Inactive(v)
  <2>1. \A c \in Active(t) : v \in Vars(c) => c \in t.agenda
    BY <1>1, <1>4 DEF On, Active, Alike, SameGround
  <2>2. \A c \in Active(t) : Waits(t, c, Z) => Waits(t, c, Y)
    BY <2>1 DEF Waits, With
  <2>3. Minded(t, Y)
    BY <1>2, <2>2 DEF Minded, Attended
  <2>4. QED
    BY <1>1, <2>3 DEF Alike, t
<1>5. QED
  BY <1>3, <1>4
-----------------------------------------------------------------------------
(* A client's calls come when no variable is on record as empty.           *)
UnlessNone(k, S, t) == S = {} => t = k.start

NoLoop == INSTANCE FoldInduction WITH Op <- RelaxOne, Pick <- AnyOf, I <- UnlessNone

LEMMA NoneToRelax ==
  ASSUME NEW s, NEW restoring, s \in Networks, s.empties = {}
  PROVE  RelaxEmpties(s, restoring) = s
<1> DEFINE k == [restoring |-> restoring, start |-> s]
           S == s.empties
<1>1. RelaxEmpties(s, restoring) = NoLoop!Fold(k, s, S)
  BY DEF RelaxEmpties, FoldSet, NoLoop!Fold, NoLoop!MapThenFoldSet, MapThenFoldSet,
         RelaxOne, AnyOf
<1>2. k.restoring = restoring /\ k.start = s /\ S = {}
  OBVIOUS
<1>3. NoLoop!IsFiniteSet(S)
  BY FiniteEmpties, Zenon DEF NoLoop!IsFiniteSet, IsFiniteSet
<1> HIDE DEF k, S
<1>4. NoLoop!Picks(S)
  BY DEF NoLoop!Picks, AnyOf
<1>5. UnlessNone(k, {}, s)
  BY <1>2 DEF UnlessNone
<1>6. ASSUME NEW T \in SUBSET S, NEW t, T # {}, UnlessNone(k, T \ {AnyOf(T)}, t)
      PROVE  UnlessNone(k, T, RelaxOne(k, AnyOf(T), t))
  BY <1>6 DEF UnlessNone
<1>7. UnlessNone(k, S, NoLoop!Fold(k, s, S))
  BY ONLY <1>3, <1>4, <1>5, <1>6, NoLoop!FoldKeeps
<1>8. QED
  BY <1>1, <1>2, <1>7 DEF UnlessNone

(* At the end of a call.                                                   *)
Still(s, Y) == Minded(s, Y) /\ s.empties = {}

LEMMA StillNotifyRelaxed ==
  ASSUME NEW s, NEW v, NEW Y, Still(s, With(Y, v)), v \in variables
  PROVE  /\ Still(NotifyRelaxed(s, v), Y) /\ SameGround(s, NotifyRelaxed(s, v))
         /\ NotifyRelaxed(s, v).spec = s.spec
         /\ \A w \in Var : \/ NotifyRelaxed(s, v).dom[w] = s.dom[w]
                           \/ NotifyRelaxed(s, v).dom[w] = s.base[w]
<1> DEFINE yes == TRUE
           t == Told(s, v)
           u == RelaxLinked(t, v, yes)
           r == WakeUp(u, v)
           Z == With(Y, v)
<1>0. Minded(s, Z) /\ s.empties = {}
  BY DEF Still
<1>1. CASE Inactive(v)
  <2>1. NotifyRelaxed(s, v) = s
    BY <1>1, NotifyRelaxedCases
  <2>2. Still(s, Y)
    BY <1>0, <1>1, MindedInactive DEF Still
  <2>3. QED
    BY <2>1, <2>2 DEF SameGround
<1>2. CASE ~Inactive(v)
  <2> HIDE DEF Z
  <2>1. /\ Minded(t, Z) /\ SameGround(s, t) /\ t.dom = s.dom /\ t.spec = s.spec
        /\ t.empties = {}
    BY <1>0, MindedTold
  <2>2. Cleared(s, v) = t
    <3>1. t \in Networks
      BY <2>1, ReadyFacts DEF Minded
    <3>2. RelaxEmpties(t, TRUE) = t
      BY <2>1, <3>1, NoneToRelax
    <3>3. QED
      BY <2>1, <3>2 DEF Cleared
  <2>3. NotifyRelaxed(s, v) = r
    BY <1>2, <2>2, NotifyRelaxedCases
  <2>4. yes \in BOOLEAN /\ t \in Networks
    BY <2>1, ReadyFacts DEF Minded
  <2> HIDE DEF yes, t
  <2>5. Minded(u, Z) /\ u.empties = {}
    BY <2>1, <2>4, MindedRelaxLinked
  <2>6. /\ u \in Networks /\ SameGround(t, u) /\ u.spec = t.spec
        /\ \A w \in Var : u.dom[w] = t.dom[w] \/ u.dom[w] = t.base[w]
    BY <2>4, RelaxLinkedDomains
  <2> HIDE DEF u
  <2>7. Minded(r, Y) /\ r.empties = {} /\ Alike(u, r)
    BY <2>5, <2>6, MindedWakeUp, WakeUpEffect DEF Z
  <2> HIDE DEF r
  <2>8. QED
    BY <2>1, <2>3, <2>6, <2>7 DEF Still, Alike, SameGround
<1>3. QED
  BY <1>1, <1>2

LEMMA StillRelaxVariable ==
  ASSUME NEW s, NEW v, NEW Y, Still(s, Y), v \in variables
  PROVE  Still(RelaxVariable(s, v), Y)
<1> DEFINE t == RelaxedDomain(s, v)
           r == NotifyRelaxed(t, v)
<1>0. s \in Networks /\ v \in Var
  BY ReadyFacts DEF Still, Minded
<1>1. /\ Untouched(s, v) => RelaxVariable(s, v) = s
      /\ ~Untouched(s, v) => RelaxVariable(s, v) = r
  BY DEF RelaxVariable
<1>2. Still(t, With(Y, v))
  BY <1>0, MindedRelaxedDomain, RelaxedDomainEffect DEF Still
<1> HIDE DEF t
<1>3. Still(r, Y)
  BY <1>2, StillNotifyRelaxed
<1> HIDE DEF r
<1>4. QED
  BY <1>1, <1>3

LEMMA StillWithSpec ==
  ASSUME NEW s, NEW v, NEW x, NEW Y, Still(s, Y), v \in variables, x \in Value \cup {NoValue},
         x \in s.base[v] \cup {NoValue}
  PROVE  Still(WithSpec(s, v, x), Y) /\ WithSpec(s, v, x).dom = s.dom /\ SameGround(s, WithSpec(s, v, x))
<1> DEFINE t == WithSpec(s, v, x)
<1>0. s \in Networks /\ v \in Var /\ Basic(s)
  BY ReadyFacts DEF Still, Minded, Ready
<1>1. /\ SameGround(s, t) /\ t.dom = s.dom /\ t.held = s.held /\ t.empties = s.empties
      /\ t.agenda = s.agenda /\ Basic(t)
  BY <1>0, WithSpecEffect, BasicWithSpec
<1> HIDE DEF t
<1>2. Still(t, Y)
  BY <1>1, MindedGrown DEF Still
<1>3. QED
  BY <1>1, <1>2 DEF t

LEMMA StillRestricted ==
  ASSUME NEW s, NEW v, NEW Y, Still(s, With(Y, v))
  PROVE  Still(Restricted(s, v), Y)
BY MindedRestricted DEF Still

LEMMA MindedMore ==
  ASSUME NEW s, NEW v, NEW Y, Minded(s, Y)
  PROVE  Minded(s, With(Y, v))
BY DEF Minded, Attended, Waits, With

LEMMA StillResetDomain ==
  ASSUME NEW s, NEW v, NEW Y, Still(s, Y), v \in variables
  PROVE  /\ Still(ResetDomain(s, v), Y) /\ ResetDomain(s, v).dom[v] = s.base[v]
         /\ SameGround(s, ResetDomain(s, v))
<1> DEFINE t == WithSpec(s, v, NoValue)
           u == RelaxedDomain(t, v)
           n == NotifyRelaxed(u, v)
           r == Restricted(n, v)
<1>0. v \in Var
  BY ReadyFacts DEF Still, Minded
<1>1. /\ t.dom[v] = t.base[v] => ResetDomain(s, v) = t
      /\ t.dom[v] # t.base[v] /\ ~Untouched(t, v) => ResetDomain(s, v) = r
  BY ResetDomainCases DEF RelaxVariable
<1>2. Still(t, Y) /\ t.spec[v] = NoValue /\ SameGround(s, t) /\ t \in Networks
  <2>1. s \in Networks
    BY ReadyFacts DEF Still, Minded
  <2>2. Still(t, Y) /\ SameGround(s, t)
    BY StillWithSpec
  <2>3. t.spec[v] = NoValue /\ t \in Networks
    BY <1>0, <2>1, WithSpecEffect
  <2>4. QED
    BY <2>2, <2>3
<1> HIDE DEF t
<1>3. ~Untouched(t, v)
  BY <1>0, <1>2, ReadyFacts DEF Still, Minded
<1>4. /\ Still(u, With(Y, v)) /\ SameGround(t, u) /\ u.dom[v] = t.base[v]
  <2>1. /\ SameGround(t, u) /\ u.empties = t.empties /\ u.dom[v] = FreeIn(t, v)
    BY <1>0, <1>2, RelaxedDomainEffect
  <2>2. Minded(u, With(Y, v))
    BY <1>2, MindedRelaxedDomain DEF Still
  <2> HIDE DEF u
  <2>3. QED
    BY <1>2, <2>1, <2>2 DEF Still, FreeIn
<1> HIDE DEF u
<1>5. /\ Still(n, Y) /\ SameGround(u, n) /\ n.dom[v] = t.base[v]
  <2>1. /\ Still(n, Y) /\ SameGround(u, n)
        /\ n.dom[v] = u.dom[v] \/ n.dom[v] = u.base[v]
    BY <1>0, <1>4, StillNotifyRelaxed
  <2> HIDE DEF n
  <2>2. QED
    BY <1>4, <2>1 DEF SameGround
<1> HIDE DEF n
<1>6. n \in Networks
  BY <1>5, ReadyFacts DEF Still, Minded
<1>7. Alike(n, r)
  BY <1>6, RestrictedEffect
<1>8. Still(r, Y)
  BY <1>5, MindedMore, StillRestricted DEF Still
<1> HIDE DEF r
<1>9. SameGround(s, r) /\ r.dom[v] = s.base[v]
  BY <1>2, <1>4, <1>5, <1>7 DEF Alike, SameGround
<1>10. CASE t.dom[v] = t.base[v]
  BY <1>1, <1>2, <1>10 DEF SameGround
<1>11. CASE t.dom[v] # t.base[v]
  BY <1>1, <1>3, <1>8, <1>9, <1>11
<1>12. QED
  BY <1>10, <1>11
-----------------------------------------------------------------------------
(* Specifying a value that the variable may have: violations are allowed,  *)
(* so a value that is not in the domain is put there first.                *)
LEMMA StillSpecifyDomain ==
  ASSUME NEW s, NEW v, NEW value, NEW Y, Still(s, Y), v \in variables, allow,
         value \in Value, value \in s.base[v]
  PROVE  Still(SpecifyDomain(s, v, value), Y) /\ SameGround(s, SpecifyDomain(s, v, value))
<1> DEFINE p == ResetDomain(s, v)
           z == Readied(s, v, value)
           u == Specified(s, v, value)
           D == {value}
           t == WithDomain(u, v, D)
           r == Restricted(t, v)
<1>0. v \in Var
  BY ReadyFacts DEF Still, Minded
<1>1. /\ s.spec[v] = value => SpecifyDomain(s, v, value) = s
      /\ s.spec[v] # value /\ value \in u.dom[v] => SpecifyDomain(s, v, value) = r
  BY SpecifyDomainCases
<1>2. u = WithSpec(z, v, value)
  BY DEF Specified
<1>3. Still(z, Y) /\ SameGround(s, z) /\ value \in z.dom[v]
  <2>1. /\ value \notin s.dom[v] => z = p
        /\ value \in s.dom[v] => z = s
    BY DEF Readied
  <2>2. Still(p, Y) /\ p.dom[v] = s.base[v] /\ SameGround(s, p)
    BY StillResetDomain
  <2> HIDE DEF p, z
  <2>3. SameGround(s, s)
    BY DEF SameGround
  <2>4. QED
    BY <2>1, <2>2, <2>3
<1> HIDE DEF z, u
<1>4. Still(u, Y) /\ u.dom = z.dom /\ SameGround(z, u)
  BY <1>2, <1>3, StillWithSpec DEF SameGround
<1>5. u \in Networks /\ Ready(u) /\ Attended(u, Y) /\ D \subseteq Value /\ D # {}
      /\ \A c \in u.constraints : Vars(c) \subseteq Var
  BY <1>4, ReadyFacts DEF Still, Minded
<1> HIDE DEF D
<1>6. /\ t \in Networks /\ SameGround(u, t) /\ t.held = u.held /\ t.empties = u.empties
      /\ t.agenda = u.agenda /\ \A w \in Var : w # v => t.dom[w] = u.dom[w]
  BY <1>0, <1>5, WithDomainEffect
<1>7. Basic(t)
  <2>1. D \subseteq u.base[v]
    BY <1>3, <1>4 DEF D, SameGround
  <2>2. QED
    BY <1>5, <2>1, BasicWithDomain DEF Ready
<1> HIDE DEF t
<1>8. Attended(t, With(Y, v))
  <2> DEFINE Z == With(Y, v)
  <2>1. \A w : w \in Z <=> w \in Y \/ w = v
    BY DEF With
  <2> HIDE DEF Z
  <2>2. Active(t) = Active(u) /\ \A c \in Active(t) : Vars(c) \subseteq Var
    BY <1>5, <1>6 DEF Active, SameGround
  <2>3. \A c \in Active(t) : Waits(u, c, Y) => Waits(t, c, Z)
    BY <1>6, <2>1 DEF Waits
  <2>4. \A c \in Active(t) : Waits(t, c, Z) \/ \A w \in Vars(c) : u.dom[w] = t.dom[w]
    BY <1>6, <2>1, <2>2 DEF Waits
  <2>5. Attended(t, Z)
    BY <1>5, <1>6, <2>2, <2>3, <2>4, AttendedStep
  <2>6. QED
    BY <2>5 DEF Z
<1>9. Still(t, With(Y, v))
  BY <1>4, <1>5, <1>6, <1>7, <1>8 DEF Still, Minded, Ready
<1>10. Still(r, Y) /\ Alike(t, r)
  BY <1>6, <1>9, StillRestricted, RestrictedEffect
<1> HIDE DEF r
<1>11. SameGround(s, r)
  BY <1>3, <1>4, <1>6, <1>10 DEF Alike, SameGround
<1>12. CASE s.spec[v] = value
  BY <1>1, <1>12 DEF SameGround
<1>13. CASE s.spec[v] # value
  BY <1>1, <1>3, <1>4, <1>10, <1>11, <1>13
<1>14. QED
  BY <1>12, <1>13

StillKept(k, S, t) == Still(t, k.pending)

StillScope == INSTANCE FoldInduction WITH Op <- GiveBackOne, Pick <- LastOf, I <- StillKept

LEMMA StillGivenBack ==
  ASSUME NEW s, NEW c \in Constraint, NEW Y, Still(s, Y), Vars(c) \subseteq variables
  PROVE  Still(GivenBack(s, c), Y)
<1> DEFINE k == [scope |-> Scope[c], pending |-> Y]
           S == DOMAIN Scope[c]
<1>1. /\ s.held[c] > 0 => GivenBack(s, c) = s
      /\ ~(s.held[c] > 0) => GivenBack(s, c) = StillScope!Fold(k, s, S)
  BY DEF GivenBack, FoldLeft, StillScope!Fold, StillScope!MapThenFoldSet, MapThenFoldSet,
         GiveBackOne, LastOf
<1>2. k.scope = Scope[c] /\ k.pending = Y
  OBVIOUS
<1>3. StillScope!IsFiniteSet(S)
  BY ScopeType, Zenon DEF StillScope!IsFiniteSet, IsFiniteSet
<1>4. \A i \in S : Scope[c][i] \in variables
  BY ScopeType
<1>5. \A T \in SUBSET S : T # {} => LastOf(T) \in T
  BY ScopeType, LastPosition DEF LastOf
<1> HIDE DEF k, S
<1>6. StillScope!Picks(S)
  BY <1>5 DEF StillScope!Picks
<1>7. StillKept(k, {}, s)
  BY <1>2 DEF StillKept
<1>8. ASSUME NEW T \in SUBSET S, NEW t, T # {}, StillKept(k, T \ {LastOf(T)}, t)
      PROVE  StillKept(k, T, GiveBackOne(k, LastOf(T), t))
  <2> DEFINE v == Scope[c][LastOf(T)]
  <2>1. v \in variables
    BY <1>4, <1>5, <1>8
  <2>2. Still(t, Y)
    BY <1>2, <1>8 DEF StillKept
  <2>3. /\ v \in t.fresh => GiveBackOne(k, LastOf(T), t) = t
        /\ v \notin t.fresh => GiveBackOne(k, LastOf(T), t) = RelaxVariable(t, v)
    BY <1>2 DEF GiveBackOne
  <2> HIDE DEF v
  <2>4. Still(RelaxVariable(t, v), Y)
    BY <2>1, <2>2, StillRelaxVariable
  <2>5. QED
    BY <1>2, <2>2, <2>3, <2>4 DEF StillKept
<1>9. StillKept(k, S, StillScope!Fold(k, s, S))
  BY ONLY <1>3, <1>6, <1>7, <1>8, StillScope!FoldKeeps
<1>10. QED
  BY <1>1, <1>2, <1>9 DEF StillKept
-----------------------------------------------------------------------------
(* The variables that were emptied by an inconsistency, when propagation   *)
(* goes on.                                                                *)
LEMMA LinkedUnspecified ==
  ASSUME NEW s, NEW v, Basic(s)
  PROVE  \A w \in Linked(s, v) : s.spec[w] = NoValue
<1> DEFINE W == {w \in Var : s.spec[w] = NoValue}
<1>1. \A c \in Active(s) : Vars(c) \subseteq Var
  BY DEF Basic, BasicIn, Settings, Active
<1>2. Neighbours(s, W \cup {v}) \subseteq W
  BY <1>1 DEF Neighbours
<1>3. \A w \in Linked(s, v) : w \in W
  BY <1>2 DEF Linked
<1>4. QED
  BY <1>3

LEMMA MindedOffRecord ==
  ASSUME NEW s, NEW e, NEW Y, Minded(s, Y), Basic(OffRecord(s, e)),
         \A c \in Active(s) : e \in Vars(c) => c \in s.agenda
  PROVE  Minded(OffRecord(s, e), Y)
<1> DEFINE t == OffRecord(s, e)
<1>1. s \in Networks /\ Ready(s) /\ Attended(s, Y)
  BY ReadyFacts DEF Minded
<1>2. /\ t \in Networks /\ SameGround(s, t) /\ t.dom = s.dom /\ t.held = s.held
      /\ t.agenda = s.agenda /\ t.empties = s.empties \ {e}
  BY <1>1, OffRecordEffect
<1> HIDE DEF t
<1>3. Active(t) = Active(s)
  BY <1>2 DEF Active, SameGround
<1>4. \A w \in s.empties : w = e \/ w \in t.empties
  BY <1>2
<1>5. \A c \in Active(t) : Waits(s, c, Y) => Waits(t, c, Y)
  BY <1>2, <1>3, <1>4 DEF Waits
<1>6. Attended(t, Y)
  BY <1>1, <1>2, <1>3, <1>5, AttendedStep
<1>7. QED
  BY <1>1, <1>6 DEF Minded, Ready, t

(* None of them is passed over: only a specified variable with values is.  *)
Plain(s) == \A e \in s.empties : s.dom[e] = {} \/ s.spec[e] = NoValue

LEMMA PlainRelaxedDomain ==
  ASSUME NEW s, NEW e, NEW Y, Minded(s, Y), e \in variables
  PROVE  \A w \in s.empties : w = e \/ RelaxedDomain(s, e).dom[w] = s.dom[w]
BY ReadyFacts, RelaxedDomainEffect DEF Minded

LEMMA MindedEmptyRelaxed ==
  ASSUME NEW s, NEW e, NEW Y, Minded(s, Y), e \in variables, Plain(s)
  PROVE  LET r == EmptyRelaxed(s, e, FALSE)
         IN  /\ Minded(r, Y) /\ r.empties = s.empties /\ r.spec = s.spec
             /\ \A c \in Active(r) : e \in Vars(c) => c \in r.agenda
             /\ \A w \in s.empties : w = e \/ r.dom[w] = {} \/ r.spec[w] = NoValue
<1> DEFINE no == FALSE
           Z == With(Y, e)
           t == RelaxedDomain(s, e)
           i == Initiate(t, e)
           u == RelaxLinked(i, e, no)
           r == WakeUp(u, e)
<1>0. e \in Var /\ s \in Networks /\ s.empties \subseteq Var /\ no \in BOOLEAN
  BY ReadyFacts DEF Minded
<1>1. r = EmptyRelaxed(s, e, FALSE)
  BY DEF EmptyRelaxed, Announced, Refilled
<1> HIDE DEF no, Z
<1>2. /\ Minded(t, Z) /\ t \in Networks /\ t.spec = s.spec /\ t.empties = s.empties
      /\ \A w \in s.empties : w = e \/ t.dom[w] = s.dom[w]
  BY <1>0, MindedRelaxedDomain, RelaxedDomainEffect, PlainRelaxedDomain DEF Z
<1> HIDE DEF t
<1>3. /\ Basic(i) /\ SameGround(t, i) /\ i.dom = t.dom /\ i.held = t.held
      /\ i.empties = t.empties /\ i.agenda = t.agenda /\ i.spec = t.spec
  BY <1>0, <1>2, InitiateEffect, BasicInitiate DEF Minded, Ready
<1> HIDE DEF i
<1>4. Minded(i, Z) /\ i \in Networks
  BY <1>2, <1>3, MindedGrown, BasicIsNetwork
<1>5. Minded(u, Z) /\ u.empties = i.empties
  BY <1>0, <1>4, MindedRelaxLinked
<1>6. /\ u \in Networks /\ u.spec = i.spec
      /\ \A w \in Var : w \notin Moved(i, e) => u.dom[w] = i.dom[w]
  BY <1>0, <1>4, RelaxLinkedDomains
<1> HIDE DEF u
<1>7. /\ Minded(r, Y) /\ r.empties = u.empties
      /\ \A c \in Active(r) : e \in Vars(c) => c \in r.agenda
  BY <1>5, MindedWakeUp DEF Z
<1>8. Alike(u, r)
  BY <1>6, WakeUpEffect
<1> HIDE DEF r
<1>9. \A w \in Moved(i, e) : i.spec[w] = NoValue
  BY <1>3, LinkedUnspecified DEF Moved
<1>10. \A w \in s.empties : w = e \/ r.dom[w] = {} \/ r.spec[w] = NoValue
  BY <1>0, <1>2, <1>3, <1>6, <1>8, <1>9 DEF Plain, Alike
<1>11. r.empties = s.empties /\ r.spec = s.spec
  BY <1>2, <1>3, <1>5, <1>6, <1>7, <1>8 DEF Alike
<1>12. QED
  BY <1>1, <1>7, <1>10, <1>11

LEMMA MindedRelaxEmpty ==
  ASSUME NEW s, NEW e, NEW Y, Minded(s, Y), e \in s.empties, Plain(s)
  PROVE  /\ Minded(RelaxEmpty(s, e, FALSE), Y) /\ Plain(RelaxEmpty(s, e, FALSE))
         /\ RelaxEmpty(s, e, FALSE).empties = s.empties \ {e}
<1> DEFINE no == FALSE
           t == RelaxedDomain(s, e)
           u == EmptyRelaxed(s, e, no)
           r == RelaxEmpty(s, e, no)
<1>0. e \in variables /\ s \in Networks /\ e \in Var /\ Basic(s) /\ no \in BOOLEAN
  BY ReadyFacts DEF Minded, Ready
<1>1. ~Untouched(s, e)
  BY <1>0, ReadyFacts DEF Minded, Plain, Untouched
<1>2. Basic(r)
  BY <1>0, BasicRelaxEmpty
<1>3. /\ Inactive(e) => r = OffRecord(t, e)
      /\ ~Inactive(e) => r = OffRecord(u, e)
  BY <1>1, RelaxEmptyCases
<1>4. CASE Inactive(e)
  <2>1. /\ Minded(t, With(Y, e)) /\ t \in Networks /\ t.empties = s.empties /\ t.spec = s.spec
        /\ \A w \in s.empties : w = e \/ t.dom[w] = s.dom[w]
    BY <1>0, MindedRelaxedDomain, RelaxedDomainEffect, PlainRelaxedDomain
  <2> HIDE DEF t, r
  <2>2. Minded(t, Y)
    BY <1>4, <2>1, MindedInactive
  <2>3. \A c \in Active(t) : e \in Vars(c) => c \in t.agenda
    BY <1>4, <2>2, ReadyFacts DEF Minded
  <2>4. Minded(r, Y)
    BY <1>2, <1>3, <1>4, <2>2, <2>3, MindedOffRecord
  <2>5. r.empties = s.empties \ {e} /\ r.dom = t.dom /\ r.spec = s.spec
    BY <1>3, <1>4, <2>1, OffRecordEffect
  <2>6. Plain(r)
    BY <2>1, <2>5 DEF Plain
  <2>7. QED
    BY <2>4, <2>5, <2>6 DEF r, no
<1>5. CASE ~Inactive(e)
  <2>1. /\ Minded(u, Y) /\ u.empties = s.empties /\ u.spec = s.spec
        /\ \A c \in Active(u) : e \in Vars(c) => c \in u.agenda
        /\ \A w \in s.empties : w = e \/ u.dom[w] = {} \/ u.spec[w] = NoValue
    BY <1>0, MindedEmptyRelaxed
  <2> HIDE DEF u, r
  <2>2. u \in Networks
    BY <2>1, ReadyFacts DEF Minded
  <2>3. Minded(r, Y)
    BY <1>2, <1>3, <1>5, <2>1, MindedOffRecord
  <2>4. r.empties = s.empties \ {e} /\ r.dom = u.dom /\ r.spec = u.spec
    BY <1>3, <1>5, <2>1, <2>2, OffRecordEffect
  <2>5. Plain(r)
    BY <2>1, <2>4 DEF Plain
  <2>6. QED
    BY <2>3, <2>4, <2>5 DEF r, no
<1>6. QED
  BY <1>4, <1>5

PlainKept(k, S, t) ==
  Minded(t, k.pending) /\ Plain(t) /\ \A e : e \in t.empties <=> e \in k.start.empties /\ e \notin S

PlainLoop == INSTANCE FoldInduction WITH Op <- RelaxOne, Pick <- AnyOf, I <- PlainKept

LEMMA MindedRelaxEmpties ==
  ASSUME NEW s, NEW Y, Minded(s, Y), Plain(s)
  PROVE  Still(RelaxEmpties(s, FALSE), Y)
<1> DEFINE no == FALSE
           k == [restoring |-> no, start |-> s, pending |-> Y]
           S == s.empties
<1>0. s \in Networks
  BY ReadyFacts DEF Minded
<1>1. RelaxEmpties(s, no) = PlainLoop!Fold(k, s, S)
  BY DEF RelaxEmpties, FoldSet, PlainLoop!Fold, PlainLoop!MapThenFoldSet, MapThenFoldSet,
         RelaxOne, AnyOf
<1>2. k.restoring = no /\ k.start = s /\ k.pending = Y /\ S = s.empties
  OBVIOUS
<1>3. PlainLoop!IsFiniteSet(S)
  BY <1>0, FiniteEmpties, Zenon DEF PlainLoop!IsFiniteSet, IsFiniteSet
<1> HIDE DEF k, S
<1>4. PlainLoop!Picks(S)
  BY DEF PlainLoop!Picks, AnyOf
<1>5. PlainKept(k, {}, s)
  BY <1>2 DEF PlainKept
<1>6. ASSUME NEW T \in SUBSET S, NEW t, T # {}, PlainKept(k, T \ {AnyOf(T)}, t)
      PROVE  PlainKept(k, T, RelaxOne(k, AnyOf(T), t))
  <2> DEFINE e == AnyOf(T)
             r == RelaxEmpty(t, e, no)
  <2>1. e \in T /\ e \in s.empties
    BY <1>2, <1>6 DEF AnyOf
  <2>2. /\ Minded(t, Y) /\ Plain(t)
        /\ \A w : w \in t.empties <=> w \in s.empties /\ w \notin T \ {e}
    BY <1>2, <1>6 DEF PlainKept
  <2>3. RelaxOne(k, e, t) = r
    BY <1>2 DEF RelaxOne
  <2>4. e \in t.empties
    BY <2>1, <2>2
  <2> HIDE DEF e
  <2>5. Minded(r, Y) /\ Plain(r) /\ r.empties = t.empties \ {e}
    BY <2>2, <2>4, MindedRelaxEmpty
  <2> HIDE DEF r
  <2>6. \A w : w \in r.empties <=> w \in s.empties /\ w \notin T
    BY <2>1, <2>2, <2>5
  <2>7. PlainKept(k, T, r)
    BY <1>2, <2>5, <2>6 DEF PlainKept
  <2>8. QED
    BY <2>3, <2>7 DEF e
<1>7. PlainKept(k, S, PlainLoop!Fold(k, s, S))
  BY ONLY <1>3, <1>4, <1>5, <1>6, PlainLoop!FoldKeeps
<1>8. QED
  <2> DEFINE z == PlainLoop!Fold(k, s, S)
  <2>1. Minded(z, Y) /\ \A e : e \notin z.empties
    BY <1>2, <1>7 DEF PlainKept
  <2> HIDE DEF z
  <2>2. z.empties = {}
    BY <2>1
  <2>3. QED
    BY <1>1, <2>1, <2>2 DEF Still, z
-----------------------------------------------------------------------------
(* The invariant: no variable is on record as empty unless a propagation   *)
(* has just emptied it.                                                    *)
Attentive ==
  /\ Attended(Now, NoVar)
  /\ allow /\ redundant = {} /\ base = BaseDomain
  /\ ~propagating => empties = {}
  /\ \A v \in empties : dom[v] = {}

LEMMA AttentiveNow ==
  ASSUME Lenient, Inv, Attentive
  PROVE  /\ Minded(Now, NoVar) /\ Ready(Now) /\ Now \in Networks
         /\ ~propagating => Still(Now, NoVar)
         /\ \A c \in constraints : c \in Constraint /\ Vars(c) \subseteq variables
         /\ \A c \in Active(Now) : c \in constraints /\ \A v \in Vars(c) : ~Inactive(v)
<1>1. Ready(Now)
  BY InvBasic DEF Ready, Attentive, Inv
<1>2. Minded(Now, NoVar) /\ Now.empties = empties
  BY <1>1, NowFields DEF Attentive, Minded
<1>3. QED
  BY <1>1, <1>2, ReadyFacts, NowFields DEF Still, Attentive

LEMMA AttentiveStep ==
  ASSUME Lenient, Inv, Attentive, NEW t, t \in Networks, Become(t), Attended(t, NoVar),
         redundant' = redundant, allow' = allow, t.base = base,
         propagating' \/ t.empties = {}, \A v \in t.empties : t.dom[v] = {}
  PROVE  Attentive'
<1>1. Now' = t
  BY BecomeIs
<1>2. base' = t.base /\ empties' = t.empties /\ dom' = t.dom
  BY DEF Become
<1>3. QED
  BY <1>1, <1>2 DEF Attentive

(* A client's call.                                                        *)
LEMMA AttentiveCall ==
  ASSUME Lenient, Inv, Attentive, NEW t, Become(t), Still(t, NoVar), SameGround(Now, t),
         redundant' = redundant, allow' = allow
  PROVE  Attentive'
<1>1. t \in Networks /\ Attended(t, NoVar) /\ t.empties = {}
  BY ReadyFacts DEF Still, Minded
<1>2. t.base = base
  BY NowFields DEF SameGround
<1>3. QED
  BY <1>1, <1>2, AttentiveStep

LEMMA AttentiveReset ==
  ASSUME Lenient, Inv, Attentive, NEW v \in Var, Reset(v)
  PROVE  Attentive'
<1> DEFINE t == ResetDomain(Now, v)
<1>1. /\ v \in variables /\ Become(t) /\ ~propagating
      /\ redundant' = redundant /\ allow' = allow
  BY DEF Reset, Idle, status
<1>2. Still(t, NoVar) /\ SameGround(Now, t)
  BY <1>1, AttentiveNow, StillResetDomain
<1>3. QED
  BY <1>1, <1>2, AttentiveCall

LEMMA AttentiveSpecify ==
  ASSUME Lenient, Inv, Attentive, NEW v \in Var, NEW value \in Value, Specify(v, value)
  PROVE  Attentive'
<1> DEFINE t == SpecifyDomain(Now, v, value)
<1>1. /\ v \in variables /\ Become(t) /\ ~propagating /\ value \in Now.base[v]
      /\ redundant' = redundant /\ allow' = allow
  BY NowFields DEF Specify, Idle, status, Dirtied
<1>2. Still(t, NoVar) /\ SameGround(Now, t)
  BY <1>1, AttentiveNow, StillSpecifyDomain DEF Attentive
<1>3. QED
  BY <1>1, <1>2, AttentiveCall

LEMMA AttentiveAddVariable ==
  ASSUME Lenient, Inv, Attentive, NEW v \in Var, AddVariable(v)
  PROVE  Attentive'
<1> DEFINE t == NewVariable(Now, v)
<1>0. /\ Now \in Networks /\ Attended(Now, NoVar) /\ Now.empties = empties
      /\ \A c \in constraints : c \in Constraint /\ Vars(c) \subseteq variables
      /\ Now.constraints = constraints /\ Now.base = base
  BY AttentiveNow, NowFields DEF Attentive
<1>1. /\ v \notin variables /\ Become(t) /\ ~propagating /\ empties = {}
      /\ redundant' = redundant /\ allow' = allow
  BY DEF AddVariable, Idle, status, Dirtied, NewVariable, Attentive
<1>2. /\ t \in Networks /\ t.constraints = Now.constraints /\ t.held = Now.held
      /\ t.empties = Now.empties /\ t.agenda = Now.agenda
      /\ t.base[v] = BaseDomain[v]
      /\ \A w \in Var : w # v => t.dom[w] = Now.dom[w] /\ t.base[w] = Now.base[w]
  BY <1>0, NewVariableEffect
<1> HIDE DEF t
<1>3. Active(t) = Active(Now)
  BY <1>2 DEF Active
<1>4. \A c \in Active(t) : \A w \in Vars(c) : w \in Var /\ w # v
  BY <1>0, <1>1, <1>2, ScopeType DEF Active
<1>5. Attended(t, NoVar)
  <2>1. \A c \in Active(t) : Waits(Now, c, NoVar) => Waits(t, c, NoVar)
    BY <1>2 DEF Waits
  <2>2. \A c \in Active(t) : \A w \in Vars(c) : Now.dom[w] = t.dom[w]
    BY <1>2, <1>4
  <2>3. QED
    BY <1>0, <1>2, <1>3, <2>1, <2>2, AttendedStep
<1>6. t.base = base
  <2>1. \A w \in Var : t.base[w] = base[w]
    BY <1>0, <1>2 DEF Attentive
  <2>2. t.base \in Domains /\ base \in Domains
    BY <1>0, <1>2 DEF Networks
  <2>3. QED
    BY <2>1, <2>2 DEF Domains
<1>7. QED
  BY <1>0, <1>1, <1>2, <1>5, <1>6, AttentiveStep

LEMMA AttentiveRemoveVariable ==
  ASSUME Lenient, Inv, Attentive, NEW v \in Var, RemoveVariable(v)
  PROVE  Attentive'
<1> DEFINE P == relaxed \ {v}
           F == fresh \ {v}
           none == {}
           t == [Now EXCEPT !.relaxed = P, !.fresh = F, !.empties = none]
<1>0. Now \in Networks /\ Attended(Now, NoVar)
  BY AttentiveNow DEF Attentive
<1>1. /\ ~propagating /\ empties = {} /\ redundant' = redundant /\ allow' = allow
  BY DEF RemoveVariable, Idle, status, Dirtied, Attentive
<1>2. Become(t)
  <2>1. Become([Now EXCEPT !.relaxed = P, !.fresh = F,
                           !.empties = IF v \in empties THEN {} ELSE empties])
    BY NowFields DEF RemoveVariable
  <2>2. none = IF v \in empties THEN {} ELSE empties
    BY <1>1
  <2>3. QED
    BY <2>1, <2>2
<1>3. P \subseteq Var /\ F \subseteq Var /\ none \subseteq Var /\ none = empties
  BY <1>0, <1>1, NowFields DEF Networks
<1> HIDE DEF P, F, none
<1>4. /\ t \in Networks /\ t.constraints = Now.constraints /\ t.held = Now.held
      /\ t.empties = Now.empties /\ t.agenda = Now.agenda /\ t.dom = Now.dom /\ t.base = Now.base
  BY <1>0, <1>3, NowFields DEF Networks
<1> HIDE DEF t
<1>5. Active(t) = Active(Now)
  BY <1>4 DEF Active
<1>6. \A c \in Active(t) : Waits(Now, c, NoVar) => Waits(t, c, NoVar)
  BY <1>4 DEF Waits
<1>7. Attended(t, NoVar)
  BY <1>0, <1>4, <1>5, <1>6, AttendedStep
<1>8. QED
  BY <1>1, <1>2, <1>4, <1>7, NowFields, AttentiveStep

LEMMA AttentiveAddConstraint ==
  ASSUME Lenient, Inv, Attentive, NEW c \in Constraint, AddConstraint(c)
  PROVE  Attentive'
<1> DEFINE S == IF Withheld(c) = 0 THEN {c} ELSE {}
           t == Joined(Now, c, S)
<1>0. Now \in Networks /\ Attended(Now, NoVar) /\ Now.empties = empties /\ Now.base = base
  BY AttentiveNow, NowFields DEF Attentive
<1>1. /\ Become(t) /\ ~propagating /\ empties = {} /\ allow' = allow
      /\ c \notin Now.constraints
  BY NowFields DEF AddConstraint, Joined, Idle, Dirtied, Attentive
<1>2. redundant' = redundant
  BY DEF AddConstraint, Attentive, Lenient
<1>3. S \subseteq {c} /\ (Withheld(c) = 0 => c \in S)
  OBVIOUS
<1> HIDE DEF S
<1>4. /\ t \in Networks /\ t.constraints = Now.constraints \cup {c}
      /\ t.base = Now.base /\ t.dom = Now.dom /\ t.empties = Now.empties
      /\ t.agenda = Now.agenda \cup S /\ t.held[c] = Withheld(c)
      /\ \A d \in Constraint : d # c => t.held[d] = Now.held[d]
  BY <1>0, <1>3, JoinedEffect
<1> HIDE DEF t
<1>5. \A d \in Active(t) : d \in Active(Now) \/ Waits(t, d, NoVar)
  <2> SUFFICES ASSUME NEW d \in Active(t), d \notin Active(Now)
               PROVE  Waits(t, d, NoVar)
    OBVIOUS
  <2>1. d \in Constraint /\ t.held[d] = 0 /\ (d = c \/ d \in Now.constraints)
    BY <1>4 DEF Active, Networks
  <2>2. d = c
    BY <1>4, <2>1 DEF Active
  <2>3. c \in t.agenda
    BY <1>3, <1>4, <2>1, <2>2
  <2>4. QED
    BY <2>2, <2>3 DEF Waits
<1>6. \A d \in Active(t) : Waits(Now, d, NoVar) => Waits(t, d, NoVar)
  BY <1>4 DEF Waits
<1>7. Attended(t, NoVar)
  BY <1>0, <1>4, <1>5, <1>6, AttendedStep
<1>8. QED
  BY <1>0, <1>1, <1>2, <1>4, <1>7, AttentiveStep

LEMMA AttentiveSetAllowViolations ==
  ASSUME Lenient, Inv, Attentive, NEW b \in Tolerances, SetAllowViolations(b)
  PROVE  Attentive'
<1>1. /\ UNCHANGED <<constraints, base, dom, spec, held, fresh, relaxed, empties, violated, agenda>>
      /\ redundant' = redundant /\ propagating' = propagating /\ allow'
  BY DEF SetAllowViolations, net, status, Lenient
<1>2. Now' = Now
  BY <1>1 DEF Now
<1>3. QED
  BY <1>1, <1>2 DEF Attentive
LEMMA AttentiveRemoveConstraint ==
  ASSUME Lenient, Inv, Attentive, NEW c \in Constraint, RemoveConstraint(c)
  PROVE  Attentive'
<1> DEFINE s == Unlinked(Now, c)
           u == GivenBack(s, c)
           t == Forgotten(u, c)
<1>0. /\ Now \in Networks /\ Still(Now, NoVar) /\ Ready(Now) /\ Basic(Now) /\ Attended(Now, NoVar)
      /\ Now.empties = {} /\ c \in Now.constraints /\ Vars(c) \subseteq variables
  BY AttentiveNow, NowFields DEF RemoveConstraint, Idle, Ready, Attentive
<1>1. /\ Become(t) /\ redundant' = redundant /\ allow' = allow
  BY DEF RemoveConstraint, Forgotten, Dirtied, Attentive
<1>2. /\ s \in Networks /\ s.constraints = Now.constraints \ {c}
      /\ s.base = Now.base /\ s.dom = Now.dom /\ s.spec = Now.spec /\ s.fresh = Now.fresh
      /\ s.relaxed = Now.relaxed /\ s.empties = Now.empties /\ s.violated = Now.violated
      /\ s.agenda = Now.agenda \ {c} /\ s.held = Now.held
  BY <1>0, UnlinkedEffect
<1> HIDE DEF s
<1>3. CountedIn(Now, out, redundant) => CountedIn(s, out, redundant)
  BY <1>2 DEF CountedIn
<1>4. Basic(s)
  <2>1. s.agenda \subseteq s.constraints
    BY <1>0, <1>2 DEF Basic, BasicIn
  <2>2. \A d \in s.constraints : Vars(d) \subseteq variables
    BY <1>0, <1>2 DEF Basic, BasicIn
  <2>3. Contained(Now) => Contained(s)
    BY <1>2 DEF Contained
  <2>4. QED
    BY <1>0, <1>2, <1>3, <2>1, <2>2, <2>3 DEF Basic, BasicIn
<1>5. Attended(s, NoVar)
  <2>1. \A d \in Active(s) : d # c /\ d \in Active(Now)
    BY <1>2 DEF Active
  <2>2. \A d \in Active(s) : Waits(Now, d, NoVar) => Waits(s, d, NoVar)
    BY <1>2, <2>1 DEF Waits
  <2>3. QED
    BY <1>0, <1>2, <2>1, <2>2, AttendedStep
<1>6. Still(s, NoVar)
  BY <1>0, <1>2, <1>4, <1>5 DEF Still, Minded, Ready
<1>7. Still(u, NoVar) /\ Basic(u) /\ SameGround(s, u)
  BY <1>0, <1>4, <1>6, StillGivenBack, BasicGivenBack
<1> HIDE DEF u
<1>8. u \in Networks /\ Attended(u, NoVar) /\ u.empties = {}
  BY <1>7, ReadyFacts DEF Still, Minded
<1>9. /\ t \in Networks /\ SameGround(u, t) /\ t.dom = u.dom /\ t.empties = u.empties
      /\ t.agenda = u.agenda /\ \A d \in Constraint : d # c => t.held[d] = u.held[d]
  BY <1>8, ForgottenEffect
<1> HIDE DEF t
<1>10. \A d \in Active(t) : d \in Constraint /\ d # c /\ d \in Active(u)
  <2>1. t.constraints = Now.constraints \ {c} /\ t.constraints = u.constraints
    BY <1>2, <1>7, <1>9 DEF SameGround
  <2>2. \A d \in Active(t) : d \in Constraint /\ d # c /\ d \in u.constraints /\ t.held[d] = 0
    BY <1>0, <2>1 DEF Active, Networks
  <2>3. QED
    BY <1>9, <2>2 DEF Active
<1>11. \A d \in Active(t) : Waits(u, d, NoVar) => Waits(t, d, NoVar)
  BY <1>9 DEF Waits
<1>12. Attended(t, NoVar)
  BY <1>8, <1>9, <1>10, <1>11, AttendedStep
<1>13. t.base = base /\ t.empties = {}
  BY <1>2, <1>7, <1>8, <1>9, NowFields DEF SameGround
<1>14. QED
  BY <1>1, <1>9, <1>12, <1>13, AttentiveStep

(* The constraints on v are active no longer.                              *)
LEMMA AttentiveDeactivate ==
  ASSUME Lenient, Inv, Inv', Attentive, NEW v \in Var, Deactivate(v)
  PROVE  Attentive'
<1> DEFINE P == [out EXCEPT ![v] = @ + 1]
           C == On(Now, v)
           t == Deactivated(Now, C)
<1>0. /\ Now \in Networks /\ Attended(Now, NoVar) /\ Now.empties = empties /\ Now.base = base
  BY AttentiveNow, NowFields DEF Attentive
<1>1. /\ out' = P /\ Become(t) /\ out[v] < MaxHeld /\ empties = {}
      /\ redundant' = redundant /\ allow' = allow
  BY DEF Deactivate, Idle, status, Attentive
<1>2. /\ P \in [Var -> 0 .. MaxHeld] /\ out \in [Var -> 0 .. MaxHeld]
      /\ P[v] = out[v] + 1 /\ \A w \in Var : w # v => P[w] = out[w]
  BY <1>1, EngineAssumption DEF EngineAssumption, Inv
<1>3. C \subseteq Constraint /\ \A c : c \in C <=> c \in Now.constraints /\ v \in Vars(c)
  BY <1>0 DEF On, Networks
<1> HIDE DEF P, C
<1>4. /\ t \in Networks /\ SameGround(Now, t) /\ t.dom = Now.dom /\ t.empties = Now.empties
      /\ t.agenda = Now.agenda \ C
      /\ \A c \in Constraint \ C : t.held[c] = Now.held[c]
  BY <1>0, <1>3, DeactivatedEffect
<1> HIDE DEF t
<1>5. Now' = t
  BY <1>1, <1>4, BecomeIs
<1>6. CountedIn(t, P, {})
  <2>1. BasicIn(Now', variables', out', redundant', constraints')
    BY DEF Inv
  <2>2. redundant' = {}
    BY <1>1 DEF Attentive
  <2>3. QED
    BY <1>1, <1>5, <2>1, <2>2 DEF BasicIn, Lenient
<1>7. \A c \in Active(t) : c \in Constraint /\ c \notin C /\ c \in Active(Now)
  <2> SUFFICES ASSUME NEW c \in Active(t)
               PROVE  c \in Constraint /\ c \notin C /\ c \in Active(Now)
    OBVIOUS
  <2>1. c \in Constraint /\ c \in Now.constraints /\ c \in t.constraints /\ t.held[c] = 0
    BY <1>0, <1>4 DEF Active, SameGround, Networks
  <2>2. c \notin C
    <3>1. SUFFICES ASSUME c \in C
                   PROVE  FALSE
      OBVIOUS
    <3>2. out \in [Var -> Nat] /\ P \in [Var -> Nat]
      BY <1>2, OutType
    <3>3. v \in Vars(c)
      BY <1>3, <3>1
    <3>4. Load(P, c) = Load(out, c) + 1
      BY <1>2, <2>1, <3>2, <3>3, LoadMoves
    <3>5. Load(out, c) \in Nat
      BY <1>2, <2>1, LoadType
    <3>6. t.held[c] = Load(P, c) \/ t.held[c] = Load(P, c) + 1
      BY <1>6, <2>1 DEF CountedIn
    <3>7. QED
      BY <2>1, <3>4, <3>5, <3>6
  <2>3. QED
    BY <1>4, <2>1, <2>2 DEF Active
<1>8. \A c \in Active(t) : Waits(Now, c, NoVar) => Waits(t, c, NoVar)
  BY <1>4, <1>7 DEF Waits
<1>9. Attended(t, NoVar)
  BY <1>0, <1>4, <1>7, <1>8, AttendedStep
<1>10. t.base = base /\ t.empties = {}
  BY <1>0, <1>1, <1>4 DEF SameGround
<1>11. QED
  BY <1>1, <1>4, <1>9, <1>10, AttentiveStep

LEMMA AttentiveReactivate ==
  ASSUME Lenient, Inv, Attentive, NEW v \in Var, Reactivate(v)
  PROVE  Attentive'
<1> DEFINE C == On(Now, v)
           t == UndoDeactivation(Now, C)
<1>0. /\ Now \in Networks /\ Attended(Now, NoVar) /\ Now.empties = empties /\ Now.base = base
  BY AttentiveNow, NowFields DEF Attentive
<1>1. /\ Become(t) /\ empties = {} /\ redundant = {} /\ redundant' = redundant /\ allow' = allow
  BY DEF Reactivate, Idle, status, Attentive
<1>2. C \subseteq Constraint
  BY <1>0 DEF On, Networks
<1> HIDE DEF C
<1>3. Undone(Now, C, t)
  BY <1>0, <1>2, UndoDeactivationEffect
<1> HIDE DEF t
<1>4. /\ t \in Networks /\ SameGround(Now, t) /\ t.dom = Now.dom /\ t.empties = Now.empties
      /\ Now.agenda \subseteq t.agenda
      /\ \A c \in Constraint : c \notin C => t.held[c] = Now.held[c]
      /\ \A c \in C : t.held[c] = 0 => c \in t.agenda
  BY <1>1, <1>3 DEF Undone
<1>5. \A c \in Active(t) : c \in Active(Now) \/ Waits(t, c, NoVar)
  <2> SUFFICES ASSUME NEW c \in Active(t), c \notin t.agenda
               PROVE  c \in Active(Now)
    BY DEF Waits
  <2>1. c \in Constraint /\ c \in Now.constraints /\ t.held[c] = 0
    BY <1>0, <1>4 DEF Active, SameGround, Networks
  <2>2. QED
    BY <1>4, <2>1 DEF Active
<1>6. \A c \in Active(t) : Waits(Now, c, NoVar) => Waits(t, c, NoVar)
  BY <1>4 DEF Waits
<1>7. Attended(t, NoVar)
  BY <1>0, <1>4, <1>5, <1>6, AttendedStep
<1>8. t.base = base /\ t.empties = {}
  BY <1>0, <1>1, <1>4 DEF SameGround
<1>9. QED
  BY <1>1, <1>4, <1>7, <1>8, AttentiveStep
-----------------------------------------------------------------------------
(* Propagation.                                                            *)
LEMMA AttendedNewCycle ==
  ASSUME NEW s, NEW Y, s \in Networks, Attended(s, Y)
  PROVE  /\ NewCycle(s) \in Networks /\ Attended(NewCycle(s), Y) /\ SameGround(s, NewCycle(s))
         /\ NewCycle(s).empties = s.empties /\ NewCycle(s).dom = s.dom
<1> DEFINE t == NewCycle(s)
<1>1. /\ t \in Networks /\ SameGround(s, t) /\ t.held = s.held /\ t.agenda = s.agenda
      /\ t.dom = s.dom /\ t.empties = s.empties
  BY NewCycleEffect
<1> HIDE DEF t
<1>2. Active(t) = Active(s)
  BY <1>1 DEF Active, SameGround
<1>3. \A c \in Active(t) : Waits(s, c, Y) => Waits(t, c, Y)
  BY <1>1 DEF Waits
<1>4. Attended(t, Y)
  BY <1>1, <1>2, <1>3, AttendedStep
<1>5. QED
  BY <1>1, <1>4 DEF t

LEMMA AttentiveStartPropagation ==
  ASSUME Lenient, Inv, Attentive, StartPropagation
  PROVE  Attentive'
<1> DEFINE t == NewCycle(Now)
<1>0. /\ Now \in Networks /\ Attended(Now, NoVar) /\ Now.empties = empties /\ Now.base = base
  BY AttentiveNow, NowFields DEF Attentive
<1>1. /\ empties = {} /\ redundant' = redundant /\ allow' = allow
      /\ Become(NewCycle(RelaxEmpties(Now, TRUE)))
  BY DEF StartPropagation, Idle, status, Attentive
<1>2. RelaxEmpties(Now, TRUE) = Now
  BY <1>0, <1>1, NoneToRelax
<1>3. t \in Networks /\ Attended(t, NoVar) /\ SameGround(Now, t) /\ t.empties = Now.empties
  BY <1>0, AttendedNewCycle
<1>4. Become(t)
  BY <1>1, <1>2
<1> HIDE DEF t
<1>5. t.base = base /\ t.empties = {}
  BY <1>0, <1>1, <1>3 DEF SameGround
<1>6. QED
  BY <1>1, <1>3, <1>4, <1>5, AttentiveStep

LEMMA AttentiveCompletePropagation ==
  ASSUME Lenient, Inv, Attentive, CompletePropagation
  PROVE  Attentive'
<1> DEFINE none == {}
           s == Deactivated(Now, none)
<1>0. /\ Now \in Networks /\ Attended(Now, NoVar) /\ Now.empties = empties /\ Now.base = base
  BY AttentiveNow, NowFields DEF Attentive
<1>1. /\ empties = {} /\ redundant' = redundant /\ allow' = allow
      /\ Become(NewCycle(s)) \/ Become(NewCycle(Now))
  BY DEF CompletePropagation, status, Attentive, Inv
<1>2. none \subseteq Constraint /\ \A c : c \notin none
  OBVIOUS
<1> HIDE DEF none
<1>3. /\ s \in Networks /\ SameGround(Now, s) /\ s.dom = Now.dom /\ s.empties = Now.empties
      /\ s.agenda = Now.agenda \ none
      /\ \A c \in Constraint \ none : s.held[c] = Now.held[c]
  BY <1>0, <1>2, DeactivatedEffect
<1> HIDE DEF s
<1>4. Attended(s, NoVar)
  <2>1. \A c \in Constraint : s.held[c] = Now.held[c]
    BY <1>2, <1>3
  <2>2. \A c \in Active(s) : c \in Active(Now)
    BY <1>0, <1>3, <2>1 DEF Active, SameGround, Networks
  <2>3. \A c \in Active(s) : Waits(Now, c, NoVar) => Waits(s, c, NoVar)
    BY <1>2, <1>3 DEF Waits
  <2>4. QED
    BY <1>0, <1>3, <2>2, <2>3, AttendedStep
<1>5. ASSUME NEW r, r \in Networks, Attended(r, NoVar), SameGround(Now, r),
             r.empties = Now.empties, Become(NewCycle(r))
      PROVE  Attentive'
  <2> DEFINE t == NewCycle(r)
  <2>1. t \in Networks /\ Attended(t, NoVar) /\ SameGround(r, t) /\ t.empties = r.empties
    BY <1>5, AttendedNewCycle
  <2>2. Become(t)
    BY <1>5
  <2> HIDE DEF t
  <2>3. t.base = base /\ t.empties = {}
    BY <1>0, <1>1, <1>5, <2>1 DEF SameGround
  <2>4. QED
    BY <1>1, <2>1, <2>2, <2>3, AttentiveStep
<1>6. SameGround(Now, Now)
  BY DEF SameGround
<1>7. QED
  BY <1>0, <1>1, <1>3, <1>4, <1>5, <1>6

LEMMA AttentiveResumePropagation ==
  ASSUME Lenient, Inv, Attentive, ResumePropagation
  PROVE  Attentive'
<1> DEFINE s == NewCycle(Now)
           u == RelaxEmpties(s, FALSE)
           t == NewCycle(u)
<1>0. /\ Now \in Networks /\ Minded(Now, NoVar) /\ Basic(Now) /\ Now.base = base
      /\ \A v \in Now.empties : Now.dom[v] = {}
  BY AttentiveNow, InvBasic, NowFields DEF Attentive
<1>1. Become(t) /\ redundant' = redundant /\ allow' = allow
  BY DEF ResumePropagation, status
<1>2. /\ s \in Networks /\ SameGround(Now, s) /\ s.dom = Now.dom /\ s.held = Now.held
      /\ s.empties = Now.empties /\ s.agenda = Now.agenda /\ Basic(s)
  BY <1>0, NewCycleEffect, BasicNewCycle
<1> HIDE DEF s
<1>3. Minded(s, NoVar)
  BY <1>0, <1>2, MindedGrown
<1>4. Plain(s)
  BY <1>0, <1>2 DEF Plain
<1>5. Still(u, NoVar)
  BY <1>3, <1>4, MindedRelaxEmpties
<1>6. SameGround(s, u)
  <2> DEFINE no == FALSE
  <2>1. no \in BOOLEAN
    OBVIOUS
  <2> HIDE DEF no
  <2>2. SameGround(s, RelaxEmpties(s, no))
    BY <1>2, <2>1, BasicRelaxEmpties
  <2>3. QED
    BY <2>2 DEF no
<1> HIDE DEF u
<1>7. u \in Networks /\ Attended(u, NoVar) /\ u.empties = {}
  BY <1>5, ReadyFacts DEF Still, Minded
<1>8. t \in Networks /\ Attended(t, NoVar) /\ SameGround(u, t) /\ t.empties = u.empties
  BY <1>7, AttendedNewCycle
<1> HIDE DEF t
<1>9. t.base = base /\ t.empties = {}
  BY <1>0, <1>2, <1>6, <1>7, <1>8 DEF SameGround
<1>10. QED
  BY <1>1, <1>8, <1>9, AttentiveStep

(* c has nothing left to take; who shares a variable that it changed is    *)
(* told.                                                                   *)
LEMMA AttentiveExecuteConsistently ==
  ASSUME Lenient, Inv, Attentive, NEW c \in Constraint, ExecuteConsistently(c)
  PROVE  Attentive'
<1> DEFINE f == Filtered(c, dom)
           s == WithDomains(Now, f)
           r == Executed(c)
           A == r.agenda \ {c}
           t == [r EXCEPT !.agenda = A]
<1>0. /\ Now \in Networks /\ Attended(Now, NoVar) /\ Now.empties = empties /\ Now.base = base
      /\ Now.dom = dom /\ Now.held = held /\ Now.constraints = constraints
      /\ Now.agenda = agenda /\ dom \in Domains /\ agenda \subseteq constraints
      /\ \A d \in Active(Now) : d \in Constraint /\ d \in constraints
                                /\ \A v \in Vars(d) : v \in Var /\ ~Inactive(v)
  BY AttentiveNow, NowFields, ReadyFacts, ScopeType DEF Attentive, Networks
<1>1. /\ empties = {} /\ redundant' = redundant /\ allow' = allow
      /\ c \in agenda /\ held[c] = 0 /\ Supports(c, dom) # {}
      /\ Become([r EXCEPT !.agenda = @ \ {c}])
  BY DEF ExecuteConsistently, Propagating, status, Executed, Reported, WithDomains
<1>2. Become(t)
  BY <1>1
<1>3. /\ f \in Domains /\ Consistent(c, f)
      /\ \A v \in Vars(c) : v \in ExecutionChanges(c) \/ f[v] = dom[v]
      /\ \A v \in Var : v \notin Vars(c) => f[v] = dom[v]
  BY <1>0, <1>1, FilteredType, FilteredConsistent DEF ExecutionChanges
<1>4. /\ s \in Networks /\ r \in Networks /\ Alike(s, r) /\ s.agenda \subseteq r.agenda
      /\ \A v \in ExecutionChanges(c) : ~Inactive(v) => On(s, v) \cap Active(s) \subseteq r.agenda
  BY ExecutedEffect
<1> HIDE DEF r, f
<1>5. /\ SameGround(Now, s) /\ s.held = Now.held /\ s.empties = Now.empties
      /\ s.agenda = Now.agenda /\ s.dom = f
  BY <1>0, <1>3, WithDomainsEffect
<1> HIDE DEF s
<1>6. A \subseteq Constraint /\ \A d \in r.agenda : d = c \/ d \in A
  BY <1>4 DEF Networks
<1> HIDE DEF A
<1>7. t \in Networks /\ Alike(r, t) /\ t.agenda = A
  BY <1>4, <1>6, SetAgenda
<1> HIDE DEF t
<1>8. t.base = base /\ t.empties = {} /\ t.dom = f
  BY <1>0, <1>1, <1>4, <1>5, <1>7 DEF Alike, SameGround
<1>9. Active(t) = Active(Now) /\ Active(s) = Active(Now) /\ s.constraints = constraints
  BY <1>0, <1>4, <1>5, <1>7 DEF Active, Alike, SameGround
<1>10. c \in Active(Now)
  BY <1>0, <1>1 DEF Active
<1>11. ASSUME NEW d \in Active(Now), d # c, d \notin t.agenda
       PROVE  Consistent(d, f)
  <2>1. d \notin agenda
    BY <1>0, <1>4, <1>5, <1>6, <1>7, <1>11
  <2>2. Consistent(d, dom)
    BY <1>0, <1>1, <2>1 DEF Attended, Waits, NoVar
  <2>3. ASSUME NEW v \in Vars(d)
        PROVE  dom[v] = f[v]
    <3>1. CASE v \in ExecutionChanges(c)
      <4>1. v \in Var /\ ~Inactive(v)
        BY <1>0
      <4>2. d \in On(s, v) \cap Active(s)
        BY <1>0, <1>9 DEF On
      <4>3. d \in r.agenda
        BY <1>4, <3>1, <4>1, <4>2
      <4>4. QED
        BY <1>6, <1>7, <1>11, <4>3
    <3>2. CASE v \notin ExecutionChanges(c)
      BY <1>0, <1>3, <3>2
    <3>3. QED
      BY <3>1, <3>2
  <2>4. d \in Constraint
    BY <1>0
  <2>5. QED
    BY <1>0, <1>3, <2>2, <2>3, <2>4, ConsistentElsewhere
<1>12. Attended(t, NoVar)
  BY <1>3, <1>8, <1>9, <1>11 DEF Attended, Waits
<1>13. QED
  BY <1>1, <1>2, <1>7, <1>8, <1>12, AttentiveStep

(* c is set aside; who shares the variable that it emptied waits for that  *)
(* variable to be relaxed.                                                 *)
LEMMA AttentiveExecuteInconsistently ==
  ASSUME Lenient, Inv, Attentive, NEW c \in Constraint, ExecuteInconsistently(c)
  PROVE  Attentive'
<1>0. /\ Now \in Networks /\ Attended(Now, NoVar) /\ Now.empties = empties /\ Now.base = base
      /\ Now.held = held /\ Now.constraints = constraints /\ Now.agenda = agenda
      /\ agenda \subseteq constraints /\ variables \subseteq Var
      /\ \A d \in Active(Now) : d \in Constraint /\ d \in constraints
                                /\ \A v \in Vars(d) : v \in Var /\ ~Inactive(v)
  BY AttentiveNow, NowFields, ReadyFacts, ScopeType DEF Attentive
<1>1. /\ empties = {} /\ redundant' = redundant /\ allow' = allow /\ allow
      /\ propagating /\ propagating' = propagating
      /\ c \in agenda /\ held[c] = 0
  BY DEF ExecuteInconsistently, Propagating, status, Attentive
<1>2. c \in Active(Now)
  BY <1>0, <1>1 DEF Active
<1>3. PICK v \in Vars(c) :
        /\ ~Inactive(v) /\ allow => Become(SetAside(WithoutValues(Now, v), c))
        /\ Inactive(v) \/ ~allow => Become(Dropped(WithoutValues(Now, v)))
  BY ExecuteInconsistentlyIs
<1> DEFINE s == WithoutValues(Now, v)
           t == SetAside(s, c)
<1>4. v \in Var /\ ~Inactive(v) /\ Become(t)
  BY <1>0, <1>1, <1>2, <1>3
<1>5. /\ s \in Networks /\ SameGround(Now, s) /\ s.held = Now.held /\ s.agenda = Now.agenda
      /\ s.dom[v] = {} /\ \A w \in Var : w # v => s.dom[w] = Now.dom[w]
      /\ v \in s.empties /\ s.empties \subseteq {v}
  <2>1. s.empties \subseteq Now.empties \cup {v}
    BY <1>0, <1>4, WithoutValuesEffect
  <2>2. QED
    BY <1>0, <1>1, <1>4, <2>1, WithoutValuesEffect
<1> HIDE DEF s
<1>6. /\ t \in Networks /\ SameGround(s, t) /\ t.dom = s.dom /\ t.empties = s.empties
      /\ t.agenda = s.agenda \ {c} /\ t.held[c] = (s.held[c] + 1) % UIntMod
      /\ \A d \in Constraint : d # c => t.held[d] = s.held[d]
  BY <1>5, SetAsideEffect
<1> HIDE DEF t
<1>7. t.held[c] = 1
  BY <1>0, <1>1, <1>5, <1>6, CountIsNat
<1>8. \A d \in Active(t) : d \in Constraint /\ d # c /\ d \in Active(Now)
  <2>1. \A d \in Active(t) : d \in Constraint /\ d # c /\ d \in Now.constraints /\ t.held[d] = 0
    BY <1>0, <1>5, <1>6, <1>7 DEF Active, SameGround, Networks
  <2>2. QED
    BY <1>5, <1>6, <2>1 DEF Active
<1>9. \A d \in Active(t) : Waits(Now, d, NoVar) => Waits(t, d, NoVar)
  BY <1>0, <1>1, <1>5, <1>6, <1>8 DEF Waits
<1>10. \A d \in Active(t) : Waits(t, d, NoVar) \/ \A w \in Vars(d) : Now.dom[w] = t.dom[w]
  <2>1. \A d \in Active(t) : v \notin Vars(d) => \A w \in Vars(d) : Now.dom[w] = t.dom[w]
    BY <1>0, <1>5, <1>6, <1>8
  <2>2. \A d \in Active(t) : v \in Vars(d) => Waits(t, d, NoVar)
    BY <1>5, <1>6 DEF Waits
  <2>3. QED
    BY <2>1, <2>2
<1>11. Attended(t, NoVar)
  BY <1>0, <1>6, <1>8, <1>9, <1>10, AttendedStep
<1>12. t.base = base /\ \A w \in t.empties : t.dom[w] = {}
  BY <1>0, <1>5, <1>6 DEF SameGround
<1>13. QED
  BY <1>1, <1>4, <1>6, <1>11, <1>12, AttentiveStep
-----------------------------------------------------------------------------
LEMMA AttentiveInit ==
  ASSUME Lenient, Init
  PROVE  Attentive
<1>1. Active(Now) = {} /\ redundant = {} /\ base = BaseDomain /\ empties = {} /\ allow
  BY NowFields DEF Init, Active, Lenient
<1>2. QED
  BY <1>1 DEF Attentive, Attended

LEMMA AttentiveNext ==
  ASSUME Lenient, Inv, Inv', Attentive, [Next]_vars
  PROVE  Attentive'
<1>1. CASE UNCHANGED vars
  <2>1. /\ Now' = Now /\ redundant' = redundant /\ allow' = allow /\ propagating' = propagating
        /\ base' = base /\ empties' = empties /\ dom' = dom
    BY <1>1 DEF vars, net, status, mode, Now
  <2>2. QED
    BY <2>1 DEF Attentive
<1>2. CASE Propagate
  <2>1. ASSUME NEW c \in Constraint, Execute(c)
        PROVE  Attentive'
    BY <2>1, AttentiveExecuteConsistently, AttentiveExecuteInconsistently DEF Execute
  <2>2. ~PreemptPropagation
    BY DEF PreemptPropagation, Attentive
  <2>3. QED
    BY <1>2, <2>1, <2>2, AttentiveCompletePropagation, AttentiveResumePropagation DEF Propagate
<1>3. CASE Client
  <2>1. ASSUME NEW v \in Var,
               \/ AddVariable(v) \/ RemoveVariable(v) \/ Reset(v) \/ Deactivate(v) \/ Reactivate(v)
               \/ \E value \in Value : Specify(v, value)
        PROVE  Attentive'
    BY <2>1, AttentiveAddVariable, AttentiveRemoveVariable, AttentiveReset, AttentiveDeactivate,
       AttentiveReactivate, AttentiveSpecify
  <2>2. ASSUME NEW v \in Var,
               \/ ReadDerivedDomain(v)
               \/ \E r \in Restrictions : /\ r[1] = v /\ Respects(v, r[2])
                                          /\ RestrictBaseDomain(v, r[2])
        PROVE  FALSE
    <3>1. ReadDerivedDomain(v) => FALSE
      BY DEF ReadDerivedDomain, Idle, Attentive
    <3>2. QED
      BY <2>2, <3>1 DEF Lenient
  <2>3. ASSUME NEW c \in Constraint, AddConstraint(c) \/ RemoveConstraint(c)
        PROVE  Attentive'
    BY <2>3, AttentiveAddConstraint, AttentiveRemoveConstraint
  <2>4. ASSUME NEW b \in Tolerances, SetAllowViolations(b)
        PROVE  Attentive'
    BY <2>4, AttentiveSetAllowViolations
  <2>5. CASE StartPropagation
    BY <2>5, AttentiveStartPropagation
  <2>6. QED
    BY <1>3, <2>1, <2>2, <2>3, <2>4, <2>5 DEF Client
<1>4. QED
  BY <1>1, <1>2, <1>3 DEF Next

LEMMA AttentiveMeans ==
  ASSUME Attentive
  PROVE  NothingForgotten
<1>1. \A c \in Active(Now) : Waits(Now, c, NoVar) => c \in agenda \/ Vars(c) \cap empties # {}
  BY NowFields DEF Waits, NoVar
<1>2. QED
  BY <1>1, NowFields DEF Attentive, Attended, NothingForgotten

(* When nothing is left on the agenda and no variable is on record as      *)
(* empty, every active constraint has filtered the domains as they are     *)
(* now: at no time is there an active constraint that could take a value   *)
(* away and that is neither on the agenda nor waiting for an empty         *)
(* variable.  Proved with violations allowed, for constraints that are set *)
(* aside and restored, variables that are deactivated, reactivated and     *)
(* deleted, and values that are set and reset, in any order and at any     *)
(* moment that the code lets a client call.                                *)
THEOREM NoConstraintIsForgotten ==
  ASSUME Lenient
  PROVE  Spec => []NothingForgotten
<1>1. Init => Attentive
  BY AttentiveInit
<1>2. Inv /\ Inv' /\ Attentive /\ [Next]_vars => Attentive'
  BY AttentiveNext
<1>3. Attentive => NothingForgotten
  BY AttentiveMeans
<1>4. QED
  BY <1>1, <1>2, <1>3, InvHolds, PTL DEF Spec
=============================================================================
