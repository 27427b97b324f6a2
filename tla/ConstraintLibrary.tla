-------------------------- MODULE ConstraintLibrary --------------------------
(***************************************************************************)
(* A constraint of the library among clients and other constraints that    *)
(* restrict its variables: which of their events put it on the agenda of   *)
(* its propagator, which it ignores, and what one execution takes away.    *)
(* What it takes away itself does not put it there again                   *)
(* (DefaultPropagator::handleNotification), so an execution must leave     *)
(* nothing to do.                                                          *)
(***************************************************************************)
EXTENDS Filters

CONSTANTS
  Class,   \* classes of the library
  Scope,   \* of each class, the scopes it is tried on: base domains
  Source   \* the domain that a unary constraint allows

ASSUME LibraryAssumption ==
  /\ \A c \in Class : \A B \in Scope[c] :
       /\ B \in Seq([kind : Kind, values : SUBSET Int])
       /\ \A i \in DOMAIN B : IsDomain(B[i]) /\ ~IsEmpty(B[i])
  /\ IsDomain(Source) /\ IsInterval(Source) /\ ~IsEmpty(Source)

VARIABLES
  class,   \* of the constraint
  base,    \* base domains of the variables in its scope
  domain,  \* and their current domains
  agenda   \* the propagator has it on its agenda

vars == <<class, base, domain, agenda>>
-----------------------------------------------------------------------------
(* CanIgnoreSwapped is a mutated form of CanIgnore.                         *)
Restricts(event) == event # "RELAXED"

CanIgnoreSwapped(c, i, event, d) ==
  /\ c \in {"LessThanEqual", "LessThan"}
  /\ \/ i = 1 /\ event = "LOWER_BOUND_INCREASED"
     \/ i = 2 /\ event = "UPPER_BOUND_DECREASED"

(* Constraint::canIgnore and its overrides: d is the domain after the event.*)
CanIgnore(c, i, event, d) ==
  \/ /\ c \in {"LessThanEqual", "LessThan"}
     /\ \/ i = 1 /\ event = "UPPER_BOUND_DECREASED"
        \/ i = 2 /\ event = "LOWER_BOUND_INCREASED"
  \/ c = "SubsetOf" /\ i = 1 /\ Restricts(event)
  \/ c = "Unary" /\ Restricts(event)
  \/ /\ c = "NotEqual" /\ Restricts(event)
     /\ ~IsSingleton(d) /\ ~(IsInterval(d) /\ Cardinality(d.values) <= 2)

Filter(c, D) ==
  CASE c = "SubsetOf" -> SubsetOf(D)
    [] c = "LessThanEqual" -> LessThanEqual(D, 1, 2)
    [] c = "LessThan" -> LessThan(D, 1, 2)
    [] c = "NotEqual" -> NotEqual(D)
    [] c = "Equal" -> Equal(D)
    [] c = "AddEqual" -> AddEqual(D)
    [] c = "MultEqual" -> MultEqual(D)
    [] c = "DivEqual" -> DivEqual(D)
    [] c = "Negate" -> Negate(D)
    [] c = "AbsoluteValue" -> AbsoluteValue(D)
    [] c = "WithinBounds" -> WithinBounds(D)
    [] c = "EqualMinimum" -> EqualMinimum(D)
    [] c = "EqualMaximum" -> EqualMaximum(D)
    [] c = "CountZeroes" -> CountZeroes(D)
    [] c = "CondAllSame" -> CondAllSame(D)
    [] c = "CondAllDiff" -> CondAllDiff(D)
    [] c = "TestEQ" -> TestEQ(D)
    [] c = "TestNEQ" -> TestNEQ(D)
    [] c = "TestOr" -> TestOr(D)
    [] c = "TestAnd" -> TestAnd(D)
    [] c = "TestLessThan" -> TestLessThan(D)
    [] c = "TestLEQ" -> TestLEQ(D)
    [] c = "SquareOfDifference" -> SquareOfDifference(D)
    [] c = "Max" -> MaxOf(D)
    [] c = "Min" -> MinOf(D)
    [] c = "Abs" -> AbsOf(D)
    [] c = "Mod" -> ModOf(D)
    [] c = "TestSingleton" -> TestSingleton(D)
    [] c = "Unary" -> Unary(D, Source)
-----------------------------------------------------------------------------
(* A new constraint is activated, and put on the agenda.                    *)
Init ==
  /\ class \in Class
  /\ base \in Scope[class]
  /\ domain = base
  /\ agenda = TRUE

Notify(i, event, d) == agenda' = (agenda \/ ~CanIgnore(class, i, event, d))

(* A client or another constraint intersects the domain of a variable.      *)
RestrictTo(i, d) ==
  /\ ~SomeEmpty(domain)
  /\ domain' = [domain EXCEPT ![i] = d]
  /\ Notify(i, EventOf(domain[i], d), d)
  /\ UNCHANGED <<class, base>>

SubDomains(d) ==
  {e \in {[d EXCEPT !.values = S] : S \in SUBSET d.values} :
     ~IsEmpty(e) /\ e # d
     /\ (IsInterval(d) => e.values = Lower(e) .. Upper(e))}

Restriction == \E i \in DOMAIN domain : \E d \in SubDomains(domain[i]) : RestrictTo(i, d)

(* Or removes a value of it, with another event.                            *)
RemoveValue(i, v) ==
  LET d == Without(domain[i], v) IN
  /\ ~SomeEmpty(domain)
  /\ d # domain[i] /\ ~IsEmpty(d)
  /\ domain' = [domain EXCEPT ![i] = d]
  /\ Notify(i, EventOfRemove(domain[i], v), d)
  /\ UNCHANGED <<class, base>>

Removal == \E i \in DOMAIN domain : \E v \in domain[i].values : RemoveValue(i, v)

(* What restricted the variables is retracted: those that lose a value by   *)
(* it are relaxed.                                                          *)
Relax ==
  /\ domain # base
  /\ domain' = base
  /\ agenda' = \/ agenda
                \/ \E i \in DOMAIN domain :
                     domain[i] # base[i] /\ ~CanIgnore(class, i, "RELAXED", base[i])
  /\ UNCHANGED <<class, base>>

(* DefaultPropagator::execute: an inconsistency clears the agenda.          *)
Execute ==
  /\ agenda
  /\ ~SomeEmpty(domain)
  /\ \E D \in {Filter(class, domain)} : domain' = D
  /\ agenda' = FALSE
  /\ UNCHANGED <<class, base>>

Next == Restriction \/ Removal \/ Relax \/ Execute

Spec == Init /\ [][Next]_vars
=============================================================================
