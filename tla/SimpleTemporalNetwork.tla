----------------------- MODULE SimpleTemporalNetwork -----------------------
(***************************************************************************)
(* What a network of temporal constraints promises its clients: an answer  *)
(* is about the constraints that are in it, and about nothing else.        *)
(*                                                                         *)
(* Nothing is remembered between two questions.  Whether there is a        *)
(* schedule, and how far apart two time points can be, is read off the     *)
(* shortest distances between all pairs of time points.                    *)
(***************************************************************************)
EXTENDS Integers, FiniteSets, FiniteSetsExt, TLC

CONSTANTS
  Timepoint,  \* the time points there can be
  Origin,     \* the time point that all times are relative to
  Link,       \* names for the temporal constraints
  Bound,      \* the finite bounds of temporal constraints
  Infinity    \* greater than any distance

(* What is assumed of the constants; a module that is extended assumes it. *)
ProperNetwork ==
  /\ IsFiniteSet(Timepoint) /\ Origin \in Timepoint
  /\ IsFiniteSet(Bound) /\ Bound \subseteq Int /\ Infinity \in Nat \ {0}
  /\ \A b \in Bound : /\ b * Cardinality(Timepoint) < Infinity
                      /\ -b * Cardinality(Timepoint) < Infinity

VARIABLES
  timepoints,   \* the time points of the network
  links,        \* the constraints of the network, by name
  reply         \* what the last question was answered with

vars == <<timepoints, links, reply>>

IsLink(l) ==
  /\ DOMAIN l = {"head", "foot", "lb", "ub"}
  /\ l.head \in Timepoint /\ l.foot \in Timepoint /\ l.head # l.foot
  /\ l.lb \in Bound \cup {-Infinity} /\ l.ub \in Bound \cup {Infinity} /\ l.lb <= l.ub

Nothing == [answer |-> "none"]
-----------------------------------------------------------------------------
(* Shortest distances.                                                     *)
Least(S) == Min(S \cup {Infinity})
Plus(a, b) == IF a = Infinity \/ b = Infinity THEN Infinity ELSE a + b

(* foot - head is at most ub and at least lb.                              *)
Direct(C, m, n) ==
  Least({l.ub : l \in {k \in C : k.head = m /\ k.foot = n}}
          \cup {-l.lb : l \in {k \in C : k.head = n /\ k.foot = m}}
          \cup (IF m = n THEN {0} ELSE {}))

(* By way of u as well, where that is shorter.                             *)
Through(d, u) ==
  LET via(p) == Plus(d[<<p[1], u>>], d[<<u, p[2]>>])
  IN  [p \in DOMAIN d |-> IF via(p) < d[p] THEN via(p) ELSE d[p]]

Distances(P, C) ==
  FoldSet(LAMBDA u, d : Through(d, u), [p \in {<<m, n>> : m, n \in P} |-> Direct(C, p[1], p[2])], P)

Satisfiable(P, d) == \A p \in P : d[<<p, p>>] = 0

Current == {links[l] : l \in DOMAIN links}
Truth == Distances(timepoints, Current)

(* What the clients are told of an inconsistent network.                   *)
Inconsistent == <<2, -2>>
TrueBounds(d, p, q) ==
  IF Satisfiable(timepoints, d) THEN <<-d[<<q, p>>], d[<<p, q>>]>> ELSE Inconsistent
-----------------------------------------------------------------------------
Init ==
  /\ timepoints = {Origin}
  /\ links = << >>
  /\ reply = Nothing

Change == reply' = Nothing

AddTimepoint ==
  /\ \E p \in Timepoint \ timepoints : timepoints' = timepoints \cup {p}
  /\ Change /\ UNCHANGED links

DeleteTimepoint ==
  /\ \E p \in timepoints \ {Origin} :
       /\ \A l \in Current : p \notin {l.head, l.foot}
       /\ timepoints' = timepoints \ {p}
  /\ Change /\ UNCHANGED links

(* One constraint is added, tightened, or taken away.                      *)
Tightened(old, new) ==
  /\ new.head = old.head /\ new.foot = old.foot
  /\ old.lb <= new.lb /\ new.ub <= old.ub

Constrain ==
  /\ \E l \in Link :
       /\ \A k \in Link \ {l} :
            IF k \in DOMAIN links THEN k \in DOMAIN links' /\ links'[k] = links[k]
                                 ELSE k \notin DOMAIN links'
       /\ l \in DOMAIN links' =>
            /\ IsLink(links'[l]) /\ {links'[l].head, links'[l].foot} \subseteq timepoints
            /\ l \in DOMAIN links => Tightened(links[l], links'[l])
  /\ Change /\ UNCHANGED timepoints

(* A question changes nothing; the reply is about two of the time points.  *)
Replies(answer) ==
  /\ reply'.answer = answer
  /\ reply'.of \in timepoints \X timepoints
  /\ UNCHANGED <<timepoints, links>>

(* The bounds of a time point, or of the distance between two.             *)
AskBounds ==
  /\ Replies("bounds")
  /\ \E d \in {Truth} : reply'.bounds = TrueBounds(d, reply'.of[1], reply'.of[2])

(* Bounds on a distance that need not be the closest.                      *)
AskOuterBounds ==
  /\ Replies("outer")
  /\ \E d \in {Truth} :
     LET true == TrueBounds(d, reply'.of[1], reply'.of[2])
     IN  IF true = Inconsistent THEN reply'.bounds = true
         ELSE reply'.bounds[1] <= true[1] /\ true[2] <= reply'.bounds[2]

(* Bounds on a distance that say which of the two may come first: they are *)
(* exact on the side of zero where they forbid it.                         *)
AskSigns ==
  /\ Replies("signs")
  /\ \E d \in {Truth} :
     LET true == TrueBounds(d, reply'.of[1], reply'.of[2])
         sign(said, exact) == IF exact <= 0 THEN said = exact ELSE said > 0
     IN  sign(-reply'.bounds[1], -true[1]) /\ sign(reply'.bounds[2], true[2])

(* Whether a distance is less than a bound: yes is to be relied on; and    *)
(* whether that is possible: no is to be relied on.                        *)
AskLess ==
  /\ Replies("less")
  /\ reply'.yes => \E d \in {Truth} : d[reply'.of] < reply'.bound

AskPossiblyLess ==
  /\ Replies("possibly")
  /\ ~reply'.yes => \E d \in {Truth} : d[reply'.of] >= reply'.bound

Next ==
  \/ AddTimepoint \/ DeleteTimepoint \/ Constrain
  \/ AskBounds \/ AskOuterBounds \/ AskSigns \/ AskLess \/ AskPossiblyLess

Spec == Init /\ [][Next]_vars
=============================================================================
