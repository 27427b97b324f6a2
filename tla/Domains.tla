------------------------------- MODULE Domains -------------------------------
(* Closed domains of integers (Domains.cc): an interval keeps its bounds    *)
(* only, an enumeration its values.  A domain is a record of its kind and   *)
(* the values it stands for; every change of one is announced as an event.  *)
(* WithoutSplitting is a mutated form of the definition after it.           *)
EXTENDS Integers, FiniteSetsExt

Kind == {"interval", "enumeration"}

Event == {"UPPER_BOUND_DECREASED", "LOWER_BOUND_INCREASED", "BOUNDS_RESTRICTED",
          "VALUE_REMOVED", "RESTRICT_TO_SINGLETON", "RELAXED"}

IsEmpty(d) == d.values = {}
Lower(d) == Min(d.values)
Upper(d) == Max(d.values)
Bounds(d) == {Lower(d), Upper(d)}
IsMember(d, v) == v \in d.values
IsSingleton(d) == Cardinality(d.values) = 1
TheValue(d) == Lower(d)
IsInterval(d) == d.kind = "interval"

(* An interval holds every value between its bounds.                        *)
IsDomain(d) ==
  /\ d \in [kind : Kind, values : SUBSET Int] /\ IsFiniteSet(d.values)
  /\ IsInterval(d) /\ ~IsEmpty(d) => d.values = Lower(d) .. Upper(d)

Emptied(d) == [d EXCEPT !.values = {}]

(* What the bounds of an interval read once it is emptied: upper and lower. *)
EmptyBounds == {-2, 3}
IntersectBounds(d, lb, ub) == [d EXCEPT !.values = {v \in @ : lb <= v /\ v <= ub}]

(* An interval is intersected with the bounds of the other domain, an       *)
(* enumeration with its values.                                             *)
Intersect(d, e) ==
  IF IsEmpty(d) \/ IsEmpty(e) THEN Emptied(d)
  ELSE IF IsInterval(d) THEN IntersectBounds(d, Lower(e), Upper(e))
  ELSE [d EXCEPT !.values = @ \cap e.values]

Intersects(d, e) ==
  IF IsInterval(d) THEN Lower(e) <= Upper(d) /\ Lower(d) <= Upper(e)
  ELSE d.values \cap e.values # {}

WithoutSplitting(d, v) == [d EXCEPT !.values = @ \ {v}]

(* A value inside an interval stays: taking it out would split the interval. *)
Without(d, v) ==
  IF IsEmpty(d) \/ (IsInterval(d) /\ v \notin Bounds(d)) THEN d
  ELSE [d EXCEPT !.values = @ \ {v}]

(* What is left of two domains that must be equal.  Of an enumeration and   *)
(* an interval the interval goes first, and once more when the enumeration  *)
(* has changed; if they are disjoint only one of the two is emptied.  Two   *)
(* enumerations are merged from below: when they are disjoint, that leaves  *)
(* of each what is above all of the other.                                  *)
Equated(d, e) ==
  LET mixed(enum, interval) ==
        LET i == Intersect(interval, enum)
            n == IF IsEmpty(i) THEN enum ELSE Intersect(enum, i)
        IN <<n, IF IsEmpty(n) THEN i ELSE Intersect(i, n)>>
      beyond(a, b) == [a EXCEPT !.values = {v \in @ : \A w \in b.values : w < v}]
  IN CASE ~IsInterval(d) /\ ~IsInterval(e) /\ d.values \cap e.values = {} -> <<beyond(d, e), beyond(e, d)>>
       [] ~IsInterval(d) /\ ~IsInterval(e) /\ d.values \cap e.values # {} -> <<Intersect(d, e), Intersect(e, d)>>
       [] IsInterval(d) /\ IsInterval(e) -> LET i == Intersect(d, e) IN
            <<i, IF IsEmpty(i) THEN e ELSE Intersect(e, i)>>
       [] IsInterval(e) /\ ~IsInterval(d) -> mixed(d, e)
       [] IsInterval(d) /\ ~IsInterval(e) -> LET m == mixed(e, d) IN <<m[2], m[1]>>

(* The strongest message applicable to a restriction to fewer values.       *)
EventOf(d, new) ==
  IF IsSingleton(new) THEN "RESTRICT_TO_SINGLETON"
  ELSE IF ~IsInterval(d) THEN "VALUE_REMOVED"
  ELSE IF Lower(new) > Lower(d) /\ Upper(new) < Upper(d) THEN "BOUNDS_RESTRICTED"
  ELSE IF Upper(new) = Upper(d) THEN "LOWER_BOUND_INCREASED"
  ELSE "UPPER_BOUND_DECREASED"

(* remove() does not look whether one value is left.                        *)
EventOfRemove(d, v) ==
  IF ~IsInterval(d) THEN "VALUE_REMOVED"
  ELSE IF v = Lower(d) THEN "LOWER_BOUND_INCREASED"
  ELSE "UPPER_BOUND_DECREASED"
=============================================================================
