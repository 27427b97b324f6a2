------------------------- MODULE TimelineProperties -------------------------
(* What a timeline promises to whoever orders tokens on it.                *)
EXTENDS Timeline

Pairs == Token \X Token

TypeOK ==
  /\ tokens \subseteq Token
  /\ line \in [sequence : Seq(tokens), precedences : SUBSET Pairs, explicit : SUBSET Pairs,
               onObject : SUBSET tokens, toOrder : SUBSET tokens]
  /\ IsInjective(line.sequence)
  /\ asked \subseteq Pairs /\ older \subseteq asked \X asked
  /\ removals \in 0 .. MaxRemovals /\ inOrder \in BOOLEAN

(* What a client has asked for is in force until it frees it, whatever     *)
(* else is freed or removed, and is still marked as asked for.             *)
RequestsHold ==
  \A r \in asked :
    /\ {r[1], r[2]} \subseteq Sequenced(line) /\ r \in line.explicit
    /\ r[1] # r[2] => r \in line.precedences

(* The sequence, the constraints and the list of tokens to order tell the  *)
(* same story: precedences are between tokens in the sequence and follow   *)
(* it, a token out of it is held by nothing and is to be ordered.          *)
NothingLeftBehind ==
  /\ \A c \in line.precedences :
       /\ {c[1], c[2]} \subseteq Sequenced(line)
       /\ Position(line, c[1]) < Position(line, c[2])
  /\ line.onObject \subseteq Sequenced(line)
  /\ line.toOrder = tokens \ Sequenced(line)

(* Timeline::isValid (Timeline.cc:413): a token of the sequence is         *)
(* constrained to come after the one before it.                            *)
NeighboursConstrained ==
  \A i \in 1 .. Len(line.sequence) - 1 :
    <<line.sequence[i], line.sequence[i + 1]>> \in line.precedences

(* Object.hh:307: a constraint is explicit if its source "is outside the   *)
(* elements of the plan database".                                         *)
ExplicitIsAsked == line.explicit \subseteq asked

(* The neighbours are constrained as long as only the latest request is    *)
(* freed and no removal leaves a mark for which nobody asks, whatever      *)
(* tokens come and leave in between.                                       *)
NeighboursConstrainedInOrder == inOrder => NeighboursConstrained

(* What a decision does to the timeline, its undoing takes back, wherever  *)
(* the token was put and whatever was freed before; unless a removal left  *)
(* a token in the sequence for which nobody asks.                          *)
UndoRestores ==
  (/\ NeighboursConstrained /\ ExplicitIsAsked
   /\ \A t \in Sequenced(line) : HasExplicitConstraint(line, t)) =>
    \A p, s \in tokens :
      MayConstrain(p, s) => Freed(Constrained(line, p, s), p, s) = line

(* Where a token could go.                                                 *)
PlaceOf(l, t, i) ==
  CASE l.sequence = << >> -> <<t, t>>
    [] i <= Len(l.sequence) -> <<t, l.sequence[i]>>
    [] OTHER -> <<l.sequence[i - 1], t>>

(* No place is withheld at which the token would fit: a search that tries  *)
(* all choices misses no solution.                                         *)
NoPlaceWithheld ==
  (NeighboursConstrained /\ Consistent(line)) =>
    \A t \in line.toOrder, i \in 1 .. Len(line.sequence) + 1 :
      LET c == PlaceOf(line, t, i)
      IN  Consistent(Constrained(line, c[1], c[2])) => c \in OrderingChoices(line, t)
=============================================================================
