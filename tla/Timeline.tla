------------------------------ MODULE Timeline ------------------------------
(***************************************************************************)
(* A timeline: the tokens that must be put in order on it, the sequence    *)
(* they are in, and the precedence constraints that keep them there, some  *)
(* posted because a client asked for them (explicit) and some to tie a     *)
(* token to its neighbours (Timeline.cc, Object.cc, and the list of tokens *)
(* to order of PlanDatabase.cc).                                           *)
(*                                                                         *)
(* The object is a record, handed from one operator to the next in the     *)
(* order of the code:                                                      *)
(*   sequence     m_tokenSequence with its index                           *)
(*   precedences  the pairs of tokens with a precedence constraint         *)
(*   explicit     m_explicitConstraints: such pairs, and <<t, t>> where    *)
(*                the key of token t is in it                              *)
(*   onObject     the tokens with a constraint to this object              *)
(*   toOrder      those that m_tokensToOrder has for this object           *)
(***************************************************************************)
EXTENDS Integers, FiniteSets, SequencesExt

CONSTANTS
  Token,
  NoToken,     \* TokenId::noId()
  Earliest,    \* lower bound of the start of a token, by itself
  Latest,      \* upper bound of its end
  Duration,    \* and how long it lasts
  MaxRemovals  \* bound: how often a token leaves the timeline

ASSUME TimelineAssumption ==
  /\ NoToken \notin Token
  /\ {Earliest, Latest, Duration} \subseteq [Token -> Nat]
  /\ MaxRemovals \in Nat

VARIABLES
  tokens,    \* Object::tokens(): all active, and may be on this object
  line,      \* the record above
  asked,     \* what clients have constrained and not freed yet
  removals,  \* how many tokens have left
  inOrder,   \* history: only the latest request was ever freed, and no
             \* removal left a mark for which nobody asks
  older      \* history: as long as that is so, <<q, r>> where both are
             \* asked for and q was first

vars == <<tokens, line, asked, removals, inOrder, older>>

Sequenced(l) == ToSet(l.sequence)
Position(l, t) == CHOOSE i \in DOMAIN l.sequence : l.sequence[i] = t
-----------------------------------------------------------------------------
(* Object.  A definition whose name says what is wrong with it is a        *)
(* mutated form of the one after it; no specification uses it.             *)
PrecedencesOf(l, t) == {c \in l.precedences : t \in {c[1], c[2]}}
HasExplicitAsPredecessor(l, t) == \E c \in l.explicit : t = c[1]
HasExplicitConstraint(l, t) == \E c \in l.explicit : t \in {c[1], c[2]}
IsConstrainedToThisObject(l, t) == t \in l.onObject \/ PrecedencesOf(l, t) # {}

ObjectConstrain(l, p, s, isExplicit) ==
  [l EXCEPT !.onObject = @ \cup {t \in {p, s} : ~IsConstrainedToThisObject(l, t)},
            !.precedences = IF p = s THEN @ ELSE @ \cup {<<p, s>>},
            !.explicit = IF isExplicit THEN @ \cup {<<p, s>>} ELSE @]

CleanNever(l, T) == l

(* The constraint of a token to this object goes when it is the only one   *)
(* left.                                                                   *)
Clean(l, T) ==
  [l EXCEPT !.onObject = @ \ {t \in T : PrecedencesOf(l, t) = {} /\ ~HasExplicitConstraint(l, t)}]

RemovePrecedences(l, gone) ==
  [l EXCEPT !.precedences = @ \ gone, !.explicit = @ \ gone]

(* Freeing precedences one after the other: what is removed for one does   *)
(* not depend on the others.                                               *)
FreePrecedences(l, gone) ==
  Clean(RemovePrecedences(l, gone), {c[1] : c \in gone} \cup {c[2] : c \in gone})

ObjectFree(l, p, s) ==
  IF p = s THEN Clean(l, {p}) ELSE FreePrecedences(l, {<<p, s>>})

FreeImplicitConstraintsAhead(l, t) ==
  FreePrecedences(l, {c \in PrecedencesOf(l, t) : c[1] = t})

FreeImplicitConstraints(l, t) == FreePrecedences(l, PrecedencesOf(l, t))

(* The mark on the token itself is not taken back.                         *)
ObjectRemove(l, t) ==
  [RemovePrecedences(l, PrecedencesOf(l, t)) EXCEPT !.onObject = @ \ {t}]
-----------------------------------------------------------------------------
(* Timeline::constrain.  A token that is put between two others is tied to *)
(* the one that was not named, too.                                        *)
ConstrainedOneSide(l, p, s) ==
  LET m == [ObjectConstrain(l, p, s, TRUE) EXCEPT !.toOrder = @ \ ({p, s} \ Sequenced(l))]
      At(i, t) == [m EXCEPT !.sequence = InsertAt(@, i, t)]
  IN  CASE l.sequence = << >> -> [m EXCEPT !.sequence = IF p = s THEN <<s>> ELSE <<p, s>>]
        [] l.sequence # << >> /\ p \notin Sequenced(l) -> At(Position(l, s), p)
        [] p \in Sequenced(l) /\ s \notin Sequenced(l) -> At(Position(l, p) + 1, s)
        [] OTHER -> m

Constrained(l, p, s) ==
  LET m == [ObjectConstrain(l, p, s, TRUE) EXCEPT !.toOrder = @ \ ({p, s} \ Sequenced(l))]
      At(i, t) == [m EXCEPT !.sequence = InsertAt(@, i, t)]
  IN  CASE l.sequence = << >> -> [m EXCEPT !.sequence = IF p = s THEN <<s>> ELSE <<p, s>>]
        [] l.sequence # << >> /\ p \notin Sequenced(l) ->
             LET i == Position(l, s)
             IN  IF i = 1 THEN At(i, p)
                 ELSE ObjectConstrain(At(i, p), l.sequence[i - 1], p, FALSE)
        [] p \in Sequenced(l) /\ s \notin Sequenced(l) ->
             LET i == Position(l, p) + 1
             IN  IF i > Len(l.sequence) THEN At(i, s)
                 ELSE ObjectConstrain(At(i, s), s, l.sequence[i], FALSE)
        [] OTHER -> m

(* A token leaves the sequence with whatever tied it to its neighbours,    *)
(* and has to be ordered again.                                            *)
Drop(l, t) ==
  [FreeImplicitConstraints(l, t) EXCEPT
     !.sequence = RemoveAt(@, Position(l, t)), !.toOrder = @ \cup {t}]

(* The neighbour that removeSuccessor and removePredecessor return.        *)
After(l, t) ==
  LET i == Position(l, t) n == Len(l.sequence)
  IN  CASE n = 1 -> NoToken
        [] i = n /\ n > 1 -> l.sequence[n - 1]
        [] OTHER -> l.sequence[i + 1]

Before(l, t) ==
  LET i == Position(l, t) n == Len(l.sequence)
  IN  CASE n = 1 -> NoToken
        [] i = 1 /\ n > 1 -> l.sequence[2]
        [] OTHER -> l.sequence[i - 1]

Adjacent(l, x, y) ==
  /\ NoToken \notin {x, y}
  /\ LET i == Position(l, x) + 1 IN i <= Len(l.sequence) /\ l.sequence[i] = y

(* The neighbours of a token that has left are tied to each other.         *)
Relinked(l, x, y) ==
  IF Adjacent(l, x, y) /\ <<x, y>> \notin l.precedences
  THEN ObjectConstrain(l, x, y, FALSE)
  ELSE l

Unlink(l, t) ==
  LET i == Position(l, t)
  IN  IF i \in {1, Len(l.sequence)} THEN Drop(l, t)
      ELSE Relinked(Drop(l, t), l.sequence[i - 1], l.sequence[i + 1])

FreedPair(l, p, s) ==
  LET m == ObjectFree(l, p, s)
      sStays == HasExplicitConstraint(l, s)
      pStays == HasExplicitConstraint(l, p)
      y == IF sStays THEN s ELSE After(m, s)
      d == IF sStays THEN m ELSE Drop(m, s)
      x == IF pStays THEN p ELSE Before(d, p)
  IN  Relinked(IF pStays THEN d ELSE Drop(d, p), x, y)

(* Timeline::free: a constraint is kept, no longer explicit, as long as    *)
(* both its tokens are in others that are.                                 *)
Freed(l, p, s) ==
  LET m == [l EXCEPT !.explicit = @ \ {<<p, s>>}]
  IN  IF HasExplicitConstraint(m, p) /\ HasExplicitConstraint(m, s) THEN m
      ELSE IF p = s THEN Unlink(ObjectFree(m, p, p), p)
      ELSE FreedPair(m, p, s)

RemovedUnrelated(l, t) ==
  ObjectRemove([l EXCEPT !.toOrder = @ \ {t}], t)

(* Timeline::remove.  The neighbours of the token are constrained as if a  *)
(* client had asked for it.                                                *)
Removed(l, t) ==
  LET i == Position(l, t)
      n == Len(l.sequence)
      without == [l EXCEPT !.sequence = RemoveAt(@, i)]
      earlier == l.sequence[i - 1]
      later == l.sequence[i + 1]
  IN  CASE t \notin Sequenced(l) -> ObjectRemove([l EXCEPT !.toOrder = @ \ {t}], t)
        [] t \in Sequenced(l) /\ 1 < i /\ i < n /\ <<earlier, later>> \notin l.precedences ->
             ObjectRemove(Constrained(without, earlier, later), t)
        [] OTHER -> ObjectRemove(without, t)
-----------------------------------------------------------------------------
(* What propagation makes of the precedences: the windows of the tokens in *)
(* the sequence, and those of the others, which are as they came.          *)
EarliestEnd(l, t) ==
  LET n == Len(l.sequence)
      ends[i \in 1 .. n] ==
        Max({Earliest[l.sequence[i]]} \cup
            {ends[j] : j \in {j \in 1 .. i - 1 :
                               <<l.sequence[j], l.sequence[i]>> \in l.precedences}})
        + Duration[l.sequence[i]]
  IN  IF t \in Sequenced(l) THEN ends[Position(l, t)] ELSE Earliest[t] + Duration[t]

LatestStart(l, t) ==
  LET n == Len(l.sequence)
      starts[i \in 1 .. n] ==
        Min({Latest[l.sequence[i]]} \cup
            {starts[j] : j \in {j \in i + 1 .. n :
                                 <<l.sequence[i], l.sequence[j]>> \in l.precedences}})
        - Duration[l.sequence[i]]
  IN  IF t \in Sequenced(l) THEN starts[Position(l, t)] ELSE Latest[t] - Duration[t]

Consistent(l) ==
  \A t \in Sequenced(l) : EarliestEnd(l, t) - Duration[t] <= LatestStart(l, t)

(* DefaultTemporalAdvisor.                                                 *)
CanPrecede(l, first, second) == EarliestEnd(l, first) <= LatestStart(l, second)
CanFitBetween(l, t, p, s) == LatestStart(l, s) - EarliestEnd(l, p) >= Duration[t]

OrderingChoicesInside(l, t) ==
  LET n == Len(l.sequence)
      fits(i) == CanFitBetween(l, t, l.sequence[i - 1], l.sequence[i])
      ends == {<<t, l.sequence[i]>> : i \in {i \in {1} : n > 0}}
                \cup {<<l.sequence[i], t>> : i \in {i \in {n} : n > 0}}
  IN  IF n = 0 THEN {<<t, t>>}
      ELSE {c \in ends : CanPrecede(l, c[1], c[2])}
             \cup {<<t, l.sequence[i]>> : i \in {i \in 3 .. n : fits(i)}}

(* The places that Timeline::getOrderingChoices offers for a token: before *)
(* the first one it can precede, then between any two, as long as it can   *)
(* come after the first of them, and at last at the end.                   *)
OrderingChoices(l, t) ==
  LET n == Len(l.sequence)
      token(i) == l.sequence[i]
      first == Min({i \in 1 .. n : CanPrecede(l, t, token(i))} \cup {n + 1})
      start == Max({first, 2})
      inner == {i \in start .. n : \A j \in start .. i : CanPrecede(l, token(j - 1), t)}
      between == {i \in inner : CanFitBetween(l, t, token(i - 1), token(i))}
  IN  CASE ~Consistent(l) -> {}
        [] Consistent(l) /\ n = 0 -> {<<t, t>>}
        [] OTHER ->
             {<<t, token(i)>> : i \in between \cup {i \in {1} : first = 1}}
             \cup {<<token(n), t>> : i \in {i \in {n} : inner = start .. n
                                                        /\ CanPrecede(l, token(n), t)}}
-----------------------------------------------------------------------------
NewLine ==
  [sequence |-> << >>, precedences |-> {}, explicit |-> {}, onObject |-> {}, toOrder |-> {}]

Init ==
  /\ tokens = {} /\ line = NewLine /\ asked = {}
  /\ removals = 0 /\ inOrder = TRUE /\ older = {}

(* ObjectTokenRelation: a token is activated, or can be here again.        *)
AddToken(t) ==
  /\ t \notin tokens
  /\ tokens' = tokens \cup {t}
  /\ line' = [line EXCEPT !.toOrder = @ \cup {t}]
  /\ UNCHANGED <<asked, removals, inOrder, older>>

(* ObjectTokenRelation: it is cancelled, or its object variable says that  *)
(* it is elsewhere.  Whoever ordered it does not free it any more.         *)
RemoveToken(t) ==
  /\ t \in tokens
  /\ removals < MaxRemovals
  /\ tokens' = tokens \ {t}
  /\ line' = Removed(line, t)
  /\ asked' = {r \in asked : t \notin {r[1], r[2]}}
  /\ inOrder' = (inOrder /\ line'.explicit \subseteq asked')
  /\ older' = IF inOrder' THEN older \cap (asked' \X asked') ELSE {}
  /\ removals' = removals + 1

(* What the assertions of constrain ask of the client: one of the two is   *)
(* in the sequence and the other is not, unless the sequence is empty.     *)
MayConstrain(p, s) ==
  /\ {p, s} \subseteq tokens
  /\ line.sequence # << >> => (p \in Sequenced(line)) # (s \in Sequenced(line))

Constrain(p, s) ==
  /\ MayConstrain(p, s)
  /\ line' = Constrained(line, p, s)
  /\ asked' = asked \cup {<<p, s>>}
  /\ older' = IF inOrder THEN older \cup {<<r, <<p, s>>>> : r \in asked} ELSE {}
  /\ UNCHANGED <<tokens, removals, inOrder>>

(* A solver undoes its latest decision; a model can free what it likes.    *)
Free(p, s) ==
  /\ <<p, s>> \in asked
  /\ line' = Freed(line, p, s)
  /\ asked' = asked \ {<<p, s>>}
  /\ inOrder' = (inOrder /\ \A r \in asked' : <<r, <<p, s>>>> \in older)
  /\ older' = IF inOrder' THEN older \cap (asked' \X asked') ELSE {}
  /\ UNCHANGED <<tokens, removals>>

Next ==
  \/ \E t \in Token : AddToken(t) \/ RemoveToken(t)
  \/ \E p, s \in Token : Constrain(p, s) \/ Free(p, s)

Spec == Init /\ [][Next]_vars
=============================================================================
