------------------------------ MODULE MCRules ------------------------------
(* The rules of a token and of its slave: conditionals on both sides of    *)
(* one guard, one within another whose guard is a variable that the outer  *)
(* one constrains, and one of the slave that a body of the master enables. *)
EXTENDS RulesProperties

CONSTANTS master, slave, then, else, inner, below, beside, x, y, z, w

MCToken == {master, slave, then, else, inner, below, beside}
MCVariable == {x, y, z, w}
MCOwner == (x :> master) @@ (y :> master) @@ (z :> slave) @@ (w :> slave)

Body(parent, token, creates) ==
  [parent |-> parent, master |-> token, guard |-> NoVariable, positive |-> TRUE,
   values |-> {}, settled |-> {}, slave |-> creates,
   restricts |-> NoVariable, to |-> {}, onMaster |-> TRUE]

If(v, positive, values, body) ==
  [body EXCEPT !.guard = v, !.positive = positive, !.values = values]

Constraining(v, values, body) == [body EXCEPT !.restricts = v, !.to = values]

MCRule ==
  << Body(0, master, slave),
     [Constraining(y, {2, 3}, If(x, TRUE, {1}, Body(1, master, then)))
        EXCEPT !.settled = {x}],
     [Constraining(w, {2}, If(x, FALSE, {1}, Body(1, master, else)))
        EXCEPT !.settled = {x}],
     Constraining(y, {1, 3}, If(y, FALSE, {1}, Body(2, master, inner))),
     Body(0, slave, NoToken),
     [If(z, TRUE, {1, 2}, Body(5, slave, below)) EXCEPT !.settled = {z}],
     If(w, TRUE, {2, 3}, Body(5, slave, beside)) >>

(* The hypothesis of RulesProofs holds of these rules.                     *)
ASSUME RulesInOrder == Orderly
=============================================================================
