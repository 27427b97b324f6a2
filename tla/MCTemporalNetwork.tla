------------------------- MODULE MCTemporalNetwork -------------------------
EXTENDS TemporalNetworkProperties

CONSTANTS origin, a, b, c1, c2, c3

Lasting(h, f, lb, ub) == [head |-> h, foot |-> f, lb |-> lb, ub |-> ub]

(* Exactly 1 between any two, and at most 1 from the origin, which can be   *)
(* narrowed to that.                                                        *)
MCShapes ==
  {Lasting(p[1], p[2], 1, 1) : p \in {<<origin, a>>, <<origin, b>>, <<a, b>>, <<b, a>>}}
    \cup {Lasting(origin, p, -Infinity, 1) : p \in {a, b}}
MCBound == -1 .. 1

(* What a call returned has no effect on the next one; the property about  *)
(* answers is about steps, and TLC evaluates it for every step.            *)
MCView == <<graph, constraints>>

MCSymmetry == Permutations({a, b}) \cup Permutations({c1, c2, c3})
=============================================================================
