--------------------------- MODULE DistanceGraph ---------------------------
(***************************************************************************)
(* DistanceGraph and the propagation of TemporalNetwork, as operators on a *)
(* record:                                                                 *)
(*   timepoints    the nodes                                               *)
(*   specs         the bag of the lengths that edges have, <<from, to, l>> *)
(*   upper, lower  the bounds of each node, relative to the origin         *)
(*   potential     a feasible schedule, kept for detecting inconsistency   *)
(*   consistent, hasDeletions, updated                                     *)
(*                                                                         *)
(* A queue of nodes is emptied sweep by sweep: every node in it relaxes    *)
(* its out edges, and the nodes that change are the next queue.  The order *)
(* within the queue, which the code chooses for speed, does not change     *)
(* where the values settle; in dijkstra, which stops early, it is kept.    *)
(***************************************************************************)
EXTENDS Integers, SequencesExt

CONSTANTS
  Origin,
  Infinity   \* POS_INFINITY; NEG_INFINITY is -Infinity

(* A definition whose name says what is wrong with it is a mutated form of *)
(* the one after it; no specification uses it.                             *)

NewGraph ==
  [timepoints |-> {Origin}, specs |-> EmptyBag,
   upper |-> [p \in {Origin} |-> 0], lower |-> [p \in {Origin} |-> 0],
   potential |-> [p \in {Origin} |-> 0],
   consistent |-> TRUE, hasDeletions |-> FALSE, updated |-> {}]

With(f, x, y) == [z \in DOMAIN f \cup {x} |-> IF z = x THEN y ELSE f[z]]
Without(f, x) == [z \in DOMAIN f \ {x} |-> f[z]]
-----------------------------------------------------------------------------
(* Edges.  A constraint from head to foot contributes a length to an edge  *)
(* for each finite bound; other constraints may contribute to the same edge.*)
EdgesOf(c) ==
  {e \in {<<c.head, c.foot, c.ub>>, <<c.foot, c.head, -c.lb>>} : e[3] < Infinity}

AddEdges(s, c) == s (+) SetToBag(EdgesOf(c))
RemoveEdges(s, c) == s (-) SetToBag(EdgesOf(c))

(* The length of an edge is the least on its list.                         *)
Ends(e) == <<e[1], e[2]>>
Lengths(s) ==
  [p \in {Ends(e) : e \in BagToSet(s)} |-> Min({e[3] : e \in {f \in BagToSet(s) : Ends(f) = p}})]
Reversed(len) == [e \in {<<f[2], f[1]>> : f \in DOMAIN len} |-> len[<<e[2], e[1]>>]]
Negated(d) == [p \in DOMAIN d |-> -d[p]]
-----------------------------------------------------------------------------
(* Propagation.  A wave is a distance for each node, and a queue.          *)
Wave(d, queue) == [d |-> d, queue |-> queue]

Improving(len, w) ==
  {e \in DOMAIN len : e[1] \in w.queue /\ w.d[e[1]] + len[e] < w.d[e[2]]}

Sweep(len, w) ==
  LET improving == Improving(len, w)
      next == {e[2] : e \in improving}
      best(to) == Min({w.d[e[1]] + len[e] : e \in {f \in improving : f[2] = to}})
  IN  Wave([p \in DOMAIN w.d |-> IF p \in next THEN best(p) ELSE w.d[p]], next)

Turns(n) == [k \in 1 .. n |-> k]
Settled(w) == w.queue = {}

(* As many sweeps as there are nodes: a queue that is not empty by then    *)
(* goes round a cycle of negative length for ever (depth > BFbound).       *)
Swept(len, w) == IF Settled(w) THEN w ELSE Sweep(len, w)
Propagated(len, w) == FoldLeft(LAMBDA v, k : Swept(len, v), w, Turns(Cardinality(DOMAIN w.d)))

(* startNode: the first step across one of the two edges between head and  *)
(* foot, if either has anything to say; never across both.                 *)
StartNodeHeadOnly(len, d, head, foot) ==
  LET step(from, to) == /\ <<from, to>> \in DOMAIN len
                        /\ d[from] < Infinity
                        /\ d[from] + len[<<from, to>>] < d[to]
      across(from, to) == Wave([d EXCEPT ![to] = d[from] + len[<<from, to>>]], {to})
  IN  IF step(head, foot) THEN across(head, foot) ELSE Wave(d, {})

StartNode(len, d, head, foot) ==
  LET step(from, to) == /\ <<from, to>> \in DOMAIN len
                        /\ d[from] < Infinity
                        /\ d[from] + len[<<from, to>>] < d[to]
      across(from, to) == Wave([d EXCEPT ![to] = d[from] + len[<<from, to>>]], {to})
  IN  IF step(head, foot) THEN across(head, foot)
      ELSE IF step(foot, head) THEN across(foot, head)
      ELSE Wave(d, {})

Changed(d, e) == {p \in DOMAIN d : d[p] # e[p]} \ {Origin}

(* propagateBoundsFrom, without the distances of an earlier one.           *)
From(p, P) == Wave([q \in P |-> IF q = p THEN 0 ELSE Infinity], {p})

BoundsFromLowerNoticed(g, p) ==
  LET len == Lengths(g.specs)
      fwd == Propagated(len, From(p, g.timepoints)).d
      bwd == Negated(Propagated(Reversed(len), From(p, g.timepoints)).d)
  IN  [g EXCEPT !.upper = fwd, !.lower = bwd,
                !.updated = @ \cup {q \in g.timepoints \ {p, Origin} : bwd[q] > -Infinity}]

BoundsFrom(g, p) ==
  LET len == Lengths(g.specs)
      fwd == Propagated(len, From(p, g.timepoints)).d
      bwd == Negated(Propagated(Reversed(len), From(p, g.timepoints)).d)
  IN  [g EXCEPT !.upper = fwd, !.lower = bwd,
                !.updated = @ \cup {q \in g.timepoints \ {p, Origin} :
                                      fwd[q] < Infinity \/ bwd[q] > -Infinity}]

(* fullPropagate.  Bounds are left as they were when there is no schedule. *)
FullPropagateUnrecorded(g) ==
  LET zero == [p \in g.timepoints |-> 0]
      bf == Propagated(Lengths(g.specs), Wave(zero, g.timepoints))
      h == [g EXCEPT !.potential = bf.d, !.updated = {},
                     !.consistent = Settled(bf), !.hasDeletions = FALSE]
  IN  IF h.consistent THEN BoundsFrom(h, Origin) ELSE h

FullPropagate(g) ==
  LET zero == [p \in g.timepoints |-> 0]
      bf == Propagated(Lengths(g.specs), Wave(zero, g.timepoints))
      h == [g EXCEPT !.potential = bf.d, !.updated = Changed(zero, bf.d),
                     !.consistent = Settled(bf), !.hasDeletions = FALSE]
  IN  IF h.consistent THEN BoundsFrom(h, Origin) ELSE h

(* incPropagate, after the addition of a constraint from head to foot.     *)
IncPropagate(g, head, foot) ==
  LET len == Lengths(g.specs)
      bf  == Propagated(len, StartNode(len, g.potential, head, foot))
      fwd == Propagated(len, StartNode(len, g.upper, head, foot)).d
      bwd == Negated(Propagated(Reversed(len),
                                StartNode(Reversed(len), Negated(g.lower), head, foot)).d)
      h   == [g EXCEPT !.potential = bf.d, !.consistent = Settled(bf),
                       !.updated = @ \cup Changed(g.potential, bf.d)]
  IN  IF g.hasDeletions \/ ~g.consistent THEN g
      ELSE IF ~h.consistent THEN h
      ELSE [h EXCEPT !.upper = fwd, !.lower = bwd,
                     !.updated = @ \cup Changed(g.upper, fwd) \cup Changed(g.lower, bwd)]

(* propagate: additions have been propagated already.                      *)
Propagate(g) == IF g.hasDeletions THEN FullPropagate(g) ELSE g
-----------------------------------------------------------------------------
(* dijkstra, from source until destination is taken from the queue, which  *)
(* is ordered by what is left of a distance when potentials are taken off. *)
First(pot, w) ==
  CHOOSE p \in w.queue : \A q \in w.queue : w.d[p] - pot[p] <= w.d[q] - pot[q]

Popped(len, w, p) ==
  LET v == Sweep(len, Wave(w.d, {p}))
  IN  Wave(v.d, (w.queue \ {p}) \cup v.queue)

Visited(len, pot, destination, w) ==
  IF Settled(w) THEN w
  ELSE IF First(pot, w) = destination THEN Wave(w.d, {})
  ELSE Popped(len, w, First(pot, w))

(* A node that has been visited is as near as it can be.                   *)
Dijkstra(g, source, destination) ==
  LET len == Lengths(g.specs)
  IN  FoldLeft(LAMBDA w, k : Visited(len, g.potential, destination, w),
               From(source, g.timepoints), Turns(Cardinality(g.timepoints))).d

(* What a search has gone to: every node it has a distance of, but where it *)
(* began.                                                                  *)
Reached(d, source) == {p \in DOMAIN d : d[p] < Infinity} \ {Origin, source}

(* boundedDijkstra: a node is gone to only while the potentials allow the  *)
(* path to reach the targets, toGo away, at a distance below the bound.    *)
Bounded(len, bound, toGo, w) ==
  LET v == Sweep(len, w)
  IN  IF Settled(w) THEN w
      ELSE LET next == {p \in v.queue : v.d[p] + toGo[p] < bound}
           IN  Wave([p \in DOMAIN w.d |-> IF p \in next THEN v.d[p] ELSE w.d[p]], next)

BoundedDijkstra(len, P, source, bound, toGo) ==
  FoldLeft(LAMBDA w, k : Bounded(len, bound, toGo, w), From(source, P), Turns(Cardinality(P))).d

(* isPropagationPath: would a lower potential of src reach targ?  Each     *)
(* node is reached once only, by the first path tried; the order in which  *)
(* the edges of a node are tried is given.  For a bound of 1 only edges of *)
(* length zero are followed.                                               *)
Follow(g, len, edges, targ, w, from, to) ==
  LET d == w.d[from] + len[<<from, to>>]
  IN  IF <<from, to>> \notin edges \/ w.found \/ to \in w.marked \/ d >= g.potential[to] THEN w
      ELSE IF to = targ THEN [w EXCEPT !.found = TRUE]
      ELSE [w EXCEPT !.marked = @ \cup {to}, !.d[to] = d, !.stack = <<to>> \o @]

Expand(g, len, edges, targ, w, order) ==
  IF w.stack = << >> \/ w.found THEN w
  ELSE FoldLeft(LAMBDA v, to : Follow(g, len, edges, targ, v, Head(w.stack), to),
                [w EXCEPT !.stack = Tail(@)], order)

IsDistanceLessThan(g, src, targ, bound, order) ==
  LET len == Lengths(g.specs)
      edges == IF bound = 1 THEN {e \in DOMAIN len : len[e] = 0} ELSE DOMAIN len
      start == g.potential[targ] - bound
      begin == [marked |-> {src}, found |-> FALSE, stack |-> << src >>,
                d |-> [g.potential EXCEPT ![src] = start]]
      end == FoldLeft(LAMBDA w, k : Expand(g, len, edges, targ, w, order), begin, order)
  IN  /\ start < g.potential[src]
      /\ \/ bound = 1 /\ src = targ
         \/ end.found

(* A schedule, or the lower bounds, may already show that it is not less.  *)
IsDistancePossiblyLessThan(g, src, dest, bound) ==
  /\ g.potential[dest] < g.potential[src] + bound
  /\ g.lower[dest] > -Infinity =>
       /\ g.lower[src] > -Infinity
       /\ g.lower[dest] < g.lower[src] + bound
=============================================================================
