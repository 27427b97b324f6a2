-------------------------- MODULE TemporalNetwork --------------------------
(***************************************************************************)
(* TemporalNetwork: a graph of distances that is kept up to date as        *)
(* constraints come, and brought up to date when they have gone.           *)
(*                                                                         *)
(* An action is a call.  What the code asserts of its caller is a guard    *)
(* here.  A removal that is not marked as one, after which nothing is      *)
(* propagated, is for constraints that the others imply.                   *)
(***************************************************************************)
EXTENDS DistanceGraph

CONSTANTS
  Timepoint, Link, Bound,
  Shapes,  \* the constraints that the client adds, and narrows others to
  Asked    \* the bounds that distances are compared with

Abstract == INSTANCE SimpleTemporalNetwork
              WITH timepoints <- {}, links <- << >>, reply <- << >>

ASSUME NetworkAssumption == Abstract!ProperNetwork

ASSUME ClientAssumption ==
  /\ \A s \in Shapes : Abstract!IsLink(s)
  /\ Asked \subseteq Bound

VARIABLES
  graph,        \* what DistanceGraph works on
  constraints,  \* m_constraints, by name
  reply         \* what the last call returned

vars == <<graph, constraints, reply>>

timepoints == graph.timepoints

(* The abstract network that this one stands for.                          *)
Network == INSTANCE SimpleTemporalNetwork WITH links <- constraints

Distance == Int
GraphType ==
  /\ Origin \in graph.timepoints /\ graph.timepoints \subseteq Timepoint
  /\ IsABag(graph.specs)
  /\ BagToSet(graph.specs) \subseteq graph.timepoints \X graph.timepoints \X Distance
  /\ graph.upper \in [graph.timepoints -> Distance]
  /\ graph.lower \in [graph.timepoints -> Distance]
  /\ graph.potential \in [graph.timepoints -> Distance]
  /\ graph.consistent \in BOOLEAN /\ graph.hasDeletions \in BOOLEAN
  /\ graph.updated \subseteq graph.timepoints \ {Origin}

TypeOK ==
  /\ GraphType
  /\ DOMAIN constraints \subseteq Link
  /\ \A c \in DOMAIN constraints : Abstract!IsLink(constraints[c])

Init ==
  /\ graph = NewGraph
  /\ constraints = << >>
  /\ reply = Network!Nothing
-----------------------------------------------------------------------------
(* Changes.                                                                *)
NoReply == reply' = Network!Nothing

(* The new node has no edges, and nothing is propagated.                   *)
AddTimepoint(p) ==
  /\ p \in Timepoint \ graph.timepoints
  /\ graph' = [graph EXCEPT !.timepoints = @ \cup {p}, !.upper = With(@, p, Infinity),
                            !.lower = With(@, p, -Infinity), !.potential = With(@, p, 0)]
  /\ NoReply /\ UNCHANGED constraints

AddTemporalConstraint(c, shape) ==
  /\ c \notin DOMAIN constraints
  /\ {shape.head, shape.foot} \subseteq graph.timepoints
  /\ constraints' = With(constraints, c, shape)
  /\ graph' = IncPropagate([graph EXCEPT !.specs = AddEdges(@, shape)], shape.head, shape.foot)
  /\ NoReply

(* The new bounds are added before the old ones are taken away.            *)
NarrowTemporalConstraint(c, shape) ==
  /\ c \in DOMAIN constraints /\ shape # constraints[c]
  /\ shape.head = constraints[c].head /\ shape.foot = constraints[c].foot
  /\ constraints[c].lb <= shape.lb /\ shape.ub <= constraints[c].ub
  /\ constraints' = With(constraints, c, shape)
  /\ graph' = IncPropagate([graph EXCEPT !.specs =
                              RemoveEdges(AddEdges(@, shape), constraints[c])],
                           shape.head, shape.foot)
  /\ NoReply

(* The other constraints say as much without it.                           *)
Implied(c) ==
  LET others == {constraints[k] : k \in DOMAIN constraints \ {c}}
      all == {constraints[k] : k \in DOMAIN constraints}
      without == Network!Distances(graph.timepoints, others)
  IN  Network!Satisfiable(graph.timepoints, without)
        /\ without = Network!Distances(graph.timepoints, all)

RemovedUnmarked(g, c, markDeleted) == [g EXCEPT !.specs = RemoveEdges(@, constraints[c])]

Removed(g, c, markDeleted) ==
  [g EXCEPT !.specs = RemoveEdges(@, constraints[c]),
            !.hasDeletions = @ \/ markDeleted]

RemoveTemporalConstraint(c, markDeleted) ==
  /\ c \in DOMAIN constraints
  /\ markDeleted \/ Implied(c)
  /\ constraints' = Without(constraints, c)
  /\ graph' = Removed(graph, c, markDeleted)
  /\ NoReply

DeletedStillUpdated(g, p, marker) ==
  [g EXCEPT !.timepoints = @ \ {p}, !.upper = Without(@, p), !.lower = Without(@, p),
            !.potential = Without(@, p), !.hasDeletions = @ \/ marker]

Deleted(g, p, marker) ==
  [g EXCEPT !.timepoints = @ \ {p}, !.upper = Without(@, p), !.lower = Without(@, p),
            !.potential = Without(@, p), !.updated = @ \ {p}, !.hasDeletions = @ \/ marker]

(* The constraints of a time point are removed before it is.               *)
DeleteTimepoint(p, marker) ==
  /\ p \in graph.timepoints \ {Origin}
  /\ \A c \in DOMAIN constraints : p \notin {constraints[c].head, constraints[c].foot}
  /\ graph' = Deleted(graph, p, marker)
  /\ NoReply /\ UNCHANGED constraints
-----------------------------------------------------------------------------
(* Questions.  Each begins with propagate().                               *)
GetTimepointBounds(p) ==
  /\ p \in graph.timepoints
  /\ graph' = Propagate(graph)
  /\ reply' = [answer |-> "bounds", of |-> <<Origin, p>>,
               bounds |-> IF graph'.consistent THEN <<graph'.lower[p], graph'.upper[p]>>
                                               ELSE Network!Inconsistent]
  /\ UNCHANGED constraints

(* Two searches, each of which counts what it reaches as updated; or, when *)
(* the bounds need not be exact, no more than the two edges.               *)
CalcDistanceBounds(p, q, exact) ==
  /\ {p, q} \subseteq graph.timepoints
  /\ \E g \in {Propagate(graph)} :
     LET there == Dijkstra(g, p, q)
         back  == Dijkstra(g, q, p)
         len   == Lengths(g.specs)
         edge(from, to) == IF <<from, to>> \in DOMAIN len THEN len[<<from, to>>] ELSE Infinity
     IN  /\ graph' = IF g.consistent /\ exact
                     THEN [g EXCEPT !.updated = @ \cup Reached(there, p) \cup Reached(back, q)]
                     ELSE g
         /\ reply' = [answer |-> IF exact THEN "bounds" ELSE "outer", of |-> <<p, q>>,
                      bounds |-> IF ~g.consistent THEN Network!Inconsistent
                                 ELSE IF exact THEN <<-back[p], there[q]>>
                                 ELSE <<-edge(q, p), edge(p, q)>>]
  /\ UNCHANGED constraints

(* The distances of all the others from p: p takes the place of the origin *)
(* for a while.                                                            *)
CalcManyDistanceBounds(p, q) ==
  /\ {p, q} \subseteq graph.timepoints
  /\ \E g \in {Propagate(graph)} :
     LET h == BoundsFrom(g, p)
     IN  /\ g.consistent
         /\ graph' = BoundsFrom(h, Origin)
         /\ reply' = [answer |-> "bounds", of |-> <<p, q>>, bounds |-> <<h.lower[q], h.upper[q]>>]
  /\ UNCHANGED constraints

(* Forwards to the target with the lowest potential, and backwards to the  *)
(* one with the highest.                                                   *)
CalcDistanceSigns(p, targets, q) ==
  /\ {p, q} \cup targets \subseteq graph.timepoints
  /\ \E g \in {Propagate(graph)} :
     LET len == Lengths(g.specs)
         lowest  == Min({g.potential[t] : t \in targets})
         highest == Max({g.potential[t] : t \in targets})
         ahead  == [t \in g.timepoints |-> lowest - g.potential[t]]
         behind == [t \in g.timepoints |-> g.potential[t] - highest]
     IN  /\ g.consistent
         /\ graph' = g
         /\ reply' = [answer |-> "signs", of |-> <<p, q>>,
                      bounds |-> <<-BoundedDijkstra(Reversed(len), g.timepoints, p, 1, behind)[q],
                                   BoundedDijkstra(len, g.timepoints, p, 1, ahead)[q]>>]
  /\ UNCHANGED constraints

(* The edges of a node are in an array, in the order of their creation;    *)
(* any order stands for that.                                              *)
Orders == SetToSeqs(Timepoint)

AskIsDistanceLessThan(p, q, bound) ==
  /\ {p, q} \subseteq graph.timepoints
  /\ graph' = Propagate(graph)
  /\ graph'.consistent
  /\ \E yes \in {IsDistanceLessThan(graph', p, q, bound, order) : order \in Orders} :
       reply' = [answer |-> "less", of |-> <<p, q>>, bound |-> bound, yes |-> yes]
  /\ UNCHANGED constraints

AskIsDistancePossiblyLessThan(p, q, bound) ==
  /\ {p, q} \subseteq graph.timepoints
  /\ graph' = Propagate(graph)
  /\ graph'.consistent
  /\ reply' = [answer |-> "possibly", of |-> <<p, q>>, bound |-> bound,
               yes |-> IsDistancePossiblyLessThan(graph', p, q, bound)]
  /\ UNCHANGED constraints

(* The propagator has taken over the bounds of the updated time points.    *)
ResetUpdatedTimepoints ==
  /\ ~graph.hasDeletions /\ graph.consistent
  /\ graph' = [graph EXCEPT !.updated = {}]
  /\ UNCHANGED <<constraints, reply>>

Next ==
  \/ \E p \in Timepoint :
       \/ AddTimepoint(p) \/ GetTimepointBounds(p)
       \/ \E marker \in BOOLEAN : DeleteTimepoint(p, marker)
       \/ \E q \in Timepoint \ {p} :
            \/ \E exact \in BOOLEAN : CalcDistanceBounds(p, q, exact)
            \/ CalcManyDistanceBounds(p, q)
            \/ \E targets \in SUBSET (Timepoint \ {p}) :
                 q \in targets /\ CalcDistanceSigns(p, targets, q)
            \/ \E bound \in Asked : \/ AskIsDistanceLessThan(p, q, bound)
                                    \/ AskIsDistancePossiblyLessThan(p, q, bound)
  \/ \E c \in Link : \/ \E shape \in Shapes : \/ AddTemporalConstraint(c, shape)
                                              \/ NarrowTemporalConstraint(c, shape)
                     \/ \E markDeleted \in BOOLEAN : RemoveTemporalConstraint(c, markDeleted)
  \/ ResetUpdatedTimepoints

Spec == Init /\ [][Next]_vars
=============================================================================
