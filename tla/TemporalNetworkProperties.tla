--------------------- MODULE TemporalNetworkProperties ---------------------
(***************************************************************************)
(* What TemporalNetwork promises, whatever is added, narrowed and removed. *)
(***************************************************************************)
EXTENDS TemporalNetwork

UpToDate == graph.consistent /\ ~graph.hasDeletions

(* The potentials are a schedule for the present constraints, which is     *)
(* what the detection of inconsistency and the order in dijkstra rest on.  *)
PotentialsFeasible ==
  UpToDate => \A e \in BagToSet(graph.specs) :
    graph.potential[e[2]] <= graph.potential[e[1]] + e[3]

(* Bounds never become tighter behind the propagator's back: the time      *)
(* point is then among those that it will look at, even if the step began  *)
(* by forgetting which those were.                                         *)
TighteningNoticed ==
  [][\A p \in (graph.timepoints \cap graph'.timepoints) \ {Origin} :
       graph.lower[p] < graph'.lower[p] \/ graph'.upper[p] < graph.upper[p]
         => p \in graph'.updated]_vars

(* An inconsistency leaves a time point from which it can be traced: the   *)
(* propagator takes the first of the updated ones (handleViolations).      *)
InconsistencyTraceable == ~graph.consistent /\ ~graph.hasDeletions => graph.updated # {}

(* Every answer is about the constraints that are in the network, as if it *)
(* were computed from scratch: the bounds are the exact ones, no schedule  *)
(* is reported to be missing that exists, and a distance that is said to   *)
(* be less than a bound is.                                                *)
AnswersAreTrue == Network!Spec
=============================================================================
