------------------------------ MODULE MCSolver ------------------------------
(* A small problem for the Solver: two root flaws; the second choice of a  *)
(* adds the flaw c, whose first choice leads to the dead end d.  There are *)
(* solutions on either side of a; those with the third choice of b are     *)
(* beyond the cut-off, where there is one.                                 *)
EXTENDS SolverProperties, TLC

CONSTANTS a, b, c, d

MCFlaw == {a, b, c, d}
MCRoots == {a, b}
MCNumChoices == (a :> 2) @@ (b :> 3) @@ (c :> 2) @@ (d :> 0)
MCSubgoals ==
  (a :> << {}, {c} >>) @@ (b :> << {}, {}, {} >>) @@ (c :> << {d}, {} >>) @@ (d :> << >>)
MCNogoods == {{<<a, 1>>, <<b, 1>>}, {<<a, 2>>, <<b, 2>>, <<c, 2>>}}
CutoffOnB == [f \in MCFlaw |-> IF f = b THEN 2 ELSE 0]
NoCutoff == [f \in MCFlaw |-> 0]
=============================================================================
