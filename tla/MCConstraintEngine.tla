------------------------- MODULE MCConstraintEngine -------------------------
(***************************************************************************)
(* Three variables in a row, an equality and an inequality between them.   *)
(***************************************************************************)
EXTENDS ConstraintEngineProperties

CONSTANTS x, y, z, same, different

RowVar == {x, y, z}
RowConstraint == {same, different}
RowValue == {0, 1}
RowBase == [v \in RowVar |-> RowValue]
RowScope == (same :> <<x, y>>) @@ (different :> <<y, z>>)
RowAllowed ==
  (same      :> {t \in [{x, y} -> Value] : t[x] = t[y]}) @@
  (different :> {t \in [{y, z} -> Value] : t[y] # t[z]})

RowRestrictions == {<<y, {0}>>}

NoRestrictions == {}
=============================================================================
