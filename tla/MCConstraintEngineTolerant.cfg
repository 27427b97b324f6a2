SPECIFICATION FairSpec
CONSTANTS
  x = x
  y = y
  z = z
  same = same
  different = different
  Var <- RowVar
  Constraint <- RowConstraint
  Value <- RowValue
  BaseDomain <- RowBase
  Scope <- RowScope
  Allowed <- RowAllowed
  NoValue = NoValue
  UIntMod = 4
  Disposable = {z}
  Holdable = {x, y}
  MaxHeld = 1
  Restrictions <- NoRestrictions
  Overruling = FALSE
  Tolerances = {TRUE}
INVARIANTS NothingForgotten ActivityCounts
PROPERTY PropagationEnds
