SPECIFICATION Spec
CONSTANTS
  x = x
  y = y
  z = z
  same = same
  different = different
  Var <- RowVar
  Constraint <- RowConstraint
  Value <- RowValue
  BaseDomain <- RowBase
  Scope <- RowScope
  Allowed <- RowAllowed
  NoValue = NoValue
  UIntMod = 4
  Disposable = {}
  Holdable = {}
  MaxHeld = 1
  Restrictions <- RowRestrictions
  Overruling = FALSE
  Tolerances = {FALSE}
INVARIANTS TypeOK NoSolutionLost EmptyKnown
