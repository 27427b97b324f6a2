CONSTANTS
  origin = origin
  a = a
  b = b
  Timepoint = {origin, a, b}
  Origin = origin
  c1 = c1
  c2 = c2
  c3 = c3
  Link = {c1, c2, c3}
  Infinity = 9
  Bound <- MCBound
  Asked = {0, 1}
  Shapes <- MCShapes
SPECIFICATION Spec
INVARIANTS TypeOK PotentialsFeasible InconsistencyTraceable
PROPERTIES TighteningNoticed AnswersAreTrue
VIEW MCView
SYMMETRY MCSymmetry
