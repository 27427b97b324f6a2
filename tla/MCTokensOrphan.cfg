SPECIFICATION Spec
CONSTANTS
  t1 = t1
  t2 = t2
  t3 = t3
  one = one
  two = two
  Token = {t1, t2, t3}
  NoToken = NoToken
  NoValue = NoValue
  Value <- Both
  Bases <- BothBase
  Restrictions <- OnlyOne
  Choices = {two}
SYMMETRY Permuted
INVARIANT ReferencedWhileAlive
