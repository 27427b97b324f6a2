SPECIFICATION Spec
CONSTANTS
  master = master
  slave = slave
  then = then
  else = else
  inner = inner
  below = below
  beside = beside
  x = x
  y = y
  z = z
  w = w
  NoToken = NoToken
  NoVariable = NoVariable
  NoValue = NoValue
  Rule <- MCRule
  Token <- MCToken
  Given = {master}
  Variable <- MCVariable
  Owner <- MCOwner
  Decision = {x, z}
  Value = {1, 2, 3}
  Deletable = {slave}
INVARIANTS TypeOK PlanFollowsDecisions SlavesHaveReasons
PROPERTY PropagationEnds
