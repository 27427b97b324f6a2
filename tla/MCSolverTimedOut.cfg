SPECIFICATION Spec
CONSTANTS
  a = a
  b = b
  c = c
  d = d
  NoDecision = NoDecision
  Flaw <- MCFlaw
  Roots <- MCRoots
  MaxChoices = 3
  NumChoices <- MCNumChoices
  Cutoff <- NoCutoff
  Subgoals <- MCSubgoals
  Nogoods <- MCNogoods
  Tolerant = FALSE
  UIntMod = 32
  ULongMod = 128
  StepLimits = {2, 31}
  DepthLimits = {1, 31}
  MaxForeign = 0
PROPERTY TimedOutMeansOverLimit
