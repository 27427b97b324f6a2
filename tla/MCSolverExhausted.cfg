SPECIFICATION Spec
CONSTANTS
  a = a
  b = b
  c = c
  d = d
  NoDecision = NoDecision
  Flaw <- MCFlaw
  Roots <- MCRoots
  MaxChoices = 3
  NumChoices <- MCNumChoices
  Cutoff <- NoCutoff
  Subgoals <- MCSubgoals
  Nogoods <- MCNogoods
  Tolerant = FALSE
  UIntMod = 32
  ULongMod = 128
  StepLimits = {3}
  DepthLimits = {31}
  MaxForeign = 1
INVARIANT ExhaustedLeavesNoDecision
