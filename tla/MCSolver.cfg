SPECIFICATION FairSpec
CONSTANTS
  a = a
  b = b
  c = c
  d = d
  NoDecision = NoDecision
  Flaw <- MCFlaw
  Roots <- MCRoots
  MaxChoices = 3
  NumChoices <- MCNumChoices
  Cutoff <- CutoffOnB
  Subgoals <- MCSubgoals
  Nogoods <- MCNogoods
  Tolerant = TRUE
  UIntMod = 32
  ULongMod = 128
  StepLimits = {2, 31}
  DepthLimits = {1, 31}
  MaxForeign = 1
INVARIANTS TypeOK DecisionsInForce NothingLost ExhaustionIsProof FoundOnce FoundAreSolutions LimitsRespected
PROPERTIES StepAddsNoViolation SolveAnswers
