SPECIFICATION Spec
CONSTANTS
  Class = {"CondAllDiff"}
  Scope <- ThreeIntervals
  Source <- MCSource
PROPERTY NoSolutionFiltered
