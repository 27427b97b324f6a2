SPECIFICATION Spec
CONSTANTS
  Class <- AllClasses
  Scope <- MCScope
  Source <- MCSource
INVARIANTS TypeOK DecidedMeansSatisfied
PROPERTY NoSolutionFiltered
