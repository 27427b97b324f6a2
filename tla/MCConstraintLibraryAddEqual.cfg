SPECIFICATION Spec
CONSTANTS
  Class = {"AddEqual"}
  Scope <- ThreeEnumerations
  Source <- MCSource
INVARIANT DecidedMeansSatisfied
