\* The rate limiter and the arithmetic of the limits.
CONSTANTS
  Second = 6  kMax = 15  kBasisPoints = 4
  Setups <- MCSetups  Commands <- MCCommands
  Delays = {1, 5}  MaxNow = 9  MaxAdmitted = 4
SPECIFICATION MCSpec
INVARIANTS RateBound RefusesOnlyExcess LimitsAreExact
