SPECIFICATION Spec
CONSTANTS
  deterministic = deterministic
  fal = fal
  selfHosted = selfHosted
  Provider = {deterministic, fal, selfHosted}
  Deterministic = deterministic
  Networked = {fal, selfHosted}
  CostPerCall <- Costs
  Priority <- Priorities
  IdRank <- Ranks
  MaxListed = 3
  HasCallerSignal = TRUE
  AdapterOf <- MCAdapterOf
INVARIANTS
  DeterministicIsTheLastResort
CHECK_DEADLOCK FALSE
