SPECIFICATION FairSpec
CONSTANTS
  deterministic = deterministic
  fal = fal
  selfHosted = selfHosted
  Provider = {deterministic, fal, selfHosted}
  Deterministic = deterministic
  Networked = {fal, selfHosted}
  CostPerCall <- FallbackDearest
  Priority <- Priorities
  IdRank <- Ranks
  MaxListed = 3
  HasCallerSignal = TRUE
  AdapterOf <- MCAdapterOf
INVARIANTS
  CandidatesAreCanonical
  NothingIsLeftBehind
  AbandonedCallsAreTold
PROPERTIES
  ImplementsFallThrough
  FirstSettlementWins
  NoCallAfterCallerAborts
  RouteEnds
CHECK_DEADLOCK FALSE
