SPECIFICATION Spec
CONSTANTS
  r1 = r1
  r2 = r2
  r3 = r3
  t1 = t1
  t2 = t2
  s1 = s1
  k1 = k1
  c1 = c1
  c2 = c2
  fal = fal
  selfHosted = selfHosted
  deterministic = deterministic
  NoKey = NoKey
  None = None
  Provider = {fal, selfHosted, deterministic}
  Shopper = {s1}
  IdemKey = {k1}
  Fallible = {fal, selfHosted}
  Cost <- CostOf
  MaxCost = 4
  EstimatedNextCall = 5
  Request = {r1, r2, r3}
  Tenant = {t1, t2}
  Content = {c1, c2}
  Candidates <- MixedLists
  Budget <- BudgetOf9
  PerShopperPerMinute <- CapOf9
  PerTenantPerMinute <- CapOf9
  MaxEntries = 1
  KillScopes <- NoScopes
  RequestSpace <- GoodRequests
SYMMETRY RequestSymmetry
PROPERTIES
  RoutesFallThrough
INVARIANTS
  EachComputationIsBilledOnce
  ReplayMatchesRequest
  LateRetryIsFree
  BudgetOvershootBound
  ResultMatchesRequest
  FallbackAlwaysAnswers
CHECK_DEADLOCK FALSE
