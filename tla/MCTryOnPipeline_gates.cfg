SPECIFICATION FairSpec
CONSTANTS
  r1 = r1
  r2 = r2
  r3 = r3
  t1 = t1
  t2 = t2
  s1 = s1
  k1 = k1
  c1 = c1
  c2 = c2
  fal = fal
  selfHosted = selfHosted
  deterministic = deterministic
  NoKey = NoKey
  None = None
  Provider = {fal, selfHosted, deterministic}
  Shopper = {s1}
  IdemKey = {k1}
  Fallible = {fal, selfHosted}
  Cost <- CostOf
  MaxCost = 4
  EstimatedNextCall = 5
  Request = {r1, r2}
  Tenant = {t1, t2}
  Content = {c1}
  Candidates <- MixedLists
  Budget <- BudgetOf5
  PerShopperPerMinute <- CapOf2
  PerTenantPerMinute <- CapOf1
  MaxEntries = 2
  KillScopes <- EnvAndT1
  RequestSpace <- AnyRequests
INVARIANTS
  TypeOK
  VerdictsAreAudited
PROPERTIES
  KillSwitchAdmitsNone
  EveryRequestSettles
