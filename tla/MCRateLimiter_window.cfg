SPECIFICATION Spec
CONSTANTS
  t1 = t1
  t2 = t2
  s1 = s1
  s2 = s2
  None = None
  Tenant = {t1, t2}
  Shopper = {s1, s2}
  PerShopperPerMinute <- ShopperCaps
  PerTenantPerMinute <- TenantCaps
  Window = 3
  MaxTime = 5
SYMMETRY ShopperSymmetry
INVARIANTS
  TypeOK
  NoWindowExceedsCaps
  RetryAfterIsExact
PROPERTIES
  ImplementsSlotLimiter
  RefusalsAreExact
