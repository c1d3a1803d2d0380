SPECIFICATION ListingSpec
CONSTANTS
  shoe = shoe
  hat = hat
  sock = sock
  scarf = scarf
  belt = belt
  first = first
  second = second
  Nothing = Nothing
  NoLimit = NoLimit
  Records <- MCRecords
  Listings <- MCListings
  Catalogs <- MCCatalogs
  Limits <- MCLimits
CHECK_DEADLOCK FALSE
INVARIANTS
  YieldsAreTheValidProducts
  SkipsAreReported
