--------------------------- MODULE MCRateLimiter ---------------------------
(***************************************************************************)
(* Constants for the runs of RateLimiter: a shopper cap below the tenant's *)
(* cap, so that either bucket can be the one that refuses, and a window    *)
(* that the clock passes more than twice.                                  *)
(***************************************************************************)
EXTENDS RateLimiter, TLC

CONSTANTS t1, t2, s1, s2

\* t1 has caps that bind in turn; nothing is permitted to t2.
ShopperCaps == [t \in Tenant |-> IF t = t1 THEN 2 ELSE 1]
TenantCaps == [t \in Tenant |-> IF t = t1 THEN 3 ELSE 0]

ShopperSymmetry == Permutations(Shopper)
=============================================================================
