---------------------------- MODULE SlotLimiter ----------------------------
(***************************************************************************)
(* What a per-shopper and per-tenant rate limiter promises, with time      *)
(* abstracted away: every admitted request takes one slot of its shopper   *)
(* and one of its tenant, slots come free by themselves as the minute      *)
(* slides on, and neither cap is ever exceeded.  RateLimiter implements    *)
(* this module with timestamps; TryOnPipeline is composed with it.         *)
(***************************************************************************)
EXTENDS Naturals, Functions

CONSTANTS
  Tenant, Shopper,
  PerShopperPerMinute,   \* [Tenant -> Nat] cap of one shopper of the tenant
  PerTenantPerMinute     \* [Tenant -> Nat] cap of all shoppers together

VARIABLE taken           \* [Tenant -> [Shopper -> Nat]] slots in the window

TypeOK == taken \in [Tenant -> [Shopper -> Nat]]

Init == taken = [t \in Tenant |-> [s \in Shopper |-> 0]]

TenantSlots(t) == SumFunction(taken[t])

ShopperFull(t, s) == taken[t][s] >= PerShopperPerMinute[t]
TenantFull(t) == TenantSlots(t) >= PerTenantPerMinute[t]

\* Either cap refuses the request; a cap of zero refuses every request.
Full(t, s) == ShopperFull(t, s) \/ TenantFull(t)

Admit(t, s) ==
  /\ ~Full(t, s)
  /\ taken' = [taken EXCEPT ![t][s] = @ + 1]

\* One slot of a shopper falls out of the window.
FreeOne(t, s) ==
  /\ taken[t][s] > 0
  /\ taken' = [taken EXCEPT ![t][s] = @ - 1]

\* Any number of slots fall out of the window at once.
Slide ==
  /\ taken' \in [Tenant -> [Shopper -> Nat]]
  /\ \A t \in Tenant, s \in Shopper : taken'[t][s] <= taken[t][s]

Next == Slide \/ \E t \in Tenant, s \in Shopper : Admit(t, s)

Spec == Init /\ [][Next]_taken
=============================================================================
