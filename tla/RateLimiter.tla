---------------------------- MODULE RateLimiter ----------------------------
(***************************************************************************)
(* RateLimiter of packages/security/src/rate-limit.ts: a sliding window of *)
(* request timestamps per shopper and per tenant.  Each call of check is   *)
(* one step, since it does not await.  The buckets are pruned only when    *)
(* they are looked at, so what is stored may be staler than the clock.     *)
(* The code counts a bucket's timestamps, filters them by age and takes    *)
(* the earliest, never by their place: a bucket is a set of hits, which    *)
(* their numbers tell apart when they fall into one unit of time.          *)
(*                                                                         *)
(* Time is in whole units of the clock; Window is WINDOW_MS.  The clock    *)
(* does not step back: the code asks for a "monotonic-enough" one.         *)
(***************************************************************************)
EXTENDS Integers, FiniteSets, FiniteSetsExt

CONSTANTS
  Tenant, Shopper,
  PerShopperPerMinute, PerTenantPerMinute,
  Window,
  MaxTime,               \* bound: the clock stops here
  None

ASSUME WindowAssumption == Window \in Nat \ {0} /\ MaxTime \in Nat
ASSUME CapsAssumption ==
  /\ PerShopperPerMinute \in [Tenant -> Nat]
  /\ PerTenantPerMinute \in [Tenant -> Nat]

\* Those who ever call the process; the slots they take are summed below.
ASSUME ShoppersAssumption == IsFiniteSet(Shopper)

VARIABLES
  now,
  shopperHits,   \* [Tenant -> [Shopper -> SUBSET Hit]] the buckets s:tenant:shopper
  tenantHits,    \* [Tenant -> SUBSET Hit] the buckets t:tenant
  retryAt,       \* [Tenant -> [Shopper -> Nat \cup {None}]] the time the last answer
                 \* told the shopper to retry at, if it was a refusal and nothing
                 \* of the tenant was admitted since
  admitted       \* history: [Tenant -> SUBSET Hit] every hit ever

vars == <<now, shopperHits, tenantHits, retryAt, admitted>>

Hit == [by : Shopper, no : Nat, at : Nat]

\* Types, and that no bucket ever holds more hits than its cap, pruned or not
\* (rate-limit.ts:87-106).
TypeOK ==
  /\ now \in Nat
  /\ shopperHits \in [Tenant -> [Shopper -> SUBSET Hit]]
  /\ tenantHits \in [Tenant -> SUBSET Hit]
  /\ \A t \in Tenant :
       /\ Cardinality(tenantHits[t]) <= PerTenantPerMinute[t]
       /\ \A s \in Shopper : Cardinality(shopperHits[t][s]) <= PerShopperPerMinute[t]
  /\ retryAt \in [Tenant -> [Shopper -> Nat \cup {None}]]
  /\ admitted \in [Tenant -> SUBSET Hit]

Init ==
  /\ now = 0
  /\ shopperHits = [t \in Tenant |-> [s \in Shopper |-> {}]]
  /\ tenantHits = [t \in Tenant |-> {}]
  /\ retryAt = [t \in Tenant |-> [s \in Shopper |-> None]]
  /\ admitted = tenantHits

-----------------------------------------------------------------------------
\* Mutant: the window is one unit too short.
PruneOneEarly(hits) == {h \in hits : h.at > now - Window + 1}

\* Timestamps at or before the cutoff are dropped.
Prune(hits) == {h \in hits : h.at > now - Window}

\* A cap of zero permits nothing and leaves the buckets alone.
NothingPermitted(t) == PerShopperPerMinute[t] = 0 \/ PerTenantPerMinute[t] = 0

\* Mutant: the cap is compared one too late.
ShopperFullOneLate(t, s) == Cardinality(Prune(shopperHits[t][s])) > PerShopperPerMinute[t]

ShopperFull(t, s) == Cardinality(Prune(shopperHits[t][s])) >= PerShopperPerMinute[t]
TenantFull(t) == Cardinality(Prune(tenantHits[t])) >= PerTenantPerMinute[t]

\* How long until the oldest hit of a pruned bucket leaves the window.
WaitFor(hits) == Min({h.at : h \in Prune(hits)}) + Window - now

\* Mutant: the shorter of two waits is reported.
RetryAfterFirst(t, s) ==
  Min((IF ShopperFull(t, s) THEN {WaitFor(shopperHits[t][s])} ELSE {})
      \cup (IF TenantFull(t) THEN {WaitFor(tenantHits[t])} ELSE {}))

\* The longest wait among the buckets that are full, and at least one.
RetryAfter(t, s) ==
  Max({1} \cup (IF ShopperFull(t, s) THEN {WaitFor(shopperHits[t][s])} ELSE {})
          \cup (IF TenantFull(t) THEN {WaitFor(tenantHits[t])} ELSE {}))

Refuse(t, s, wait) ==
  /\ retryAt' = [retryAt EXCEPT ![t][s] = now + wait]
  /\ UNCHANGED <<now, admitted>>

DenyAll(t, s) ==
  /\ NothingPermitted(t)
  /\ Refuse(t, s, Window)
  /\ UNCHANGED <<shopperHits, tenantHits>>

\* Refused: the pruned buckets are stored, the request is not.
DenyFull(t, s) ==
  /\ ~NothingPermitted(t)
  /\ ShopperFull(t, s) \/ TenantFull(t)
  /\ shopperHits' = [shopperHits EXCEPT ![t][s] = Prune(@)]
  /\ tenantHits' = [tenantHits EXCEPT ![t] = Prune(@)]
  /\ Refuse(t, s, RetryAfter(t, s))

NewHit(t, s) == [by |-> s, no |-> Cardinality({h \in admitted[t] : h.by = s}), at |-> now]

\* Mutant: an admitted request is not counted against the tenant.
RecordForShopperOnly(t, s) ==
  /\ shopperHits' = [shopperHits EXCEPT ![t][s] = Prune(@) \cup {NewHit(t, s)}]
  /\ tenantHits' = [tenantHits EXCEPT ![t] = Prune(@)]

\* Mutant: the new hit is appended to the bucket as it was stored.
RecordUnpruned(t, s) ==
  /\ shopperHits' = [shopperHits EXCEPT ![t][s] = @ \cup {NewHit(t, s)}]
  /\ tenantHits' = [tenantHits EXCEPT ![t] = @ \cup {NewHit(t, s)}]

\* The hit goes into both pruned buckets.
Record(t, s) ==
  /\ shopperHits' = [shopperHits EXCEPT ![t][s] = Prune(@) \cup {NewHit(t, s)}]
  /\ tenantHits' = [tenantHits EXCEPT ![t] = Prune(@) \cup {NewHit(t, s)}]

Allow(t, s) ==
  /\ ~NothingPermitted(t)
  /\ ~ShopperFull(t, s)
  /\ ~TenantFull(t)
  /\ Record(t, s)
  /\ retryAt' = [retryAt EXCEPT ![t] = [x \in Shopper |-> None]]
  /\ admitted' = [admitted EXCEPT ![t] = @ \cup {NewHit(t, s)}]
  /\ UNCHANGED now

Tick ==
  /\ now < MaxTime
  /\ now' = now + 1
  /\ UNCHANGED <<shopperHits, tenantHits, retryAt, admitted>>

Next ==
  \/ Tick
  \/ \E t \in Tenant, s \in Shopper : DenyAll(t, s) \/ DenyFull(t, s) \/ Allow(t, s)

Spec == Init /\ [][Next]_vars

-----------------------------------------------------------------------------
(* What the limiter promises: SlotLimiter, with the hits in the window of   *)
(* the shoppers' buckets as the slots taken.                                *)

Abstract ==
  INSTANCE SlotLimiter WITH
    taken <- [t \in Tenant |-> [s \in Shopper |-> Cardinality(Prune(shopperHits[t][s]))]]

\* Buckets that are pruned at different moments, and a tenant's bucket that is
\* kept apart from its shoppers', implement one count of slots per shopper.
ImplementsSlotLimiter == Abstract!Spec

\* What was admitted in the window that ends at last, whatever the buckets have
\* since pruned.
AdmittedIn(t, last) == {h \in admitted[t] : last - Window < h.at /\ h.at <= last}
By(s, hits) == {h \in hits : h.by = s}

WithinCaps(t, hits) ==
  /\ Cardinality(hits) <= PerTenantPerMinute[t]
  /\ \A s \in Shopper : Cardinality(By(s, hits)) <= PerShopperPerMinute[t]

\* However requests are spread over the window boundaries, no window, past or
\* present, holds more admissions than either cap: the promise seen from outside.
NoWindowExceedsCaps ==
  \A t \in Tenant : \A last \in 0..now : WithinCaps(t, AdmittedIn(t, last))

\* A check refuses exactly when one admission more would exceed a cap in the
\* window that ends now: neither the shopper's bucket nor the tenant's own, pruned at
\* different moments, ever disagrees with what was admitted ("so the aggregate
\* stays exact", rate-limit.ts:102).
RefusalsAreExact ==
  [][\A t \in Tenant, s \in Shopper :
       LET full == \/ Cardinality(AdmittedIn(t, now)) >= PerTenantPerMinute[t]
                   \/ Cardinality(By(s, AdmittedIn(t, now))) >= PerShopperPerMinute[t]
       IN  /\ Allow(t, s) => ~full
           /\ DenyAll(t, s) \/ DenyFull(t, s) => full]_vars

\* retryAfterMs is exact: unless another request of the tenant is admitted
\* first, the refused shopper is refused again before that time and admitted
\* from then on (rate-limit.ts:116-120).
RetryAfterIsExact ==
  \A t \in Tenant, s \in Shopper :
    retryAt[t][s] # None /\ ~NothingPermitted(t) =>
      /\ retryAt[t][s] <= now + Window
      /\ (ShopperFull(t, s) \/ TenantFull(t)) <=> now < retryAt[t][s]

=============================================================================
