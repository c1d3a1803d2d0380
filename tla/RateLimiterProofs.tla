------------------------- MODULE RateLimiterProofs --------------------------
(***************************************************************************)
(* Theorems about RateLimiter, for any window, caps, tenants and shoppers. *)
(* All rest on one fact: pruned, the buckets of a tenant hold exactly what *)
(* was admitted in the window that ends now.                               *)
(***************************************************************************)
EXTENDS RateLimiter, FoldLemmas, TLAPS

\* What of hits is in the window that ends at n.
Recent(hits, n) == {h \in hits : h.at > n - Window}

Types ==
  /\ now \in Nat
  /\ shopperHits \in [Tenant -> [Shopper -> SUBSET Hit]]
  /\ tenantHits \in [Tenant -> SUBSET Hit]
  /\ retryAt \in [Tenant -> [Shopper -> Nat \cup {None}]]
  /\ admitted \in [Tenant -> SUBSET Hit]
  /\ \A t \in Tenant : IsFiniteSet(admitted[t])

\* The buckets of a tenant hold hits of their own, and all of them that are in the
\* window that ends at n.
Hold(ofTenant, ofShoppers, hits, n) ==
  /\ \A h \in hits : /\ h.at <= n
                     /\ h.at > n - Window => h \in ofTenant /\ h \in ofShoppers[h.by]
  /\ ofTenant \subseteq hits
  /\ \A s \in Shopper : ofShoppers[s] \subseteq By(s, hits)

Buckets == \A t \in Tenant : Hold(tenantHits[t], shopperHits[t], admitted[t], now)

\* No bucket holds more than its cap, pruned or not.
Bounded ==
  \A t \in Tenant :
    /\ Cardinality(tenantHits[t]) <= PerTenantPerMinute[t]
    /\ \A s \in Shopper : Cardinality(shopperHits[t][s]) <= PerShopperPerMinute[t]

\* Full, and no hit leaves before r.
Binding(hits, cap, r) == Cardinality(hits) >= cap /\ \A h \in hits : h.at + Window >= r

\* Not full, or a hit leaves by r.
Loosens(hits, cap, r) == Cardinality(hits) < cap \/ \E h \in hits : h.at + Window <= r

\* Until r a shopper of the tenant meets a bucket that stays full, and from then on
\* none, unless another request is admitted.
Refused(t, s, hits, r, n) ==
  /\ r <= n + Window
  /\ n < r => \/ Binding(By(s, Recent(hits, n)), PerShopperPerMinute[t], r)
              \/ Binding(Recent(hits, n), PerTenantPerMinute[t], r)
  /\ Loosens(By(s, Recent(hits, n)), PerShopperPerMinute[t], r)
  /\ Loosens(Recent(hits, n), PerTenantPerMinute[t], r)

RetryInv ==
  \A t \in Tenant, s \in Shopper :
    retryAt[t][s] # None /\ ~NothingPermitted(t) =>
      Refused(t, s, admitted[t], retryAt[t][s], now)

\* Hits are numbered per shopper.
Numbered == \A t \in Tenant : \A h \in admitted[t] : h.no < Cardinality(By(h.by, admitted[t]))

IInv == Types /\ Buckets /\ Bounded /\ NoWindowExceedsCaps /\ RetryInv /\ Numbered

-----------------------------------------------------------------------------
LEMMA Constants ==
  /\ Window \in Nat /\ Window > 0
  /\ \A t \in Tenant : PerShopperPerMinute[t] \in Nat /\ PerTenantPerMinute[t] \in Nat
BY WindowAssumption, CapsAssumption

LEMMA MinFacts ==
  ASSUME NEW S \in SUBSET Nat, S # {}
  PROVE  Min(S) \in S /\ \A y \in S : Min(S) <= y
<1>1. \E x \in S : \A y \in S : ~ (<<y, x>> \in OpToRel(<, Nat))
  BY NatLessThanWellFounded, WFMin
<1>2. \A x, y \in Nat : <<y, x>> \in OpToRel(<, Nat) <=> y < x
  BY DEF OpToRel
<1>3. \E x \in S : \A y \in S : ~ (y < x)
  BY <1>1, <1>2, Zenon
<1>4. \E x \in S : \A y \in S : x <= y
  BY <1>3
<1> QED
  BY <1>4 DEF Min

\* Sets of hits: a smaller one is finite and has no more elements.
LEMMA FewerHits ==
  ASSUME NEW S, IsFiniteSet(S), NEW T, T \subseteq S
  PROVE  IsFiniteSet(T) /\ Cardinality(T) \in Nat /\ Cardinality(S) \in Nat
         /\ Cardinality(T) <= Cardinality(S)
BY FS_Subset, FS_CardinalityType

LEMMA OneHitMore ==
  ASSUME NEW S, IsFiniteSet(S), NEW x
  PROVE  IsFiniteSet(S \cup {x}) /\ Cardinality(S \cup {x}) <= Cardinality(S) + 1
         /\ Cardinality(S) \in Nat /\ Cardinality(S \cup {x}) \in Nat
BY FS_AddElement, FS_CardinalityType

\* Pruned, the buckets agree with what was admitted.
LEMMA PrunedBuckets ==
  ASSUME Types, Buckets, NEW t \in Tenant
  PROVE  /\ Prune(tenantHits[t]) = Recent(admitted[t], now)
         /\ \A s \in Shopper : Prune(shopperHits[t][s]) = By(s, Recent(admitted[t], now))
         /\ AdmittedIn(t, now) = Recent(admitted[t], now)
<1>1. Prune(tenantHits[t]) = Recent(admitted[t], now)
  BY DEF Buckets, Hold, Prune, Recent
<1>2. \A s \in Shopper : Prune(shopperHits[t][s]) = By(s, Recent(admitted[t], now))
  BY DEF Buckets, Hold, Prune, Recent, By
<1>3. \A h \in admitted[t] : h.at \in Nat /\ h.at <= now
  BY DEF Types, Buckets, Hold, Hit
<1>4. AdmittedIn(t, now) = Recent(admitted[t], now)
  BY <1>3, Constants DEF AdmittedIn, Recent, Types
<1> QED
  BY <1>1, <1>2, <1>4

LEMMA HitsAreFinite ==
  ASSUME Types, Buckets, NEW t \in Tenant
  PROVE  /\ IsFiniteSet(tenantHits[t]) /\ IsFiniteSet(Recent(admitted[t], now))
         /\ \A s \in Shopper : /\ IsFiniteSet(shopperHits[t][s])
                             /\ IsFiniteSet(By(s, Recent(admitted[t], now)))
<1>1. IsFiniteSet(admitted[t])
  BY DEF Types
<1>2. tenantHits[t] \subseteq admitted[t] /\ Recent(admitted[t], now) \subseteq admitted[t]
  BY DEF Buckets, Hold, Recent
<1>3. \A s \in Shopper : /\ shopperHits[t][s] \subseteq admitted[t]
                         /\ By(s, Recent(admitted[t], now)) \subseteq admitted[t]
  BY DEF Buckets, Hold, Recent, By
<1> QED
  BY <1>1, <1>2, <1>3, FewerHits

-----------------------------------------------------------------------------
LEMMA InitOK == Init => IInv
<1> SUFFICES ASSUME Init PROVE IInv
  OBVIOUS
<1>1. Types
  BY FS_EmptySet DEF Init, Types
<1>2. \A t \in Tenant : admitted[t] = {} /\ tenantHits[t] = {} /\ \A s \in Shopper : shopperHits[t][s] = {}
  BY DEF Init
<1>3. Buckets /\ Numbered
  BY <1>2 DEF Buckets, Hold, Numbered
<1>4. Bounded
  <2>1. Cardinality({}) = 0
    BY FS_EmptySet
  <2>2. \A cap \in Nat : 0 <= cap
    OBVIOUS
  <2> QED
    BY <1>2, <2>1, <2>2, Constants, Zenon DEF Bounded
<1>5. NoWindowExceedsCaps
  <2>1. \A t \in Tenant : \A last \in 0..now :
          AdmittedIn(t, last) = {} /\ \A s \in Shopper : By(s, AdmittedIn(t, last)) = {}
    BY <1>2 DEF AdmittedIn, By
  <2> QED
    BY <2>1, FS_EmptySet, Constants DEF NoWindowExceedsCaps, WithinCaps
<1>6. RetryInv
  BY DEF Init, RetryInv
<1> QED
  BY <1>1, <1>3, <1>4, <1>5, <1>6 DEF IInv

-----------------------------------------------------------------------------
(* Time passes *)

LEMMA TickKeepsLoosens ==
  ASSUME NEW hits, IsFiniteSet(hits), \A h \in hits : h.at \in Nat,
         NEW n \in Nat, NEW cap \in Nat, Cardinality(hits) <= cap,
         NEW r \in Nat, Loosens(hits, cap, r)
  PROVE  Loosens(Recent(hits, n), cap, r)
<1> DEFINE rest == Recent(hits, n)
<1>1. rest \subseteq hits
  BY DEF Recent
<1> HIDE DEF rest
<1>2. Cardinality(rest) \in Nat /\ Cardinality(hits) \in Nat /\ Cardinality(rest) <= Cardinality(hits)
  BY <1>1, FewerHits
<1>3. CASE Cardinality(hits) < cap
  BY <1>2, <1>3 DEF Loosens, rest
<1>4. ASSUME NEW h \in hits, h.at + Window <= r PROVE Loosens(rest, cap, r)
  <2>1. CASE h \in rest
    BY <1>4, <2>1 DEF Loosens
  <2>2. CASE h \notin rest
    <3>1. IsFiniteSet(hits \ {h}) /\ Cardinality(hits \ {h}) = Cardinality(hits) - 1
      BY FS_RemoveElement
    <3>2. rest \subseteq hits \ {h}
      BY <1>1, <2>2
    <3>3. Cardinality(rest) <= Cardinality(hits) - 1
      BY <3>1, <3>2, FewerHits
    <3> QED
      BY <1>2, <3>3 DEF Loosens
  <2> QED
    BY <2>1, <2>2
<1> QED
  BY <1>3, <1>4 DEF Loosens, rest

LEMMA TickKeepsBinding ==
  ASSUME NEW hits, \A h \in hits : h.at \in Nat, NEW n \in Nat, NEW cap \in Nat,
         NEW r \in Nat, n < r, Binding(hits, cap, r)
  PROVE  Recent(hits, n) = hits
BY Constants DEF Binding, Recent

LEMMA TickKeeps == IInv /\ Tick => IInv'
<1> SUFFICES ASSUME IInv, Tick PROVE IInv'
  OBVIOUS
<1> USE DEF IInv
<1>1. /\ now \in Nat /\ now' = now + 1 /\ admitted' = admitted /\ retryAt' = retryAt
      /\ tenantHits' = tenantHits /\ shopperHits' = shopperHits
  BY DEF Tick, Types
<1>2. \A t \in Tenant : \A h \in admitted[t] : h.at \in Nat /\ h.at <= now
  BY DEF Types, Buckets, Hold, Hit
<1>3. Types'
  BY <1>1 DEF Types
<1>4. Buckets'
  <2>1. \A t \in Tenant : \A h \in admitted[t] :
          h.at <= now + 1 /\ (h.at > (now + 1) - Window => h.at > now - Window)
    BY <1>1, <1>2, Constants
  <2> QED
    <3> SUFFICES ASSUME NEW t \in Tenant
                 PROVE  Hold(tenantHits[t], shopperHits[t], admitted[t], now + 1)
      BY <1>1 DEF Buckets
    <3>1. Hold(tenantHits[t], shopperHits[t], admitted[t], now)
      BY DEF Buckets
    <3> QED
      BY <2>1, <3>1 DEF Hold
<1>5. Bounded' /\ Numbered'
  BY <1>1 DEF Bounded, Numbered, By
<1>6. NoWindowExceedsCaps'
  <2> SUFFICES ASSUME NEW t \in Tenant, NEW last \in 0..now' PROVE WithinCaps(t, AdmittedIn(t, last)')
    BY <1>1 DEF NoWindowExceedsCaps, WithinCaps, By
  <2>1. AdmittedIn(t, last)' = AdmittedIn(t, last)
    BY <1>1 DEF AdmittedIn
  <2>2. CASE last \in 0..now
    BY <2>1, <2>2 DEF NoWindowExceedsCaps
  <2>3. CASE last = now + 1
    <3> DEFINE old == AdmittedIn(t, now)
               new == AdmittedIn(t, last)
    <3>1. new \subseteq old /\ old \subseteq admitted[t]
      BY <1>1, <1>2, <2>3, Constants DEF AdmittedIn
    <3>2. WithinCaps(t, old)
      BY <1>1 DEF NoWindowExceedsCaps
    <3> HIDE DEF old, new
    <3>3. IsFiniteSet(old)
      BY <3>1, FewerHits DEF Types
    <3>4. Cardinality(new) <= PerTenantPerMinute[t]
      BY <3>1, <3>2, <3>3, FewerHits, Constants DEF WithinCaps
    <3>5. ASSUME NEW s \in Shopper PROVE Cardinality(By(s, new)) <= PerShopperPerMinute[t]
      <4>1. By(s, new) \subseteq By(s, old) /\ By(s, old) \subseteq old
        BY <3>1 DEF By
      <4>2. IsFiniteSet(By(s, old))
        BY <3>3, <4>1, FewerHits
      <4>3. Cardinality(By(s, new)) <= Cardinality(By(s, old)) /\ Cardinality(By(s, new)) \in Nat
            /\ Cardinality(By(s, old)) \in Nat
        BY <4>1, <4>2, FewerHits
      <4>4. Cardinality(By(s, old)) <= PerShopperPerMinute[t]
        BY <3>2 DEF WithinCaps
      <4> QED
        BY <4>3, <4>4, Constants
    <3>6. WithinCaps(t, new)
      BY <3>4, <3>5 DEF WithinCaps
    <3> QED
      BY <2>1, <3>6 DEF new
  <2> QED
    BY <1>1, <2>2, <2>3
<1>7. RetryInv'
  <2> SUFFICES ASSUME NEW t \in Tenant, NEW s \in Shopper,
                      retryAt[t][s] # None, ~NothingPermitted(t)
               PROVE  Refused(t, s, admitted[t], retryAt[t][s], now + 1)
    BY <1>1 DEF RetryInv, NothingPermitted
  <2> DEFINE r == retryAt[t][s]
             T == Recent(admitted[t], now)
             S == By(s, T)
             capT == PerTenantPerMinute[t]
             capS == PerShopperPerMinute[t]
  <2>1. r \in Nat /\ capT \in Nat /\ capS \in Nat
    BY Constants DEF Types
  <2>2. /\ r <= now + Window
        /\ now < r => Binding(S, capS, r) \/ Binding(T, capT, r)
        /\ Loosens(S, capS, r) /\ Loosens(T, capT, r)
    BY DEF RetryInv, Refused
  <2>3. /\ Recent(admitted[t], now + 1) = Recent(T, now + 1)
        /\ By(s, Recent(admitted[t], now + 1)) = Recent(S, now + 1)
    <3>1. \A h \in admitted[t] : h.at > (now + 1) - Window => h.at > now - Window
      BY <1>1, <1>2, Constants
    <3>2. Recent(admitted[t], now + 1) = Recent(T, now + 1)
      <4>1. \A h : h \in Recent(admitted[t], now + 1) <=> h \in Recent(T, now + 1)
        BY <3>1 DEF Recent
      <4> QED
        BY <4>1, Zenon
    <3>3. By(s, Recent(T, now + 1)) = Recent(S, now + 1)
      BY Zenon DEF Recent, By
    <3> QED
      BY <3>2, <3>3
  <2>4. /\ \A h \in T : h.at \in Nat
        /\ \A h \in S : h.at \in Nat
    BY <1>2 DEF Recent, By
  <2>5. IsFiniteSet(T) /\ IsFiniteSet(S)
    BY HitsAreFinite
  <2>6. Cardinality(T) <= capT /\ Cardinality(S) <= capS
    <3>1. WithinCaps(t, AdmittedIn(t, now))
      BY <1>1 DEF NoWindowExceedsCaps
    <3> QED
      BY <3>1, PrunedBuckets DEF WithinCaps
  <2> HIDE DEF r, S, T, capT, capS
  <2>7. now + 1 \in Nat
    BY <1>1
  <2>8. Loosens(Recent(S, now + 1), capS, r) /\ Loosens(Recent(T, now + 1), capT, r)
    BY <2>1, <2>2, <2>4, <2>5, <2>6, <2>7, TickKeepsLoosens
  <2>9. ASSUME now + 1 < r
        PROVE  Binding(Recent(S, now + 1), capS, r) \/ Binding(Recent(T, now + 1), capT, r)
    <3>1. now < r
      BY <1>1, <2>1, <2>9
    <3>2. CASE Binding(S, capS, r)
      BY <2>1, <2>4, <2>7, <2>9, <3>2, TickKeepsBinding
    <3>3. CASE Binding(T, capT, r)
      BY <2>1, <2>4, <2>7, <2>9, <3>3, TickKeepsBinding
    <3> QED
      BY <2>2, <3>1, <3>2, <3>3
  <2>10. r <= now + 1 + Window
    BY <1>1, <2>1, <2>2, Constants
  <2> QED
    BY <2>3, <2>8, <2>9, <2>10 DEF r, capT, capS, Refused
<1> QED
  BY <1>3, <1>4, <1>5, <1>6, <1>7

-----------------------------------------------------------------------------
(* A refusal *)

LEMMA DenyAllKeeps ==
  ASSUME IInv, NEW t \in Tenant, NEW s \in Shopper, DenyAll(t, s)
  PROVE  IInv'
<1> USE DEF IInv
<1>1. /\ now' = now /\ admitted' = admitted /\ tenantHits' = tenantHits
      /\ shopperHits' = shopperHits /\ NothingPermitted(t)
      /\ retryAt' = [retryAt EXCEPT ![t][s] = now + Window]
  BY DEF DenyAll, Refuse
<1>2. Types'
  <2>1. now + Window \in Nat
    BY Constants DEF Types
  <2> QED
    BY <1>1, <2>1 DEF Types
<1>3. Buckets' /\ Bounded' /\ Numbered'
  BY <1>1 DEF Buckets, Bounded, Numbered
<1>4. NoWindowExceedsCaps'
  BY <1>1 DEF NoWindowExceedsCaps, AdmittedIn
<1>5. RetryInv'
  <2> SUFFICES ASSUME NEW x \in Tenant, NEW y \in Shopper,
                      retryAt'[x][y] # None, ~NothingPermitted(x)
               PROVE  Refused(x, y, admitted[x], retryAt'[x][y], now)
    BY <1>1 DEF RetryInv, NothingPermitted
  <2>1. x # t
    BY <1>1
  <2>2. retryAt'[x][y] = retryAt[x][y]
    BY <1>1, <2>1 DEF Types
  <2> QED
    BY <2>2 DEF RetryInv
<1> QED
  BY <1>2, <1>3, <1>4, <1>5

\* How long from n until the earliest of hits leaves the window.
Until(hits, n) == Min({h.at : h \in hits}) + Window - n

\* A full bucket of a cap above zero has an earliest hit, and the wait is until then.
LEMMA WaitFacts ==
  ASSUME NEW n \in Nat, NEW hits, IsFiniteSet(hits), NEW cap \in Nat, cap > 0,
         Cardinality(hits) >= cap,
         \A h \in hits : h.at \in Nat /\ h.at <= n /\ h.at > n - Window
  PROVE  /\ Until(hits, n) \in Nat /\ 1 <= Until(hits, n) /\ Until(hits, n) <= Window
         /\ \A h \in hits : h.at + Window >= n + Until(hits, n)
         /\ \E h \in hits : h.at + Window = n + Until(hits, n)
<1> DEFINE wait == Until(hits, n)
           times == {h.at : h \in hits}
<1>1. hits # {}
  BY FS_EmptySet
<1>2. times \in SUBSET Nat /\ times # {}
  BY <1>1
<1>3. Min(times) \in times /\ \A y \in times : Min(times) <= y
  BY <1>2, MinFacts
<1> DEFINE first == Min(times)
<1>4. PICK h \in hits : h.at = first
  BY <1>3
<1>5. \A x \in hits : first <= x.at
  BY <1>3
<1>6. wait = first + Window - n
  BY DEF Until
<1> HIDE DEF first, times, wait
<1>7. first \in Nat /\ first <= n /\ first > n - Window
  BY <1>4
<1>8. wait \in Nat /\ 1 <= wait /\ wait <= Window /\ n + wait = first + Window
  BY <1>6, <1>7, Constants
<1>9. \A x \in hits : x.at + Window >= first + Window
  BY <1>5, <1>7, Constants
<1> QED
  BY <1>4, <1>8, <1>9 DEF wait

\* What a refusal tells the shopper fits what is in the window.
LEMMA WaitFits ==
  ASSUME IInv, NEW t \in Tenant, NEW s \in Shopper, ~NothingPermitted(t),
         ShopperFull(t, s) \/ TenantFull(t)
  PROVE  /\ RetryAfter(t, s) \in Nat
         /\ Refused(t, s, admitted[t], now + RetryAfter(t, s), now)
<1> DEFINE T == Recent(admitted[t], now)
           S == By(s, T)
           capT == PerTenantPerMinute[t]
           capS == PerShopperPerMinute[t]
           waitT == WaitFor(tenantHits[t])
           waitS == WaitFor(shopperHits[t][s])
           wait == RetryAfter(t, s)
<1> USE DEF IInv
<1>1. Prune(tenantHits[t]) = T /\ Prune(shopperHits[t][s]) = S
  BY PrunedBuckets
<1>2. IsFiniteSet(T) /\ IsFiniteSet(S)
  BY HitsAreFinite
<1>3. /\ \A h \in T : h.at \in Nat /\ h.at <= now /\ h.at > now - Window
      /\ \A h \in S : h.at \in Nat /\ h.at <= now /\ h.at > now - Window
  BY DEF Types, Buckets, Hold, Hit, Recent, By
<1>4. /\ capT \in Nat /\ capT > 0 /\ capS \in Nat /\ capS > 0 /\ now \in Nat
      /\ Window \in Nat /\ Window > 0
  BY Constants DEF NothingPermitted, Types
<1>5. waitT = Until(T, now) /\ waitS = Until(S, now)
  BY <1>1 DEF WaitFor, Until
<1>6. /\ TenantFull(t) <=> Cardinality(T) >= capT
      /\ ShopperFull(t, s) <=> Cardinality(S) >= capS
  BY <1>1 DEF TenantFull, ShopperFull
<1>7. Cardinality(T) \in Nat /\ Cardinality(S) \in Nat
  BY <1>2, FS_CardinalityType
<1>8. wait = Max({1} \cup (IF ShopperFull(t, s) THEN {waitS} ELSE {})
                     \cup (IF TenantFull(t) THEN {waitT} ELSE {}))
  BY DEF RetryAfter
<1> HIDE DEF T, S, capT, capS, waitT, waitS, wait
<1>9. TenantFull(t) =>
        /\ waitT \in Nat /\ 1 <= waitT /\ waitT <= Window
        /\ \A h \in T : h.at + Window >= now + waitT
        /\ \E h \in T : h.at + Window = now + waitT
  <2> SUFFICES ASSUME TenantFull(t)
               PROVE  /\ waitT \in Nat /\ 1 <= waitT /\ waitT <= Window
                      /\ \A h \in T : h.at + Window >= now + waitT
                      /\ \E h \in T : h.at + Window = now + waitT
    OBVIOUS
  <2>1. Cardinality(T) >= capT
    BY <1>6
  <2> QED
    BY <1>2, <1>3, <1>4, <1>5, <2>1, WaitFacts
<1>10. ShopperFull(t, s) =>
        /\ waitS \in Nat /\ 1 <= waitS /\ waitS <= Window
        /\ \A h \in S : h.at + Window >= now + waitS
        /\ \E h \in S : h.at + Window = now + waitS
  <2> SUFFICES ASSUME ShopperFull(t, s)
               PROVE  /\ waitS \in Nat /\ 1 <= waitS /\ waitS <= Window
                      /\ \A h \in S : h.at + Window >= now + waitS
                      /\ \E h \in S : h.at + Window = now + waitS
    OBVIOUS
  <2>1. Cardinality(S) >= capS
    BY <1>6
  <2> QED
    BY <1>2, <1>3, <1>4, <1>5, <2>1, WaitFacts
<1>11. \* the longest wait is that of a full bucket
       /\ wait \in Nat /\ wait <= Window
       /\ (ShopperFull(t, s) /\ wait = waitS) \/ (TenantFull(t) /\ wait = waitT)
       /\ ShopperFull(t, s) => waitS <= wait
       /\ TenantFull(t) => waitT <= wait
  <2> DEFINE waits == {1} \cup (IF ShopperFull(t, s) THEN {waitS} ELSE {})
                          \cup (IF TenantFull(t) THEN {waitT} ELSE {})
  <2>1. \A x \in waits : x \in Nat /\ 1 <= x /\ x <= Window
    BY <1>4, <1>9, <1>10
  <2>2. \E x \in waits : \A y \in waits : x >= y
    <3>1. CASE ShopperFull(t, s) /\ TenantFull(t)
      <4>1. CASE waitS >= waitT
        BY <1>9, <1>10, <3>1, <4>1
      <4>2. CASE ~(waitS >= waitT)
        BY <1>9, <1>10, <3>1, <4>2
      <4> QED
        BY <4>1, <4>2
    <3>2. CASE ShopperFull(t, s) /\ ~TenantFull(t)
      BY <1>10, <3>2
    <3>3. CASE ~ShopperFull(t, s) /\ TenantFull(t)
      BY <1>9, <3>3
    <3> QED
      BY <3>1, <3>2, <3>3
  <2>3. wait = Max(waits)
    BY <1>8
  <2> HIDE DEF waits
  <2>4. wait \in waits /\ \A y \in waits : wait >= y
    BY <2>2, <2>3 DEF Max
  <2>5. /\ ShopperFull(t, s) => waitS \in waits
        /\ TenantFull(t) => waitT \in waits
    BY DEF waits
  <2>6. wait = 1 \/ (ShopperFull(t, s) /\ wait = waitS) \/ (TenantFull(t) /\ wait = waitT)
    BY <2>4 DEF waits
  <2>7. wait = 1 => (ShopperFull(t, s) /\ wait = waitS) \/ (TenantFull(t) /\ wait = waitT)
    <3>1. CASE ShopperFull(t, s)
      BY <1>10, <2>4, <2>5, <3>1
    <3>2. CASE TenantFull(t)
      BY <1>9, <2>4, <2>5, <3>2
    <3> QED
      BY <3>1, <3>2
  <2> QED
    BY <2>1, <2>4, <2>5, <2>6, <2>7
<1>12. now + wait <= now + Window /\ now + wait \in Nat
  BY <1>4, <1>11
<1>13. Binding(S, capS, now + wait) \/ Binding(T, capT, now + wait)
  BY <1>6, <1>9, <1>10, <1>11 DEF Binding
<1>14. Loosens(S, capS, now + wait)
  <2>1. CASE ~ShopperFull(t, s)
    BY <1>4, <1>6, <1>7, <2>1 DEF Loosens
  <2>2. CASE ShopperFull(t, s)
    <3>1. PICK h \in S : h.at + Window = now + waitS
      BY <1>10, <2>2
    <3>2. h.at + Window <= now + wait
      BY <1>3, <1>4, <1>10, <1>11, <2>2, <3>1
    <3> QED
      BY <3>2 DEF Loosens
  <2> QED
    BY <2>1, <2>2
<1>15. Loosens(T, capT, now + wait)
  <2>1. CASE ~TenantFull(t)
    BY <1>4, <1>6, <1>7, <2>1 DEF Loosens
  <2>2. CASE TenantFull(t)
    <3>1. PICK h \in T : h.at + Window = now + waitT
      BY <1>9, <2>2
    <3>2. h.at + Window <= now + wait
      BY <1>3, <1>4, <1>9, <1>11, <2>2, <3>1
    <3> QED
      BY <3>2 DEF Loosens
  <2> QED
    BY <2>1, <2>2
<1> QED
  BY <1>11, <1>12, <1>13, <1>14, <1>15 DEF Refused, wait, S, T, capS, capT

LEMMA DenyFullKeeps ==
  ASSUME IInv, NEW t \in Tenant, NEW s \in Shopper, DenyFull(t, s)
  PROVE  IInv'
<1> USE DEF IInv
<1>1. /\ now' = now /\ admitted' = admitted /\ ~NothingPermitted(t)
      /\ ShopperFull(t, s) \/ TenantFull(t)
      /\ tenantHits' = [tenantHits EXCEPT ![t] = Prune(tenantHits[t])]
      /\ shopperHits' = [shopperHits EXCEPT ![t][s] = Prune(shopperHits[t][s])]
      /\ retryAt' = [retryAt EXCEPT ![t][s] = now + RetryAfter(t, s)]
  BY DEF DenyFull, Refuse
<1>2. RetryAfter(t, s) \in Nat /\ Refused(t, s, admitted[t], now + RetryAfter(t, s), now)
  BY <1>1, WaitFits
<1> DEFINE wait == RetryAfter(t, s)
<1> HIDE DEF wait
<1>3. \A hits : Prune(hits) \subseteq hits /\ \A h \in hits : h.at > now - Window => h \in Prune(hits)
  BY DEF Prune
<1>4. /\ \A x \in Tenant : /\ tenantHits'[x] \subseteq tenantHits[x]
                           /\ \A h \in tenantHits[x] : h.at > now - Window => h \in tenantHits'[x]
      /\ \A x \in Tenant, y \in Shopper :
           /\ shopperHits'[x][y] \subseteq shopperHits[x][y]
           /\ \A h \in shopperHits[x][y] : h.at > now - Window => h \in shopperHits'[x][y]
  <2>1. \A x \in Tenant : tenantHits'[x] = IF x = t THEN Prune(tenantHits[x]) ELSE tenantHits[x]
    BY <1>1 DEF Types
  <2>2. \A x \in Tenant, y \in Shopper :
          shopperHits'[x][y] = IF x = t /\ y = s THEN Prune(shopperHits[x][y]) ELSE shopperHits[x][y]
    BY <1>1 DEF Types
  <2> QED
    BY <1>3, <2>1, <2>2
<1>5. Types'
  <2>1. now + wait \in Nat
    BY <1>2 DEF wait, Types
  <2>2. Prune(tenantHits[t]) \in SUBSET Hit /\ Prune(shopperHits[t][s]) \in SUBSET Hit
    BY <1>3 DEF Types
  <2>3. retryAt' \in [Tenant -> [Shopper -> Nat \cup {None}]]
    BY <1>1, <2>1 DEF Types, wait
  <2>4. tenantHits' \in [Tenant -> SUBSET Hit]
    BY <1>1, <2>2 DEF Types
  <2>5. shopperHits' \in [Tenant -> [Shopper -> SUBSET Hit]]
    BY <1>1, <2>2 DEF Types
  <2> QED
    BY <1>1, <2>3, <2>4, <2>5 DEF Types
<1>6. Buckets'
  <2> SUFFICES ASSUME NEW x \in Tenant PROVE Hold(tenantHits'[x], shopperHits'[x], admitted[x], now)
    BY <1>1 DEF Buckets
  <2>1. Hold(tenantHits[x], shopperHits[x], admitted[x], now)
    BY DEF Buckets
  <2>2. \A h \in admitted[x] : h.by \in Shopper
    BY DEF Types, Hit
  <2> QED
    BY <1>4, <2>1, <2>2 DEF Hold
<1>7. Bounded'
  <2> SUFFICES ASSUME NEW x \in Tenant
               PROVE  /\ Cardinality(tenantHits'[x]) <= PerTenantPerMinute[x]
                      /\ \A y \in Shopper : Cardinality(shopperHits'[x][y]) <= PerShopperPerMinute[x]
    BY DEF Bounded
  <2>1. IsFiniteSet(tenantHits[x]) /\ \A y \in Shopper : IsFiniteSet(shopperHits[x][y])
    BY HitsAreFinite
  <2>2. /\ Cardinality(tenantHits[x]) <= PerTenantPerMinute[x]
        /\ \A y \in Shopper : Cardinality(shopperHits[x][y]) <= PerShopperPerMinute[x]
    BY DEF Bounded
  <2>3. Cardinality(tenantHits'[x]) <= PerTenantPerMinute[x]
    <3>1. /\ Cardinality(tenantHits'[x]) <= Cardinality(tenantHits[x])
          /\ Cardinality(tenantHits'[x]) \in Nat /\ Cardinality(tenantHits[x]) \in Nat
      BY <1>4, <2>1, FewerHits
    <3> QED
      BY <2>2, <3>1, Constants
  <2>4. ASSUME NEW y \in Shopper PROVE Cardinality(shopperHits'[x][y]) <= PerShopperPerMinute[x]
    <3>1. /\ Cardinality(shopperHits'[x][y]) <= Cardinality(shopperHits[x][y])
          /\ Cardinality(shopperHits'[x][y]) \in Nat /\ Cardinality(shopperHits[x][y]) \in Nat
      BY <1>4, <2>1, FewerHits
    <3> QED
      BY <2>2, <3>1, Constants
  <2> QED
    BY <2>3, <2>4
<1>8. NoWindowExceedsCaps' /\ Numbered'
  BY <1>1 DEF NoWindowExceedsCaps, AdmittedIn, Numbered
<1>9. RetryInv'
  <2> SUFFICES ASSUME NEW x \in Tenant, NEW y \in Shopper,
                      retryAt'[x][y] # None, ~NothingPermitted(x)
               PROVE  Refused(x, y, admitted[x], retryAt'[x][y], now)
    BY <1>1 DEF RetryInv, NothingPermitted
  <2>1. CASE x = t /\ y = s
    <3>1. retryAt'[x][y] = now + wait
      BY <1>1, <2>1 DEF Types, wait
    <3> QED
      BY <1>2, <2>1, <3>1 DEF wait
  <2>2. CASE ~(x = t /\ y = s)
    <3>1. retryAt'[x][y] = retryAt[x][y]
      BY <1>1, <2>2 DEF Types
    <3> QED
      BY <3>1 DEF RetryInv
  <2> QED
    BY <2>1, <2>2
<1> QED
  BY <1>5, <1>6, <1>7, <1>8, <1>9

-----------------------------------------------------------------------------
(* An admission *)

\* A new hit is a hit, and one of its own.
LEMMA NewHitFacts ==
  ASSUME Types, Numbered, NEW t \in Tenant, NEW s \in Shopper
  PROVE  /\ NewHit(t, s) \in Hit /\ NewHit(t, s).by = s /\ NewHit(t, s).at = now
         /\ NewHit(t, s).no = Cardinality(By(s, admitted[t]))
         /\ NewHit(t, s) \notin admitted[t]
<1> DEFINE n == Cardinality(By(s, admitted[t]))
<1>1. n \in Nat
  <2>1. By(s, admitted[t]) \subseteq admitted[t]
    BY DEF By
  <2> QED
    BY <2>1, FewerHits DEF Types
<1>2. NewHit(t, s) = [by |-> s, no |-> n, at |-> now]
  BY DEF NewHit, By
<1> HIDE DEF n
<1>3. /\ NewHit(t, s) \in Hit /\ NewHit(t, s).by = s /\ NewHit(t, s).at = now
      /\ NewHit(t, s).no = n
  BY <1>1, <1>2 DEF Hit, Types
<1>4. ASSUME NewHit(t, s) \in admitted[t] PROVE FALSE
  <2>1. NewHit(t, s).no < n
    BY <1>3, <1>4 DEF Numbered, n
  <2> QED
    BY <1>1, <1>3, <2>1
<1> QED
  BY <1>3, <1>4 DEF n

LEMMA AllowKeeps ==
  ASSUME IInv, NEW t \in Tenant, NEW s \in Shopper, Allow(t, s)
  PROVE  IInv'
<1> DEFINE new == NewHit(t, s)
           T == Recent(admitted[t], now)
           S == By(s, T)
<1> USE DEF IInv
<1>1. /\ now' = now
      /\ tenantHits' = [tenantHits EXCEPT ![t] = Prune(tenantHits[t]) \cup {new}]
      /\ shopperHits' = [shopperHits EXCEPT ![t][s] = Prune(shopperHits[t][s]) \cup {new}]
      /\ retryAt' = [retryAt EXCEPT ![t] = [x \in Shopper |-> None]]
      /\ admitted' = [admitted EXCEPT ![t] = admitted[t] \cup {new}]
  BY DEF Allow, Record
<1>2. /\ new \in Hit /\ new.by = s /\ new.at = now
      /\ new.no = Cardinality(By(s, admitted[t])) /\ new \notin admitted[t]
  BY NewHitFacts
<1> HIDE DEF new
<1>3. Prune(tenantHits[t]) = T /\ Prune(shopperHits[t][s]) = S
  BY PrunedBuckets
<1>4. Cardinality(T) < PerTenantPerMinute[t] /\ Cardinality(S) < PerShopperPerMinute[t]
  <2>1. ~(Cardinality(T) >= PerTenantPerMinute[t]) /\ ~(Cardinality(S) >= PerShopperPerMinute[t])
    BY <1>3 DEF Allow, TenantFull, ShopperFull
  <2>2. Cardinality(T) \in Nat /\ Cardinality(S) \in Nat
    BY HitsAreFinite, FS_CardinalityType
  <2> QED
    BY <2>1, <2>2, Constants
<1>5. /\ IsFiniteSet(T) /\ Cardinality(T \cup {new}) <= PerTenantPerMinute[t]
      /\ IsFiniteSet(S) /\ Cardinality(S \cup {new}) <= PerShopperPerMinute[t]
  <2>1. IsFiniteSet(T) /\ IsFiniteSet(S)
    BY HitsAreFinite
  <2>2. /\ Cardinality(T \cup {new}) <= Cardinality(T) + 1
        /\ Cardinality(T) \in Nat /\ Cardinality(T \cup {new}) \in Nat
    BY <2>1, OneHitMore
  <2>3. /\ Cardinality(S \cup {new}) <= Cardinality(S) + 1
        /\ Cardinality(S) \in Nat /\ Cardinality(S \cup {new}) \in Nat
    BY <2>1, OneHitMore
  <2> HIDE DEF T, S
  <2> QED
    BY <1>4, <2>1, <2>2, <2>3, Constants
<1>6. /\ T \subseteq admitted[t] /\ S \subseteq admitted[t]
      /\ \A h \in admitted[t] : h.at > now - Window => h \in T /\ (h.by = s => h \in S)
      /\ S \subseteq By(s, admitted[t])
  BY DEF Recent, By
<1>7. now \in Nat /\ Window \in Nat /\ Window > 0
  BY Constants DEF Types
<1> HIDE DEF T, S
<1>8. /\ tenantHits'[t] = T \cup {new} /\ admitted'[t] = admitted[t] \cup {new}
      /\ shopperHits'[t][s] = S \cup {new}
      /\ \A y \in Shopper : y # s => shopperHits'[t][y] = shopperHits[t][y]
      /\ \A y \in Shopper : retryAt'[t][y] = None
  BY <1>1, <1>3 DEF Types
<1>15. ASSUME NEW x \in Tenant, x # t
       PROVE  /\ tenantHits'[x] = tenantHits[x] /\ admitted'[x] = admitted[x]
              /\ shopperHits'[x] = shopperHits[x] /\ retryAt'[x] = retryAt[x]
  BY <1>1, <1>15 DEF Types
<1>9. Types'
  <2>1. T \cup {new} \in SUBSET Hit /\ S \cup {new} \in SUBSET Hit /\ admitted[t] \cup {new} \in SUBSET Hit
    BY <1>2, <1>6 DEF Types
  <2>2. tenantHits' \in [Tenant -> SUBSET Hit] /\ admitted' \in [Tenant -> SUBSET Hit]
    BY <1>1, <1>3, <2>1 DEF Types
  <2>3. shopperHits' \in [Tenant -> [Shopper -> SUBSET Hit]]
    BY <1>1, <1>3, <2>1 DEF Types
  <2>4. retryAt' \in [Tenant -> [Shopper -> Nat \cup {None}]]
    BY <1>1 DEF Types
  <2>5. ASSUME NEW x \in Tenant PROVE IsFiniteSet(admitted'[x])
    <3>1. IsFiniteSet(admitted[x])
      BY DEF Types
    <3>2. IsFiniteSet(admitted[t] \cup {new})
      <4>1. IsFiniteSet(admitted[t])
        BY DEF Types
      <4> QED
        BY <4>1, OneHitMore
    <3> QED
      BY <1>8, <1>15, <3>1, <3>2
  <2> QED
    BY <1>1, <2>2, <2>3, <2>4, <2>5 DEF Types
<1>10. Buckets'
  <2> SUFFICES ASSUME NEW x \in Tenant PROVE Hold(tenantHits'[x], shopperHits'[x], admitted'[x], now)
    BY <1>1 DEF Buckets
  <2>1. Hold(tenantHits[x], shopperHits[x], admitted[x], now)
    BY DEF Buckets
  <2>2. CASE x # t
    BY <1>15, <2>1, <2>2
  <2>3. CASE x = t
    <3>1. ASSUME NEW h \in admitted'[x]
          PROVE  /\ h.at <= now
                 /\ h.at > now - Window => h \in tenantHits'[x] /\ h \in shopperHits'[x][h.by]
      <4>1. CASE h = new
        BY <1>2, <1>7, <1>8, <2>3, <4>1
      <4>2. CASE h # new
        <5>1. h \in admitted[t] /\ h.by \in Shopper
          BY <1>8, <2>3, <3>1, <4>2 DEF Types, Hit
        <5>2. h.at <= now /\ (h.at > now - Window => h \in shopperHits[t][h.by])
          BY <2>1, <2>3, <5>1 DEF Hold
        <5> QED
          BY <1>6, <1>8, <2>3, <5>1, <5>2
      <4> QED
        BY <4>1, <4>2
    <3>2. tenantHits'[x] \subseteq admitted'[x]
      BY <1>6, <1>8, <2>3
    <3>3. \A y \in Shopper : shopperHits'[x][y] \subseteq By(y, admitted'[x])
      <4> TAKE y \in Shopper
      <4>1. shopperHits[t][y] \subseteq By(y, admitted[t])
        BY <2>1, <2>3 DEF Hold
      <4>2. By(y, admitted[t]) \subseteq By(y, admitted'[x])
        BY <1>8, <2>3 DEF By
      <4>3. new \in By(s, admitted'[x])
        BY <1>2, <1>8, <2>3 DEF By
      <4> QED
        BY <1>6, <1>8, <2>3, <4>1, <4>2, <4>3
    <3> QED
      BY <3>1, <3>2, <3>3 DEF Hold
  <2> QED
    BY <2>2, <2>3
<1>11. Bounded'
  <2> SUFFICES ASSUME NEW x \in Tenant
               PROVE  /\ Cardinality(tenantHits'[x]) <= PerTenantPerMinute[x]
                      /\ \A y \in Shopper : Cardinality(shopperHits'[x][y]) <= PerShopperPerMinute[x]
    BY DEF Bounded
  <2>1. CASE x # t
    BY <1>15, <2>1 DEF Bounded
  <2>2. CASE x = t
    BY <1>5, <1>8, <2>2 DEF Bounded
  <2> QED
    BY <2>1, <2>2
<1>12. NoWindowExceedsCaps'
  <2> SUFFICES ASSUME NEW x \in Tenant, NEW last \in 0..now
               PROVE  WithinCaps(x, AdmittedIn(x, last)')
    BY <1>1 DEF NoWindowExceedsCaps, WithinCaps, By
  <2>1. WithinCaps(x, AdmittedIn(x, last))
    BY DEF NoWindowExceedsCaps
  <2>2. CASE x # t \/ last # now
    <3>1. CASE x # t
      <4>1. AdmittedIn(x, last)' = AdmittedIn(x, last)
        BY <1>15, <3>1 DEF AdmittedIn
      <4> QED
        BY <2>1, <4>1
    <3>2. CASE x = t /\ last # now
      <4>1. ~(last - Window < new.at /\ new.at <= last)
        BY <1>2, <1>7, <3>2
      <4>2. AdmittedIn(t, last)' = {h \in admitted[t] \cup {new} : last - Window < h.at /\ h.at <= last}
        BY <1>8 DEF AdmittedIn
      <4>3. AdmittedIn(t, last)' = AdmittedIn(t, last)
        BY <4>1, <4>2 DEF AdmittedIn
      <4> QED
        BY <2>1, <3>2, <4>3
    <3> QED
      BY <2>2, <3>1, <3>2
  <2>3. CASE x = t /\ last = now
    <3>1. AdmittedIn(t, now) = T
      BY PrunedBuckets DEF T
    <3>2. AdmittedIn(x, last)' = T \cup {new}
      <4>1. AdmittedIn(x, last)' = {h \in admitted[t] \cup {new} : now - Window < h.at /\ h.at <= now}
        BY <1>8, <2>3 DEF AdmittedIn
      <4>2. now - Window < new.at /\ new.at <= now
        BY <1>2, <1>7
      <4> QED
        BY <3>1, <4>1, <4>2 DEF AdmittedIn
    <3>3. By(s, T \cup {new}) = S \cup {new}
      BY <1>2 DEF By, S
    <3>4. \A y \in Shopper : y # s => By(y, T \cup {new}) = By(y, T)
      BY <1>2 DEF By
    <3>5. WithinCaps(t, T \cup {new})
      BY <1>5, <2>1, <2>3, <3>1, <3>3, <3>4 DEF WithinCaps
    <3> QED
      BY <2>3, <3>2, <3>5
  <2> QED
    BY <2>2, <2>3
<1>13. RetryInv'
  <2> SUFFICES ASSUME NEW x \in Tenant, NEW y \in Shopper,
                      retryAt'[x][y] # None, ~NothingPermitted(x)
               PROVE  Refused(x, y, admitted'[x], retryAt'[x][y], now)
    BY <1>1 DEF RetryInv, NothingPermitted
  <2>1. retryAt'[x][y] = retryAt[x][y] /\ admitted'[x] = admitted[x]
    <3>1. x # t
      BY <1>8
    <3> QED
      BY <1>15, <3>1
  <2> QED
    BY <2>1 DEF RetryInv
<1>14. Numbered'
  <2> SUFFICES ASSUME NEW x \in Tenant, NEW h \in admitted'[x]
               PROVE  h.no < Cardinality(By(h.by, admitted'[x]))
    BY DEF Numbered, By
  <2>1. CASE x # t
    <3>1. admitted'[x] = admitted[x]
      BY <1>15, <2>1
    <3> QED
      BY <3>1 DEF Numbered
  <2>2. CASE x = t /\ h.by # s
    <3>1. h \in admitted[t] /\ By(h.by, admitted'[x]) = By(h.by, admitted[t])
      BY <1>2, <1>8, <2>2 DEF By
    <3> QED
      BY <3>1 DEF Numbered
  <2>3. CASE x = t /\ h.by = s
    <3> DEFINE old == By(s, admitted[t])
    <3>1. By(h.by, admitted'[x]) = old \cup {new}
      BY <1>2, <1>8, <2>3 DEF By
    <3>2. IsFiniteSet(old) /\ new \notin old
      <4>1. old \subseteq admitted[t]
        BY DEF By
      <4> QED
        BY <1>2, <4>1, FewerHits DEF Types
    <3>3. Cardinality(old \cup {new}) = Cardinality(old) + 1 /\ Cardinality(old) \in Nat
      BY <3>2, FS_AddElement, FS_CardinalityType
    <3>4. h # new => h \in admitted[t] /\ h.no < Cardinality(old) /\ h.no \in Nat
      BY <1>8, <2>3 DEF Numbered, Types, Hit
    <3> HIDE DEF old
    <3>5. new.no = Cardinality(old)
      BY <1>2 DEF old
    <3>6. h.no < Cardinality(old) + 1
      BY <3>3, <3>4, <3>5
    <3> QED
      BY <3>1, <3>3, <3>6
  <2> QED
    BY <2>1, <2>2, <2>3
<1> QED
  BY <1>9, <1>10, <1>11, <1>12, <1>13, <1>14

-----------------------------------------------------------------------------
LEMMA NextKeeps == IInv /\ [Next]_vars => IInv'
<1> SUFFICES ASSUME IInv, [Next]_vars PROVE IInv'
  OBVIOUS
<1>1. CASE UNCHANGED vars
  <2>1. /\ now' = now /\ admitted' = admitted /\ tenantHits' = tenantHits
        /\ shopperHits' = shopperHits /\ retryAt' = retryAt
    BY <1>1 DEF vars
  <2>2. Types' /\ Buckets' /\ Bounded' /\ Numbered'
    BY <2>1 DEF IInv, Types, Buckets, Bounded, Numbered
  <2>3. NoWindowExceedsCaps'
    BY <2>1 DEF IInv, NoWindowExceedsCaps, AdmittedIn
  <2>4. RetryInv'
    BY <2>1 DEF IInv, RetryInv, NothingPermitted
  <2> QED
    BY <2>2, <2>3, <2>4 DEF IInv
<1> QED
  BY <1>1, TickKeeps, DenyAllKeeps, DenyFullKeeps, AllowKeeps DEF Next

LEMMA Invariant == Spec => []IInv
<1> QED
  BY InitOK, NextKeeps, PTL DEF Spec

\* The buckets hold timestamps, and never more of them than their caps, pruned or not
\* (rate-limit.ts:87-106).
THEOREM TypeCorrect == Spec => []TypeOK
<1>1. IInv => TypeOK
  BY DEF IInv, Types, Bounded, TypeOK
<1> QED
  BY <1>1, Invariant, PTL

\* No window of time, past or present, holds more admissions than either cap
\* (check, rate-limit.ts).
THEOREM CapsHold == Spec => []NoWindowExceedsCaps
<1>1. IInv => NoWindowExceedsCaps
  BY DEF IInv
<1> QED
  BY <1>1, Invariant, PTL

\* An admission is a hit that was not there before: sets of hits count like the code's
\* arrays of timestamps (rate-limit.ts:103-106).
THEOREM HitsAreDistinct == Spec => [](\A t \in Tenant, s \in Shopper : NewHit(t, s) \notin admitted[t])
<1>1. IInv => \A t \in Tenant, s \in Shopper : NewHit(t, s) \notin admitted[t]
  BY NewHitFacts DEF IInv
<1> QED
  BY <1>1, Invariant, PTL

\* A check refuses exactly when one admission more would exceed a cap in the window
\* that ends now (rate-limit.ts:84-108).
THEOREM ChecksAreExact == Spec => RefusalsAreExact
<1> DEFINE Exact ==
      \A t \in Tenant, s \in Shopper :
        LET full == \/ Cardinality(AdmittedIn(t, now)) >= PerTenantPerMinute[t]
                    \/ Cardinality(By(s, AdmittedIn(t, now))) >= PerShopperPerMinute[t]
        IN  /\ Allow(t, s) => ~full
            /\ DenyAll(t, s) \/ DenyFull(t, s) => full
<1>1. IInv /\ [Next]_vars => [Exact]_vars
  <2> SUFFICES ASSUME IInv, NEW t \in Tenant, NEW s \in Shopper
               PROVE  LET full == \/ Cardinality(AdmittedIn(t, now)) >= PerTenantPerMinute[t]
                                  \/ Cardinality(By(s, AdmittedIn(t, now))) >= PerShopperPerMinute[t]
                      IN  /\ Allow(t, s) => ~full
                          /\ DenyAll(t, s) \/ DenyFull(t, s) => full
    OBVIOUS
  <2> DEFINE T == AdmittedIn(t, now)
  <2>1. Prune(tenantHits[t]) = T /\ Prune(shopperHits[t][s]) = By(s, T)
    BY PrunedBuckets DEF IInv
  <2>2. /\ TenantFull(t) <=> Cardinality(T) >= PerTenantPerMinute[t]
        /\ ShopperFull(t, s) <=> Cardinality(By(s, T)) >= PerShopperPerMinute[t]
    BY <2>1 DEF TenantFull, ShopperFull
  <2>3. Cardinality(T) \in Nat /\ Cardinality(By(s, T)) \in Nat
    BY PrunedBuckets, HitsAreFinite, FS_CardinalityType DEF IInv
  <2>4. NothingPermitted(t) => TenantFull(t) \/ ShopperFull(t, s)
    <3> HIDE DEF T
    <3> QED
      BY <2>2, <2>3, Constants DEF NothingPermitted
  <2> QED
    BY <2>2, <2>4 DEF Allow, DenyAll, DenyFull
<1> QED
  BY <1>1, Invariant, PTL DEF Spec, RefusalsAreExact

\* A refused shopper is refused again until the time it was told, and admitted from
\* then on, unless another request of the tenant is admitted first
\* (computeRetryAfterMs, rate-limit.ts:121-130).
THEOREM RetryIsExact == Spec => []RetryAfterIsExact
<1>1. IInv => RetryAfterIsExact
  <2> SUFFICES ASSUME IInv, NEW t \in Tenant, NEW s \in Shopper,
                      retryAt[t][s] # None, ~NothingPermitted(t)
               PROVE  /\ retryAt[t][s] <= now + Window
                      /\ (ShopperFull(t, s) \/ TenantFull(t)) <=> now < retryAt[t][s]
    BY DEF RetryAfterIsExact
  <2> DEFINE r == retryAt[t][s]
             T == Recent(admitted[t], now)
             S == By(s, T)
             capT == PerTenantPerMinute[t]
             capS == PerShopperPerMinute[t]
  <2>1. Refused(t, s, admitted[t], r, now)
    BY DEF IInv, RetryInv
  <2>2. /\ TenantFull(t) <=> Cardinality(T) >= capT
        /\ ShopperFull(t, s) <=> Cardinality(S) >= capS
    BY PrunedBuckets DEF IInv, TenantFull, ShopperFull
  <2>3. /\ \A h \in T : h.at \in Nat /\ h.at > now - Window
        /\ \A h \in S : h.at \in Nat /\ h.at > now - Window
    BY DEF IInv, Types, Hit, Recent, By
  <2>4. Cardinality(T) \in Nat /\ Cardinality(S) \in Nat
    BY HitsAreFinite, FS_CardinalityType DEF IInv
  <2>5. /\ r \in Nat /\ capT \in Nat /\ capS \in Nat /\ now \in Nat
        /\ Window \in Nat /\ Window > 0
    BY Constants DEF IInv, Types
  <2>6. /\ r <= now + Window
        /\ now < r => Binding(S, capS, r) \/ Binding(T, capT, r)
        /\ Loosens(S, capS, r) /\ Loosens(T, capT, r)
    BY <2>1 DEF Refused
  <2> HIDE DEF r, S, T, capS, capT
  <2>7. now < r => ShopperFull(t, s) \/ TenantFull(t)
    BY <2>2, <2>6 DEF Binding
  <2>8. ASSUME ~(now < r) PROVE ~ShopperFull(t, s) /\ ~TenantFull(t)
    <3>1. \A h \in S : ~(h.at + Window <= r)
      BY <2>3, <2>5, <2>8
    <3>2. \A h \in T : ~(h.at + Window <= r)
      BY <2>3, <2>5, <2>8
    <3> QED
      BY <2>2, <2>4, <2>5, <2>6, <3>1, <3>2 DEF Loosens
  <2> QED
    BY <2>6, <2>7, <2>8 DEF r
<1> QED
  BY <1>1, Invariant, PTL

-----------------------------------------------------------------------------
(* The refinement *)

\* Hits counted by shopper are the hits.
LEMMA HitsByShopper ==
  ASSUME NEW hits \in SUBSET Hit, IsFiniteSet(hits)
  PROVE  /\ \A s \in Shopper : Cardinality(By(s, hits)) \in Nat
         /\ SumFunctionOnSet([s \in Shopper |-> Cardinality(By(s, hits))], Shopper)
              = Cardinality(hits)
<1> DEFINE count == [s \in Shopper |-> Cardinality(By(s, hits))]
           Of(Y) == {h \in hits : h.by \in Y}
           P == {Y \in SUBSET Shopper : SumFunctionOnSet(count, Y) = Cardinality(Of(Y))}
<1>1. \A s \in Shopper : IsFiniteSet(By(s, hits)) /\ Cardinality(By(s, hits)) \in Nat
  BY FS_Subset, FS_CardinalityType DEF By
<1>2. \A s \in Shopper : count[s] = Cardinality(By(s, hits)) /\ count[s] \in Nat
  BY <1>1
<1>3. \A Y \in SUBSET Shopper : IsFiniteSet(Of(Y)) /\ Cardinality(Of(Y)) \in Nat /\ IsFiniteSet(Y)
  BY FS_Subset, FS_CardinalityType, ShoppersAssumption
<1> HIDE DEF count
<1>4. ASSUME NEW Y \in SUBSET Shopper, \A s \in Y : Y \ {s} \in P
      PROVE  Y \in P
  <2>1. CASE Y = {}
    <3>1. Of(Y) = {} /\ SumFunctionOnSet(count, Y) = 0
      BY <1>3, <2>1, SumStep
    <3> QED
      BY <3>1, FS_EmptySet
  <2>2. CASE Y # {}
    <3>1. PICK s \in Y : SumFunctionOnSet(count, Y) = count[s] + SumFunctionOnSet(count, Y \ {s})
      BY <1>2, <1>3, <2>2, SumStep
    <3>2. SumFunctionOnSet(count, Y \ {s}) = Cardinality(Of(Y \ {s}))
      BY <1>4
    <3>3. Of(Y) = By(s, hits) \cup Of(Y \ {s}) /\ By(s, hits) \cap Of(Y \ {s}) = {}
      BY DEF By
    <3>4. Cardinality(Of(Y)) = Cardinality(By(s, hits)) + Cardinality(Of(Y \ {s})) - 0
      <4> HIDE DEF Of
      <4> QED
        BY <1>1, <1>3, <3>3, FS_Union, FS_EmptySet
    <3>5. Cardinality(Of(Y \ {s})) \in Nat
      BY <1>3
    <3> HIDE DEF Of
    <3> QED
      BY <1>2, <3>1, <3>2, <3>4, <3>5
  <2> QED
    BY <2>1, <2>2
<1>5. SUBSET Shopper \subseteq P
  <2> HIDE DEF P
  <2> QED
    BY <1>4, ShoppersAssumption, FiniteInduction
<1>6. Of(Shopper) = hits
  BY DEF Hit
<1>7. Shopper \in P
  BY <1>5
<1> QED
  BY <1>1, <1>6, <1>7 DEF count

\* The slots the abstract limiter sees taken.
Taken == [t \in Tenant |-> [s \in Shopper |-> Cardinality(Prune(shopperHits[t][s]))]]

LEMMA SlotsAreHits ==
  ASSUME Types, Buckets, NEW t \in Tenant
  PROVE  /\ \A s \in Shopper : Taken[t][s] = Cardinality(By(s, Recent(admitted[t], now)))
                              /\ Taken[t][s] \in Nat
         /\ Abstract!TenantSlots(t) = Cardinality(Prune(tenantHits[t]))
<1> DEFINE hits == Recent(admitted[t], now)
<1>1. hits \in SUBSET Hit /\ IsFiniteSet(hits)
  BY FS_Subset DEF Types, Recent
<1>2. /\ Prune(tenantHits[t]) = hits
      /\ \A s \in Shopper : Prune(shopperHits[t][s]) = By(s, hits)
  BY PrunedBuckets
<1> HIDE DEF hits
<1>3. Taken[t] = [s \in Shopper |-> Cardinality(By(s, hits))]
  BY <1>2 DEF Taken
<1>4. Abstract!TenantSlots(t) = SumFunctionOnSet(Taken[t], DOMAIN Taken[t])
  BY DEF Abstract!TenantSlots, Abstract!SumFunction, Abstract!SumFunctionOnSet,
         Abstract!FoldFunctionOnSet, Abstract!MapThenFoldSet,
         SumFunctionOnSet, FoldFunctionOnSet, MapThenFoldSet, Taken
<1>5. /\ \A s \in Shopper : Cardinality(By(s, hits)) \in Nat
      /\ SumFunctionOnSet(Taken[t], Shopper) = Cardinality(hits)
  BY <1>1, <1>3, HitsByShopper
<1> QED
  BY <1>2, <1>3, <1>4, <1>5 DEF hits

\* Slots are counted per shopper and per tenant.
SlotInv ==
  /\ Taken \in [Tenant -> [Shopper -> Nat]]
  /\ \A t \in Tenant :
       /\ \A s \in Shopper : Taken[t][s] = Cardinality(By(s, Recent(admitted[t], now)))
       /\ Abstract!TenantSlots(t) = Cardinality(Recent(admitted[t], now))

LEMMA SlotInvHolds == IInv => SlotInv
<1> SUFFICES ASSUME IInv PROVE SlotInv
  OBVIOUS
<1>1. \A t \in Tenant : DOMAIN Taken[t] = Shopper /\ Taken[t] = [s \in Shopper |-> Taken[t][s]]
  BY DEF Taken
<1>2. \A t \in Tenant :
        /\ \A s \in Shopper : /\ Taken[t][s] = Cardinality(By(s, Recent(admitted[t], now)))
                             /\ Taken[t][s] \in Nat
        /\ Abstract!TenantSlots(t) = Cardinality(Prune(tenantHits[t]))
  BY SlotsAreHits DEF IInv
<1>3. \A t \in Tenant : Prune(tenantHits[t]) = Recent(admitted[t], now)
  BY PrunedBuckets DEF IInv
<1>4. \A t \in Tenant : Taken[t] \in [Shopper -> Nat]
  BY <1>1, <1>2
<1>5. Taken = [t \in Tenant |-> Taken[t]]
  BY DEF Taken
<1> QED
  BY <1>2, <1>3, <1>4, <1>5 DEF SlotInv

LEMMA SlotsStep ==
  ASSUME IInv, SlotInv, SlotInv', [Next]_vars
  PROVE  [Abstract!Next]_Taken
<1>0. \A t \in Tenant, s \in Shopper :
        Taken'[t][s] = Cardinality(By(s, Recent(admitted'[t], now')))
  BY DEF SlotInv
<1>1. CASE UNCHANGED vars
  BY <1>1 DEF vars, Taken, Prune
<1>2. CASE Tick
  <2>1. now' = now + 1 /\ admitted' = admitted /\ now \in Nat
    BY <1>2 DEF Tick, IInv, Types
  <2>2. \A t \in Tenant, s \in Shopper : Taken'[t][s] <= Taken[t][s]
    <3> SUFFICES ASSUME NEW t \in Tenant, NEW s \in Shopper PROVE Taken'[t][s] <= Taken[t][s]
      OBVIOUS
    <3>1. By(s, Recent(admitted[t], now)) \subseteq admitted[t]
      BY DEF By, Recent
    <3>2. By(s, Recent(admitted[t], now')) \subseteq By(s, Recent(admitted[t], now))
      BY <2>1, Constants DEF By, Recent, IInv, Types, Hit
    <3>3. Cardinality(By(s, Recent(admitted[t], now'))) <= Cardinality(By(s, Recent(admitted[t], now)))
      BY <3>1, <3>2, FewerHits DEF IInv, Types
    <3>4. Taken'[t][s] = Cardinality(By(s, Recent(admitted[t], now')))
      BY <1>0, <2>1
    <3> QED
      BY <3>3, <3>4 DEF SlotInv
  <2>3. Abstract!Slide
    BY <2>2 DEF Abstract!Slide, SlotInv, Taken
  <2> QED
    BY <2>3 DEF Abstract!Next
<1>3. ASSUME NEW t \in Tenant, NEW s \in Shopper, DenyAll(t, s) PROVE UNCHANGED Taken
  BY <1>3 DEF DenyAll, Refuse, Taken, Prune
<1>4. ASSUME NEW t \in Tenant, NEW s \in Shopper, DenyFull(t, s) PROVE UNCHANGED Taken
  <2>1. now' = now /\ admitted' = admitted
    BY <1>4 DEF DenyFull, Refuse
  <2>2. \A x \in Tenant, y \in Shopper : Taken'[x][y] = Taken[x][y]
    BY <1>0, <2>1 DEF SlotInv
  <2> QED
    BY <2>2 DEF SlotInv
<1>5. ASSUME NEW t \in Tenant, NEW s \in Shopper, Allow(t, s) PROVE Abstract!Admit(t, s)
  <2> DEFINE T == Recent(admitted[t], now)
             S == By(s, T)
  <2>1. /\ now' = now /\ admitted' = [admitted EXCEPT ![t] = @ \cup {NewHit(t, s)}]
        /\ ~ShopperFull(t, s) /\ ~TenantFull(t)
    BY <1>5 DEF Allow
  <2>2. Prune(tenantHits[t]) = T /\ Prune(shopperHits[t][s]) = S
    BY PrunedBuckets DEF IInv
  <2>3. ~Abstract!Full(t, s)
    BY <2>1, <2>2 DEF Abstract!Full, Abstract!ShopperFull, Abstract!TenantFull,
                      ShopperFull, TenantFull, SlotInv, Taken
  <2>4. /\ NewHit(t, s).by = s /\ NewHit(t, s).at = now /\ NewHit(t, s) \notin admitted[t]
        /\ now \in Nat /\ now > now - Window
    BY NewHitFacts, Constants DEF IInv, Types
  <2>5. \A x \in Tenant, y \in Shopper : x # t \/ y # s => Taken'[x][y] = Taken[x][y]
    <3> SUFFICES ASSUME NEW x \in Tenant, NEW y \in Shopper, x # t \/ y # s
                 PROVE  Taken'[x][y] = Taken[x][y]
      OBVIOUS
    <3>1. admitted'[x] = IF x = t THEN admitted[t] \cup {NewHit(t, s)} ELSE admitted[x]
      BY <2>1 DEF IInv, Types
    <3>2. By(y, Recent(admitted'[x], now)) = By(y, Recent(admitted[x], now))
      BY <2>4, <3>1 DEF By, Recent
    <3>3. Taken'[x][y] = Cardinality(By(y, Recent(admitted'[x], now)))
      BY <1>0, <2>1
    <3> QED
      BY <3>2, <3>3 DEF SlotInv
  <2>6. Taken'[t][s] = Taken[t][s] + 1
    <3>1. admitted'[t] = admitted[t] \cup {NewHit(t, s)}
      BY <2>1 DEF IInv, Types
    <3>2. By(s, Recent(admitted'[t], now)) = S \cup {NewHit(t, s)} /\ NewHit(t, s) \notin S
      BY <2>4, <3>1 DEF By, Recent
    <3>3. IsFiniteSet(S)
      BY HitsAreFinite DEF IInv
    <3>4. Cardinality(S \cup {NewHit(t, s)}) = Cardinality(S) + 1
      BY <3>2, <3>3, FS_AddElement
    <3>5. Taken'[t][s] = Cardinality(By(s, Recent(admitted'[t], now)))
      BY <1>0, <2>1
    <3> QED
      BY <3>2, <3>4, <3>5 DEF SlotInv
  <2>7. Taken' = [Taken EXCEPT ![t][s] = @ + 1]
    <3>1. Taken \in [Tenant -> [Shopper -> Nat]] /\ Taken' \in [Tenant -> [Shopper -> Nat]]
      BY DEF SlotInv
    <3> HIDE DEF T, S
    <3> QED
      BY <2>5, <2>6, <3>1
  <2> QED
    BY <2>3, <2>7 DEF Abstract!Admit, Taken
<1> QED
  BY <1>1, <1>2, <1>3, <1>4, <1>5 DEF Next, Abstract!Next

\* The limiter implements SlotLimiter, with which the pipeline is composed: the
\* buckets, pruned at different moments and kept twice, are one count of slots per
\* shopper, whose sum the tenant's cap is compared with (rate-limit.ts:70-108).
THEOREM LimiterCountsSlots == Spec => ImplementsSlotLimiter
<1>1. Init => Abstract!Init
  <2>1. Init => \A t \in Tenant, s \in Shopper : Prune(shopperHits[t][s]) = {}
    BY DEF Init, Prune
  <2> QED
    BY <2>1, FS_EmptySet DEF Abstract!Init
<1>2. IInv /\ SlotInv /\ SlotInv' /\ [Next]_vars => [Abstract!Next]_Taken
  BY SlotsStep
<1> QED
  BY <1>1, <1>2, SlotInvHolds, Invariant, PTL DEF Spec, ImplementsSlotLimiter, Abstract!Spec, Taken
=============================================================================
