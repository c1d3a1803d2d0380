-------------------------- MODULE MCTryOnPipeline --------------------------
(***************************************************************************)
(* Constants for the model-checking runs of TryOnPipeline.  The amounts    *)
(* are the repository's, in cents: deterministic is free, self-hosted      *)
(* costs 1, fal costs 4, and the estimate of the next call is 5.           *)
(***************************************************************************)
EXTENDS TryOnPipeline, TLC

CONSTANTS r1, r2, r3, t1, t2, s1, k1, c1, c2, fal, selfHosted, deterministic

CostOf == [p \in {fal, selfHosted, deterministic} |->
             CASE p = fal -> 4 [] p = selfHosted -> 1 [] OTHER -> 0]

\* Lists as orderCandidates gives them at these costs: the deterministic provider
\* cannot stand behind a paid one.
OnlyPaid == [t \in Tenant |-> IF t = t1 THEN <<fal>> ELSE << >>]
MixedLists == [t \in Tenant |-> IF t = t1 THEN <<selfHosted, fal>> ELSE <<deterministic>>]

BudgetOf5 == [t \in Tenant |-> 5]
BudgetOf9 == [t \in Tenant |-> 9]
BudgetOf100 == [t \in Tenant |-> 100]
CapOf1 == [t \in Tenant |-> 1]
CapOf2 == [t \in Tenant |-> 2]
CapOf9 == [t \in Tenant |-> 9]

Sent(credentials, keys, contents, images) ==
  [ credential : credentials, tenant : Tenant, shopper : Shopper, key : keys,
    content : contents, imagesOk : images ]

\* Well-formed requests only, with and without a key, over every content.
GoodRequests == Sent({"valid"}, IdemKey \cup {NoKey}, Content, {TRUE})
\* Everything a client may send.
AnyRequests == Sent({"absent", "invalid", "valid"}, IdemKey \cup {NoKey}, Content, BOOLEAN)
KeyedRequests == Sent({"valid"}, IdemKey, Content, {TRUE})
KeylessRequests == Sent({"valid"}, {NoKey}, Content, {TRUE})

NoScopes == {}
EnvAndT1 == {"env", t1}

RequestSymmetry == Permutations(Request)
=============================================================================
