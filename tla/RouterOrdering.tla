--------------------------- MODULE RouterOrdering ---------------------------
(***************************************************************************)
(* Which providers the router tries, and in which order: orderCandidates   *)
(* of packages/engine/src/router_ordering.ts over the registry that        *)
(* apps/api/app/_lib/provider-registry.ts builds from the environment.     *)
(* The allow-list comes from tenant configuration, in any order and with   *)
(* any repetitions.  Provider ids are compared as strings: IdRank stands   *)
(* for their lexical order.                                                *)
(***************************************************************************)
EXTENDS Naturals, Sequences, FiniteSets, SequencesExt

CONSTANTS
  Provider,              \* ProviderIdSchema, wired or not
  Deterministic,         \* the provider that is always registered
  Networked,             \* the providers the environment may wire
  CostPerCall, Priority, \* [Provider -> Nat] routing metadata
  IdRank,                \* [Provider -> Nat] lexical order of the ids
  MaxListed              \* bound on the length of an allow-list

ASSUME RegistryAssumption ==
  Deterministic \in Provider /\ Networked \subseteq Provider \ {Deterministic}
ASSUME RoutingAssumption ==
  /\ CostPerCall \in [Provider -> Nat]
  /\ Priority \in [Provider -> Nat]
  /\ IdRank \in [Provider -> Nat]
ASSUME BoundAssumption == MaxListed \in Nat
ASSUME IdsDiffer == \A p, q \in Provider : IdRank[p] = IdRank[q] => p = q

-----------------------------------------------------------------------------
\* buildProviderRegistry: implementation and metadata are always set together.
Registered(w) == {Deterministic} \cup w

\* compareCandidates: cost, then priority, then id.
Before(p, q) ==
  \/ CostPerCall[p] < CostPerCall[q]
  \/ /\ CostPerCall[p] = CostPerCall[q]
     /\ \/ Priority[p] < Priority[q]
        \/ Priority[p] = Priority[q] /\ IdRank[p] < IdRank[q]

\* One entry of the allow-list: dropped when seen before or not registered.
Consider(w, candidates, p) ==
  IF p \in Registered(w) /\ ~Contains(candidates, p)
  THEN Append(candidates, p) ELSE candidates

\* The loop over the allow-list.
Eligible(list, w) == FoldLeft(LAMBDA acc, p : Consider(w, acc, p), << >>, list)

\* candidates.sort(compareCandidates): each takes the place after all before it.
Sorted(c) ==
  LET members == ToSet(c)
      place == [p \in members |-> 1 + Cardinality({q \in members : Before(q, p)})]
  IN  [i \in DOMAIN c |-> CHOOSE p \in members : place[p] = i]

\* Mutant: the candidates keep the order of the allow-list.
OrderAsListed(list, w) == Eligible(list, w)

OrderCandidates(list, w) == Sorted(Eligible(list, w))

\* The allow-lists a tenant may be configured with.
AllowLists == UNION {[1..n -> Provider] : n \in 0..MaxListed}
=============================================================================
