--------------------------- MODULE MCEngineRouter ---------------------------
(***************************************************************************)
(* The provider ids and the routing metadata of the repository: costs in   *)
(* cents and priorities of provider-registry.ts.                           *)
(***************************************************************************)
EXTENDS EngineRouter, TLC

CONSTANTS deterministic, fal, selfHosted

Costs == [p \in Provider |-> CASE p = fal -> 4 [] p = selfHosted -> 1 [] OTHER -> 0]
Priorities == [p \in Provider |-> CASE p = fal -> 10 [] p = selfHosted -> 20 [] OTHER -> 100]
Ranks == [p \in Provider |-> CASE p = deterministic -> 1 [] p = fal -> 2 [] OTHER -> 3]

MCAdapterOf == [p \in Networked |-> IF p = fal THEN "fal" ELSE "self-hosted"]

\* Metadata with the fallback behind the providers it backs up, as in the engine's
\* own tests (router_logging.mutation.test.ts:83); two equal costs leave priority
\* and id to decide.
FallbackDearest == [p \in Provider |-> IF p = deterministic THEN 5 ELSE 4]
=============================================================================
