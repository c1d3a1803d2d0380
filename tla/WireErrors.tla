----------------------------- MODULE WireErrors -----------------------------
(***************************************************************************)
(* The error contract of packages/contracts/src/errors.ts: a closed set of *)
(* codes, each with its HTTP status.                                       *)
(***************************************************************************)
EXTENDS Naturals

HttpStatus ==
  [INVALID_INPUT |-> 400, PAYLOAD_TOO_LARGE |-> 413, UNAUTHORIZED |-> 401, RATE_LIMITED |-> 429,
   BUDGET_EXCEEDED |-> 402, KILL_SWITCH_ENGAGED |-> 503, PROVIDER_ERROR |-> 502]

ErrorCode == DOMAIN HttpStatus

\* A reply of the API: a status and what its body holds.
ErrorReply(code) == [http |-> HttpStatus[code], body |-> code]

Success(reply) == reply.http >= 200 /\ reply.http < 300

\* A body that is not of the error contract is read as a provider failure.
CodeOf(reply) == IF reply.body \in ErrorCode THEN reply.body ELSE "PROVIDER_ERROR"
=============================================================================
