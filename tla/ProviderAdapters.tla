-------------------------- MODULE ProviderAdapters --------------------------
(***************************************************************************)
(* What each adapter of packages/engine/src/providers makes of what its    *)
(* service sends, which is untrusted: a result that meets the contract, or *)
(* an exception.  A reply carries at most an image of its own and a list   *)
(* of images.                                                              *)
(***************************************************************************)

Adapters == {"fal", "replicate", "google-vto", "self-hosted"}

\* A url the contract takes (https or an inline image), one it does not, the
\* empty string, and anything that is no string.
Urls == {"safe", "unsafe", "empty", "absent"}

\* A call raises an exception of its client, or is refused or fails, or succeeds.
Replies == [status : {"raised", "failed", "succeeded"}, image : Urls, first : Urls]

Usable(url) == url \in {"safe", "unsafe"}

\* validateProviderResult, after the adapter found a url at all.
Validated(url) ==
  IF ~Usable(url) THEN "error" ELSE IF url = "safe" THEN "value" ELSE "invalid"

FalAnswer(reply) == Validated(IF Usable(reply.image) THEN reply.image ELSE reply.first)

\* A prediction's output is one image, or else a list of them.
ReplicateAnswer(reply) ==
  IF reply.status # "succeeded" THEN "error"
  ELSE Validated(IF reply.image # "absent" THEN reply.image ELSE reply.first)

GoogleVtoAnswer(reply) == Validated(reply.first)

SelfHostedAnswer(reply) == IF reply.status # "succeeded" THEN "error" ELSE Validated(reply.image)

Answer(adapter, reply) ==
  IF reply.status = "raised" THEN "error"
  ELSE IF adapter = "fal" THEN FalAnswer(reply)
  ELSE IF adapter = "replicate" THEN ReplicateAnswer(reply)
  ELSE IF adapter = "google-vto" THEN GoogleVtoAnswer(reply)
  ELSE SelfHostedAnswer(reply)
=============================================================================
