--------------------------- MODULE MCTryOnWidget ----------------------------
(***************************************************************************)
(* Two runs, so that one session's run meets the next session; two polls,  *)
(* so that one can be in vain; two sizes, so that the bag has two lines.   *)
(***************************************************************************)
EXTENDS TryOnWidget

CONSTANTS selfie, shirt, small, medium

MCPhotos == {selfie}
MCProducts == {shirt}
MCSizes == <<small, medium>>
MCApiErrors == {"RATE_LIMITED", "BUDGET_EXCEEDED"}
=============================================================================
