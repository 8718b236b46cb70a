--------------------------- MODULE GpmfNavClaims ----------------------------
(***************************************************************************)
(* What the header says of the navigation calls that the code does not do: *)
(* its run shows the calls that contradict it.                             *)
(***************************************************************************)
EXTENDS GpmfNav

(* GPMF_common.h:33, GPMF_ERROR_BAD_STRUCTURE: `Non-complaint GPMF          *)
(* structure detected'.  So a compliant payload never earns it.             *)
SoundNeverBad == Sound(payload) => answer.code # BAD
=============================================================================
