----------------------------- MODULE MCGpmfNav ------------------------------
(***************************************************************************)
(* The payloads the runs of the navigation calls are given.                *)
(***************************************************************************)
EXTENDS GpmfNavClaims, MCPayloads

(* The small one is for two cursors.                                        *)
SoundPayloads ==
  [one |-> OneDevice, two |-> TwoDevices, growing |-> GrowingDevices,
   small |-> Payload(<<Nest("DEVC", <<Dvid(1), Nest("STRM", <<Accl>>)>>)>>)]

(* Two cursors on the small payload, one on the others.                     *)
LoneCursor ==
  buffer # "small" => \A c \in Cursors \ {Idle.on} : life[c] = "raw" /\ call.on # c

(* The damaged ones, and one that is whole but too deep.                    *)
DamagedPayloads == (<<0, "deep">> :> DeepDevice) @@ Damaged
=============================================================================
