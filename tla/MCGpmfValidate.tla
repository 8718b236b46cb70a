--------------------------- MODULE MCGpmfValidate ---------------------------
(***************************************************************************)
(* The payloads the runs of GPMF_Validate are given.                       *)
(***************************************************************************)
EXTENDS GpmfValidate, MCPayloads

(* Padding between and behind the entries, and an unknown type.             *)
PaddedDevices ==
  Payload(<<Nest("DEVC", <<Padding, Nest("STRM", <<Padding>>), Padding, Dvid(1)>>),
            Nest("DEVC", <<Nest("STRM", <<Nest("FACE", <<Tsmp, Padding>>), Padding>>), Blob>>)>>)

(* Damage to the keys and the type words of the entries, or to a value.     *)
Keys == PaddedDevices.items \X {"zero", "key", "devc"}

Types == {i + 1 : i \in PaddedDevices.items} \X (Hits \ {"key", "devc"})

Value == {<<PaddedDevices.longs - 1, "zero">>}

PaddedOrDamaged == DamagedIn(PaddedDevices, Keys \union Types \union Value)
(* TLC evaluates PaddedOrDamaged once, and this at every use.               *)
PaddedPayloads == PaddedOrDamaged
=============================================================================
