--------------------------- MODULE MCChangeStaging ---------------------------
(* Instances of ChangeStaging for TLC: "f" exists before the transaction,   *)
(* "g" does not; the mapping has one placement.                             *)
EXTENDS ChangeStaging, TLC

OneBefore == ("f" :> {1}) @@ ("g" :> {})
OnePlaced == "m" :> {1}
=============================================================================
