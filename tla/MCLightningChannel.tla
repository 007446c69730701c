------------------------- MODULE MCLightningChannel -------------------------
(* Two parties with equal funds, one payment hash and one amount.         *)
EXTENDS LightningChannel

CONSTANTS A, B

MCInitialBalance == (A :> 2) @@ (B :> 2)
=============================================================================
