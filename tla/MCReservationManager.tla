------------------------- MODULE MCReservationManager -------------------------
(* Three outputs, two of the active colour; reservations that fund 0, 1  *)
(* or 2, so that two reservations can race for the same outputs and one  *)
(* can find too little of the colour.                                     *)
EXTENDS ReservationManager

CONSTANTS c1, c2, c3, X, Y

MCCoinValue == (c1 :> 1) @@ (c2 :> 1) @@ (c3 :> 2)
MCCoinAsset == (c1 :> X) @@ (c2 :> X) @@ (c3 :> Y)
=============================================================================
