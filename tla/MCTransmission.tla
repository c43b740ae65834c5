--------------------------- MODULE MCTransmission ---------------------------
(***************************************************************************)
(* Instances of Transmission for TLC.                                      *)
(***************************************************************************)
EXTENDS Transmission, TLC

CONSTANTS A, B

\* A stage of one oracle, then another one.
OneThenOne == <<1, 1>>

\* Both orders of the two oracles.
TwoOrders == {A :> 0 @@ B :> 1, A :> 1 @@ B :> 0}
=============================================================================
