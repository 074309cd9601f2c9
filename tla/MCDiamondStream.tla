-------------------------- MODULE MCDiamondStream --------------------------
(***************************************************************************)
(* Small instances of DiamondStream for TLC: two attempts instead of       *)
(* three, and a buffer that is full with three metrics instead of 300.     *)
(***************************************************************************)
EXTENDS DiamondStream

TwoConnections == 1 .. 2
ThreeConnections == 1 .. 3
=============================================================================
