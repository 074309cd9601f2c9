-------------------------- MODULE MCBatchedHandler --------------------------
(***************************************************************************)
(* A small instance of BatchedHandler for TLC: two buffers, two values of  *)
(* the dimension, only one of them with a token.                           *)
(***************************************************************************)
EXTENDS BatchedHandler

CONSTANTS m1, m2, m3, teamA, teamB, f1, f2

ThreeEmissions == 1 .. 3

MCDimensionOf == [m \in Metrics |-> IF m = m3 THEN teamB ELSE teamA]
=============================================================================
