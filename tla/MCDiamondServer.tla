-------------------------- MODULE MCDiamondServer --------------------------
(***************************************************************************)
(* Small instances of DiamondServer for TLC.                               *)
(***************************************************************************)
EXTENDS DiamondServer

CONSTANTS cpu, disk, odd

FourProcesses == 1 .. 4
=============================================================================
