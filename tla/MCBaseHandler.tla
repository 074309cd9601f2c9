--------------------------- MODULE MCBaseHandler ---------------------------
(***************************************************************************)
(* Small instances of BaseHandler for TLC.                                 *)
(***************************************************************************)
EXTENDS BaseHandler, TLC

CONSTANTS m1, m2, m3, cpu, disk, own

TwoEmissions == 1 .. 2
ThreeEmissions == 1 .. 3

\* disk batches two metrics; the handler's own limit of 0 sends each at once.
MCBufferSize ==
    [e \in Endpoints |-> IF e = own THEN 0 ELSE 2]

\* Every metric an emission of its own.
SingleBufferSize == [e \in Endpoints |-> 1]

MetricSymmetry == Permutations(Metrics)
=============================================================================
