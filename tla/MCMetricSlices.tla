--------------------------- MODULE MCMetricSlices ---------------------------
(***************************************************************************)
(* A small instance of MetricSlices for TLC.                               *)
(***************************************************************************)
EXTENDS MetricSlices

\* The first listener has no limit, so its append always moves; the second
\* flushes two metrics at a time, or one when they are old.
MCBufferSize == <<0, 2>>
=============================================================================
