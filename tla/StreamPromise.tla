--------------------------- MODULE StreamPromise ---------------------------
(***************************************************************************)
(* What the way of a collector's metrics to the Go process promises,       *)
(* without payloads, lines, attempts and signals.  Metrics are numbered as *)
(* they are made.  One is held by the python process, then underway on     *)
(* one connection, then arrived; at any time it may be lost instead, and   *)
(* is then gone for good: nothing is sent that is not held, nothing        *)
(* arrives that is not underway.  A connection hands over the oldest that  *)
(* is underway and loses the newest when it breaks, and all that is sent   *)
(* is older than what stays held.                                          *)
(***************************************************************************)
EXTENDS Integers

CONSTANT Connections

VARIABLES
    made,       \* the number of the newest metric
    held,       \* by the process
    underway,   \* underway[k]: sent over k and neither arrived nor lost
    arrived     \* arrived[k]: handed over by k

promiseVars == <<made, held, underway, arrived>>

Older(some, others) == \A m \in some, n \in others : m < n

PromiseInit ==
    /\ made = 0 /\ held = {}
    /\ underway = [k \in Connections |-> {}]
    /\ arrived = [k \in Connections |-> {}]

\* The process makes a metric, gives up some that it holds, and sends others.
PromiseServe ==
    /\ made' \in {made, made + 1}
    /\ held' \subseteq held \cup (made + 1 .. made')
    /\ \/ UNCHANGED underway
       \/ \E k \in Connections, line \in SUBSET held :
             /\ Older(line, held')
             /\ underway' = [underway EXCEPT ![k] = @ \cup line]
    /\ UNCHANGED arrived

PromiseHandOver(k) ==
    /\ \E line \in SUBSET underway[k] :
          /\ Older(line, underway[k] \ line)
          /\ underway' = [underway EXCEPT ![k] = @ \ line]
          /\ \/ arrived' = [arrived EXCEPT ![k] = @ \cup line]
             \/ UNCHANGED arrived
    /\ UNCHANGED <<made, held>>

PromiseBreak(k) ==
    /\ \E left \in SUBSET underway[k] :
          /\ Older(left, underway[k] \ left)
          /\ underway' = [underway EXCEPT ![k] = left]
    /\ UNCHANGED <<made, held, arrived>>

PromiseNext ==
    \/ PromiseServe
    \/ \E k \in Connections : PromiseHandOver(k) \/ PromiseBreak(k)

PromiseSpec == PromiseInit /\ [][PromiseNext]_promiseVars
=============================================================================
