---------------------------- MODULE MetricSlices ----------------------------
(***************************************************************************)
(* The slices of listenForMetrics.  BaseHandler takes a buffer for a set   *)
(* of metrics; in the code it is a slice, an array somewhere in memory and *)
(* a length, and the goroutine of an emission is given the slice and not   *)
(* the metrics.  It reads the array while the listener goes on appending,  *)
(* so it sends what it was given only if nobody writes where it reads.     *)
(*                                                                         *)
(* Actors: the listeners of one handler, which step here when they append  *)
(* or flush (the zero metric, an empty buffer's sentinel and the channels  *)
(* touch no slice), and the goroutines of the emissions, which read one    *)
(* place at a time: a plain handler in order, the parts of a batched one   *)
(* concurrently, so any order is allowed.                                  *)
(***************************************************************************)
EXTENDS Integers, Sequences

CONSTANTS
    ListenerCount,
    BufferSize,     \* CollectorEnd.BufferSize of each listener
    MaxMetrics,     \* bound: metrics taken in a run
    MaxRoom         \* bound: places append makes room for when it moves a slice

Listeners == 1 .. ListenerCount

ASSUME SlicesAssumption ==
    /\ ListenerCount \in Nat
    /\ BufferSize \in [Listeners -> Nat]
    /\ MaxMetrics \in Nat
    /\ MaxRoom \in Nat \ {0}

\* Metrics are numbered as they are taken; 0 is the zero value of a place that
\* nobody has written.
Unwritten == 0
Places == 0 .. MaxMetrics

VARIABLES
    memory,     \* the arrays made so far
    slice,      \* slice[e]: array and length of the slice of listener e
    emissions,  \* for each emission its array, what it was handed (history,
                \* as long as the slice it was given) and what it has read
    taken       \* the number of metrics taken

vars == <<memory, slice, emissions, taken>>

Array(n) == [i \in 1 .. n |-> Unwritten]
Emissions == 1 .. Len(emissions)

\* Every slice has its array, is never longer than it and holds metrics only,
\* and so does what an emission is handed.
SlicesTypeOK ==
    /\ memory \in Seq(Seq(Places))
    /\ slice \in [Listeners -> [array : 1 .. Len(memory), length : Nat]]
    /\ \A e \in Listeners :
          /\ slice[e].length <= Len(memory[slice[e].array])
          /\ \A i \in 1 .. slice[e].length :
                memory[slice[e].array][i] # Unwritten
    /\ emissions \in Seq([array : 1 .. Len(memory), handed : Seq(1 .. MaxMetrics),
                          read : Seq(Places)])
    /\ \A g \in Emissions :
          /\ Len(emissions[g].read) = Len(emissions[g].handed)
          /\ Len(emissions[g].handed) <= Len(memory[emissions[g].array])
    /\ taken \in 0 .. MaxMetrics

\* Each listener starts with make([]metric.Metric, 0, collectorEnd.BufferSize).
Init ==
    /\ memory = [e \in Listeners |-> Array(BufferSize[e])]
    /\ slice = [e \in Listeners |-> [array |-> e, length |-> 0]]
    /\ emissions = <<>>
    /\ taken = 0

HasRoom(s) == s.length < Len(memory[s.array])

\* append: the memory and the slice afterwards.  Without room the contents move
\* to a new array, which the runtime makes larger than needed at its own choice.
AppendInPlace(s, x) ==
    [memory |-> [memory EXCEPT ![s.array][s.length + 1] = x],
     slice  |-> [s EXCEPT !.length = @ + 1]]

AppendMoving(s, x, room) ==
    [memory |-> Append(memory,
                       Append(SubSeq(memory[s.array], 1, s.length), x)
                           \o Array(room - 1)),
     slice  |-> [array |-> Len(memory) + 1, length |-> s.length + 1]]

Appended(s, x) ==
    IF HasRoom(s) THEN {AppendInPlace(s, x)}
                  ELSE {AppendMoving(s, x, room) : room \in 1 .. MaxRoom}

\* The goroutine gets array and length as they are when it is started.
Handed(after) ==
    [array  |-> after.slice.array,
     handed |-> SubSeq(after.memory[after.slice.array], 1, after.slice.length),
     read   |-> Array(after.slice.length)]

\* Mutant of Flush: the slice is cut to length 0 in place of a new one.
FlushReusing(e, after) ==
    /\ emissions' = Append(emissions, Handed(after))
    /\ memory' = after.memory
    /\ slice' = [slice EXCEPT ![e] = [after.slice EXCEPT !.length = 0]]

\* Mutant of Flush: make is given the limit as the length.
FlushMakingLength(e, after) ==
    /\ emissions' = Append(emissions, Handed(after))
    /\ memory' = Append(after.memory, Array(BufferSize[e]))
    /\ slice' = [slice EXCEPT ![e] = [array |-> Len(after.memory) + 1,
                                      length |-> BufferSize[e]]]

\* flushFunction.
Flush(e, after) ==
    /\ emissions' = Append(emissions, Handed(after))
    /\ memory' = Append(after.memory, Array(BufferSize[e]))
    /\ slice' = [slice EXCEPT ![e] = [array |-> Len(after.memory) + 1,
                                      length |-> 0]]

Take(e) ==
    /\ taken < MaxMetrics
    /\ taken' = taken + 1
    /\ \E after \in Appended(slice[e], taken + 1) :
          \/ after.slice.length >= BufferSize[e] /\ Flush(e, after)
          \/ /\ after.slice.length < BufferSize[e]
             /\ memory' = after.memory
             /\ slice' = [slice EXCEPT ![e] = after.slice]
             /\ UNCHANGED emissions

\* A sentinel, or the ticker.
FlushOld(e) ==
    /\ slice[e].length > 0
    /\ Flush(e, [memory |-> memory, slice |-> slice[e]])
    /\ UNCHANGED taken

\* The emit function of emission g looks at its i-th metric, perhaps again.
Read(g, i) ==
    /\ emissions' = [emissions EXCEPT
                        ![g].read[i] = memory[emissions[g].array][i]]
    /\ UNCHANGED <<memory, slice, taken>>

Next ==
    \/ \E e \in Listeners : Take(e) \/ FlushOld(e)
    \/ \E g \in Emissions : \E i \in 1 .. Len(emissions[g].read) : Read(g, i)

Spec == Init /\ [][Next]_vars

(***************************************************************************)
(* Properties.                                                             *)
(***************************************************************************)
\* An emission reads the metrics that its listener handed to it, however many
\* metrics have been appended and flushed since it was started: "will get copied
\* into this call, meaning it's ok to clear it" (handler.go, flushFunction) is
\* true of the slice only, so all rests on the array being left to the emission.
ReadAsHanded ==
    \A g \in Emissions : \A i \in 1 .. Len(emissions[g].read) :
        emissions[g].read[i] \in {Unwritten, emissions[g].handed[i]}
=============================================================================
