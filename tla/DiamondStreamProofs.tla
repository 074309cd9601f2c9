------------------------ MODULE DiamondStreamProofs ------------------------
(***************************************************************************)
(* What TLAPS proves of DiamondStream for every number of attempts and of  *)
(* connections, every size of the buffer and every bound.                  *)
(***************************************************************************)
EXTENDS DiamondStream, FiniteSetTheorems, SequenceTheorems, TLAPS

-----------------------------------------------------------------------------
(***************************************************************************)
(* The process: its types, and what a step does to the flush in progress   *)
(* and to the payload.                                                     *)
(***************************************************************************)
\* A flush starts with an empty payload and each failed attempt adds one error
\* to it; outside flush there is no line, and only publish_metric has a full payload.
ProcessOK ==
    /\ pc \in {"sleeping", "collecting", "flushing", "returned", "ended"}
    /\ after \in Callers
    /\ exc \in {"none", "alarm", "error", "hup", "exit"}
    /\ payload \in Line /\ Len(payload) <= MaxBuffer
    /\ Len(payload) = MaxBuffer => pc = "collecting"
    /\ made \in Nat
    /\ flush \in [line : Line, attempt : 0 .. RetryCount, begun : BOOLEAN]
    /\ pc # "flushing" => flush = NoFlush
    /\ pc = "flushing" => Len(payload) <= flush.attempt

\* The line of the flush in progress is given up, and the next one, if there is
\* one, takes the whole payload.
LeavesFlush ==
    /\ ~flush'.begun
    /\ \/ flush'.line = <<>> /\ payload' \in {payload, <<>>} /\ made' = made
       \/ flush'.line = <<>> /\ payload' = Grown /\ made' = made + 1
       \/ flush'.line = payload /\ payload' = <<>> /\ made' = made
       \/ flush'.line = Grown /\ payload' = <<>> /\ made' = made + 1

\* The flush goes on with its line, or there is none.
StaysInFlush ==
    /\ flush'.line = flush.line
    /\ \/ payload' = payload /\ made' = made
       \/ payload' = Grown /\ made' = made + 1

LEMMA GrownType ==
    ASSUME ProcessOK
    PROVE  /\ Grown \in Line /\ Len(Grown) = Len(payload) + 1
           /\ made + 1 \in Nat /\ Len(payload) \in Nat
  BY DEF ProcessOK, Grown, Line

LEMMA FlushStarts ==
    ASSUME ProcessOK, NEW caller \in Callers, NEW metrics \in Line,
           exc' \in {"none", "alarm", "error", "hup", "exit"},
           \/ metrics = payload /\ made' = made
           \/ metrics = Grown /\ made' = made + 1,
           Flush(caller, metrics)
    PROVE  ProcessOK' /\ LeavesFlush
<1>1. made' \in Nat
  BY GrownType DEF ProcessOK
<1>2. /\ pc' = "flushing" /\ after' = caller /\ payload' = <<>>
      /\ flush' = [line |-> metrics, attempt |-> 0, begun |-> FALSE]
  BY DEF Flush, NoFlush
<1>3. 0 \in 0 .. RetryCount /\ MaxBuffer \in Nat /\ 0 < MaxBuffer
  BY StreamAssumption
<1>4. <<>> \in Line /\ Len(<<>>) = 0
  BY DEF Line
<1>5. flush' \in [line : Line, attempt : 0 .. RetryCount, begun : BOOLEAN]
  BY <1>2, <1>3
<1>6. flush'.attempt = 0 /\ flush'.line = metrics /\ flush'.begun = FALSE
  BY <1>2
<1>7. ProcessOK'
  BY <1>1, <1>2, <1>3, <1>4, <1>5, <1>6 DEF ProcessOK
<1> QED
  BY <1>2, <1>6, <1>7 DEF LeavesFlush

LEMMA ProcessGoes ==
    ASSUME ProcessOK, ~IsFull(payload),
           NEW place \in {"sleeping", "collecting", "returned", "ended"},
           exc' \in {"none", "alarm", "error", "hup", "exit"},
           \/ payload' \in {payload, <<>>} /\ made' = made
           \/ payload' = Grown /\ made' = made + 1 /\ ~IsFull(Grown),
           GoTo(place)
    PROVE  ProcessOK' /\ LeavesFlush
<1>1. pc' = place /\ flush' = NoFlush /\ after' = after
  BY DEF GoTo
<1>2. payload' \in Line /\ Len(payload') < MaxBuffer /\ made' \in Nat /\ MaxBuffer \in Nat
  <2>1. <<>> \in Line /\ Len(<<>>) = 0 /\ 0 < MaxBuffer /\ MaxBuffer \in Nat
    BY StreamAssumption DEF Line
  <2>2. Len(payload) < MaxBuffer /\ (~IsFull(Grown) => Len(Grown) < MaxBuffer)
    BY GrownType, <2>1 DEF IsFull
  <2> QED
    BY <2>1, <2>2, GrownType DEF ProcessOK
<1>3. /\ NoFlush \in [line : Line, attempt : 0 .. RetryCount, begun : BOOLEAN]
      /\ NoFlush.line = <<>> /\ ~NoFlush.begun
  BY StreamAssumption DEF NoFlush, Line
<1>4. ProcessOK'
  BY <1>1, <1>2, <1>3 DEF ProcessOK
<1> QED
  BY <1>1, <1>3, <1>4 DEF LeavesFlush

LEMMA PublishGoes ==
    ASSUME ProcessOK, ~IsFull(payload), NEW caller \in Callers,
           NEW place \in {"sleeping", "collecting", "returned", "ended"},
           exc' \in {"none", "alarm", "error", "hup", "exit"},
           PublishAndGoTo(caller, place)
    PROVE  ProcessOK' /\ LeavesFlush
<1>1. CASE IsFull(Grown) /\ Flush(caller, Grown)
  BY <1>1, GrownType, FlushStarts DEF PublishAndGoTo
<1>2. CASE ~IsFull(Grown) /\ payload' = Grown /\ GoTo(place)
  BY <1>2, ProcessGoes DEF PublishAndGoTo
<1> QED
  BY <1>1, <1>2 DEF PublishAndGoTo

\* FailRun, Handle, Raise and FlushReturns leave the flush for another place or
\* for the next flush.
LEMMA FailRunGoes ==
    ASSUME ProcessOK, exc' \in {"alarm", "error", "hup", "exit"}, FailRun
    PROVE  ProcessOK' /\ LeavesFlush
<1>1. CASE made' = made + 1
           /\ Flush(IF IsFull(Grown) THEN "failing" ELSE "ending", Grown)
  <2>1. (IF IsFull(Grown) THEN "failing" ELSE "ending") \in Callers
    BY DEF Callers
  <2> QED
    BY <1>1, <2>1, GrownType, FlushStarts
<1>2. CASE Flush("ending", payload) /\ UNCHANGED made
  BY <1>2, FlushStarts DEF ProcessOK, Callers
<1> QED
  BY <1>1, <1>2 DEF FailRun

LEMMA NotFullElsewhere ==
    ASSUME ProcessOK, pc # "collecting"
    PROVE  ~IsFull(payload)
  BY StreamAssumption, GrownType DEF IsFull, ProcessOK

LEMMA HandleGoes ==
    ASSUME ProcessOK, ~IsFull(payload), NEW e \in {"alarm", "error", "hup", "exit"}, Handle(e)
    PROVE  ProcessOK' /\ LeavesFlush
<1>1. CASE PublishAndGoTo("handling", "sleeping") /\ exc' = "none"
  BY <1>1, PublishGoes DEF Callers
<1>2. CASE GoTo("ended") /\ exc' = e /\ UNCHANGED bufferVars
  BY <1>2, ProcessGoes DEF bufferVars
<1> QED
  BY <1>1, <1>2 DEF Handle

LEMMA RaiseGoes ==
    ASSUME ProcessOK, NEW e \in {"alarm", "error", "hup", "exit"}, Raise(e)
    PROVE  ProcessOK' /\ LeavesFlush
<1>1. CASE exc' = e /\ FailRun
  BY <1>1, FailRunGoes
<1>2. CASE exc' = e /\ Flush("ending", payload) /\ UNCHANGED made
  BY <1>2, FlushStarts DEF ProcessOK, Callers
<1>3. CASE pc # "collecting" /\ Handle(e)
  BY <1>3, HandleGoes, NotFullElsewhere
<1>4. CASE pc # "collecting" /\ exc' = e /\ GoTo("ended") /\ UNCHANGED bufferVars
  BY <1>4, ProcessGoes, NotFullElsewhere DEF bufferVars
<1> QED
  BY <1>1, <1>2, <1>3, <1>4 DEF Raise

LEMMA FlushReturnsGoes ==
    ASSUME ProcessOK, pc = "flushing", FlushReturns
    PROVE  ProcessOK' /\ LeavesFlush
<1> ~IsFull(payload)
  BY NotFullElsewhere
<1> DEFINE place == CASE after = "collecting" -> "collecting"
                      [] after = "handling" -> "sleeping"
                      [] OTHER -> "returned"
<1>1. CASE GoTo(place) /\ UNCHANGED <<exc, bufferVars>>
  <2>1. place \in {"sleeping", "collecting", "returned", "ended"}
    OBVIOUS
  <2> HIDE DEF place
  <2> QED
    BY <1>1, <2>1, ProcessGoes DEF bufferVars, ProcessOK
<1>2. CASE Flush("ending", payload) /\ UNCHANGED <<exc, made>>
  BY <1>2, FlushStarts DEF ProcessOK, Callers
<1>3. CASE exc # "none" /\ Handle(exc)
  BY <1>3, HandleGoes DEF ProcessOK
<1> QED
  BY <1>1, <1>2, <1>3 DEF FlushReturns

\* A line is only begun on the socket there is, before the last attempt failed.
BegunOnSocket == flush.begun => conn # 0 /\ ~reconnect /\ flush.attempt < RetryCount

\* What a step does to the buffers: SendFails adds an error, the steps that use the
\* socket and those of the Go side leave them alone, all others leave the flush.
SocketStep ==
    \/ Connect \/ SendBegin \/ SendFails
    \/ \E k \in Connections : Break(k) \/ Read(k)
    \/ UNCHANGED vars
LeavingStep ==
    \/ Wake \/ Publish \/ FlushFull \/ CollectReturns \/ CollectFails \/ Success
    \/ AlarmFires \/ Hup \/ Restart
    \/ ConnectFails \/ SendEnd \/ GiveUp

LEMMA LeavingStepLeaves ==
    ASSUME ProcessOK, LeavingStep
    PROVE  ProcessOK' /\ LeavesFlush
<1>1. CASE Wake \/ Success
  BY <1>1, ProcessGoes, NotFullElsewhere DEF Wake, Success, bufferVars, ProcessOK
<1>2. CASE Publish
  <2>1. /\ ~IsFull(payload) /\ payload' = Grown /\ made' = made + 1 /\ exc' = exc
        /\ pc' = "collecting" /\ flush' = NoFlush /\ after' = after
    BY <1>2 DEF Publish, Collecting, GoTo
  <2>2. Grown \in Line /\ Len(Grown) <= MaxBuffer /\ made + 1 \in Nat
    BY <2>1, GrownType, StreamAssumption DEF IsFull
  <2>3. /\ NoFlush \in [line : Line, attempt : 0 .. RetryCount, begun : BOOLEAN]
        /\ NoFlush.line = <<>> /\ ~NoFlush.begun
    BY StreamAssumption DEF NoFlush, Line
  <2> QED
    BY <2>1, <2>2, <2>3 DEF ProcessOK, LeavesFlush
<1>3. CASE CollectReturns \/ FlushFull
  BY <1>3, FlushStarts DEF CollectReturns, FlushFull, ProcessOK, Callers
<1>4. CASE CollectFails \/ AlarmFires \/ Hup \/ ConnectFails
  BY <1>4, RaiseGoes DEF CollectFails, AlarmFires, Hup, ConnectFails
<1>5. CASE Restart
  BY <1>5, ProcessGoes, NotFullElsewhere DEF Restart
<1>6. CASE SendEnd \/ GiveUp
  BY <1>6, FlushReturnsGoes DEF SendEnd, GiveUp, Attempting
<1> QED
  BY <1>1, <1>2, <1>3, <1>4, <1>5, <1>6 DEF LeavingStep

LEMMA SocketStepStays ==
    ASSUME ProcessOK, BegunOnSocket, SocketStep
    PROVE  ProcessOK' /\ StaysInFlush
<1>1. CASE SendBegin
  BY <1>1 DEF SendBegin, Attempting, bufferVars, ProcessOK, StaysInFlush
<1>2. CASE SendFails
  <2>1. /\ pc = "flushing" /\ flush.attempt \in Nat /\ flush.attempt < RetryCount
        /\ RetryCount \in Nat /\ MaxBuffer \in Nat /\ RetryCount < MaxBuffer
    BY <1>2, StreamAssumption DEF SendFails, Attempting, ProcessOK
  <2>2. /\ flush'.line = flush.line /\ flush'.attempt = flush.attempt + 1
        /\ flush' \in [line : Line, attempt : 0 .. RetryCount, begun : BOOLEAN]
    <3>1. flush.attempt + 1 \in 0 .. RetryCount
      BY <2>1
    <3> QED
      BY <1>2, <3>1 DEF SendFails, ProcessOK
  <2>3. /\ payload' = Grown /\ made' = made + 1
        /\ UNCHANGED <<pc, after, exc>>
    BY <1>2 DEF SendFails
  <2>4. Len(payload') <= flush'.attempt /\ Len(payload') < MaxBuffer
    BY <2>1, <2>2, <2>3, GrownType DEF ProcessOK
  <2> QED
    BY <2>1, <2>2, <2>3, <2>4, GrownType DEF ProcessOK, StaysInFlush
<1>3. CASE UNCHANGED processVars
  BY <1>3 DEF processVars, bufferVars, ProcessOK, StaysInFlush
<1>4. CASE Connect \/ UNCHANGED vars
  BY <1>3, <1>4 DEF Connect, vars
<1>5. ASSUME NEW k \in Connections, Break(k) \/ Read(k)
      PROVE  UNCHANGED processVars
  BY <1>5 DEF Break, Read
<1> QED
  BY <1>1, <1>2, <1>3, <1>4, <1>5 DEF SocketStep

LEMMA EveryStep == [Next]_vars => LeavingStep \/ SocketStep
  BY DEF Next, FlushStep, LeavingStep, SocketStep

LEMMA BegunOnSocketStep ==
    ASSUME ProcessOK, BegunOnSocket, [Next]_vars
    PROVE  BegunOnSocket'
<1>1. CASE LeavingStep
  BY <1>1, LeavingStepLeaves DEF LeavesFlush, BegunOnSocket
<1>2. CASE Connect
  BY <1>2 DEF Connect, NeedsSocket, processVars, BegunOnSocket
<1>3. CASE SendBegin
  BY <1>3 DEF SendBegin, Attempting, NeedsSocket, socketVars, BegunOnSocket, ProcessOK
<1>4. CASE SendFails
  BY <1>4 DEF SendFails, BegunOnSocket, ProcessOK
<1>5. CASE UNCHANGED <<flush, conn, reconnect>>
  BY <1>5 DEF BegunOnSocket
<1>6. ASSUME NEW k \in Connections, Break(k) \/ Read(k)
      PROVE  UNCHANGED <<flush, conn, reconnect>>
  BY <1>6 DEF Break, Read, processVars, socketVars
<1> QED
  BY <1>1, <1>2, <1>3, <1>4, <1>5, <1>6, EveryStep
  DEF SocketStep, vars, processVars, socketVars

LEMMA ProcessStep ==
    ASSUME ProcessOK, BegunOnSocket, [Next]_vars
    PROVE  ProcessOK' /\ BegunOnSocket'
  BY EveryStep, LeavingStepLeaves, SocketStepStays, BegunOnSocketStep

-----------------------------------------------------------------------------
(***************************************************************************)
(* Types of what is outside the process.                                   *)
(***************************************************************************)
SocketOK ==
    /\ alarm \in BOOLEAN
    /\ conn \in Connections \cup {0} /\ opened \in Connections \cup {0}
    /\ reconnect \in BOOLEAN
    /\ ofCollect \in Nat /\ rounds \in Nat /\ breaks \in Nat /\ hups \in Nat

WireOK ==
    /\ wire \in [Connections -> Seq(Pieces)]
    /\ broken \in [Connections -> BOOLEAN]
    /\ delivered \in [Connections -> Line]
    /\ begun \in [Connections -> Nat] /\ acked \in [Connections -> Nat]
    /\ cuts \in [Connections -> Nat] /\ parsed \in [Connections -> Nat]
    /\ garbled \in [Connections -> Nat]

StreamInv == TypeOK /\ ProcessOK /\ BegunOnSocket

LEMMA TypeParts == StreamInv <=> ProcessOK /\ BegunOnSocket /\ SocketOK /\ WireOK
  BY DEF StreamInv, TypeOK, ProcessOK, SocketOK, WireOK

LEMMA SocketType ==
    ASSUME SocketOK, [Next]_vars
    PROVE  SocketOK'
<1> USE DEF SocketOK, socketVars, boundVars
<1>1. CASE UNCHANGED <<alarm, socketVars, boundVars>>
  BY <1>1
<1>2. CASE Wake
  BY <1>2 DEF Wake
<1>3. CASE Publish
  BY <1>3 DEF Publish
<1>4. CASE Success
  BY <1>4 DEF Success
<1>5. CASE AlarmFires
  BY <1>5 DEF AlarmFires
<1>6. CASE Hup
  BY <1>6 DEF Hup
<1>7. CASE Restart
  BY <1>7 DEF Restart
<1>8. CASE Connect
  BY <1>8 DEF Connect
<1>9. CASE SendFails
  BY <1>9 DEF SendFails
<1>10. ASSUME NEW k \in Connections, Break(k)
       PROVE  SocketOK'
  BY <1>10 DEF Break
<1>11. CASE FlushFull \/ CollectReturns \/ CollectFails \/ ConnectFails \/ SendEnd \/ GiveUp
            \/ SendBegin \/ (\E k \in Connections : Read(k)) \/ UNCHANGED vars
  <2>1. UNCHANGED <<alarm, socketVars, boundVars>>
    BY <1>11 DEF FlushFull, CollectReturns, CollectFails, ConnectFails, SendEnd, GiveUp,
                 SendBegin, Read, vars
  <2> QED
    BY <1>1, <2>1
<1> QED
  BY <1>2, <1>3, <1>4, <1>5, <1>6, <1>7, <1>8, <1>9, <1>10, <1>11 DEF Next, FlushStep

LEMMA OnConnection == ~NeedsSocket /\ SocketOK => conn \in Connections
  BY DEF NeedsSocket, SocketOK

\* What the process writes, and what a break leaves, are pieces.
LEMMA BeginIsPiece == [line |-> <<>>, part |-> "begin"] \in Pieces
  BY DEF Pieces, Line

LEMMA EndIsPiece ==
    ASSUME ProcessOK
    PROVE  [line |-> flush.line, part |-> IF flush.begun THEN "rest" ELSE "whole"]
             \in Pieces
  BY DEF ProcessOK, Pieces

LEMMA AppendType ==
    ASSUME wire \in [Connections -> Seq(Pieces)], NEW k \in Connections,
           NEW piece \in Pieces, wire' = [wire EXCEPT ![k] = Append(@, piece)]
    PROVE  /\ wire' \in [Connections -> Seq(Pieces)]
           /\ wire'[k] = Append(wire[k], piece)
           /\ \A l \in Connections : l # k => wire'[l] = wire[l]
  OBVIOUS

LEMMA PrefixProperties ==
    ASSUME NEW w \in Seq(Pieces), NEW n \in 0 .. Len(w)
    PROVE  /\ SubSeq(w, 1, n) \in Seq(Pieces) /\ Len(SubSeq(w, 1, n)) = n
           /\ \A i \in 1 .. n : SubSeq(w, 1, n)[i] = w[i]
<1>1. \A i \in 1 .. n : w[i] \in Pieces
  OBVIOUS
<1>2. /\ SubSeq(w, 1, n) \in Seq(Pieces)
      /\ Len(SubSeq(w, 1, n)) = IF 1 <= n THEN n - 1 + 1 ELSE 0
      /\ \A i \in 1 .. n - 1 + 1 : SubSeq(w, 1, n)[i] = w[1 + i - 1]
  BY <1>1, SubSeqProperties
<1> QED
  BY <1>2

\* What is read is a beginning, which is counted, a line that parses, since no
\* beginning but its own was read after the last newline, or one that does not.
ReadBegin(k) ==
    /\ Head(wire[k]).part = "begin"
    /\ begun' = [begun EXCEPT ![k] = begun[k] + 1]
    /\ UNCHANGED <<delivered, parsed, garbled>>

ReadParsed(k) ==
    /\ Head(wire[k]).part # "begin"
    /\ begun[k] = IF Head(wire[k]).part = "rest" THEN 1 ELSE 0
    /\ begun' = [begun EXCEPT ![k] = 0]
    /\ delivered' = [delivered EXCEPT ![k] = delivered[k] \o Head(wire[k]).line]
    /\ parsed' = [parsed EXCEPT ![k] = parsed[k] + 1]
    /\ UNCHANGED garbled

ReadGarbled(k) ==
    /\ Head(wire[k]).part # "begin"
    /\ begun[k] # IF Head(wire[k]).part = "rest" THEN 1 ELSE 0
    /\ begun' = [begun EXCEPT ![k] = 0]
    /\ garbled' = [garbled EXCEPT ![k] = garbled[k] + 1]
    /\ UNCHANGED <<delivered, parsed>>

LEMMA ReadCases ==
    ASSUME WireOK, NEW k \in Connections, Read(k)
    PROVE  /\ wire[k] \in Seq(Pieces) /\ wire[k] # <<>>
           /\ Head(wire[k]) \in Pieces /\ Head(wire[k]).line \in Line
           /\ Tail(wire[k]) \in Seq(Pieces)
           /\ wire' = [wire EXCEPT ![k] = Tail(wire[k])]
           /\ ReadBegin(k) \/ ReadParsed(k) \/ ReadGarbled(k)
           /\ UNCHANGED <<processVars, alarm, socketVars, boundVars, acked, cuts, broken>>
<1>1. wire[k] \in Seq(Pieces) /\ wire[k] # <<>>
  BY DEF Read, WireOK
<1>2. Head(wire[k]) \in Pieces /\ Tail(wire[k]) \in Seq(Pieces)
  BY <1>1, HeadTailProperties
<1>3. Head(wire[k]).line \in Line
  BY <1>2 DEF Pieces
<1> QED
  BY <1>1, <1>2, <1>3 DEF Read, Parses, ReadBegin, ReadParsed, ReadGarbled

LEMMA WireType ==
    ASSUME ProcessOK, SocketOK, WireOK, [Next]_vars
    PROVE  WireOK'
<1> USE DEF WireOK
<1>1. CASE UNCHANGED <<writeVars, broken, readVars>>
  BY <1>1 DEF writeVars, readVars
<1>2. CASE SendBegin
  <2>1. wire' \in [Connections -> Seq(Pieces)]
    BY <1>2, BeginIsPiece, AppendType, OnConnection DEF SendBegin
  <2> QED
    BY <1>2, <2>1 DEF SendBegin, readVars
<1>3. CASE SendEnd
  <2>1. wire' \in [Connections -> Seq(Pieces)]
    BY <1>3, EndIsPiece, AppendType, OnConnection DEF SendEnd
  <2>2. acked' \in [Connections -> Nat]
    <3>1. acked' = [acked EXCEPT ![conn] = acked[conn] + 1] /\ conn \in Connections
      BY <1>3, OnConnection DEF SendEnd
    <3> QED
      BY <3>1
  <2> QED
    BY <1>3, <2>1, <2>2 DEF SendEnd, readVars
<1>4. CASE AlarmFires \/ Hup
  <2>1. cuts' \in [Connections -> Nat]
    BY <1>4 DEF AlarmFires, Hup, Cut
  <2> QED
    BY <1>4, <2>1 DEF AlarmFires, Hup, Cut, readVars
<1>5. ASSUME NEW k \in Connections, Break(k)
      PROVE  WireOK'
  <2>1. PICK n \in 0 .. Len(wire[k]) : wire' = [wire EXCEPT ![k] = SubSeq(@, 1, n)]
    BY <1>5 DEF Break
  <2>2. wire' \in [Connections -> Seq(Pieces)]
    BY <2>1, PrefixProperties
  <2> QED
    BY <1>5, <2>2 DEF Break, readVars
<1>6. ASSUME NEW k \in Connections, Read(k)
      PROVE  WireOK'
  <2>1. wire' \in [Connections -> Seq(Pieces)]
    BY <1>6, ReadCases
  <2>2. delivered[k] \o Head(wire[k]).line \in Line
    BY <1>6, ReadCases DEF Line
  <2>3. /\ begun' \in [Connections -> Nat] /\ delivered' \in [Connections -> Line]
        /\ parsed' \in [Connections -> Nat] /\ garbled' \in [Connections -> Nat]
    <3>1. begun[k] + 1 \in Nat /\ parsed[k] + 1 \in Nat /\ garbled[k] + 1 \in Nat
      OBVIOUS
    <3>2. CASE ReadBegin(k)
      BY <3>1, <3>2 DEF ReadBegin
    <3>3. CASE ReadParsed(k)
      BY <2>2, <3>1, <3>3 DEF ReadParsed
    <3>4. CASE ReadGarbled(k)
      BY <3>1, <3>4 DEF ReadGarbled
    <3> QED
      BY <1>6, <3>2, <3>3, <3>4, ReadCases
  <2> QED
    BY <1>6, <2>1, <2>3, ReadCases
<1>7. CASE Wake \/ Publish \/ FlushFull \/ CollectReturns \/ CollectFails \/ Success \/ Restart
           \/ Connect \/ ConnectFails \/ SendFails \/ GiveUp \/ UNCHANGED vars
  BY <1>1, <1>7 DEF Wake, Publish, FlushFull, CollectReturns, CollectFails, Success, Restart,
                    Connect, ConnectFails, SendFails, GiveUp, vars
<1> QED
  BY <1>2, <1>3, <1>4, <1>5, <1>6, <1>7 DEF Next, FlushStep

LEMMA StreamInit == Init => StreamInv
<1> SUFFICES ASSUME Init PROVE StreamInv
  OBVIOUS
<1>1. ProcessOK
  BY StreamAssumption DEF Init, NoFlush, ProcessOK, Line, Callers
<1>2. SocketOK /\ BegunOnSocket
  BY DEF Init, SocketOK, BegunOnSocket, NoFlush
<1>3. WireOK
  BY DEF Init, None, WireOK, Line
<1> QED
  BY <1>1, <1>2, <1>3, TypeParts

LEMMA StreamStep == StreamInv /\ [Next]_vars => StreamInv'
<1> SUFFICES ASSUME StreamInv, [Next]_vars PROVE StreamInv'
  OBVIOUS
<1>1. ProcessOK /\ BegunOnSocket /\ SocketOK /\ WireOK
  BY TypeParts
<1>2. ProcessOK' /\ BegunOnSocket' /\ SocketOK' /\ WireOK'
  BY <1>1, ProcessStep, SocketType, WireType
<1> QED
  BY <1>2 DEF StreamInv, TypeOK, ProcessOK, SocketOK, WireOK

LEMMA StreamInvariant == Spec => []StreamInv
  BY StreamInit, StreamStep, PTL DEF Spec

\* Every variable keeps its type; above all, the payload stays below
\* max_buffer_size although failed attempts report errors into it while a flush
\* goes on, so that no flush begins inside another one (publish_metric, flush).
THEOREM StreamTypes == Spec => []TypeOK
<1>1. StreamInv => TypeOK
  BY DEF StreamInv
<1> QED
  BY <1>1, StreamInvariant, PTL

-----------------------------------------------------------------------------
(***************************************************************************)
(* The order of what a connection carries.  What was delivered and what is *)
(* on the wire is one increasing sequence, and reading, cutting it off and *)
(* writing what comes after all of it keep that.                           *)
(***************************************************************************)
Increasing(s) == \A i, j \in 1 .. Len(s) : i < j => s[i] < s[j]
Before(s, t) == \A i \in 1 .. Len(s), j \in 1 .. Len(t) : s[i] < t[j]

Ordered(d, w) ==
    /\ Increasing(d)
    /\ \A i \in 1 .. Len(w) : Increasing(w[i].line) /\ Before(d, w[i].line)
    /\ \A i, j \in 1 .. Len(w) : i < j => Before(w[i].line, w[j].line)

\* All that a connection has taken.
Carried(d, w) == Members(d) \cup UNION {Members(w[i].line) : i \in 1 .. Len(w)}

LEMMA LineOfPiece ==
    ASSUME NEW w \in Seq(Pieces)
    PROVE  \A i \in 1 .. Len(w) : w[i] \in Pieces /\ w[i].line \in Line
<1>1. \A i \in 1 .. Len(w) : w[i] \in Pieces
  BY ElementOfSeq
<1> QED
  BY <1>1 DEF Pieces

LEMMA CarriedNat ==
    ASSUME NEW d \in Line, NEW w \in Seq(Pieces)
    PROVE  Carried(d, w) \subseteq Nat
  BY LineOfPiece DEF Carried, Members, Line

LEMMA PrefixOrdered ==
    ASSUME NEW d \in Line, NEW w \in Seq(Pieces), NEW n \in 0 .. Len(w),
           Ordered(d, w)
    PROVE  /\ Ordered(d, SubSeq(w, 1, n))
           /\ Carried(d, SubSeq(w, 1, n)) \subseteq Carried(d, w)
<1> DEFINE u == SubSeq(w, 1, n)
<1>1. Len(u) = n /\ \A i \in 1 .. n : u[i] = w[i] /\ i \in 1 .. Len(w)
  BY PrefixProperties
<1> HIDE DEF u
<1>2. Ordered(d, u)
  BY <1>1 DEF Ordered
<1>3. Carried(d, u) \subseteq Carried(d, w)
  BY <1>1 DEF Carried
<1> QED
  BY <1>2, <1>3 DEF u

LEMMA TailOrdered ==
    ASSUME NEW d \in Line, NEW w \in Seq(Pieces), w # <<>>, Ordered(d, w)
    PROVE  /\ Ordered(d, Tail(w))
           /\ Carried(d, Tail(w)) \subseteq Carried(d, w)
<1> DEFINE u == Tail(w)
<1>1. /\ Len(w) \in Nat /\ Len(u) = Len(w) - 1
      /\ \A i \in 1 .. Len(u) : u[i] = w[i + 1] /\ i + 1 \in 1 .. Len(w)
  BY HeadTailProperties
<1> HIDE DEF u
<1>2. Ordered(d, u)
  <2>1. \A i \in 1 .. Len(u) : Increasing(u[i].line) /\ Before(d, u[i].line)
    BY <1>1 DEF Ordered
  <2>2. ASSUME NEW i \in 1 .. Len(u), NEW j \in 1 .. Len(u), i < j
        PROVE  Before(u[i].line, u[j].line)
    <3>1. i + 1 < j + 1 /\ i + 1 \in 1 .. Len(w) /\ j + 1 \in 1 .. Len(w)
      BY <1>1, <2>2
    <3>2. Before(w[i + 1].line, w[j + 1].line)
      BY <3>1 DEF Ordered
    <3> QED
      BY <1>1, <3>2
  <2> QED
    BY <2>1, <2>2 DEF Ordered
<1>3. Carried(d, u) \subseteq Carried(d, w)
  <2>1. \A i \in 1 .. Len(u) : \E j \in 1 .. Len(w) : u[i] = w[j]
    BY <1>1
  <2> QED
    BY <2>1 DEF Carried
<1> QED
  BY <1>2, <1>3 DEF u

LEMMA MembersConcat ==
    ASSUME NEW s \in Line, NEW t \in Line
    PROVE  /\ s \o t \in Line
           /\ Members(s \o t) = Members(s) \cup Members(t)
           /\ Increasing(s) /\ Increasing(t) /\ Before(s, t) => Increasing(s \o t)
           /\ \A u : Before(s, u) /\ Before(t, u) => Before(s \o t, u)
<1> DEFINE c == s \o t
<1>1. /\ c \in Line /\ Len(s) \in Nat /\ Len(t) \in Nat /\ Len(c) = Len(s) + Len(t)
      /\ \A i \in 1 .. Len(c) : c[i] = IF i <= Len(s) THEN s[i] ELSE t[i - Len(s)]
  BY ConcatProperties DEF Line
<1> HIDE DEF c
<1>2. ASSUME NEW i \in 1 .. Len(c)
      PROVE  \/ i \in 1 .. Len(s) /\ c[i] = s[i]
             \/ i - Len(s) \in 1 .. Len(t) /\ c[i] = t[i - Len(s)] /\ i > Len(s)
  BY <1>1
<1>3. \A i \in 1 .. Len(s) : i \in 1 .. Len(c) /\ c[i] = s[i]
  BY <1>1
<1>4. \A i \in 1 .. Len(t) : i + Len(s) \in 1 .. Len(c) /\ c[i + Len(s)] = t[i]
  BY <1>1
<1>5. Members(c) = Members(s) \cup Members(t)
  <2>1. ASSUME NEW x \in Members(c) PROVE x \in Members(s) \cup Members(t)
    BY <1>2, <2>1 DEF Members
  <2>2. ASSUME NEW x \in Members(s) PROVE x \in Members(c)
    BY <1>3, <2>2 DEF Members
  <2>3. ASSUME NEW x \in Members(t) PROVE x \in Members(c)
    BY <1>4, <2>3 DEF Members
  <2> QED
    BY <2>1, <2>2, <2>3
<1>6. ASSUME Increasing(s), Increasing(t), Before(s, t) PROVE Increasing(c)
  <2> SUFFICES ASSUME NEW i \in 1 .. Len(c), NEW j \in 1 .. Len(c), i < j
               PROVE  c[i] < c[j]
    BY DEF Increasing
  <2>1. CASE i \in 1 .. Len(s) /\ c[i] = s[i]
    BY <1>2, <1>6, <2>1 DEF Increasing, Before
  <2>2. CASE i - Len(s) \in 1 .. Len(t) /\ c[i] = t[i - Len(s)] /\ i > Len(s)
    <3>1. j - Len(s) \in 1 .. Len(t) /\ c[j] = t[j - Len(s)]
      BY <1>1, <1>2, <2>2
    <3>2. i - Len(s) < j - Len(s)
      BY <1>1
    <3> QED
      BY <1>6, <2>2, <3>1, <3>2 DEF Increasing
  <2> QED
    BY <1>2, <2>1, <2>2
<1>7. ASSUME NEW u, Before(s, u), Before(t, u) PROVE Before(c, u)
  BY <1>2, <1>7 DEF Before
<1> QED
  BY <1>1, <1>5, <1>6, <1>7 DEF c

LEMMA DeliverOrdered ==
    ASSUME NEW d \in Line, NEW w \in Seq(Pieces), w # <<>>, Ordered(d, w)
    PROVE  /\ Ordered(d \o Head(w).line, Tail(w))
           /\ Carried(d \o Head(w).line, Tail(w)) \subseteq Carried(d, w)
<1> DEFINE u == Tail(w)
           first == w[1].line
           e == d \o first
<1>1. /\ Len(w) \in Nat /\ Len(u) = Len(w) - 1 /\ 1 \in 1 .. Len(w)
      /\ \A i \in 1 .. Len(u) : u[i] = w[i + 1] /\ i + 1 \in 1 .. Len(w)
      /\ Head(w).line = first
  BY HeadTailProperties
<1>2. first \in Line
  BY <1>1, LineOfPiece
<1>3. Increasing(d) /\ Increasing(first) /\ Before(d, first)
  BY <1>1 DEF Ordered
<1>4. /\ e \in Line /\ Members(e) = Members(d) \cup Members(first)
      /\ Increasing(e)
      /\ \A x : Before(d, x) /\ Before(first, x) => Before(e, x)
  BY <1>2, <1>3, MembersConcat
<1>5. Ordered(d, u) /\ Carried(d, u) \subseteq Carried(d, w)
  BY TailOrdered
<1> HIDE DEF u, first, e
<1>6. \A i \in 1 .. Len(u) : Before(d, u[i].line) /\ Before(first, u[i].line)
  <2> TAKE i \in 1 .. Len(u)
  <2>1. 1 < i + 1 /\ i + 1 \in 1 .. Len(w) /\ u[i] = w[i + 1]
    BY <1>1
  <2>2. Before(w[1].line, w[i + 1].line) /\ Before(d, w[i + 1].line)
    BY <1>1, <2>1 DEF Ordered
  <2> QED
    BY <2>1, <2>2 DEF first
<1>7. Ordered(e, u)
  BY <1>4, <1>5, <1>6 DEF Ordered
<1>8. Members(first) \subseteq Carried(d, w)
  BY <1>1 DEF Carried, first
<1>9. Carried(e, u) \subseteq Carried(d, w)
  BY <1>4, <1>5, <1>8 DEF Carried
<1> QED
  BY <1>1, <1>7, <1>9 DEF e, u

LEMMA AppendOrdered ==
    ASSUME NEW d \in Line, NEW w \in Seq(Pieces), NEW piece \in Pieces,
           Ordered(d, w), Increasing(piece.line),
           \A n \in Carried(d, w), m \in Members(piece.line) : n < m
    PROVE  /\ Ordered(d, Append(w, piece))
           /\ Carried(d, Append(w, piece)) = Carried(d, w) \cup Members(piece.line)
<1> DEFINE u == Append(w, piece)
<1>1. /\ Len(w) \in Nat /\ Len(u) = Len(w) + 1 /\ u[Len(w) + 1] = piece
      /\ \A i \in 1 .. Len(w) : u[i] = w[i]
  BY AppendProperties
<1> HIDE DEF u
<1>2. ASSUME NEW i \in 1 .. Len(u)
      PROVE  \/ i \in 1 .. Len(w) /\ u[i] = w[i]
             \/ i = Len(w) + 1 /\ u[i] = piece
  BY <1>1
<1>3. Before(d, piece.line)
  BY DEF Carried, Members, Before
<1>4. \A i \in 1 .. Len(w) : Before(w[i].line, piece.line)
  <2>1. \A i \in 1 .. Len(w) : Members(w[i].line) \subseteq Carried(d, w)
    BY DEF Carried
  <2>2. \A i \in 1 .. Len(w) : \A j \in 1 .. Len(w[i].line) :
           w[i].line[j] \in Members(w[i].line)
    BY DEF Members
  <2>3. \A j \in 1 .. Len(piece.line) : piece.line[j] \in Members(piece.line)
    BY DEF Members
  <2> QED
    BY <2>1, <2>2, <2>3 DEF Before
<1>5. \A i \in 1 .. Len(u) : Increasing(u[i].line) /\ Before(d, u[i].line)
  BY <1>2, <1>3 DEF Ordered
<1>6. ASSUME NEW i \in 1 .. Len(u), NEW j \in 1 .. Len(u), i < j
      PROVE  Before(u[i].line, u[j].line)
  <2>1. i \in 1 .. Len(w) /\ u[i] = w[i]
    BY <1>1, <1>6
  <2>2. CASE j \in 1 .. Len(w) /\ u[j] = w[j]
    BY <1>6, <2>1, <2>2 DEF Ordered
  <2>3. CASE u[j] = piece
    BY <1>4, <2>1, <2>3
  <2> QED
    BY <1>2, <2>2, <2>3
<1>7. Ordered(d, u)
  BY <1>5, <1>6 DEF Ordered
<1>8. Carried(d, u) = Carried(d, w) \cup Members(piece.line)
  <2>1. \A i \in 1 .. Len(w) : i \in 1 .. Len(u) /\ u[i] = w[i]
    BY <1>1
  <2>2. Len(w) + 1 \in 1 .. Len(u)
    BY <1>1
  <2> QED
    BY <1>1, <1>2, <2>1, <2>2 DEF Carried
<1> QED
  BY <1>7, <1>8 DEF u

-----------------------------------------------------------------------------
(***************************************************************************)
(* No metric is delivered twice, and those of a connection in order.       *)
(***************************************************************************)
Pending == Members(flush.line) \cup Members(payload)
Below(n) == n <= made /\ \A m \in Pending : n < m

\* The line of the flush comes before the payload, and neither has a metric that
\* was not made.
BuffersOrdered ==
    /\ Increasing(flush.line) /\ Increasing(payload)
    /\ Before(flush.line, payload)
    /\ \A m \in Pending : m <= made

\* What a connection carries was all made before what waits to be sent, and no two
\* connections carry the same metric.
CarriedBy(k) == Carried(delivered[k], wire[k])

OrderInv ==
    /\ BuffersOrdered
    /\ \A k \in Connections : Ordered(delivered[k], wire[k])
    /\ \A k \in Connections : \A n \in CarriedBy(k) : Below(n)
    /\ \A k, l \in Connections : k # l => CarriedBy(k) \cap CarriedBy(l) = {}

LEMMA GrownMembers ==
    ASSUME ProcessOK
    PROVE  /\ Members(Grown) = Members(payload) \cup {made + 1}
           /\ Increasing(payload) /\ (\A m \in Members(payload) : m <= made)
                 => Increasing(Grown)
           /\ \A s \in Line : Before(s, payload) /\ (\A m \in Members(s) : m <= made)
                  => Before(s, Grown)
<1>1. /\ Len(payload) \in Nat /\ Len(Grown) = Len(payload) + 1 /\ made \in Nat
      /\ Grown[Len(payload) + 1] = made + 1
      /\ \A i \in 1 .. Len(payload) : Grown[i] = payload[i] /\ payload[i] \in Nat
  BY DEF ProcessOK, Grown, Line
<1>2. ASSUME NEW i \in 1 .. Len(Grown)
      PROVE  \/ i \in 1 .. Len(payload) /\ Grown[i] = payload[i]
             \/ i = Len(payload) + 1 /\ Grown[i] = made + 1
  BY <1>1
<1>3. Members(Grown) = Members(payload) \cup {made + 1}
  <2>1. ASSUME NEW m \in Members(Grown) PROVE m \in Members(payload) \cup {made + 1}
    BY <1>2, <2>1 DEF Members
  <2>2. ASSUME NEW m \in Members(payload) PROVE m \in Members(Grown)
    BY <1>1, <2>2 DEF Members
  <2>3. Len(payload) + 1 \in 1 .. Len(Grown)
    BY <1>1
  <2>4. made + 1 \in Members(Grown)
    BY <1>1, <2>3 DEF Members
  <2> QED
    BY <2>1, <2>2, <2>4
<1>4. ASSUME Increasing(payload), \A m \in Members(payload) : m <= made
      PROVE  Increasing(Grown)
  <2> SUFFICES ASSUME NEW i \in 1 .. Len(Grown), NEW j \in 1 .. Len(Grown), i < j
               PROVE  Grown[i] < Grown[j]
    BY DEF Increasing
  <2>1. i \in 1 .. Len(payload) /\ Grown[i] = payload[i]
    BY <1>1, <1>2
  <2>2. CASE j \in 1 .. Len(payload) /\ Grown[j] = payload[j]
    BY <1>4, <2>1, <2>2 DEF Increasing
  <2>3. CASE Grown[j] = made + 1
    <3>1. payload[i] \in Members(payload) /\ payload[i] \in Nat
      BY <1>1, <2>1 DEF Members
    <3>2. payload[i] <= made
      BY <1>4, <3>1
    <3> QED
      BY <1>1, <2>1, <2>3, <3>1, <3>2
  <2> QED
    BY <1>2, <2>2, <2>3
<1>5. ASSUME NEW s \in Line, Before(s, payload), \A m \in Members(s) : m <= made,
             NEW i \in 1 .. Len(s), NEW j \in 1 .. Len(Grown)
      PROVE  s[i] < Grown[j]
  <2>1. s[i] \in Nat /\ s[i] <= made
    BY <1>5 DEF Members, Line
  <2>2. CASE j \in 1 .. Len(payload) /\ Grown[j] = payload[j]
    BY <1>5, <2>2 DEF Before
  <2>3. CASE Grown[j] = made + 1
    BY <1>1, <2>1, <2>3
  <2> QED
    BY <1>2, <2>2, <2>3
<1> QED
  BY <1>3, <1>4, <1>5 DEF Before

LEMMA BuffersStep ==
    ASSUME ProcessOK, BuffersOrdered, LeavesFlush \/ StaysInFlush
    PROVE  BuffersOrdered' /\ \A n \in Nat : Below(n) => Below(n)'
<1> DEFINE Kept == /\ flush'.line \in {flush.line, <<>>}
                   /\ payload' \in {payload, <<>>} /\ made' = made
           Reported == /\ flush'.line \in {flush.line, <<>>}
                       /\ payload' = Grown /\ made' = made + 1
           Moved == /\ flush'.line = payload /\ payload' = <<>> /\ made' = made
           MovedGrown == /\ flush'.line = Grown /\ payload' = <<>> /\ made' = made + 1
<1>1. Kept \/ Reported \/ Moved \/ MovedGrown
  BY DEF LeavesFlush, StaysInFlush
<1>2. /\ made \in Nat /\ Members(<<>>) = {} /\ Increasing(<<>>)
      /\ \A s : Before(<<>>, s) /\ Before(s, <<>>)
  BY DEF ProcessOK, Members, Increasing, Before
<1>3. /\ Members(Grown) = Members(payload) \cup {made + 1}
      /\ Increasing(Grown) /\ Before(flush.line, Grown)
  BY GrownMembers DEF BuffersOrdered, Pending, ProcessOK
<1>4. \A m \in Pending : m \in Nat /\ m <= made
  BY DEF ProcessOK, BuffersOrdered, Pending, Members, Line
<1>5. CASE Kept
  BY <1>2, <1>5 DEF BuffersOrdered, Below, Pending
<1>6. CASE Reported
  BY <1>2, <1>3, <1>4, <1>6 DEF BuffersOrdered, Below, Pending
<1>7. CASE Moved
  BY <1>2, <1>7 DEF BuffersOrdered, Below, Pending
<1>8. CASE MovedGrown
  BY <1>2, <1>3, <1>4, <1>8 DEF BuffersOrdered, Below, Pending
<1> QED
  BY <1>1, <1>5, <1>6, <1>7, <1>8

\* A line that leaves the flush is below what is made and sent later.
LEMMA LeavingBelow ==
    ASSUME ProcessOK, BuffersOrdered, LeavesFlush
    PROVE  \A n \in Members(flush.line) : Below(n)'
<1>1. /\ made \in Nat /\ Members(<<>>) = {}
      /\ Members(Grown) = Members(payload) \cup {made + 1}
  <2>1. made \in Nat /\ Members(<<>>) = {}
    BY DEF ProcessOK, Members
  <2> QED
    BY <2>1, GrownMembers
<1>2. \A n \in Members(flush.line) : n \in Nat /\ n <= made
  BY DEF ProcessOK, BuffersOrdered, Pending, Members, Line
<1>3. \A n \in Members(flush.line), m \in Members(payload) : n < m
  BY DEF BuffersOrdered, Before, Members
<1>4. made' \in {made, made + 1} /\ Pending' \subseteq Members(payload) \cup {made + 1}
  BY <1>1 DEF LeavesFlush, Pending
<1> QED
  BY <1>1, <1>2, <1>3, <1>4 DEF Below

\* A step that leaves at most what it carried on one connection.
LEMMA NothingNew ==
    ASSUME StreamInv, OrderInv, BuffersOrdered', \A n \in Nat : Below(n) => Below(n)',
           NEW k \in Connections,
           Ordered(delivered'[k], wire'[k]), CarriedBy(k)' \subseteq CarriedBy(k),
           \A l \in Connections : l # k =>
               wire'[l] = wire[l] /\ delivered'[l] = delivered[l]
    PROVE  OrderInv'
<1>1. \A l \in Connections : CarriedBy(l) \subseteq Nat
  BY CarriedNat DEF CarriedBy, StreamInv, TypeOK
<1>2. \A l \in Connections : CarriedBy(l)' \subseteq CarriedBy(l)
  BY DEF CarriedBy
<1>3. \A l \in Connections : Ordered(delivered'[l], wire'[l])
  BY DEF OrderInv
<1>4. \A l \in Connections : \A n \in CarriedBy(l)' : Below(n)'
  BY <1>1, <1>2 DEF OrderInv
<1>5. \A l, m \in Connections : l # m => CarriedBy(l)' \cap CarriedBy(m)' = {}
  BY <1>2 DEF OrderInv
<1> QED
  BY <1>3, <1>4, <1>5 DEF OrderInv

LEMMA BeginOrdered ==
    ASSUME NEW d \in Line, NEW w \in Seq(Pieces), Ordered(d, w)
    PROVE  /\ Ordered(d, Append(w, [line |-> <<>>, part |-> "begin"]))
           /\ Carried(d, Append(w, [line |-> <<>>, part |-> "begin"])) = Carried(d, w)
<1> DEFINE piece == [line |-> <<>>, part |-> "begin"]
<1>1. piece.line = <<>> /\ piece \in Pieces
  BY BeginIsPiece
<1>2. Increasing(piece.line) /\ Members(piece.line) = {}
  BY <1>1 DEF Increasing, Members
<1> HIDE DEF piece
<1>3. /\ Ordered(d, Append(w, piece))
      /\ Carried(d, Append(w, piece)) = Carried(d, w) \cup Members(piece.line)
  BY <1>1, <1>2, AppendOrdered
<1> QED
  BY <1>2, <1>3 DEF piece

\* SendEnd puts the line behind all that the connection carries, and it is gone from
\* the flush.
LEMMA SendEndOrder ==
    ASSUME StreamInv, OrderInv, SendEnd
    PROVE  OrderInv'
<1>1. PICK k \in Connections : k = conn
  BY OnConnection, TypeParts DEF SendEnd
<1>2. ProcessOK /\ LeavesFlush
  BY LeavingStepLeaves, TypeParts DEF LeavingStep
<1>3. BuffersOrdered' /\ \A n \in Nat : Below(n) => Below(n)'
  BY <1>2, BuffersStep DEF OrderInv
<1>4. UNCHANGED delivered
  BY DEF SendEnd, readVars
<1>5. CASE broken[k]
  <2>1. UNCHANGED wire
    BY <1>1, <1>5 DEF SendEnd
  <2> QED
    BY <1>1, <1>3, <1>4, <2>1, NothingNew DEF OrderInv, CarriedBy
<1>6. CASE ~broken[k]
  <2> DEFINE piece == [line |-> flush.line,
                       part |-> IF flush.begun THEN "rest" ELSE "whole"]
  <2>1. /\ piece \in Pieces /\ piece.line = flush.line
        /\ wire \in [Connections -> Seq(Pieces)]
        /\ wire' = [wire EXCEPT ![k] = Append(@, piece)]
    BY <1>1, <1>2, <1>6, EndIsPiece DEF SendEnd, StreamInv, TypeOK
  <2> HIDE DEF piece
  <2>2. /\ wire'[k] = Append(wire[k], piece) /\ wire[k] \in Seq(Pieces)
        /\ \A l \in Connections : l # k => wire'[l] = wire[l]
    BY <1>1, <2>1, AppendType
  <2>3. delivered[k] \in Line /\ Ordered(delivered[k], wire[k])
    BY <1>1 DEF StreamInv, TypeOK, OrderInv
  <2>4. Increasing(piece.line)
    BY <2>1 DEF OrderInv, BuffersOrdered
  <2>5. \A l \in Connections : \A n \in CarriedBy(l), m \in Members(flush.line) : n < m
    BY DEF OrderInv, Below, Pending
  <2>6. /\ Ordered(delivered[k], wire'[k])
        /\ CarriedBy(k)' = CarriedBy(k) \cup Members(flush.line)
    <3>1. \A n \in Carried(delivered[k], wire[k]), m \in Members(piece.line) : n < m
      BY <2>1, <2>5 DEF CarriedBy
    <3>2. /\ Ordered(delivered[k], Append(wire[k], piece))
          /\ Carried(delivered[k], Append(wire[k], piece))
               = Carried(delivered[k], wire[k]) \cup Members(piece.line)
      <4>1. delivered[k] \in Line /\ wire[k] \in Seq(Pieces) /\ piece \in Pieces
        BY <2>1, <2>2, <2>3
      <4> QED
        BY <2>3, <2>4, <3>1, <4>1, AppendOrdered
    <3> QED
      BY <1>4, <2>1, <2>2, <3>2 DEF CarriedBy
  <2>7. \A l \in Connections : l # k => CarriedBy(l)' = CarriedBy(l)
    BY <1>4, <2>2 DEF CarriedBy
  <2>8. /\ \A l \in Connections : CarriedBy(l) \subseteq Nat
        /\ Members(flush.line) \subseteq Nat
    <3>1. \A l \in Connections : CarriedBy(l) \subseteq Nat
      BY CarriedNat DEF CarriedBy, StreamInv, TypeOK
    <3>2. Members(flush.line) \subseteq Nat
      BY <1>2 DEF ProcessOK, Members, Line
    <3> QED
      BY <3>1, <3>2
  <2>9. \A n \in Members(flush.line) : Below(n)'
    BY <1>2, LeavingBelow DEF OrderInv
  <2>10. \A l \in Connections : Ordered(delivered'[l], wire'[l])
    BY <1>4, <2>2, <2>6 DEF OrderInv
  <2>11. \A l \in Connections : \A n \in CarriedBy(l)' : Below(n)'
    BY <1>3, <2>6, <2>7, <2>8, <2>9 DEF OrderInv
  <2>12. \A l \in Connections : CarriedBy(l) \cap Members(flush.line) = {}
    <3> SUFFICES ASSUME NEW l \in Connections, NEW n \in CarriedBy(l),
                        n \in Members(flush.line)
                 PROVE  FALSE
      OBVIOUS
    <3>1. n < n /\ n \in Nat
      BY <2>5, <2>8
    <3> QED
      BY <3>1
  <2>13. \A l, m \in Connections : l # m => CarriedBy(l)' \cap CarriedBy(m)' = {}
    <3> SUFFICES ASSUME NEW l \in Connections, NEW m \in Connections, l # m
                 PROVE  CarriedBy(l)' \cap CarriedBy(m)' = {}
      OBVIOUS
    <3>1. CarriedBy(l) \cap CarriedBy(m) = {}
      BY DEF OrderInv
    <3> QED
      BY <2>6, <2>7, <2>12, <3>1
  <2> QED
    BY <1>3, <2>10, <2>11, <2>13 DEF OrderInv
<1> QED
  BY <1>5, <1>6

LEMMA OrderStep ==
    ASSUME StreamInv, OrderInv, [Next]_vars
    PROVE  OrderInv'
<1>1. ProcessOK /\ BegunOnSocket /\ SocketOK /\ WireOK
  BY TypeParts
<1>2. LeavesFlush \/ StaysInFlush
  BY <1>1, EveryStep, LeavingStepLeaves, SocketStepStays
<1>3. BuffersOrdered' /\ \A n \in Nat : Below(n) => Below(n)'
  BY <1>1, <1>2, BuffersStep DEF OrderInv
<1>4. CASE UNCHANGED <<wire, delivered>>
  <2>1. \A l \in Connections : CarriedBy(l) \subseteq Nat /\ CarriedBy(l)' = CarriedBy(l)
    BY <1>4, CarriedNat DEF CarriedBy, StreamInv, TypeOK
  <2> QED
    BY <1>3, <1>4, <2>1 DEF OrderInv
<1>5. CASE SendBegin
  <2>1. PICK k \in Connections : k = conn
    BY <1>1, <1>5, OnConnection DEF SendBegin
  <2>2. /\ UNCHANGED delivered
        /\ wire' = [wire EXCEPT ![k] = Append(@, [line |-> <<>>, part |-> "begin"])]
        /\ wire \in [Connections -> Seq(Pieces)]
    BY <1>1, <1>5, <2>1 DEF SendBegin, readVars, WireOK
  <2>3. /\ wire'[k] = Append(wire[k], [line |-> <<>>, part |-> "begin"])
        /\ \A l \in Connections : l # k => wire'[l] = wire[l]
    BY <2>2, AppendType, BeginIsPiece
  <2>4. /\ Ordered(delivered'[k], wire'[k])
        /\ CarriedBy(k)' = CarriedBy(k)
    BY <2>2, <2>3, BeginOrdered DEF CarriedBy, OrderInv, StreamInv, TypeOK
  <2> QED
    BY <1>3, <2>2, <2>3, <2>4, NothingNew
<1>6. ASSUME NEW k \in Connections, Break(k)
      PROVE  OrderInv'
  <2>1. PICK n \in 0 .. Len(wire[k]) : wire' = [wire EXCEPT ![k] = SubSeq(@, 1, n)]
    BY <1>6 DEF Break
  <2>2. /\ UNCHANGED delivered /\ wire'[k] = SubSeq(wire[k], 1, n)
        /\ \A l \in Connections : l # k => wire'[l] = wire[l]
    BY <1>1, <1>6, <2>1 DEF Break, readVars, WireOK
  <2>3. /\ Ordered(delivered'[k], wire'[k])
        /\ CarriedBy(k)' \subseteq CarriedBy(k)
    BY <2>2, PrefixOrdered DEF CarriedBy, OrderInv, StreamInv, TypeOK
  <2> QED
    BY <1>3, <2>2, <2>3, NothingNew
<1>7. ASSUME NEW k \in Connections, Read(k)
      PROVE  OrderInv'
  <2>1. /\ wire[k] \in Seq(Pieces) /\ wire[k] # <<>> /\ delivered[k] \in Line
        /\ Ordered(delivered[k], wire[k])
        /\ wire'[k] = Tail(wire[k])
        /\ \A l \in Connections : l # k => wire'[l] = wire[l]
    BY <1>1, <1>7, ReadCases DEF OrderInv, WireOK
  <2>2. CASE UNCHANGED delivered
    <3>1. /\ Ordered(delivered'[k], wire'[k])
          /\ CarriedBy(k)' \subseteq CarriedBy(k)
      BY <2>1, <2>2, TailOrdered DEF CarriedBy
    <3> QED
      BY <1>3, <2>1, <2>2, <3>1, NothingNew
  <2>3. CASE ReadParsed(k)
    <3>1. /\ delivered'[k] = delivered[k] \o Head(wire[k]).line
          /\ \A l \in Connections : l # k => delivered'[l] = delivered[l]
      BY <1>1, <2>3 DEF ReadParsed, WireOK
    <3>2. /\ Ordered(delivered'[k], wire'[k])
          /\ CarriedBy(k)' \subseteq CarriedBy(k)
      BY <2>1, <3>1, DeliverOrdered DEF CarriedBy
    <3> QED
      BY <1>3, <2>1, <3>1, <3>2, NothingNew
  <2> QED
    BY <1>1, <1>7, <2>2, <2>3, ReadCases DEF ReadBegin, ReadGarbled
<1>8. CASE Wake \/ Publish \/ FlushFull \/ CollectReturns \/ CollectFails \/ Success \/ AlarmFires
           \/ Hup \/ Restart \/ Connect \/ ConnectFails \/ SendFails \/ GiveUp
           \/ UNCHANGED vars
  <2>1. UNCHANGED <<wire, delivered>>
    BY <1>8 DEF Wake, Publish, FlushFull, CollectReturns, CollectFails, Success, AlarmFires, Hup,
                Cut, Restart, Connect, ConnectFails, SendFails, GiveUp, vars, writeVars,
                readVars
  <2> QED
    BY <1>4, <2>1
<1>9. CASE SendEnd
  BY <1>9, SendEndOrder
<1> QED
  BY <1>5, <1>6, <1>7, <1>8, <1>9 DEF Next, FlushStep

LEMMA OrderInit == Init => OrderInv
<1> SUFFICES ASSUME Init PROVE OrderInv
  OBVIOUS
<1>1. /\ Members(<<>>) = {} /\ Increasing(<<>>)
      /\ Before(<<>>, <<>>) /\ Len(<<>>) = 0
  BY DEF Members, Increasing, Before
<1>2. Ordered(<<>>, <<>>) /\ Carried(<<>>, <<>>) = {}
  BY <1>1 DEF Ordered, Carried
<1>3. \A k \in Connections : wire[k] = <<>> /\ delivered[k] = <<>>
  BY DEF Init
<1>4. flush.line = <<>> /\ payload = <<>>
  BY DEF Init, NoFlush
<1> QED
  BY <1>1, <1>2, <1>3, <1>4 DEF OrderInv, BuffersOrdered, Pending, CarriedBy

\* No metric is delivered twice, whatever is retried, cut off, taken up by a new
\* connection or started again in a new process, and those of a connection are
\* delivered in the order they were made (flush, readDiamondMetrics).
THEOREM DeliveredOnce == Spec => []AtMostOnceInOrder
<1>1. Spec => []OrderInv
  BY OrderInit, OrderStep, StreamInvariant, PTL DEF Spec
<1>2. OrderInv => AtMostOnceInOrder
  <2> SUFFICES ASSUME OrderInv PROVE AtMostOnceInOrder
    OBVIOUS
  <2>1. \A k \in Connections : Increasing(delivered[k])
    BY DEF OrderInv, Ordered
  <2>2. \A k \in Connections : \A i \in 1 .. Len(delivered[k]) :
           delivered[k][i] \in CarriedBy(k)
    BY DEF CarriedBy, Carried, Members
  <2> QED
    BY <2>1, <2>2 DEF OrderInv, Increasing, AtMostOnceInOrder
<1> QED
  BY <1>1, <1>2, PTL

-----------------------------------------------------------------------------
(***************************************************************************)
(* The stream implements StreamPromise.                                    *)
(***************************************************************************)
LEMMA OnWireAppend ==
    ASSUME NEW w \in Seq(Pieces), NEW piece \in Pieces
    PROVE  OnWire(Append(w, piece)) = OnWire(w) \cup Members(piece.line)
<1> DEFINE u == Append(w, piece)
<1>1. /\ Len(w) \in Nat /\ Len(u) = Len(w) + 1 /\ u[Len(w) + 1] = piece
      /\ \A i \in 1 .. Len(w) : u[i] = w[i]
  BY AppendProperties
<1> HIDE DEF u
<1>2. ASSUME NEW n \in OnWire(u) PROVE n \in OnWire(w) \cup Members(piece.line)
  <2>1. PICK i \in 1 .. Len(u) : n \in Members(u[i].line)
    BY DEF OnWire
  <2>2. i \in 1 .. Len(w) \/ i = Len(w) + 1
    BY <1>1
  <2> QED
    BY <1>1, <2>1, <2>2 DEF OnWire
<1>3. ASSUME NEW n \in OnWire(w) PROVE n \in OnWire(u)
  <2>1. PICK i \in 1 .. Len(w) : n \in Members(w[i].line)
    BY DEF OnWire
  <2>2. i \in 1 .. Len(u)
    BY <1>1
  <2> QED
    BY <1>1, <2>1, <2>2 DEF OnWire
<1>4. Members(piece.line) \subseteq OnWire(u)
  <2>1. Len(w) + 1 \in 1 .. Len(u)
    BY <1>1
  <2> QED
    BY <1>1, <2>1 DEF OnWire
<1> QED
  BY <1>2, <1>3, <1>4 DEF u

\* What a break leaves is older than what it takes.
LEMMA OnWirePrefix ==
    ASSUME NEW d, NEW w \in Seq(Pieces), NEW n \in 0 .. Len(w), Ordered(d, w)
    PROVE  /\ OnWire(SubSeq(w, 1, n)) \subseteq OnWire(w)
           /\ Promise!Older(OnWire(SubSeq(w, 1, n)), OnWire(w) \ OnWire(SubSeq(w, 1, n)))
<1> DEFINE u == SubSeq(w, 1, n)
<1>1. Len(u) = n /\ Len(w) \in Nat /\ \A i \in 1 .. n : u[i] = w[i] /\ i \in 1 .. Len(w)
  BY PrefixProperties, LenProperties
<1> HIDE DEF u
<1>2. OnWire(u) \subseteq OnWire(w)
  BY <1>1 DEF OnWire
<1>3. ASSUME NEW a \in OnWire(u), NEW b \in OnWire(w) \ OnWire(u)
      PROVE  a < b
  <2>1. PICK i \in 1 .. n : a \in Members(w[i].line)
    BY <1>1 DEF OnWire
  <2>2. PICK j \in 1 .. Len(w) : b \in Members(w[j].line)
    BY DEF OnWire
  <2>3. j \notin 1 .. n
    BY <1>1, <2>2 DEF OnWire
  <2>4. i \in 1 .. Len(w) /\ i < j
    BY <1>1, <2>3
  <2>5. Before(w[i].line, w[j].line)
    BY <2>4 DEF Ordered
  <2> QED
    BY <2>1, <2>2, <2>5 DEF Before, Members
<1> QED
  BY <1>2, <1>3 DEF u, Promise!Older

\* What is read is the oldest, and is gone from the wire.
LEMMA OnWireTail ==
    ASSUME NEW d, NEW w \in Seq(Pieces), w # <<>>, Ordered(d, w)
    PROVE  /\ Members(Head(w).line) \subseteq OnWire(w)
           /\ OnWire(Tail(w)) = OnWire(w) \ Members(Head(w).line)
           /\ Promise!Older(Members(Head(w).line), OnWire(w) \ Members(Head(w).line))
<1> DEFINE u == Tail(w)
<1>1. /\ Len(w) \in Nat \ {0} /\ Len(u) = Len(w) - 1
      /\ \A i \in 1 .. Len(u) : u[i] = w[i + 1]
  BY HeadTailProperties, EmptySeq
<1>2. Head(w) = w[1] /\ 1 \in 1 .. Len(w)
  BY <1>1
<1> HIDE DEF u
<1>3. Members(w[1].line) \subseteq OnWire(w)
  BY <1>2 DEF OnWire
<1>4. \A j \in 1 .. Len(w) : j # 1 =>
         \A a \in Members(w[1].line), b \in Members(w[j].line) : a < b
  <2> SUFFICES ASSUME NEW j \in 1 .. Len(w), j # 1 PROVE Before(w[1].line, w[j].line)
    BY DEF Before, Members
  <2>1. 1 < j
    BY <1>1
  <2> QED
    BY <1>2, <2>1 DEF Ordered
<1>5. \A a \in Members(w[1].line) : a \in Nat
  BY <1>2, LineOfPiece DEF Members, Line
<1>6. ASSUME NEW b \in OnWire(u)
      PROVE  b \in OnWire(w) /\ b \notin Members(w[1].line)
  <2>1. PICK i \in 1 .. Len(u) : b \in Members(u[i].line)
    BY DEF OnWire
  <2>2. i + 1 \in 1 .. Len(w) /\ i + 1 # 1 /\ b \in Members(w[i + 1].line)
    BY <1>1, <2>1
  <2>3. b \notin Members(w[1].line)
    <3>1. b \in Members(w[1].line) => b < b /\ b \in Nat
      BY <1>4, <1>5, <2>2
    <3> QED
      BY <3>1
  <2> QED
    BY <2>2, <2>3 DEF OnWire
<1>7. ASSUME NEW b \in OnWire(w), b \notin Members(w[1].line)
      PROVE  b \in OnWire(u) /\ \A a \in Members(w[1].line) : a < b
  <2>1. PICK j \in 1 .. Len(w) : b \in Members(w[j].line)
    BY DEF OnWire
  <2>2. j # 1
    BY <1>7, <2>1
  <2>3. j - 1 \in 1 .. Len(u) /\ (j - 1) + 1 = j
    BY <1>1, <2>2
  <2>4. u[j - 1] = w[j]
    BY <1>1, <2>3
  <2> QED
    BY <1>4, <2>1, <2>2, <2>3, <2>4 DEF OnWire
<1> QED
  BY <1>2, <1>3, <1>6, <1>7 DEF u, Promise!Older

\* The process makes at most one metric, and holds nothing but that and what it
\* held before.
LEMMA HeldStep ==
    ASSUME ProcessOK, LeavesFlush \/ StaysInFlush
    PROVE  /\ made' \in {made, made + 1}
           /\ Pending' \subseteq Pending \cup (made + 1 .. made')
<1>1. /\ made \in Nat /\ Members(<<>>) = {}
      /\ Members(Grown) = Members(payload) \cup {made + 1}
  <2>1. made \in Nat /\ Members(<<>>) = {}
    BY DEF ProcessOK, Members
  <2> QED
    BY <2>1, GrownMembers
<1>2. /\ made' = made => made + 1 .. made' = {}
      /\ made' = made + 1 => made + 1 .. made' = {made + 1}
  BY <1>1
<1> DEFINE Kept == payload' \in {payload, <<>>} /\ flush'.line \in {flush.line, <<>>}
                   /\ made' = made
           Reported == payload' = Grown /\ flush'.line \in {flush.line, <<>>}
                       /\ made' = made + 1
           Moved == payload' = <<>> /\ flush'.line = payload /\ made' = made
           MovedGrown == payload' = <<>> /\ flush'.line = Grown /\ made' = made + 1
<1>3. Kept \/ Reported \/ Moved \/ MovedGrown
  BY DEF LeavesFlush, StaysInFlush
<1>4. Pending' = Members(flush'.line) \cup Members(payload')
  BY DEF Pending, Members
<1>5. CASE Kept \/ Moved
  BY <1>1, <1>2, <1>4, <1>5 DEF Pending
<1>6. CASE Reported \/ MovedGrown
  BY <1>1, <1>2, <1>4, <1>6 DEF Pending
<1> QED
  BY <1>3, <1>5, <1>6

LEMMA PromiseInits == Init => Promise!PromiseInit
<1> SUFFICES ASSUME Init PROVE Promise!PromiseInit
  OBVIOUS
<1>1. Members(<<>>) = {} /\ OnWire(<<>>) = {}
  BY DEF Members, OnWire
<1>2. /\ flush.line = <<>> /\ payload = <<>> /\ made = 0
      /\ \A k \in Connections : wire[k] = <<>> /\ delivered[k] = <<>>
  BY DEF Init, NoFlush
<1> QED
  BY <1>1, <1>2 DEF Promise!PromiseInit

LEMMA PromiseSteps ==
    ASSUME StreamInv, OrderInv, [Next]_vars
    PROVE  [Promise!PromiseNext]_(Promise!promiseVars)
<1> DEFINE Underway == [k \in Connections |-> OnWire(wire[k])]
           Arrived == [k \in Connections |-> Members(delivered[k])]
<1>1. ProcessOK /\ BegunOnSocket /\ SocketOK /\ WireOK
  BY TypeParts
<1>2. LeavesFlush \/ StaysInFlush
  BY <1>1, EveryStep, LeavingStepLeaves, SocketStepStays
<1>3. /\ made' \in {made, made + 1}
      /\ Pending' \subseteq Pending \cup (made + 1 .. made')
  BY <1>1, <1>2, HeldStep
<1>4. CASE UNCHANGED <<Underway, Arrived>>
  BY <1>3, <1>4 DEF Promise!PromiseNext, Promise!PromiseServe, Pending
<1>5. CASE SendBegin
  <2> DEFINE piece == [line |-> <<>>, part |-> "begin"]
  <2>1. PICK k \in Connections : k = conn
    BY <1>1, <1>5, OnConnection DEF SendBegin
  <2>2. /\ UNCHANGED delivered /\ wire[k] \in Seq(Pieces)
        /\ wire'[k] = Append(wire[k], piece)
        /\ \A l \in Connections : l # k => wire'[l] = wire[l]
    BY <1>1, <1>5, <2>1, AppendType, BeginIsPiece DEF SendBegin, readVars, WireOK
  <2>3. piece.line = <<>> /\ Members(<<>>) = {} /\ piece \in Pieces
    BY BeginIsPiece DEF Members
  <2> HIDE DEF piece
  <2>4. OnWire(wire'[k]) = OnWire(wire[k])
    BY <2>2, <2>3, OnWireAppend
  <2> QED
    BY <1>4, <2>2, <2>4
<1>6. CASE SendEnd
  <2>1. PICK k \in Connections : k = conn
    BY <1>1, <1>6, OnConnection DEF SendEnd
  <2>2. UNCHANGED delivered
    BY <1>6 DEF SendEnd, readVars
  <2>3. CASE broken[k]
    <3>1. UNCHANGED wire
      BY <1>6, <2>1, <2>3 DEF SendEnd
    <3> QED
      BY <1>4, <2>2, <3>1
  <2>4. CASE ~broken[k]
    <3> DEFINE piece == [line |-> flush.line,
                         part |-> IF flush.begun THEN "rest" ELSE "whole"]
    <3>1. /\ piece \in Pieces /\ piece.line = flush.line
          /\ wire[k] \in Seq(Pieces)
          /\ wire'[k] = Append(wire[k], piece)
          /\ \A l \in Connections : l # k => wire'[l] = wire[l]
      BY <1>1, <1>6, <2>1, <2>4, EndIsPiece, AppendType DEF SendEnd, WireOK
    <3> HIDE DEF piece
    <3>2. OnWire(wire'[k]) = OnWire(wire[k]) \cup Members(flush.line)
      BY <3>1, OnWireAppend
    <3>3. Underway' = [Underway EXCEPT ![k] = @ \cup Members(flush.line)]
      BY <3>1, <3>2
    <3>4. LeavesFlush
      BY <1>1, <1>6, LeavingStepLeaves DEF LeavingStep
    <3>5. Promise!Older(Members(flush.line), Pending')
      BY <1>1, <3>4, LeavingBelow DEF OrderInv, Below, Promise!Older
    <3>6. Members(flush.line) \in SUBSET Pending
      BY DEF Pending
    <3> QED
      BY <1>3, <2>2, <3>3, <3>5, <3>6 DEF Promise!PromiseNext, Promise!PromiseServe, Pending
  <2> QED
    BY <2>3, <2>4
<1>7. ASSUME NEW k \in Connections, Break(k)
      PROVE  Promise!PromiseNext
  <2>1. PICK n \in 0 .. Len(wire[k]) : wire' = [wire EXCEPT ![k] = SubSeq(@, 1, n)]
    BY <1>7 DEF Break
  <2>2. /\ UNCHANGED <<delivered, made, flush, payload>> /\ wire'[k] = SubSeq(wire[k], 1, n)
        /\ \A l \in Connections : l # k => wire'[l] = wire[l]
        /\ wire[k] \in Seq(Pieces) /\ Ordered(delivered[k], wire[k])
    BY <1>1, <1>7, <2>1 DEF Break, readVars, processVars, bufferVars, WireOK, OrderInv
  <2>3. /\ OnWire(wire'[k]) \in SUBSET OnWire(wire[k])
        /\ Promise!Older(OnWire(wire'[k]), OnWire(wire[k]) \ OnWire(wire'[k]))
    BY <2>2, OnWirePrefix
  <2>4. Underway' = [Underway EXCEPT ![k] = OnWire(wire'[k])]
    BY <2>2
  <2> QED
    BY <2>2, <2>3, <2>4 DEF Promise!PromiseNext, Promise!PromiseBreak
<1>8. ASSUME NEW k \in Connections, Read(k)
      PROVE  Promise!PromiseNext
  <2> DEFINE line == Members(Head(wire[k]).line)
  <2>1. /\ wire[k] \in Seq(Pieces) /\ wire[k] # <<>> /\ delivered[k] \in Line
        /\ Ordered(delivered[k], wire[k])
        /\ wire'[k] = Tail(wire[k])
        /\ \A l \in Connections : l # k => wire'[l] = wire[l]
        /\ UNCHANGED <<made, flush, payload>>
    BY <1>1, <1>8, ReadCases DEF OrderInv, WireOK, processVars, bufferVars
  <2>2. /\ line \in SUBSET OnWire(wire[k])
        /\ OnWire(wire'[k]) = OnWire(wire[k]) \ line
        /\ Promise!Older(line, OnWire(wire[k]) \ line)
    BY <2>1, OnWireTail
  <2>3. Underway' = [Underway EXCEPT ![k] = @ \ line]
    BY <2>1, <2>2
  <2>4. \/ UNCHANGED Arrived
        \/ Arrived' = [Arrived EXCEPT ![k] = @ \cup line]
    <3>1. CASE UNCHANGED delivered
      BY <3>1
    <3>2. CASE ReadParsed(k)
      <4>1. /\ delivered'[k] = delivered[k] \o Head(wire[k]).line
            /\ \A l \in Connections : l # k => delivered'[l] = delivered[l]
        BY <1>1, <3>2 DEF ReadParsed, WireOK
      <4>2. Head(wire[k]).line \in Line
        BY <1>1, <1>8, ReadCases
      <4>3. Members(delivered'[k]) = Members(delivered[k]) \cup line
        BY <2>1, <4>1, <4>2, MembersConcat
      <4> QED
        BY <4>1, <4>3
    <3> QED
      BY <1>1, <1>8, <3>1, <3>2, ReadCases DEF ReadBegin, ReadGarbled
  <2> HIDE DEF line, Underway, Arrived
  <2>5. Underway[k] = OnWire(wire[k])
    BY DEF Underway
  <2>6. Promise!PromiseHandOver(k)
    BY <2>1, <2>2, <2>3, <2>4, <2>5 DEF Promise!PromiseHandOver, Underway, Arrived
  <2> QED
    BY <2>6 DEF Promise!PromiseNext
<1>9. CASE Wake \/ Publish \/ FlushFull \/ CollectReturns \/ CollectFails \/ Success \/ AlarmFires
           \/ Hup \/ Restart \/ Connect \/ ConnectFails \/ SendFails \/ GiveUp
           \/ UNCHANGED vars
  <2>1. UNCHANGED <<wire, delivered>>
    BY <1>9 DEF Wake, Publish, FlushFull, CollectReturns, CollectFails, Success, AlarmFires, Hup,
                Cut, Restart, Connect, ConnectFails, SendFails, GiveUp, vars, writeVars,
                readVars
  <2> QED
    BY <1>4, <2>1
<1> QED
  BY <1>5, <1>6, <1>7, <1>8, <1>9 DEF Next, FlushStep

\* The stream, with its lines, attempts, connections and signals, implements
\* StreamPromise: what is lost on the way is lost for good, and what arrives was
\* sent once, after everything that is older and before everything still held.
THEOREM StreamKeepsPromise == Spec => PromiseKept
<1>1. Spec => [](StreamInv /\ OrderInv)
  BY OrderInit, OrderStep, StreamInvariant, PTL DEF Spec
<1> QED
  BY <1>1, PromiseInits, PromiseSteps, PTL
  DEF Spec, PromiseKept, Promise!PromiseSpec

-----------------------------------------------------------------------------
(***************************************************************************)
(* Counting pieces.                                                        *)
(***************************************************************************)
\* How many of the first n pieces of w are one of parts.
Found(w, n, parts) == {i \in 1 .. n : w[i].part \in parts}
Count(w, n, parts) == Cardinality(Found(w, n, parts))
One(piece, parts) == IF piece.part \in parts THEN 1 ELSE 0

LEMMA FoundFinite ==
    ASSUME NEW w, NEW n \in Nat, NEW parts
    PROVE  IsFiniteSet(Found(w, n, parts)) /\ Count(w, n, parts) \in Nat
<1>1. IsFiniteSet(1 .. n)
  BY FS_Interval
<1>2. Found(w, n, parts) \in SUBSET (1 .. n)
  BY DEF Found
<1>3. IsFiniteSet(Found(w, n, parts))
  BY <1>1, <1>2, FS_Subset
<1> QED
  BY <1>3, FS_CardinalityType DEF Count

LEMMA CountNone == \A w, parts : Count(w, 0, parts) = 0
<1> SUFFICES ASSUME NEW w, NEW parts PROVE Count(w, 0, parts) = 0
  OBVIOUS
<1>1. Found(w, 0, parts) = {}
  BY DEF Found
<1> QED
  BY <1>1, FS_EmptySet DEF Count

LEMMA CountNext ==
    ASSUME NEW w, NEW n \in Nat, NEW parts
    PROVE  Count(w, n + 1, parts) = Count(w, n, parts) + One(w[n + 1], parts)
<1>1. IsFiniteSet(Found(w, n, parts)) /\ Count(w, n, parts) \in Nat
  BY FoundFinite
<1>2. CASE w[n + 1].part \in parts
  <2>1. Found(w, n + 1, parts) = Found(w, n, parts) \cup {n + 1}
    BY <1>2 DEF Found
  <2>2. n + 1 \notin Found(w, n, parts)
    BY DEF Found
  <2>3. Cardinality(Found(w, n, parts) \cup {n + 1}) = Cardinality(Found(w, n, parts)) + 1
    BY <1>1, <2>2, FS_AddElement
  <2> QED
    BY <1>2, <2>1, <2>3 DEF Count, One
<1>3. CASE ~(w[n + 1].part \in parts)
  <2>1. Found(w, n + 1, parts) = Found(w, n, parts)
    BY <1>3 DEF Found
  <2> QED
    BY <1>1, <1>3, <2>1 DEF Count, One
<1> QED
  BY <1>2, <1>3

LEMMA CountSame ==
    ASSUME NEW u, NEW w, NEW n \in Nat, NEW parts, \A i \in 1 .. n : u[i] = w[i]
    PROVE  Count(u, n, parts) = Count(w, n, parts)
<1>1. Found(u, n, parts) = Found(w, n, parts)
  BY DEF Found
<1> QED
  BY <1>1 DEF Count

LEMMA CountTail ==
    ASSUME NEW w \in Seq(Pieces), w # <<>>, NEW n \in 0 .. Len(w) - 1, NEW parts
    PROVE  Count(w, n + 1, parts) = Count(Tail(w), n, parts) + One(w[1], parts)
<1> DEFINE u == Tail(w)
           S == Found(u, n, parts)
           T == {i + 1 : i \in S}
           f == [i \in S |-> i + 1]
<1>1. /\ Len(w) \in Nat /\ n \in Nat /\ 1 .. n \subseteq 1 .. Len(u)
      /\ \A i \in 1 .. n : u[i] = w[i + 1]
  BY HeadTailProperties
<1>2. IsFiniteSet(S) /\ Cardinality(S) \in Nat /\ \A i \in S : i \in 1 .. n
  BY <1>1, FoundFinite DEF Count, Found
<1>3. \A i \in 1 .. n : i \in S <=> w[i + 1].part \in parts
  BY <1>1 DEF Found
<1> HIDE DEF u, S
<1>4. Cardinality(T) = Cardinality(S) /\ IsFiniteSet(T)
  <2>1. f \in [S -> T] /\ \A y \in T : \E x \in S : f[x] = y
    OBVIOUS
  <2>2. \A x, y \in S : f[x] = f[y] => x = y
    BY <1>2
  <2>3. f \in Bijection(S, T)
    BY <2>1, <2>2 DEF Bijection, Injection, Surjection, IsInjective
  <2>4. ExistsBijection(S, T)
    BY <2>3 DEF ExistsBijection
  <2> QED
    BY <1>2, <2>4, FS_Bijection
<1>5. Found(w, n + 1, parts) \ {1} = T
  <2>1. ASSUME NEW x \in Found(w, n + 1, parts), x # 1 PROVE x \in T
    <3>1. x - 1 \in 1 .. n /\ w[(x - 1) + 1].part \in parts /\ (x - 1) + 1 = x
      BY <1>1, <2>1 DEF Found
    <3> QED
      BY <1>3, <3>1
  <2>2. ASSUME NEW x \in T PROVE x \in Found(w, n + 1, parts) /\ x # 1
    BY <1>1, <1>2, <1>3, <2>2 DEF Found
  <2> QED
    BY <2>1, <2>2
<1>6. 1 \in Found(w, n + 1, parts) <=> w[1].part \in parts
  BY <1>1 DEF Found
<1>7. 1 \notin T
  BY <1>2
<1> HIDE DEF T
<1>8. CASE w[1].part \in parts
  <2>1. Found(w, n + 1, parts) = T \cup {1}
    BY <1>5, <1>6, <1>8
  <2>2. Cardinality(T \cup {1}) = Cardinality(T) + 1
    BY <1>4, <1>7, FS_AddElement
  <2> QED
    BY <1>4, <1>8, <2>1, <2>2 DEF Count, One, S, u
<1>9. CASE ~(w[1].part \in parts)
  <2>1. Found(w, n + 1, parts) = T
    BY <1>5, <1>6, <1>9
  <2> QED
    BY <1>2, <1>4, <1>9, <2>1 DEF Count, One, S, u
<1> QED
  BY <1>8, <1>9

-----------------------------------------------------------------------------
(***************************************************************************)
(* Cut lines.  b is the number of beginnings a reader has read since the   *)
(* last newline and w what is on its way to it.  Of the beginnings up to   *)
(* some piece, those that are not followed by the rest of their line are   *)
(* its debt: each belongs to a line that was cut, and all that come before *)
(* one newline garble one line.                                            *)
(***************************************************************************)
Debt(b, w, n) == b + Count(w, n, {"begin"}) - Count(w, n, {"rest"})

\* Every line on the way finds at most left beginnings that are not its own.
Covered(b, w, left) ==
    \A n \in 1 .. Len(w) : w[n].part # "begin" => Debt(b, w, n) <= left

\* The rest of a line follows its beginning, and so will the one being sent.
Paired(b, w) ==
    \A n \in 1 .. Len(w) :
        w[n].part = "rest" => IF n = 1 THEN b > 0 ELSE w[n - 1].part = "begin"
EndsOpen(b, w) == IF w = <<>> THEN b > 0 ELSE w[Len(w)].part = "begin"

LEMMA DebtInt ==
    ASSUME NEW b \in Nat, NEW w, NEW n \in Nat
    PROVE  Debt(b, w, n) \in Int
  BY FoundFinite DEF Debt

LEMMA PrefixCovered ==
    ASSUME NEW w \in Seq(Pieces), NEW n \in 0 .. Len(w), NEW b \in Nat,
           NEW left \in Int, Covered(b, w, left), Paired(b, w)
    PROVE  Covered(b, SubSeq(w, 1, n), left) /\ Paired(b, SubSeq(w, 1, n))
<1> DEFINE u == SubSeq(w, 1, n)
<1>1. /\ Len(u) = n /\ n \in Nat
      /\ \A i \in 1 .. n : u[i] = w[i] /\ i \in 1 .. Len(w)
  BY PrefixProperties
<1> HIDE DEF u
<1>2. ASSUME NEW i \in 1 .. n PROVE Debt(b, u, i) = Debt(b, w, i)
  <2>1. i \in Nat /\ \A j \in 1 .. i : u[j] = w[j]
    BY <1>1
  <2> QED
    BY <2>1, CountSame DEF Debt
<1>3. Covered(b, u, left)
  BY <1>1, <1>2 DEF Covered
<1>4. Paired(b, u)
  <2> SUFFICES ASSUME NEW i \in 1 .. Len(u), u[i].part = "rest"
               PROVE  IF i = 1 THEN b > 0 ELSE u[i - 1].part = "begin"
    BY DEF Paired
  <2>1. w[i].part = "rest" /\ i \in 1 .. Len(w)
    BY <1>1
  <2>2. i # 1 => i - 1 \in 1 .. n
    BY <1>1
  <2> QED
    BY <1>1, <2>1, <2>2 DEF Paired
<1> QED
  BY <1>3, <1>4 DEF u

\* What a reader that takes one piece has read then, and how many lines it garbled.
AfterRead(b, piece) == IF piece.part = "begin" THEN b + 1 ELSE 0
Garbles(b, piece) ==
    IF piece.part # "begin" /\ b # (IF piece.part = "rest" THEN 1 ELSE 0) THEN 1 ELSE 0

LEMMA TailDebt ==
    ASSUME NEW w \in Seq(Pieces), w # <<>>, NEW b \in Nat, Paired(b, w),
           NEW n \in 0 .. Len(w) - 1
    PROVE  Debt(AfterRead(b, w[1]), Tail(w), n) <= Debt(b, w, n + 1) - Garbles(b, w[1])
<1>1. /\ 1 \in 1 .. Len(w) /\ w[1].part \in {"begin", "rest", "whole"} /\ n \in Nat
  <2>1. 1 \in 1 .. Len(w) /\ n \in Nat
    OBVIOUS
  <2>2. w[1] \in Pieces
    BY <2>1, LineOfPiece
  <2> QED
    BY <2>1, <2>2 DEF Pieces
<1>2. /\ Count(w, n + 1, {"begin"}) = Count(Tail(w), n, {"begin"}) + One(w[1], {"begin"})
      /\ Count(w, n + 1, {"rest"}) = Count(Tail(w), n, {"rest"}) + One(w[1], {"rest"})
  BY CountTail
<1>3. Count(Tail(w), n, {"begin"}) \in Nat /\ Count(Tail(w), n, {"rest"}) \in Nat
  BY <1>1, FoundFinite
<1>4. w[1].part = "rest" => b > 0
  BY <1>1 DEF Paired
<1>5. CASE w[1].part = "begin"
  <2>1. One(w[1], {"begin"}) = 1 /\ One(w[1], {"rest"}) = 0
    BY <1>5 DEF One
  <2>2. AfterRead(b, w[1]) = b + 1 /\ Garbles(b, w[1]) = 0
    BY <1>5 DEF AfterRead, Garbles
  <2> QED
    BY <1>2, <1>3, <2>1, <2>2 DEF Debt
<1>6. CASE w[1].part = "rest"
  <2>1. One(w[1], {"begin"}) = 0 /\ One(w[1], {"rest"}) = 1
    BY <1>6 DEF One
  <2>2. AfterRead(b, w[1]) = 0 /\ Garbles(b, w[1]) = IF b # 1 THEN 1 ELSE 0
    BY <1>6 DEF AfterRead, Garbles
  <2> QED
    BY <1>2, <1>3, <1>4, <1>6, <2>1, <2>2 DEF Debt
<1>7. CASE w[1].part = "whole"
  <2>1. One(w[1], {"begin"}) = 0 /\ One(w[1], {"rest"}) = 0
    BY <1>7 DEF One
  <2>2. AfterRead(b, w[1]) = 0 /\ Garbles(b, w[1]) = IF b # 0 THEN 1 ELSE 0
    BY <1>7 DEF AfterRead, Garbles
  <2> QED
    BY <1>2, <1>3, <2>1, <2>2 DEF Debt
<1> QED
  BY <1>1, <1>5, <1>6, <1>7

LEMMA TailCovered ==
    ASSUME NEW w \in Seq(Pieces), w # <<>>, NEW b \in Nat, NEW left \in Nat,
           Covered(b, w, left), Paired(b, w)
    PROVE  LET c == AfterRead(b, w[1])
               u == Tail(w)
           IN  /\ Garbles(b, w[1]) <= left
               /\ Covered(c, u, left - Garbles(b, w[1]))
               /\ Paired(c, u)
               /\ EndsOpen(b, w) => EndsOpen(c, u)
<1> DEFINE c == AfterRead(b, w[1])
           u == Tail(w)
           g == Garbles(b, w[1])
<1>1. /\ Len(w) \in Nat /\ Len(u) = Len(w) - 1 /\ 1 \in 1 .. Len(w)
      /\ \A i \in 1 .. Len(u) : u[i] = w[i + 1] /\ i + 1 \in 1 .. Len(w)
      /\ w[1].part \in {"begin", "rest", "whole"}
  <2>1. /\ Len(w) \in Nat /\ Len(u) = Len(w) - 1 /\ 1 \in 1 .. Len(w)
        /\ \A i \in 1 .. Len(u) : u[i] = w[i + 1] /\ i + 1 \in 1 .. Len(w)
    BY HeadTailProperties
  <2>2. w[1].part \in {"begin", "rest", "whole"}
    BY <2>1, LineOfPiece DEF Pieces
  <2> QED
    BY <2>1, <2>2
<1>2. c \in Nat /\ g \in {0, 1}
  BY DEF AfterRead, Garbles
<1>3. \A n \in 0 .. Len(w) - 1 : Debt(c, u, n) <= Debt(b, w, n + 1) - g
  BY TailDebt
<1>4. w[1].part = "begin" => c > 0
  BY DEF AfterRead
<1>5. u = <<>> <=> Len(u) = 0
  <2>1. u \in Seq(Pieces)
    BY HeadTailProperties
  <2> HIDE DEF u
  <2> QED
    BY <2>1
<1>6. g <= left
  <2>1. CASE w[1].part = "begin"
    BY <2>1 DEF Garbles
  <2>2. CASE w[1].part # "begin"
    <3>1. Debt(b, w, 1) <= left
      BY <1>1, <2>2 DEF Covered
    <3>2. Debt(c, u, 0) <= Debt(b, w, 0 + 1) - g
      BY <1>1, <1>3
    <3>3. Debt(c, u, 0) = c
      BY <1>2, CountNone DEF Debt
    <3>4. Debt(b, w, 1) \in Int
      BY DebtInt
    <3> QED
      BY <1>2, <3>1, <3>2, <3>3, <3>4
  <2> QED
    BY <2>1, <2>2
<1>7. \A n \in 1 .. Len(u) : Debt(c, u, n) \in Int /\ Debt(b, w, n + 1) \in Int
  BY <1>1, <1>2, DebtInt
<1> HIDE DEF c, u, g
<1>8. Covered(c, u, left - g)
  <2> SUFFICES ASSUME NEW n \in 1 .. Len(u), u[n].part # "begin"
               PROVE  Debt(c, u, n) <= left - g
    BY DEF Covered
  <2>1. n \in 0 .. Len(w) - 1 /\ n + 1 \in 1 .. Len(w) /\ w[n + 1].part # "begin"
    BY <1>1
  <2>2. Debt(b, w, n + 1) <= left
    BY <2>1 DEF Covered
  <2>3. Debt(c, u, n) <= Debt(b, w, n + 1) - g
    BY <1>3, <2>1
  <2> QED
    BY <1>2, <1>7, <2>2, <2>3
<1>9. Paired(c, u)
  <2> SUFFICES ASSUME NEW n \in 1 .. Len(u), u[n].part = "rest"
               PROVE  IF n = 1 THEN c > 0 ELSE u[n - 1].part = "begin"
    BY DEF Paired
  <2>1. n + 1 \in 1 .. Len(w) /\ w[n + 1].part = "rest" /\ n + 1 # 1 /\ (n + 1) - 1 = n
    BY <1>1
  <2>2. w[n].part = "begin"
    BY <2>1 DEF Paired
  <2>3. n # 1 => n - 1 \in 1 .. Len(u) /\ (n - 1) + 1 = n
    BY <1>1
  <2> QED
    BY <1>1, <1>4, <2>2, <2>3
<1>10. EndsOpen(b, w) => EndsOpen(c, u)
  <2>1. CASE Len(u) = 0
    <3>1. Len(w) = 1
      BY <1>1, <2>1
    <3> QED
      BY <1>4, <1>5, <2>1, <3>1 DEF EndsOpen
  <2>2. CASE Len(u) # 0
    <3>1. Len(u) \in 1 .. Len(u) /\ u[Len(u)] = w[Len(w)]
      BY <1>1, <2>2
    <3> QED
      BY <1>5, <2>2, <3>1 DEF EndsOpen
  <2> QED
    BY <2>1, <2>2
<1> QED
  BY <1>6, <1>8, <1>9, <1>10 DEF c, u, g

LEMMA AppendCovered ==
    ASSUME NEW w \in Seq(Pieces), NEW piece \in Pieces, NEW b \in Nat, NEW left \in Int,
           Covered(b, w, left), Paired(b, w),
           piece.part # "begin" =>
               Debt(b, w, Len(w)) - One(piece, {"rest"}) <= left,
           piece.part = "rest" => EndsOpen(b, w)
    PROVE  LET u == Append(w, piece)
           IN  /\ Covered(b, u, left) /\ Paired(b, u)
               /\ Len(u) = Len(w) + 1
               /\ Debt(b, u, Len(u)) = Debt(b, w, Len(w)) + One(piece, {"begin"})
                                                          - One(piece, {"rest"})
               /\ piece.part = "begin" => EndsOpen(b, u)
               /\ \A parts : Count(u, Len(u), parts)
                               = Count(w, Len(w), parts) + One(piece, parts)
<1> DEFINE u == Append(w, piece)
<1>1. /\ Len(w) \in Nat /\ Len(u) = Len(w) + 1 /\ u[Len(w) + 1] = piece /\ u # <<>>
      /\ \A i \in 1 .. Len(w) : u[i] = w[i]
  BY AppendProperties
<1>2. w # <<>> => Len(w) > 0
  OBVIOUS
<1> HIDE DEF u
<1>3. \A parts : \A n \in 0 .. Len(w) : Count(u, n, parts) = Count(w, n, parts)
  <2> SUFFICES ASSUME NEW parts, NEW n \in 0 .. Len(w)
               PROVE  Count(u, n, parts) = Count(w, n, parts)
    OBVIOUS
  <2>1. n \in Nat /\ \A i \in 1 .. n : u[i] = w[i]
    BY <1>1
  <2> QED
    BY <2>1, CountSame
<1>4. \A parts : Count(u, Len(u), parts) = Count(w, Len(w), parts) + One(piece, parts)
  <2> SUFFICES ASSUME NEW parts
               PROVE  Count(u, Len(w) + 1, parts)
                        = Count(w, Len(w), parts) + One(piece, parts)
    BY <1>1
  <2>1. Count(u, Len(w) + 1, parts) = Count(u, Len(w), parts) + One(u[Len(w) + 1], parts)
    BY <1>1, CountNext
  <2> QED
    BY <1>1, <1>3, <2>1
<1>5. Debt(b, u, Len(u)) = Debt(b, w, Len(w)) + One(piece, {"begin"}) - One(piece, {"rest"})
  <2>1. /\ Count(w, Len(w), {"begin"}) \in Nat /\ Count(w, Len(w), {"rest"}) \in Nat
        /\ One(piece, {"begin"}) \in Nat /\ One(piece, {"rest"}) \in Nat
    BY <1>1, FoundFinite DEF One
  <2> QED
    BY <1>4, <2>1 DEF Debt
<1>6. Covered(b, u, left)
  <2> SUFFICES ASSUME NEW n \in 1 .. Len(u), u[n].part # "begin"
               PROVE  Debt(b, u, n) <= left
    BY DEF Covered
  <2>1. CASE n \in 1 .. Len(w)
    <3>1. u[n] = w[n] /\ n \in 0 .. Len(w)
      BY <1>1, <2>1
    <3>2. Debt(b, u, n) = Debt(b, w, n)
      BY <1>3, <3>1 DEF Debt
    <3> QED
      BY <2>1, <3>1, <3>2 DEF Covered
  <2>2. CASE n = Len(w) + 1
    <3>1. piece.part # "begin" /\ n = Len(u)
      BY <1>1, <2>2
    <3>2. One(piece, {"begin"}) = 0
      BY <3>1 DEF One
    <3>3. Debt(b, w, Len(w)) \in Int /\ One(piece, {"rest"}) \in Int
      BY <1>1, DebtInt DEF One
    <3> QED
      BY <1>5, <3>1, <3>2, <3>3
  <2> QED
    BY <1>1, <2>1, <2>2
<1>7. Paired(b, u)
  <2> SUFFICES ASSUME NEW n \in 1 .. Len(u), u[n].part = "rest"
               PROVE  IF n = 1 THEN b > 0 ELSE u[n - 1].part = "begin"
    BY DEF Paired
  <2>1. CASE n \in 1 .. Len(w)
    <3>1. u[n] = w[n] /\ (n # 1 => n - 1 \in 1 .. Len(w))
      BY <1>1, <2>1
    <3> QED
      BY <1>1, <2>1, <3>1 DEF Paired
  <2>2. CASE n = Len(w) + 1
    <3>1. EndsOpen(b, w)
      BY <1>1, <2>2
    <3>2. CASE w = <<>>
      BY <2>2, <3>1, <3>2 DEF EndsOpen
    <3>3. CASE w # <<>>
      <4>1. Len(w) \in 1 .. Len(w) /\ n - 1 = Len(w) /\ n # 1
        BY <1>1, <1>2, <2>2, <3>3
      <4> QED
        BY <1>1, <3>1, <3>3, <4>1 DEF EndsOpen
    <3> QED
      BY <3>2, <3>3
  <2> QED
    BY <1>1, <2>1, <2>2
<1>8. piece.part = "begin" => EndsOpen(b, u)
  BY <1>1 DEF EndsOpen
<1> QED
  BY <1>1, <1>4, <1>5, <1>6, <1>7, <1>8 DEF u

-----------------------------------------------------------------------------
(***************************************************************************)
(* The accounts of a connection.                                           *)
(***************************************************************************)
OpenOn(k) == flush.begun /\ conn = k
Lines == {"rest", "whole"}

\* A connection that is up has all that was written to it.
Intact(k) ==
    /\ Debt(begun[k], wire[k], Len(wire[k]))
          <= cuts[k] - garbled[k] + (IF OpenOn(k) THEN 1 ELSE 0)
    /\ OpenOn(k) => EndsOpen(begun[k], wire[k])
    /\ acked[k] = parsed[k] + garbled[k] + Count(wire[k], Len(wire[k]), Lines)

Accounts(k) ==
    /\ garbled[k] <= cuts[k]
    /\ Covered(begun[k], wire[k], cuts[k] - garbled[k])
    /\ Paired(begun[k], wire[k])
    /\ ~broken[k] => Intact(k)

CutsInv == \A k \in Connections : Accounts(k)

\* A step that neither writes to a connection nor reads from it, and that pays for
\* a line it leaves open there.
LEMMA AccountsKept ==
    ASSUME StreamInv, NEW k \in Connections, Accounts(k),
           UNCHANGED <<begun, garbled, parsed>>,
           wire'[k] = wire[k], broken'[k] = broken[k],
           broken[k] \/ acked'[k] = acked[k],
           NEW paid \in {0, 1}, cuts'[k] = cuts[k] + paid,
           broken[k] \/ ~OpenOn(k) \/ OpenOn(k)' \/ paid = 1,
           OpenOn(k)' => OpenOn(k)
    PROVE  Accounts(k)'
<1>1. /\ wire[k] \in Seq(Pieces) /\ begun[k] \in Nat /\ cuts[k] \in Nat
      /\ garbled[k] \in Nat
  BY DEF StreamInv, TypeOK
<1>2. Len(wire[k]) \in Nat
  BY <1>1
<1>3. \A n \in 0 .. Len(wire[k]) : Debt(begun[k], wire[k], n) \in Int
  BY <1>1, <1>2, DebtInt
<1>4. garbled'[k] <= cuts'[k]
  BY <1>1 DEF Accounts
<1>5. Covered(begun'[k], wire'[k], cuts'[k] - garbled'[k])
  <2>1. ASSUME NEW n \in 1 .. Len(wire[k]), wire[k][n].part # "begin"
        PROVE  Debt(begun[k], wire[k], n) <= cuts[k] + paid - garbled[k]
    <3>1. Debt(begun[k], wire[k], n) <= cuts[k] - garbled[k]
      BY <2>1 DEF Accounts, Covered
    <3>2. n \in 0 .. Len(wire[k])
      BY <1>2
    <3>3. Debt(begun[k], wire[k], n) \in Int
      BY <1>3, <3>2
    <3> QED
      BY <1>1, <3>1, <3>3
  <2>2. /\ begun'[k] = begun[k] /\ wire'[k] = wire[k]
        /\ cuts'[k] - garbled'[k] = cuts[k] + paid - garbled[k]
    BY <1>1
  <2>3. Covered(begun[k], wire[k], cuts[k] + paid - garbled[k])
    BY <2>1 DEF Covered
  <2> QED
    BY <2>2, <2>3
<1>6. Paired(begun'[k], wire'[k])
  BY DEF Accounts
<1>7. ASSUME ~broken[k] PROVE Intact(k)'
  <2>1. Intact(k)
    BY <1>7 DEF Accounts
  <2>2. Debt(begun[k], wire[k], Len(wire[k])) \in Int
    BY <1>2, <1>3
  <2>3. Debt(begun[k], wire[k], Len(wire[k]))
          <= cuts'[k] - garbled[k] + (IF OpenOn(k)' THEN 1 ELSE 0)
    BY <1>1, <1>7, <2>1, <2>2 DEF Intact
  <2>4. OpenOn(k)' => EndsOpen(begun'[k], wire'[k])
    BY <2>1 DEF Intact
  <2>5. acked'[k] = parsed'[k] + garbled'[k] + Count(wire'[k], Len(wire'[k]), Lines)
    BY <1>7, <2>1 DEF Intact
  <2> QED
    BY <2>3, <2>4, <2>5 DEF Intact
<1> QED
  BY <1>4, <1>5, <1>6, <1>7 DEF Accounts

LEMMA SendBeginAccounts ==
    ASSUME StreamInv, CutsInv, SendBegin
    PROVE  CutsInv'
<1>1. PICK k \in Connections : k = conn
  BY OnConnection, TypeParts DEF SendBegin
<1> DEFINE piece == [line |-> <<>>, part |-> "begin"]
<1>2. /\ wire \in [Connections -> Seq(Pieces)]
      /\ wire' = [wire EXCEPT ![k] = Append(@, piece)]
      /\ ~flush.begun /\ flush'.begun /\ conn' = conn /\ ~broken[k]
      /\ UNCHANGED <<begun, garbled, parsed, acked, cuts, broken>>
  BY <1>1 DEF SendBegin, StreamInv, TypeOK, socketVars, readVars
<1>3. piece \in Pieces /\ piece.part = "begin"
  BY BeginIsPiece
<1> HIDE DEF piece
<1>4. /\ wire'[k] = Append(wire[k], piece) /\ wire[k] \in Seq(Pieces)
      /\ \A l \in Connections : l # k => wire'[l] = wire[l]
  BY <1>2, <1>3, AppendType
<1>5. /\ begun[k] \in Nat /\ cuts[k] \in Nat /\ garbled[k] \in Nat
      /\ Len(wire[k]) \in Nat
  BY <1>4 DEF StreamInv, TypeOK
<1>6. Accounts(k) /\ Intact(k)
  BY <1>2 DEF CutsInv, Accounts
<1>7. cuts[k] - garbled[k] \in Int
  BY <1>5
<1>8. /\ Covered(begun[k], wire'[k], cuts[k] - garbled[k]) /\ Paired(begun[k], wire'[k])
      /\ Debt(begun[k], wire'[k], Len(wire'[k]))
           = Debt(begun[k], wire[k], Len(wire[k])) + One(piece, {"begin"})
                                                   - One(piece, {"rest"})
      /\ EndsOpen(begun[k], wire'[k])
      /\ Count(wire'[k], Len(wire'[k]), Lines)
           = Count(wire[k], Len(wire[k]), Lines) + One(piece, Lines)
  BY <1>3, <1>4, <1>5, <1>6, <1>7, AppendCovered DEF Accounts
<1>9. One(piece, {"begin"}) = 1 /\ One(piece, {"rest"}) = 0 /\ One(piece, Lines) = 0
  BY <1>3 DEF One, Lines
<1>10. ~OpenOn(k) /\ OpenOn(k)'
  BY <1>1, <1>2 DEF OpenOn
<1>11. /\ Debt(begun[k], wire[k], Len(wire[k])) \in Int
       /\ Count(wire[k], Len(wire[k]), Lines) \in Nat
  BY <1>5, DebtInt, FoundFinite
<1>12. Intact(k)'
  <2>1. Debt(begun[k], wire[k], Len(wire[k])) <= cuts[k] - garbled[k]
    BY <1>5, <1>6, <1>10 DEF Intact
  <2>2. Debt(begun[k], wire'[k], Len(wire'[k])) <= cuts[k] - garbled[k] + 1
    BY <1>5, <1>7, <1>8, <1>9, <1>11, <2>1
  <2>3. acked[k] = parsed[k] + garbled[k] + Count(wire'[k], Len(wire'[k]), Lines)
    BY <1>6, <1>8, <1>9, <1>11 DEF Intact
  <2> QED
    BY <1>2, <1>8, <1>10, <2>2, <2>3 DEF Intact
<1>13. Accounts(k)'
  BY <1>2, <1>6, <1>8, <1>12 DEF Accounts
<1>14. ASSUME NEW l \in Connections, l # k PROVE Accounts(l)'
  <2>1. ~OpenOn(l) /\ ~OpenOn(l)' /\ cuts'[l] = cuts[l] + 0
    BY <1>1, <1>2, <1>14 DEF OpenOn, StreamInv, TypeOK
  <2>2. Accounts(l) /\ wire'[l] = wire[l] /\ broken'[l] = broken[l] /\ acked'[l] = acked[l]
    BY <1>2, <1>4, <1>14 DEF CutsInv
  <2> QED
    BY <1>2, <2>1, <2>2, AccountsKept
<1> QED
  BY <1>13, <1>14 DEF CutsInv

LEMMA SendEndAccounts ==
    ASSUME StreamInv, CutsInv, SendEnd
    PROVE  CutsInv'
<1>1. PICK k \in Connections : k = conn
  BY OnConnection, TypeParts DEF SendEnd
<1>2. ~flush'.begun /\ ProcessOK
  BY LeavingStepLeaves, TypeParts DEF LeavingStep, LeavesFlush
<1>3. /\ UNCHANGED <<begun, garbled, parsed, cuts, broken>>
      /\ acked' = [acked EXCEPT ![k] = acked[k] + 1]
  BY <1>1 DEF SendEnd, readVars
<1>4. \A l \in Connections : /\ acked[l] \in Nat /\ cuts[l] \in Nat
                            /\ cuts'[l] = cuts[l] + 0 /\ ~OpenOn(l)'
  <2>1. \A l \in Connections : acked[l] \in Nat /\ cuts[l] \in Nat
    BY DEF StreamInv, TypeOK
  <2>2. \A l \in Connections : ~OpenOn(l)'
    BY <1>2 DEF OpenOn
  <2> QED
    BY <1>3, <2>1, <2>2
<1>5. acked'[k] = acked[k] + 1 /\ \A l \in Connections : l # k => acked'[l] = acked[l]
  BY <1>3 DEF StreamInv, TypeOK
<1>6. ASSUME NEW l \in Connections, wire'[l] = wire[l], broken[l] \/ l # k
      PROVE  Accounts(l)'
  <2>1. Accounts(l) /\ broken'[l] = broken[l] /\ (broken[l] \/ acked'[l] = acked[l])
    BY <1>3, <1>5, <1>6 DEF CutsInv
  <2>2. broken[l] \/ ~OpenOn(l)
    BY <1>1, <1>6 DEF OpenOn
  <2> QED
    BY <1>3, <1>4, <1>6, <2>1, <2>2, AccountsKept
<1>7. CASE broken[k]
  <2>1. UNCHANGED wire
    BY <1>1, <1>7 DEF SendEnd
  <2> QED
    BY <1>6, <1>7, <2>1 DEF CutsInv
<1>8. CASE ~broken[k]
  <2> DEFINE piece == [line |-> flush.line,
                       part |-> IF flush.begun THEN "rest" ELSE "whole"]
  <2>1. /\ piece \in Pieces /\ piece.part = IF flush.begun THEN "rest" ELSE "whole"
        /\ wire \in [Connections -> Seq(Pieces)]
        /\ wire' = [wire EXCEPT ![k] = Append(@, piece)]
    BY <1>1, <1>2, <1>8, EndIsPiece DEF SendEnd, StreamInv, TypeOK
  <2> HIDE DEF piece
  <2>2. /\ wire'[k] = Append(wire[k], piece) /\ wire[k] \in Seq(Pieces)
        /\ \A l \in Connections : l # k => wire'[l] = wire[l]
    BY <2>1, AppendType
  <2>3. /\ begun[k] \in Nat /\ cuts[k] \in Nat /\ garbled[k] \in Nat
        /\ parsed[k] \in Nat /\ Len(wire[k]) \in Nat /\ cuts[k] - garbled[k] \in Int
    <3>1. begun[k] \in Nat /\ cuts[k] \in Nat /\ garbled[k] \in Nat /\ parsed[k] \in Nat
      BY TypeParts DEF WireOK
    <3>2. Len(wire[k]) \in Nat
      BY <2>2, LenProperties
    <3> QED
      BY <3>1, <3>2
  <2>4. Accounts(k) /\ Intact(k)
    BY <1>8 DEF CutsInv, Accounts
  <2>5. /\ Debt(begun[k], wire[k], Len(wire[k])) \in Int
        /\ Count(wire[k], Len(wire[k]), Lines) \in Nat
    BY <2>3, DebtInt, FoundFinite
  <2>6. /\ One(piece, {"begin"}) = 0 /\ One(piece, Lines) = 1
        /\ One(piece, {"rest"}) = IF OpenOn(k) THEN 1 ELSE 0
    BY <1>1, <2>1 DEF One, Lines, OpenOn, StreamInv, TypeOK
  <2>7. Debt(begun[k], wire[k], Len(wire[k])) - One(piece, {"rest"}) <= cuts[k] - garbled[k]
    BY <2>3, <2>4, <2>5, <2>6 DEF Intact
  <2>8. piece.part = "rest" => EndsOpen(begun[k], wire[k])
    BY <1>1, <2>1, <2>4 DEF Intact, OpenOn
  <2>9. /\ Covered(begun[k], wire'[k], cuts[k] - garbled[k]) /\ Paired(begun[k], wire'[k])
        /\ Debt(begun[k], wire'[k], Len(wire'[k]))
             = Debt(begun[k], wire[k], Len(wire[k])) + One(piece, {"begin"})
                                                     - One(piece, {"rest"})
        /\ Count(wire'[k], Len(wire'[k]), Lines)
             = Count(wire[k], Len(wire[k]), Lines) + One(piece, Lines)
    BY <2>1, <2>2, <2>3, <2>4, <2>7, <2>8, AppendCovered DEF Accounts
  <2>10. Intact(k)'
    <3>1. Debt(begun[k], wire'[k], Len(wire'[k])) <= cuts[k] - garbled[k]
      BY <2>5, <2>6, <2>7, <2>9
    <3>2. acked'[k] = parsed[k] + garbled[k] + Count(wire'[k], Len(wire'[k]), Lines)
      <4>1. acked[k] = parsed[k] + garbled[k] + Count(wire[k], Len(wire[k]), Lines)
        BY <2>4 DEF Intact
      <4>2. /\ acked'[k] = acked[k] + 1
            /\ Count(wire'[k], Len(wire'[k]), Lines)
                 = Count(wire[k], Len(wire[k]), Lines) + 1
        BY <1>5, <2>6, <2>9
      <4> DEFINE p == parsed[k]
                 g == garbled[k]
                 n == Count(wire[k], Len(wire[k]), Lines)
                 m == Count(wire'[k], Len(wire'[k]), Lines)
      <4>3. p \in Nat /\ g \in Nat /\ n \in Nat
        BY <2>3, <2>5
      <4>4. acked[k] = p + g + n /\ m = n + 1
        BY <4>1, <4>2
      <4> HIDE DEF p, g, n, m
      <4>5. acked'[k] = p + g + m
        BY <4>2, <4>3, <4>4
      <4> QED
        BY <1>3, <4>5 DEF p, g, m
    <3> QED
      BY <1>3, <1>4, <2>3, <3>1, <3>2 DEF Intact
  <2>11. Accounts(k)'
    BY <1>3, <2>4, <2>9, <2>10 DEF Accounts
  <2> QED
    BY <1>6, <2>2, <2>11 DEF CutsInv
<1> QED
  BY <1>7, <1>8

LEMMA BreakAccounts ==
    ASSUME StreamInv, CutsInv, NEW k \in Connections, Break(k)
    PROVE  CutsInv'
<1>1. PICK n \in 0 .. Len(wire[k]) : wire' = [wire EXCEPT ![k] = SubSeq(@, 1, n)]
  BY DEF Break
<1>2. /\ UNCHANGED <<begun, garbled, parsed, acked, cuts, flush, conn>>
      /\ broken' = [broken EXCEPT ![k] = TRUE]
  BY DEF Break, readVars, processVars, socketVars
<1>3. /\ wire[k] \in Seq(Pieces) /\ wire'[k] = SubSeq(wire[k], 1, n) /\ broken'[k]
      /\ \A l \in Connections : l # k => wire'[l] = wire[l] /\ broken'[l] = broken[l]
  BY <1>1, <1>2 DEF StreamInv, TypeOK
<1>4. begun[k] \in Nat /\ cuts[k] - garbled[k] \in Int
  BY DEF StreamInv, TypeOK
<1>5. Accounts(k)
  BY DEF CutsInv
<1>6. /\ Covered(begun[k], wire'[k], cuts[k] - garbled[k])
      /\ Paired(begun[k], wire'[k])
  BY <1>3, <1>4, <1>5, PrefixCovered DEF Accounts
<1>7. Accounts(k)'
  BY <1>2, <1>3, <1>5, <1>6 DEF Accounts
<1>8. ASSUME NEW l \in Connections, l # k PROVE Accounts(l)'
  <2>1. cuts'[l] = cuts[l] + 0
    BY <1>2 DEF StreamInv, TypeOK
  <2>2. OpenOn(l)' <=> OpenOn(l)
    BY <1>2 DEF OpenOn
  <2>3. Accounts(l) /\ wire'[l] = wire[l] /\ broken'[l] = broken[l] /\ acked'[l] = acked[l]
    BY <1>2, <1>3, <1>8 DEF CutsInv
  <2> QED
    BY <1>2, <2>1, <2>2, <2>3, AccountsKept
<1> QED
  BY <1>7, <1>8 DEF CutsInv

\* What Read does to the accounts of its connection, in the terms of the lemmas.
LEMMA ReadEffect ==
    ASSUME StreamInv, NEW k \in Connections, Read(k)
    PROVE  /\ wire[k] \in Seq(Pieces) /\ wire[k] # <<>> /\ wire'[k] = Tail(wire[k])
           /\ begun'[k] = AfterRead(begun[k], wire[k][1])
           /\ garbled'[k] = garbled[k] + Garbles(begun[k], wire[k][1])
           /\ parsed'[k] + garbled'[k] = parsed[k] + garbled[k] + One(wire[k][1], Lines)
           /\ \A l \in Connections : l # k =>
                 /\ wire'[l] = wire[l] /\ begun'[l] = begun[l]
                 /\ garbled'[l] = garbled[l] /\ parsed'[l] = parsed[l]
           /\ UNCHANGED <<acked, cuts, broken, flush, conn>>
<1>1. /\ wire[k] \in Seq(Pieces) /\ wire[k] # <<>>
      /\ wire' = [wire EXCEPT ![k] = Tail(wire[k])]
      /\ ReadBegin(k) \/ ReadParsed(k) \/ ReadGarbled(k)
      /\ UNCHANGED <<acked, cuts, broken, flush, conn>>
  BY ReadCases, TypeParts DEF processVars, socketVars
<1>2. Head(wire[k]) = wire[k][1] /\ 1 \in 1 .. Len(wire[k])
  BY <1>1
<1>3. wire[k][1].part \in {"begin", "rest", "whole"}
  <2>1. wire[k][1] \in Pieces
    BY <1>1, <1>2, ElementOfSeq
  <2> QED
    BY <2>1 DEF Pieces
<1>4. /\ wire \in [Connections -> Seq(Pieces)]
      /\ begun \in [Connections -> Nat] /\ garbled \in [Connections -> Nat]
      /\ parsed \in [Connections -> Nat]
      /\ begun[k] \in Nat /\ garbled[k] \in Nat /\ parsed[k] \in Nat
  BY DEF StreamInv, TypeOK
<1>5. wire'[k] = Tail(wire[k]) /\ \A l \in Connections : l # k => wire'[l] = wire[l]
  BY <1>1, <1>4
<1>6. CASE ReadBegin(k)
  <2>1. /\ AfterRead(begun[k], wire[k][1]) = begun[k] + 1
        /\ Garbles(begun[k], wire[k][1]) = 0 /\ One(wire[k][1], Lines) = 0
    BY <1>2, <1>6 DEF ReadBegin, AfterRead, Garbles, One, Lines
  <2> QED
    BY <1>1, <1>4, <1>5, <1>6, <2>1 DEF ReadBegin
<1>7. CASE ReadParsed(k)
  <2>1. /\ AfterRead(begun[k], wire[k][1]) = 0
        /\ Garbles(begun[k], wire[k][1]) = 0 /\ One(wire[k][1], Lines) = 1
    BY <1>2, <1>3, <1>7 DEF ReadParsed, AfterRead, Garbles, One, Lines
  <2>2. /\ begun'[k] = 0 /\ garbled'[k] = garbled[k] /\ parsed'[k] = parsed[k] + 1
        /\ \A l \in Connections : l # k =>
              begun'[l] = begun[l] /\ garbled'[l] = garbled[l] /\ parsed'[l] = parsed[l]
    BY <1>4, <1>7 DEF ReadParsed
  <2>3. garbled'[k] = garbled[k] + 0 /\ parsed'[k] + garbled'[k] = parsed[k] + garbled[k] + 1
    BY <1>4, <2>2
  <2> QED
    BY <1>1, <1>5, <2>1, <2>2, <2>3
<1>8. CASE ReadGarbled(k)
  <2>1. /\ AfterRead(begun[k], wire[k][1]) = 0
        /\ Garbles(begun[k], wire[k][1]) = 1 /\ One(wire[k][1], Lines) = 1
    BY <1>2, <1>3, <1>8 DEF ReadGarbled, AfterRead, Garbles, One, Lines
  <2> QED
    BY <1>1, <1>4, <1>5, <1>8, <2>1 DEF ReadGarbled
<1> QED
  BY <1>1, <1>6, <1>7, <1>8

LEMMA ReadAccounts ==
    ASSUME StreamInv, CutsInv, NEW k \in Connections, Read(k)
    PROVE  CutsInv'
<1> DEFINE w == wire[k]
           b == begun[k]
           g == Garbles(b, w[1])
           c == AfterRead(b, w[1])
           left == cuts[k] - garbled[k]
<1>1. /\ w \in Seq(Pieces) /\ w # <<>> /\ wire'[k] = Tail(w)
      /\ begun'[k] = c /\ garbled'[k] = garbled[k] + g
      /\ parsed'[k] + garbled'[k] = parsed[k] + garbled[k] + One(w[1], Lines)
      /\ \A l \in Connections : l # k =>
            /\ wire'[l] = wire[l] /\ begun'[l] = begun[l]
            /\ garbled'[l] = garbled[l] /\ parsed'[l] = parsed[l]
      /\ UNCHANGED <<acked, cuts, broken, flush, conn>>
  BY ReadEffect
<1>2. /\ b \in Nat /\ cuts[k] \in Nat /\ garbled[k] \in Nat /\ parsed[k] \in Nat
      /\ g \in {0, 1} /\ c \in Nat /\ acked[k] \in Nat
  <2>1. /\ b \in Nat /\ cuts[k] \in Nat /\ garbled[k] \in Nat /\ parsed[k] \in Nat
        /\ acked[k] \in Nat
    BY TypeParts DEF WireOK
  <2>2. g \in {0, 1}
    BY DEF Garbles
  <2>3. c \in Nat
    BY <2>1 DEF AfterRead
  <2> QED
    BY <2>1, <2>2, <2>3
<1>3. Accounts(k)
  BY DEF CutsInv
<1>4. left \in Nat /\ Covered(b, w, left) /\ Paired(b, w)
  BY <1>2, <1>3 DEF Accounts
<1> HIDE DEF g, c, left, b, w
<1>5. /\ g <= left /\ Covered(c, Tail(w), left - g) /\ Paired(c, Tail(w))
      /\ EndsOpen(b, w) => EndsOpen(c, Tail(w))
  BY <1>1, <1>2, <1>4, TailCovered DEF g, c
<1>6. garbled'[k] <= cuts'[k] /\ cuts'[k] - garbled'[k] = left - g
  BY <1>1, <1>2, <1>5 DEF left
<1>7. ASSUME ~broken[k] PROVE Intact(k)'
  <2>1. Intact(k)
    BY <1>3, <1>7 DEF Accounts
  <2>2. /\ Len(w) \in Nat /\ Len(w) - 1 \in 0 .. Len(w) - 1
        /\ Len(Tail(w)) = Len(w) - 1 /\ Len(w) - 1 \in Nat
    BY <1>1, HeadTailProperties
  <2>3. Debt(c, Tail(w), Len(w) - 1) <= Debt(b, w, (Len(w) - 1) + 1) - g
    BY <1>1, <1>2, <1>4, <2>2, TailDebt DEF c, g
  <2>4. /\ Debt(c, Tail(w), Len(w) - 1) \in Int /\ Debt(b, w, Len(w)) \in Int
        /\ (Len(w) - 1) + 1 = Len(w)
    BY <1>2, <2>2, DebtInt
  <2>5. Debt(b, w, Len(w)) <= left + (IF OpenOn(k) THEN 1 ELSE 0)
    BY <2>1 DEF Intact, left, b, w
  <2>6. Debt(c, Tail(w), Len(Tail(w))) <= left - g + (IF OpenOn(k) THEN 1 ELSE 0)
    BY <1>2, <1>4, <2>2, <2>3, <2>4, <2>5
  <2>7. OpenOn(k)' <=> OpenOn(k)
    BY <1>1 DEF OpenOn
  <2>8. Count(w, (Len(w) - 1) + 1, Lines)
          = Count(Tail(w), Len(w) - 1, Lines) + One(w[1], Lines)
    BY <1>1, <2>2, CountTail
  <2>9. acked[k] = parsed[k] + garbled[k] + Count(w, Len(w), Lines)
    BY <2>1 DEF Intact, w
  <2>10. acked[k] = parsed'[k] + garbled'[k] + Count(Tail(w), Len(Tail(w)), Lines)
    <3> DEFINE n == Count(Tail(w), Len(w) - 1, Lines)
               m == One(w[1], Lines)
    <3>1. n \in Nat /\ m \in Nat
      BY <2>2, FoundFinite DEF One
    <3>2. acked[k] = parsed[k] + garbled[k] + (n + m)
      BY <2>4, <2>8, <2>9
    <3>3. parsed'[k] + garbled'[k] = parsed[k] + garbled[k] + m
      BY <1>1
    <3> HIDE DEF n, m
    <3>4. acked[k] = (parsed'[k] + garbled'[k]) + n
      BY <1>2, <3>1, <3>2, <3>3
    <3> QED
      BY <2>2, <3>4 DEF n
  <2>11. EndsOpen(b, w) => EndsOpen(c, Tail(w))
    BY <1>5
  <2>12. OpenOn(k) => EndsOpen(b, w)
    BY <2>1 DEF Intact, b, w
  <2>13. acked'[k] = acked[k]
    BY <1>1
  <2>14. /\ Debt(begun'[k], wire'[k], Len(wire'[k]))
              <= cuts'[k] - garbled'[k] + (IF OpenOn(k)' THEN 1 ELSE 0)
         /\ OpenOn(k)' => EndsOpen(begun'[k], wire'[k])
         /\ acked'[k] = parsed'[k] + garbled'[k] + Count(wire'[k], Len(wire'[k]), Lines)
    BY <1>1, <1>6, <2>6, <2>7, <2>10, <2>11, <2>12, <2>13
  <2> QED
    BY <2>14 DEF Intact
<1>8. Accounts(k)'
  BY <1>1, <1>5, <1>6, <1>7 DEF Accounts
<1>9. ASSUME NEW l \in Connections, l # k PROVE Accounts(l)'
  <2>1. Accounts(l)
    BY DEF CutsInv
  <2>2. /\ wire'[l] = wire[l] /\ begun'[l] = begun[l] /\ garbled'[l] = garbled[l]
        /\ parsed'[l] = parsed[l] /\ acked'[l] = acked[l] /\ cuts'[l] = cuts[l]
        /\ broken'[l] = broken[l] /\ (OpenOn(l)' <=> OpenOn(l))
    BY <1>1, <1>9 DEF OpenOn
  <2>3. Intact(l) => Intact(l)'
    BY <2>2 DEF Intact
  <2> QED
    BY <2>1, <2>2, <2>3 DEF Accounts
<1> QED
  BY <1>8, <1>9 DEF CutsInv

\* An exception pays for the line it leaves open.
LEMMA CutAccounts ==
    ASSUME StreamInv, CutsInv, AlarmFires \/ Hup
    PROVE  CutsInv'
<1>1. ~flush'.begun
  BY LeavingStepLeaves DEF LeavingStep, LeavesFlush, StreamInv
<1>2. UNCHANGED <<wire, acked, begun, garbled, parsed, broken>> /\ Cut
  BY DEF AlarmFires, Hup, Cut, readVars
<1>3. cuts \in [Connections -> Nat]
  BY DEF StreamInv, TypeOK
<1> SUFFICES ASSUME NEW k \in Connections PROVE Accounts(k)'
  BY DEF CutsInv
<1>4. Accounts(k) /\ ~OpenOn(k)'
  BY <1>1 DEF CutsInv, OpenOn
<1>5. CASE OpenOn(k)
  <2>1. cuts'[k] = cuts[k] + 1
    BY <1>2, <1>3, <1>5 DEF OpenOn, Cut
  <2> QED
    BY <1>2, <1>4, <2>1, AccountsKept
<1>6. CASE ~OpenOn(k)
  <2>1. cuts'[k] = cuts[k] + 0
    BY <1>2, <1>3, <1>6 DEF OpenOn, Cut
  <2> QED
    BY <1>2, <1>4, <1>6, <2>1, AccountsKept
<1> QED
  BY <1>5, <1>6

\* The other steps neither write nor read, and find no line open, except those
\* that leave it as it is, and SendFails, whose connection is down.
LEMMA UnwrittenAccounts ==
    ASSUME StreamInv, CutsInv, UNCHANGED <<writeVars, broken, readVars>>,
           \A k \in Connections : /\ broken[k] \/ ~OpenOn(k) \/ OpenOn(k)'
                                  /\ OpenOn(k)' => OpenOn(k)
    PROVE  CutsInv'
<1> SUFFICES ASSUME NEW k \in Connections PROVE Accounts(k)'
  BY DEF CutsInv
<1>1. UNCHANGED <<wire, acked, cuts, broken, begun, garbled, parsed>>
  BY DEF writeVars, readVars
<1>2. Accounts(k) /\ cuts'[k] = cuts[k] + 0
  BY <1>1 DEF CutsInv, StreamInv, TypeOK
<1> QED
  BY <1>1, <1>2, AccountsKept

LEMMA NoLineOpen ==
    ASSUME StreamInv, ~flush.begun, ~flush'.begun, UNCHANGED <<writeVars, broken, readVars>>,
           CutsInv
    PROVE  CutsInv'
  BY UnwrittenAccounts DEF OpenOn

LEMMA CutsStep ==
    ASSUME StreamInv, CutsInv, [Next]_vars
    PROVE  CutsInv'
<1>1. CASE Wake \/ Publish \/ FlushFull \/ CollectReturns \/ CollectFails \/ Success \/ Restart
           \/ ConnectFails \/ GiveUp
  <2>1. ~flush'.begun
    BY <1>1, LeavingStepLeaves DEF LeavingStep, LeavesFlush, StreamInv
  <2>2. UNCHANGED <<writeVars, broken, readVars>>
    BY <1>1 DEF Wake, Publish, FlushFull, CollectReturns, CollectFails, Success, Restart,
                ConnectFails, GiveUp
  <2>3. CASE pc # "flushing"
    <3>1. ~flush.begun
      BY <2>3 DEF StreamInv, ProcessOK, NoFlush
    <3> QED
      BY <2>1, <2>2, <3>1, NoLineOpen
  <2>4. CASE pc = "flushing"
    <3>1. NeedsSocket \/ flush.attempt = RetryCount
      BY <1>1, <2>4 DEF Wake, Collecting, Publish, FlushFull, CollectReturns, CollectFails, Success,
                        Restart, ConnectFails, GiveUp
    <3>2. ~flush.begun
      BY <3>1, StreamAssumption DEF NeedsSocket, StreamInv, BegunOnSocket
    <3> QED
      BY <2>1, <2>2, <3>2, NoLineOpen
  <2> QED
    BY <2>3, <2>4
<1>2. CASE AlarmFires \/ Hup
  BY <1>2, CutAccounts
<1>3. CASE Connect
  <2>1. ~flush.begun
    BY <1>3 DEF Connect, NeedsSocket, StreamInv, BegunOnSocket
  <2>2. ~flush'.begun /\ UNCHANGED <<writeVars, broken, readVars>>
    BY <1>3, <2>1 DEF Connect, processVars
  <2> QED
    BY <2>1, <2>2, NoLineOpen
<1>4. CASE SendFails
  <2>1. ~flush'.begun /\ conn' = conn /\ broken[conn]
    BY <1>4 DEF SendFails, StreamInv, ProcessOK
  <2>2. \A k \in Connections : /\ broken[k] \/ ~OpenOn(k) \/ OpenOn(k)'
                               /\ OpenOn(k)' => OpenOn(k)
    BY <2>1 DEF OpenOn
  <2>3. UNCHANGED <<writeVars, broken, readVars>>
    BY <1>4 DEF SendFails
  <2> QED
    BY <2>2, <2>3, UnwrittenAccounts
<1>5. CASE SendBegin
  BY <1>5, SendBeginAccounts
<1>6. CASE SendEnd
  BY <1>6, SendEndAccounts
<1>7. ASSUME NEW k \in Connections, Break(k) \/ Read(k)
      PROVE  CutsInv'
  BY <1>7, BreakAccounts, ReadAccounts
<1>8. CASE UNCHANGED vars
  <2>1. UNCHANGED <<writeVars, broken, readVars, flush, conn>>
    BY <1>8 DEF vars, processVars, socketVars
  <2>2. \A k \in Connections : OpenOn(k)' <=> OpenOn(k)
    BY <2>1 DEF OpenOn
  <2> QED
    BY <2>1, <2>2, UnwrittenAccounts
<1> QED
  BY <1>1, <1>2, <1>3, <1>4, <1>5, <1>6, <1>7, <1>8 DEF Next, FlushStep

LEMMA CutsInit == Init => CutsInv
<1> SUFFICES ASSUME Init, NEW k \in Connections PROVE Accounts(k)
  BY DEF CutsInv
<1>1. /\ wire[k] = <<>> /\ begun[k] = 0 /\ garbled[k] = 0 /\ cuts[k] = 0
      /\ acked[k] = 0 /\ parsed[k] = 0 /\ ~flush.begun
  BY DEF Init, None, NoFlush
<1>2. Len(wire[k]) = 0 /\ \A parts : Count(wire[k], 0, parts) = 0
  BY <1>1, CountNone
<1>3. Debt(begun[k], wire[k], Len(wire[k])) = 0
  BY <1>1, <1>2 DEF Debt
<1>4. Intact(k)
  BY <1>1, <1>2, <1>3 DEF Intact, OpenOn
<1>5. Covered(begun[k], wire[k], cuts[k] - garbled[k]) /\ Paired(begun[k], wire[k])
  BY <1>2 DEF Covered, Paired
<1> QED
  BY <1>1, <1>4, <1>5 DEF Accounts

\* The lines that wait to be read.
LEMMA WaitingLines ==
    ASSUME StreamInv, NEW k \in Connections
    PROVE  Waiting(k) = Count(wire[k], Len(wire[k]), Lines)
<1>1. wire[k] \in Seq(Pieces)
  BY DEF StreamInv, TypeOK
<1>2. \A i \in 1 .. Len(wire[k]) : wire[k][i].part \in {"begin", "rest", "whole"}
  <2>1. \A i \in 1 .. Len(wire[k]) : wire[k][i] \in Pieces
    BY <1>1, ElementOfSeq
  <2> QED
    BY <2>1 DEF Pieces
<1>3. {i \in 1 .. Len(wire[k]) : wire[k][i].part # "begin"}
        = Found(wire[k], Len(wire[k]), Lines)
  BY <1>2 DEF Found, Lines
<1> QED
  BY <1>3 DEF Waiting, Count

\* A line that flush took for sent is parsed, waits to be read, or was lost with a
\* line that an exception cut before it, one for each such line, on every
\* connection that is up (flush, readDiamondMetrics, parseMetrics).
THEOREM CutLinesCost == Spec => []CutsCostOneLine
<1>1. Spec => [](StreamInv /\ CutsInv)
  BY CutsInit, CutsStep, StreamInvariant, PTL DEF Spec
<1>2. StreamInv /\ CutsInv => CutsCostOneLine
  BY WaitingLines DEF CutsInv, Accounts, Intact, CutsCostOneLine
<1> QED
  BY <1>1, <1>2, PTL
=============================================================================
