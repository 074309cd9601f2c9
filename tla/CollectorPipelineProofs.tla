---------------------- MODULE CollectorPipelineProofs ----------------------
(***************************************************************************)
(* What readers count, publish and send, and what timers report, agrees    *)
(* for any collectors, scripts, handlers, lists and errors.                *)
(***************************************************************************)
EXTENDS CollectorPipeline, FiniteSetTheorems, SequenceTheorems, TLAPS

\* The item in a reader's hand is one it did not drop.
WantedInHand ==
    \A c \in Collectors : reader[c].step # "receiving" => reader[c].item.kind # "unwanted"

\* The only timer that runs is that of the round under way, which nobody has
\* reported yet; a round that was reported is not to come.
TimerInRound ==
    \A c \in Collectors :
        /\ \A r \in armed[c] : /\ r = round[c] /\ c \notin Listeners
                               /\ runner[c] # "waiting"
                               /\ \A i \in 1 .. Len(raised[c]) : raised[c][i] < r
        /\ \A i \in 1 .. Len(raised[c]) : raised[c][i] <= round[c]

ReaderStates == [step : ReaderSteps, item : Items \cup {None}, next : Handlers,
                 unpublished : SUBSET Names]

-----------------------------------------------------------------------------
(***************************************************************************)
(* Sequences of items.                                                     *)
(***************************************************************************)
CountIn(s, n) == Cardinality({i \in 1 .. Len(s) : s[i].name = n})

LEMMA CountInAppend ==
    ASSUME NEW s \in Seq(Items), NEW item \in Items, NEW n \in Names
    PROVE  /\ CountIn(s, n) \in Nat
           /\ CountIn(Append(s, item), n)
                = IF item.name = n THEN CountIn(s, n) + 1 ELSE CountIn(s, n)
<1> DEFINE S == {i \in 1 .. Len(s) : s[i].name = n}
           T == {i \in 1 .. Len(Append(s, item)) : Append(s, item)[i].name = n}
<1>1. /\ Len(Append(s, item)) = Len(s) + 1 /\ Len(s) \in Nat
      /\ Append(s, item)[Len(s) + 1] = item
      /\ \A i \in 1 .. Len(s) : Append(s, item)[i] = s[i]
  OBVIOUS
<1>2. IsFiniteSet(S)
  <2>1. IsFiniteSet(1 .. Len(s))
    BY <1>1, FS_Interval
  <2> QED
    BY <2>1, FS_Subset
<1>3. Cardinality(S) \in Nat
  BY <1>2, FS_CardinalityType
<1>4. CASE item.name = n
  <2>1. T = S \cup {Len(s) + 1} /\ Len(s) + 1 \notin S
    BY <1>1, <1>4
  <2>2. Cardinality(S \cup {Len(s) + 1}) = Cardinality(S) + 1
    BY <1>2, <2>1, FS_AddElement
  <2> QED
    BY <1>3, <1>4, <2>1, <2>2 DEF CountIn
<1>5. CASE item.name # n
  <2>1. T = S
    BY <1>1, <1>5
  <2> QED
    BY <1>3, <1>5, <2>1 DEF CountIn
<1> QED
  BY <1>4, <1>5

LEMMA CountInEmpty == \A n \in Names : CountIn(<<>>, n) = 0
<1> TAKE n \in Names
<1>1. {i \in 1 .. Len(<<>>) : <<>>[i].name = n} = {}
  OBVIOUS
<1> QED
  BY <1>1, FS_EmptySet DEF CountIn

-----------------------------------------------------------------------------
(***************************************************************************)
(* Types.                                                                  *)
(***************************************************************************)
LEMMA IncidentType == \A c \in Collectors : Incident(c) \in Items
<1> TAKE c \in Collectors
<1>1. CanonicalName[c] \in Names
  BY PipelineAssumption
<1>2. (IF c \in Silent THEN "unwanted" ELSE "incident") \in Kinds
  BY DEF Kinds
<1> QED
  BY <1>1, <1>2 DEF Incident, Items

LEMMA TypeInit == Init => TypeOK
<1> SUFFICES ASSUME Init PROVE TypeOK
  OBVIOUS
<1>1. Receiving \in ReaderStates /\ Receiving.step = "receiving"
  BY PipelineAssumption DEF Receiving, ReaderStates, ReaderSteps, Handlers
<1>2. /\ reader \in [Collectors -> ReaderStates]
      /\ \A c \in Collectors : reader[c].step = "receiving"
  BY <1>1 DEF Init
<1>3. errorAt \in [Errors -> 0 .. HandlerCount + 1]
  BY PipelineAssumption DEF Init
<1>4. <<>> \in Seq(Items)
  OBVIOUS
<1>5. /\ left \in [Collectors -> [Rounds -> Seq(Items)]]
      /\ owed \in [Collectors -> [Handlers -> Seq(Items)]]
      /\ delivered \in [Collectors -> [Handlers -> Seq(Items)]]
  BY <1>4 DEF Init
<1>6. /\ runner \in [Collectors -> RunnerSteps]
      /\ armed \in [Collectors -> SUBSET Rounds]
      /\ raised \in [Collectors -> Seq(Rounds)]
  <2>1. <<>> \in Seq(Rounds)
    OBVIOUS
  <2> QED
    BY <2>1 DEF Init, RunnerSteps
<1> QED
  BY <1>2, <1>3, <1>5, <1>6 DEF Init, TypeOK, ReaderStates

LEMMA AcceptType ==
    ASSUME TypeOK, NEW c \in Collectors, NEW item \in Items, Accept(c, item)
    PROVE  /\ emissionCounter' \in [Collectors -> [Names -> Nat]]
           /\ reader' \in [Collectors -> ReaderStates]
           /\ \A d \in Collectors : reader'[d].step # "receiving" => reader'[d].item \in Items
           /\ owed' \in [Collectors -> [Handlers -> Seq(Items)]]
<1>1. CASE UNCHANGED readerVars
  BY <1>1 DEF TypeOK, ReaderStates, readerVars
<1>2. CASE item.kind # "unwanted"
  <2>1. item.name \in Names /\ 1 \in Handlers
    BY PipelineAssumption DEF Items, Handlers
  <2>2. emissionCounter' \in [Collectors -> [Names -> Nat]]
    <3>1. emissionCounter' = [emissionCounter EXCEPT ![c][item.name] = @ + 1]
      BY <1>2 DEF Accept
    <3>2. emissionCounter[c][item.name] + 1 \in Nat
      BY <2>1 DEF TypeOK
    <3> QED
      BY <2>1, <3>1, <3>2 DEF TypeOK
  <2>3. PICK due \in BOOLEAN :
           reader' = [reader EXCEPT ![c] =
               [step |-> IF due THEN "publishing" ELSE "sending", item |-> item,
                next |-> 1,
                unpublished |->
                   IF due THEN {n \in Names : emissionCounter'[c][n] > 0} ELSE {}]]
    BY <1>2 DEF Accept
  <2>4. /\ reader' \in [Collectors -> ReaderStates]
        /\ \A d \in Collectors : reader'[d].step # "receiving" => reader'[d].item \in Items
    BY <2>1, <2>3 DEF TypeOK, ReaderStates, ReaderSteps
  <2>5. owed' = [owed EXCEPT ![c] =
             [h \in Handlers |-> IF item.name \in Routes(h)
                                 THEN Append(owed[c][h], item) ELSE owed[c][h]]]
    BY <1>2 DEF Accept, TypeOK
  <2>6. [h \in Handlers |-> IF item.name \in Routes(h)
                            THEN Append(owed[c][h], item) ELSE owed[c][h]]
          \in [Handlers -> Seq(Items)]
    BY DEF TypeOK
  <2>7. owed' \in [Collectors -> [Handlers -> Seq(Items)]]
    BY <2>5, <2>6 DEF TypeOK
  <2> QED
    BY <2>2, <2>4, <2>7
<1> QED
  BY <1>1, <1>2 DEF Accept

LEMMA AfterHandlerType ==
    ASSUME NEW r \in ReaderStates
    PROVE  /\ AfterHandler(r) \in ReaderStates
           /\ AfterHandler(r).step # "receiving" => AfterHandler(r).item = r.item
<1>1. CASE r.next = HandlerCount
  BY <1>1, PipelineAssumption
     DEF AfterHandler, Receiving, ReaderSteps, ReaderStates, Handlers
<1>2. CASE r.next # HandlerCount
  <2>1. r.next + 1 \in Handlers
    BY <1>2, PipelineAssumption DEF Handlers, ReaderStates
  <2>2. AfterHandler(r) = [r EXCEPT !.next = r.next + 1]
    BY <1>2 DEF AfterHandler
  <2> QED
    BY <2>1, <2>2 DEF ReaderStates
<1> QED
  BY <1>1, <1>2

\* The steps of a reader that has an item.
LEMMA ReaderType ==
    ASSUME TypeOK, NEW c \in Collectors, ReaderStep(c), UNCHANGED nilHandlers
    PROVE  TypeOK'
<1>1. ASSUME NEW n \in Names, Publish(c, n) PROVE TypeOK'
  <2>1. /\ reader' \in [Collectors -> ReaderStates]
        /\ \A d \in Collectors : reader'[d].step # "receiving" => reader'[d].item \in Items
    <3> DEFINE rest == reader[c].unpublished \ {n}
               after == [reader[c] EXCEPT !.unpublished = rest,
                                          !.step = IF rest = {} THEN "sending" ELSE @]
    <3>1. reader[c] \in ReaderStates /\ reader[c].item \in Items
      BY <1>1 DEF Publish, TypeOK, ReaderStates
    <3>2. reader' = [reader EXCEPT ![c] = after]
      BY <1>1 DEF Publish, TypeOK
    <3>3. after \in ReaderStates /\ after.item = reader[c].item
      BY <3>1 DEF ReaderStates, ReaderSteps
    <3> QED
      BY <3>1, <3>2, <3>3 DEF TypeOK, ReaderStates
  <2>2. collectorMetrics' \in [Names -> Nat]
    BY <1>1 DEF Publish, TypeOK
  <2> QED
    BY <1>1, <2>1, <2>2 DEF Publish, TypeOK, ReaderStates, collectVars, sendVars
<1>2. ASSUME reader[c].step = "sending", reader' = [reader EXCEPT ![c] = AfterHandler(@)]
      PROVE  /\ reader' \in [Collectors -> ReaderStates]
             /\ \A d \in Collectors :
                   reader'[d].step # "receiving" => reader'[d].item \in Items
  <2>1. reader[c] \in ReaderStates
    BY DEF TypeOK, ReaderStates
  <2>2. /\ AfterHandler(reader[c]) \in ReaderStates
        /\ AfterHandler(reader[c]).step # "receiving"
              => AfterHandler(reader[c]).item = reader[c].item
    BY <2>1, AfterHandlerType
  <2> QED
    BY <1>2, <2>2 DEF TypeOK, ReaderStates
<1>3. CASE Skip(c)
  BY <1>2, <1>3 DEF Skip, TypeOK, ReaderStates, collectVars, sendVars
<1>4. CASE Deliver(c)
  <2>1. reader[c].item \in Items /\ reader[c].next \in Handlers
        /\ reader[c].item.name \in Names
    BY <1>4 DEF Deliver, TypeOK, Items
  <2>2. channel' \in [Handlers -> [Names -> Items \cup {None}]]
    BY <1>4, <2>1 DEF Deliver, TypeOK
  <2>3. delivered' \in [Collectors -> [Handlers -> Seq(Items)]]
    BY <1>4, <2>1 DEF Deliver, TypeOK
  <2> QED
    BY <1>2, <1>4, <2>2, <2>3 DEF Deliver, TypeOK, ReaderStates, collectVars
<1>5. CASE ReaderPanics(c)
  BY <1>5 DEF ReaderPanics, TypeOK, collectVars, readerVars, sendVars
<1> QED
  BY <1>1, <1>3, <1>4, <1>5 DEF ReaderStep

LEMMA CollectType ==
    ASSUME TypeOK, NEW c \in Collectors, CollectStep(c), UNCHANGED nilHandlers
    PROVE  TypeOK'
<1>1. CASE Tick(c)
  <2>1. round[c] + 1 \in Rounds
    <3>1. round[c] \in Nat /\ MaxRounds[c] \in Nat /\ round[c] < MaxRounds[c]
      BY <1>1, PipelineAssumption DEF Tick, TypeOK
    <3>2. round[c] + 1 \in 1 .. MaxRounds[c]
      BY <3>1
    <3> QED
      BY <3>2 DEF Rounds
  <2>2. PICK script \in Scripts[c] : left' = [left EXCEPT ![c][round[c] + 1] = script]
    BY <1>1 DEF Tick
  <2>3. script \in Seq(Items)
    BY PipelineAssumption
  <2>4. left' \in [Collectors -> [Rounds -> Seq(Items)]]
    BY <2>1, <2>2, <2>3 DEF TypeOK
  <2>5. armed' \in [Collectors -> SUBSET Rounds]
    BY <1>1, <2>1 DEF Tick, TypeOK
  <2>6. runner' \in [Collectors -> RunnerSteps]
    BY <1>1 DEF Tick, TypeOK, RunnerSteps
  <2>7. round' \in [Collectors -> Nat]
    BY <1>1 DEF Tick, TypeOK
  <2> QED
    BY <1>1, <2>4, <2>5, <2>6, <2>7 DEF Tick, TypeOK, readerVars, sendVars
<1>2. CASE CollectReturns(c)
  BY <1>2 DEF CollectReturns, TypeOK, RunnerSteps, readerVars, sendVars
<1>3. CASE StopTimer(c)
  BY <1>3 DEF StopTimer, TypeOK, RunnerSteps, readerVars, sendVars
<1>4. ASSUME NEW r \in Rounds, TimerFires(c, r) PROVE TypeOK'
  <2>1. raised' \in [Collectors -> Seq(Rounds)]
    BY <1>4 DEF TimerFires, TypeOK
  <2>2. armed' \in [Collectors -> SUBSET Rounds]
    BY <1>4 DEF TimerFires, TypeOK
  <2>3. reporting' \in [Collectors -> Nat]
    BY <1>4 DEF TimerFires, TypeOK
  <2> QED
    BY <1>4, <2>1, <2>2, <2>3 DEF TimerFires, TypeOK, readerVars, sendVars
<1> QED
  BY <1>1, <1>2, <1>3, <1>4 DEF CollectStep

LEMMA ReadType ==
    ASSUME TypeOK, NEW c \in Collectors, UNCHANGED nilHandlers,
           (\E r \in Rounds : Read(c, r)) \/ ReadIncident(c)
    PROVE  TypeOK'
<1>1. ASSUME NEW r \in Rounds, Read(c, r) PROVE TypeOK'
  <2>1. left[c][r] \in Seq(Items) /\ left[c][r] # <<>>
    BY <1>1 DEF Read, TypeOK
  <2>2. Head(left[c][r]) \in Items /\ Tail(left[c][r]) \in Seq(Items)
    BY <2>1
  <2>3. left' \in [Collectors -> [Rounds -> Seq(Items)]]
    BY <1>1, <2>2 DEF Read, TypeOK
  <2>4. PICK item \in Items : item = Head(left[c][r])
    BY <2>2
  <2>5. Accept(c, item)
    BY <1>1, <2>4 DEF Read
  <2> QED
    BY <1>1, <2>3, <2>5, AcceptType DEF Read, TypeOK, ReaderStates, sendVars
<1>2. CASE ReadIncident(c)
  <2>1. PICK item \in Items : item = Incident(c)
    BY IncidentType
  <2>2. Accept(c, item)
    BY <1>2, <2>1 DEF ReadIncident
  <2>3. reporting' \in [Collectors -> Nat]
    BY <1>2 DEF ReadIncident, TypeOK
  <2> QED
    BY <1>2, <2>2, <2>3, AcceptType DEF ReadIncident, TypeOK, ReaderStates, sendVars
<1> QED
  BY <1>1, <1>2

LEMMA TypeStep == TypeOK /\ [Next]_vars => TypeOK'
<1> SUFFICES ASSUME TypeOK, [Next]_vars PROVE TypeOK'
  OBVIOUS
<1>1. ASSUME NEW h \in Handlers, NEW n \in Names, Drain(h, n), UNCHANGED nilHandlers
      PROVE  TypeOK'
  BY <1>1 DEF Drain, TypeOK, collectVars, readerVars
<1>2. ASSUME NEW k \in Errors, Fire(k) \/ ReportError(k) \/ HookPanics(k),
             UNCHANGED nilHandlers
      PROVE  TypeOK'
  <2>1. errorAt' \in [Errors -> 0 .. HandlerCount + 1]
    <3>1. \A h \in Handlers : h + 1 \in 0 .. HandlerCount + 1
      BY PipelineAssumption DEF Handlers
    <3>2. 0 \in 0 .. HandlerCount + 1 /\ 1 \in 0 .. HandlerCount + 1
      BY PipelineAssumption
    <3>3. errorAt \in [Errors -> 0 .. HandlerCount + 1]
      BY DEF TypeOK
    <3>4. CASE Fire(k)
      BY <3>2, <3>3, <3>4 DEF Fire
    <3>5. CASE ReportError(k)
      BY <3>1, <3>3, <3>5 DEF ReportError
    <3>6. CASE HookPanics(k)
      BY <3>2, <3>3, <3>6 DEF HookPanics
    <3> QED
      BY <1>2, <3>4, <3>5, <3>6
  <2> QED
    BY <1>2, <2>1
       DEF Fire, ReportError, HookPanics, TypeOK, collectVars, readerVars, sendVars
<1>3. CASE UNCHANGED vars
  BY <1>3 DEF vars, collectVars, readerVars, sendVars, TypeOK
<1> QED
  BY <1>1, <1>2, <1>3, CollectType, ReadType, ReaderType DEF Next

\* Every variable keeps its type; in particular the reader never looks past the last
\* handler and never sends what it does not have.
THEOREM PipelineTypes == Spec => []TypeOK
  BY TypeInit, TypeStep, PTL DEF Spec

-----------------------------------------------------------------------------
(***************************************************************************)
(* Deliveries and counts.                                                  *)
(***************************************************************************)
\* What a handler was sent, the reader did not drop, and the handler wants it.
DeliveredWanted ==
    \A c \in Collectors, h \in Handlers : \A i \in 1 .. Len(delivered[c][h]) :
        /\ delivered[c][h][i].kind # "unwanted"
        /\ delivered[c][h][i].name \in Routes(h)

\* A count is that of what a handler is owed.
OwedCounted ==
    \A c \in Collectors, h \in Handlers : \A n \in Routes(h) :
        emissionCounter[c][n] = CountIn(owed[c][h], n)

DeliveryInv ==
    TypeOK /\ WantedInHand /\ DeliveredWanted /\ OwedCounted /\ InOrderToEach

\* An item the reader takes is dropped, or counted, owed and in hand.
LEMMA AcceptEffect ==
    ASSUME TypeOK, NEW c \in Collectors, NEW item \in Items, Accept(c, item)
    PROVE  \/ UNCHANGED readerVars
           \/ /\ item.kind # "unwanted"
              /\ reader'[c].step \in {"publishing", "sending"}
              /\ reader'[c].item = item /\ reader'[c].next = 1
              /\ \A n \in reader'[c].unpublished : emissionCounter'[c][n] > 0
              /\ \A d \in Collectors \ {c} : reader'[d] = reader[d]
              /\ \A d \in Collectors, n \in Names :
                    emissionCounter'[d][n] = IF d = c /\ n = item.name
                                             THEN emissionCounter[d][n] + 1
                                             ELSE emissionCounter[d][n]
              /\ \A d \in Collectors, h \in Handlers :
                    owed'[d][h] = IF d = c /\ item.name \in Routes(h)
                                  THEN Append(owed[d][h], item) ELSE owed[d][h]
<1>1. CASE item.kind # "unwanted"
  <2>1. PICK due \in BOOLEAN :
           reader' = [reader EXCEPT ![c] =
               [step |-> IF due THEN "publishing" ELSE "sending", item |-> item,
                next |-> 1,
                unpublished |->
                   IF due THEN {n \in Names : emissionCounter'[c][n] > 0} ELSE {}]]
    BY <1>1 DEF Accept
  <2>2. /\ reader'[c].step \in {"publishing", "sending"}
        /\ reader'[c].item = item /\ reader'[c].next = 1
        /\ \A n \in reader'[c].unpublished : emissionCounter'[c][n] > 0
        /\ \A d \in Collectors \ {c} : reader'[d] = reader[d]
    BY <2>1 DEF TypeOK
  <2>3. emissionCounter' = [emissionCounter EXCEPT ![c][item.name] = @ + 1]
    BY <1>1 DEF Accept
  <2>4. \A d \in Collectors, n \in Names :
           emissionCounter'[d][n] = IF d = c /\ n = item.name
                                    THEN emissionCounter[d][n] + 1
                                    ELSE emissionCounter[d][n]
    BY <2>3 DEF TypeOK
  <2>5. owed' = [owed EXCEPT ![c] =
             [h \in Handlers |-> IF item.name \in Routes(h)
                                 THEN Append(owed[c][h], item) ELSE owed[c][h]]]
    BY <1>1 DEF Accept, TypeOK
  <2>6. \A d \in Collectors, h \in Handlers :
           owed'[d][h] = IF d = c /\ item.name \in Routes(h)
                         THEN Append(owed[d][h], item) ELSE owed[d][h]
    BY <2>5 DEF TypeOK
  <2> QED
    BY <1>1, <2>2, <2>4, <2>6
<1> QED
  BY <1>1 DEF Accept

\* What is in hand, in the two forms it has.
LEMMA InHandForms ==
    ASSUME TypeOK, NEW c \in Collectors, NEW h \in Handlers
    PROVE  /\ InHand(c, h) \in Seq(Items)
           /\ owed[c][h] \in Seq(Items) /\ delivered[c][h] \in Seq(Items)
           /\ InHand(c, h) = <<>> => delivered[c][h] \o InHand(c, h) = delivered[c][h]
           /\ InHand(c, h) # <<>> =>
                 /\ reader[c].item \in Items
                 /\ InHand(c, h) = <<reader[c].item>>
                 /\ delivered[c][h] \o InHand(c, h) = Append(delivered[c][h], reader[c].item)
<1>1. owed[c][h] \in Seq(Items) /\ delivered[c][h] \in Seq(Items)
  BY DEF TypeOK
<1>2. CASE InHand(c, h) = <<>>
  BY <1>1, <1>2
<1>3. CASE InHand(c, h) # <<>>
  <2>1. InHand(c, h) = <<reader[c].item>> /\ reader[c].item \in Items
    BY <1>3 DEF InHand, TypeOK
  <2> QED
    BY <1>1, <2>1
<1> QED
  BY <1>2, <1>3, <1>1

\* A step that leaves the histories, the counts and what is in hand alone.
LEMMA DeliveryFrame ==
    ASSUME DeliveryInv, TypeOK', WantedInHand',
           UNCHANGED <<emissionCounter, owed, delivered>>,
           \A c \in Collectors, h \in Handlers : InHand(c, h)' = InHand(c, h)
    PROVE  DeliveryInv'
<1>1. DeliveredWanted'
  BY DEF DeliveryInv, DeliveredWanted
<1>2. OwedCounted'
  <2> SUFFICES ASSUME NEW c \in Collectors, NEW h \in Handlers, NEW n \in Routes(h)
               PROVE  emissionCounter'[c][n] = CountIn(owed'[c][h], n)
    BY DEF OwedCounted
  <2>1. emissionCounter[c][n] = CountIn(owed[c][h], n)
    BY DEF DeliveryInv, OwedCounted
  <2> QED
    BY <2>1
<1>3. InOrderToEach'
  <2> SUFFICES ASSUME NEW c \in Collectors, NEW h \in Handlers
               PROVE  owed'[c][h] = delivered'[c][h] \o InHand(c, h)'
    BY DEF InOrderToEach
  <2>1. owed[c][h] = delivered[c][h] \o InHand(c, h)
    BY DEF DeliveryInv, InOrderToEach
  <2> QED
    BY <2>1
<1> QED
  BY <1>1, <1>2, <1>3 DEF DeliveryInv

LEMMA TakeKeepsDeliveries ==
    ASSUME DeliveryInv, NEW c \in Collectors, NEW item \in Items,
           reader[c].step = "receiving", Accept(c, item), UNCHANGED delivered, TypeOK'
    PROVE  DeliveryInv'
<1>0. TypeOK
  BY DEF DeliveryInv
<1>1. CASE UNCHANGED readerVars
  <2>1. WantedInHand'
    BY <1>1 DEF readerVars, DeliveryInv, WantedInHand
  <2>2. \A d \in Collectors, h \in Handlers : InHand(d, h)' = InHand(d, h)
    BY <1>1 DEF readerVars, InHand
  <2> QED
    BY <1>1, <2>1, <2>2, DeliveryFrame DEF readerVars
<1>2. CASE /\ item.kind # "unwanted"
           /\ reader'[c].step \in {"publishing", "sending"}
           /\ reader'[c].item = item /\ reader'[c].next = 1
           /\ \A d \in Collectors \ {c} : reader'[d] = reader[d]
           /\ \A d \in Collectors, n \in Names :
                 emissionCounter'[d][n] = IF d = c /\ n = item.name
                                          THEN emissionCounter[d][n] + 1
                                          ELSE emissionCounter[d][n]
           /\ \A d \in Collectors, h \in Handlers :
                 owed'[d][h] = IF d = c /\ item.name \in Routes(h)
                               THEN Append(owed[d][h], item) ELSE owed[d][h]
  <2>1. WantedInHand' /\ DeliveredWanted'
    BY <1>2 DEF DeliveryInv, WantedInHand, DeliveredWanted
  <2>2. OwedCounted'
    <3> SUFFICES ASSUME NEW d \in Collectors, NEW h \in Handlers, NEW n \in Routes(h)
                 PROVE  emissionCounter'[d][n] = CountIn(owed'[d][h], n)
      BY DEF OwedCounted
    <3>1. n \in Names /\ owed[d][h] \in Seq(Items)
      BY <1>0, PipelineAssumption DEF Routes, TypeOK
    <3>2. emissionCounter[d][n] = CountIn(owed[d][h], n)
      BY DEF DeliveryInv, OwedCounted
    <3>3. CountIn(Append(owed[d][h], item), n)
             = IF item.name = n THEN CountIn(owed[d][h], n) + 1 ELSE CountIn(owed[d][h], n)
      BY <3>1, CountInAppend
    <3> HIDE DEF CountIn
    <3>4. CASE d = c /\ item.name \in Routes(h)
      BY <1>2, <3>1, <3>2, <3>3, <3>4
    <3>5. CASE ~(d = c /\ item.name \in Routes(h))
      BY <1>2, <3>1, <3>2, <3>5
    <3> QED
      BY <3>4, <3>5
  <2>3. InOrderToEach'
    <3> SUFFICES ASSUME NEW d \in Collectors, NEW h \in Handlers
                 PROVE  owed'[d][h] = delivered'[d][h] \o InHand(d, h)'
      BY DEF InOrderToEach
    <3>1. owed[d][h] = delivered[d][h] \o InHand(d, h)
      BY DEF DeliveryInv, InOrderToEach
    <3>2. CASE d # c
      BY <1>2, <3>1, <3>2 DEF InHand
    <3>3. CASE d = c
      <4>1. InHand(d, h) = <<>> /\ delivered[d][h] \in Seq(Items)
        BY <1>0, <3>3 DEF InHand, TypeOK
      <4>2. owed[d][h] = delivered[d][h]
        BY <3>1, <4>1
      <4>3. CASE item.name \in Routes(h)
        <5>1. InHand(d, h)' = <<item>>
          BY <1>2, <3>3, <4>3 DEF InHand, Handlers
        <5>2. owed'[d][h] = Append(delivered[d][h], item)
          BY <1>2, <3>3, <4>2, <4>3
        <5>3. Append(delivered[d][h], item) = delivered[d][h] \o <<item>>
          BY <4>1
        <5> QED
          BY <5>1, <5>2, <5>3
      <4>4. CASE item.name \notin Routes(h)
        <5>1. InHand(d, h)' = <<>>
          BY <1>2, <3>3, <4>4 DEF InHand
        <5>2. owed'[d][h] = delivered[d][h]
          BY <1>2, <3>3, <4>2, <4>4
        <5>3. delivered[d][h] \o <<>> = delivered[d][h]
          BY <4>1
        <5> QED
          BY <5>1, <5>2, <5>3
      <4> QED
        BY <4>3, <4>4
    <3> QED
      BY <3>2, <3>3
  <2> QED
    BY <2>1, <2>2, <2>3 DEF DeliveryInv
<1> QED
  BY <1>0, <1>1, <1>2, AcceptEffect

\* The item goes on to the next handler: what is in hand for that one and those
\* behind it stays, for the others there is none left.
LEMMA AfterHandlerInHand ==
    ASSUME TypeOK, NEW c \in Collectors, reader[c].step = "sending",
           reader' = [reader EXCEPT ![c] = AfterHandler(@)]
    PROVE  /\ \A d \in Collectors \ {c}, h \in Handlers : InHand(d, h)' = InHand(d, h)
           /\ \A h \in Handlers :
                 InHand(c, h)' = IF h = reader[c].next THEN <<>> ELSE InHand(c, h)
           /\ \A d \in Collectors : reader'[d].step # "receiving" =>
                 reader[d].step # "receiving" /\ reader'[d].item = reader[d].item
<1>1. /\ reader[c] \in ReaderStates /\ reader'[c] = AfterHandler(reader[c])
      /\ \A d \in Collectors \ {c} : reader'[d] = reader[d]
  BY DEF TypeOK, ReaderStates
<1>2. reader[c].next \in Handlers
  BY <1>1 DEF ReaderStates
<1>3. CASE reader[c].next = HandlerCount
  <2>1. reader'[c].step = "receiving"
    BY <1>1, <1>3 DEF AfterHandler, Receiving
  <2>2. \A h \in Handlers : reader[c].next <= h => h = reader[c].next
    BY <1>3, PipelineAssumption DEF Handlers
  <2> QED
    BY <1>1, <2>1, <2>2 DEF InHand
<1>4. CASE reader[c].next # HandlerCount
  <2>1. reader'[c] = [reader[c] EXCEPT !.next = @ + 1]
    BY <1>1, <1>4 DEF AfterHandler
  <2>2. /\ reader'[c].step = "sending" /\ reader'[c].item = reader[c].item
        /\ reader'[c].next = reader[c].next + 1
    BY <1>1, <2>1 DEF ReaderStates
  <2>3. \A h \in Handlers :
           reader[c].next + 1 <= h <=> reader[c].next <= h /\ h # reader[c].next
    BY <1>2, PipelineAssumption DEF Handlers
  <2> QED
    BY <1>1, <2>2, <2>3 DEF InHand
<1> QED
  BY <1>3, <1>4

LEMMA ReaderKeepsDeliveries ==
    ASSUME DeliveryInv, NEW c \in Collectors, ReaderStep(c), TypeOK'
    PROVE  DeliveryInv'
<1>0. TypeOK
  BY DEF DeliveryInv
<1>1. ASSUME NEW n \in Names, Publish(c, n) PROVE DeliveryInv'
  <2>1. UNCHANGED <<emissionCounter, owed, delivered>>
    BY <1>1 DEF Publish, sendVars
  <2>2. \A d \in Collectors : /\ reader'[d].item = reader[d].item
                             /\ reader'[d].next = reader[d].next
                             /\ (reader'[d].step = "receiving") = (reader[d].step = "receiving")
    <3>1. reader \in [Collectors -> ReaderStates] /\ reader[c].step = "publishing"
      BY <1>0, <1>1 DEF Publish, TypeOK, ReaderStates
    <3> DEFINE rest == reader[c].unpublished \ {n}
               after == [reader[c] EXCEPT !.unpublished = rest,
                                          !.step = IF rest = {} THEN "sending" ELSE @]
    <3>2. reader' = [reader EXCEPT ![c] = after]
      BY <1>1 DEF Publish
    <3>3. /\ after.item = reader[c].item /\ after.next = reader[c].next
          /\ after.step # "receiving"
      BY <3>1 DEF ReaderStates
    <3> HIDE DEF after
    <3> QED
      BY <3>1, <3>2, <3>3
  <2>3. \A d \in Collectors, h \in Handlers : InHand(d, h)' = InHand(d, h)
    BY <2>2 DEF InHand
  <2>4. WantedInHand'
    BY <2>2 DEF DeliveryInv, WantedInHand
  <2> QED
    BY <2>1, <2>3, <2>4, DeliveryFrame
<1>2. CASE Skip(c)
  <2>1. UNCHANGED <<emissionCounter, owed, delivered>>
    BY <1>2 DEF Skip, sendVars
  <2>2. /\ \A d \in Collectors, h \in Handlers : InHand(d, h)' = InHand(d, h)
        /\ WantedInHand'
    <3>1. InHand(c, reader[c].next) = <<>>
      BY <1>2 DEF Skip, InHand
    <3>2. /\ reader[c].step = "sending"
          /\ reader' = [reader EXCEPT ![c] = AfterHandler(@)]
      BY <1>2 DEF Skip
    <3> QED
      BY <1>0, <3>1, <3>2, AfterHandlerInHand DEF DeliveryInv, WantedInHand
  <2> QED
    BY <2>1, <2>2, DeliveryFrame
<1>3. CASE Deliver(c)
  <2> DEFINE k == reader[c].next
             item == reader[c].item
  <2>1. /\ k \in Handlers /\ item \in Items /\ item.name \in Routes(k)
        /\ item.kind # "unwanted" /\ reader[c].step = "sending"
        /\ UNCHANGED <<emissionCounter, owed>>
        /\ reader' = [reader EXCEPT ![c] = AfterHandler(@)]
    BY <1>0, <1>3 DEF Deliver, TypeOK, DeliveryInv, WantedInHand
  <2>2. /\ \A d \in Collectors \ {c}, h \in Handlers : InHand(d, h)' = InHand(d, h)
        /\ \A h \in Handlers : InHand(c, h)' = IF h = k THEN <<>> ELSE InHand(c, h)
        /\ WantedInHand'
    BY <1>0, <2>1, AfterHandlerInHand DEF DeliveryInv, WantedInHand
  <2>3. InHand(c, k) = <<item>>
    BY <2>1 DEF InHand, Handlers
  <2>4. \A d \in Collectors, h \in Handlers :
           /\ delivered[d][h] \in Seq(Items)
           /\ delivered'[d][h] = IF d = c /\ h = k THEN Append(delivered[d][h], item)
                                 ELSE delivered[d][h]
    <3>1. delivered' = [delivered EXCEPT ![c][k] = Append(@, item)]
      BY <1>3 DEF Deliver
    <3>2. delivered \in [Collectors -> [Handlers -> Seq(Items)]]
      BY <1>0 DEF TypeOK
    <3> HIDE DEF k, item
    <3> QED
      BY <2>1, <3>1, <3>2
  <2> HIDE DEF k, item
  <2>5. InOrderToEach'
    <3> SUFFICES ASSUME NEW d \in Collectors, NEW h \in Handlers
                 PROVE  owed'[d][h] = delivered'[d][h] \o InHand(d, h)'
      BY DEF InOrderToEach
    <3>1. owed[d][h] = delivered[d][h] \o InHand(d, h)
      BY DEF DeliveryInv, InOrderToEach
    <3>2. CASE d = c /\ h = k
      <4>1. owed'[d][h] = delivered[d][h] \o <<item>>
        BY <2>1, <2>3, <3>1, <3>2
      <4>2. delivered'[d][h] \o InHand(d, h)' = Append(delivered[d][h], item) \o <<>>
        BY <2>2, <2>4, <3>2
      <4> QED
        BY <2>1, <2>4, <4>1, <4>2
    <3>3. CASE ~(d = c /\ h = k)
      BY <2>1, <2>2, <2>4, <3>1, <3>3
    <3> QED
      BY <3>2, <3>3
  <2>6. DeliveredWanted'
    <3> SUFFICES ASSUME NEW d \in Collectors, NEW h \in Handlers,
                        NEW i \in 1 .. Len(delivered'[d][h])
                 PROVE  /\ delivered'[d][h][i].kind # "unwanted"
                        /\ delivered'[d][h][i].name \in Routes(h)
      BY DEF DeliveredWanted
    <3>1. CASE d = c /\ h = k
      <4>1. delivered'[d][h] = Append(delivered[d][h], item)
        BY <2>4, <3>1
      <4>2. CASE i \in 1 .. Len(delivered[d][h])
        BY <2>4, <4>1, <4>2 DEF DeliveryInv, DeliveredWanted
      <4>3. CASE i \notin 1 .. Len(delivered[d][h])
        BY <2>1, <2>4, <3>1, <4>1, <4>3
      <4> QED
        BY <4>2, <4>3
    <3>2. CASE ~(d = c /\ h = k)
      BY <2>4, <3>2 DEF DeliveryInv, DeliveredWanted
    <3> QED
      BY <3>1, <3>2
  <2> QED
    BY <2>1, <2>2, <2>5, <2>6 DEF DeliveryInv, OwedCounted
<1>4. CASE ReaderPanics(c)
  <2>1. WantedInHand'
    BY <1>4 DEF ReaderPanics, readerVars, DeliveryInv, WantedInHand
  <2>2. \A d \in Collectors, h \in Handlers : InHand(d, h)' = InHand(d, h)
    BY <1>4 DEF ReaderPanics, readerVars, InHand
  <2> QED
    BY <1>4, <2>1, <2>2, DeliveryFrame DEF ReaderPanics, readerVars, sendVars
<1> QED
  BY <1>1, <1>2, <1>3, <1>4 DEF ReaderStep

LEMMA DeliveryStep == DeliveryInv /\ [Next]_vars => DeliveryInv'
<1> SUFFICES ASSUME DeliveryInv, [Next]_vars PROVE DeliveryInv'
  OBVIOUS
<1>0. TypeOK /\ TypeOK'
  BY TypeStep DEF DeliveryInv
<1>1. ASSUME UNCHANGED <<reader, emissionCounter, owed, delivered>> PROVE DeliveryInv'
  <2>1. WantedInHand'
    BY <1>1 DEF DeliveryInv, WantedInHand
  <2>2. \A c \in Collectors, h \in Handlers : InHand(c, h)' = InHand(c, h)
    BY <1>1 DEF InHand
  <2> QED
    BY <1>0, <1>1, <2>1, <2>2, DeliveryFrame
<1>2. ASSUME NEW c \in Collectors, NEW r \in Rounds, Read(c, r) PROVE DeliveryInv'
  <2>1. Head(left[c][r]) \in Items
    BY <1>0, <1>2 DEF Read, TypeOK
  <2> QED
    BY <1>0, <1>2, <2>1, TakeKeepsDeliveries DEF Read, sendVars
<1>3. ASSUME NEW c \in Collectors, ReadIncident(c) PROVE DeliveryInv'
  <2>1. Incident(c) \in Items
    BY IncidentType
  <2> QED
    BY <1>0, <1>3, <2>1, TakeKeepsDeliveries DEF ReadIncident, sendVars
<1>4. ASSUME NEW c \in Collectors, CollectStep(c) PROVE DeliveryInv'
  BY <1>1, <1>4 DEF CollectStep, Tick, CollectReturns, StopTimer, TimerFires,
                    readerVars, sendVars
<1>5. ASSUME NEW h \in Handlers, NEW n \in Names, Drain(h, n) PROVE DeliveryInv'
  BY <1>1, <1>5 DEF Drain, readerVars
<1>6. ASSUME NEW k \in Errors, Fire(k) \/ ReportError(k) \/ HookPanics(k)
      PROVE  DeliveryInv'
  BY <1>1, <1>6 DEF Fire, ReportError, HookPanics, readerVars, sendVars
<1>7. CASE UNCHANGED vars
  BY <1>1, <1>7 DEF vars, readerVars, sendVars
<1> QED
  BY <1>0, <1>2, <1>3, <1>4, <1>5, <1>6, <1>7, ReaderKeepsDeliveries DEF Next

LEMMA DeliveryInit == Init => DeliveryInv
<1> SUFFICES ASSUME Init PROVE DeliveryInv
  OBVIOUS
<1>1. TypeOK
  BY TypeInit
<1>2. WantedInHand
  BY DEF Init, Receiving, WantedInHand
<1>3. DeliveredWanted
  BY DEF Init, DeliveredWanted
<1>4. OwedCounted
  BY CountInEmpty, PipelineAssumption DEF Init, OwedCounted, Routes
<1>5. InOrderToEach
  BY DEF Init, Receiving, InHand, InOrderToEach
<1> QED
  BY <1>1, <1>2, <1>3, <1>4, <1>5 DEF DeliveryInv

LEMMA DeliveryAlways == Spec => []DeliveryInv
  BY DeliveryInit, DeliveryStep, PTL DEF Spec

\* Every handler gets what the reader took for it, once and in the order in which
\* the reader took it.
THEOREM InOrder == Spec => []InOrderToEach
<1>1. DeliveryInv => InOrderToEach
  BY DEF DeliveryInv
<1> QED
  BY <1>1, DeliveryAlways, PTL

\* A channel holds what a reader wanted to send there.
ChannelWanted ==
    \A h \in Handlers, n \in Names :
        channel[h][n] # None =>
            /\ channel[h][n].kind # "unwanted"
            /\ channel[h][n].name = n
            /\ n \in Routes(h)

LEMMA ChannelStep ==
    DeliveryInv /\ ChannelWanted /\ [Next]_vars => ChannelWanted'
<1> SUFFICES ASSUME DeliveryInv, ChannelWanted, [Next]_vars
             PROVE  ChannelWanted'
  OBVIOUS
<1>0. channel \in [Handlers -> [Names -> Items \cup {None}]]
  BY DEF DeliveryInv, TypeOK
<1>1. CASE UNCHANGED channel
  BY <1>1 DEF ChannelWanted
<1>2. ASSUME NEW c \in Collectors, Deliver(c) PROVE ChannelWanted'
  <2>1. PICK k \in Handlers, item \in Items :
           /\ item.kind # "unwanted" /\ item.name \in Routes(k)
           /\ channel' = [channel EXCEPT ![k][item.name] = item]
    <3>1. reader[c].next \in Handlers /\ reader[c].item \in Items
      BY <1>2 DEF DeliveryInv, TypeOK, Deliver
    <3>2. reader[c].item.kind # "unwanted"
      BY <1>2 DEF DeliveryInv, WantedInHand, Deliver
    <3> QED
      BY <1>2, <3>1, <3>2 DEF Deliver
  <2>2. item.name \in Names
    BY DEF Items
  <2>3. \A h \in Handlers, n \in Names :
           channel'[h][n] = IF h = k /\ n = item.name THEN item
                            ELSE channel[h][n]
    BY <1>0, <2>1, <2>2
  <2> QED
    BY <2>1, <2>3 DEF ChannelWanted
<1>3. ASSUME NEW k \in Handlers, NEW m \in Names, Drain(k, m)
      PROVE  ChannelWanted'
  <2>1. channel' = [channel EXCEPT ![k][m] = None]
    BY <1>3 DEF Drain
  <2>2. \A h \in Handlers, n \in Names :
           channel'[h][n] = None \/ channel'[h][n] = channel[h][n]
    BY <1>0, <2>1
  <2> QED
    BY <2>2 DEF ChannelWanted
<1>4. \/ UNCHANGED channel
      \/ \E c \in Collectors : Deliver(c)
      \/ \E h \in Handlers, n \in Names : Drain(h, n)
  BY DEF Next, vars, CollectStep, Tick, CollectReturns, StopTimer, TimerFires,
         Read, ReadIncident, ReaderStep, Publish, Skip, ReaderPanics, Fire,
         ReportError, HookPanics, sendVars
<1> QED
  BY <1>1, <1>2, <1>3, <1>4

\* No handler is sent, and no channel holds, a metric that the blacklist of the
\* collector or the handler's own lists keep from it, or one of a collector
\* that the channel was not made for.
THEOREM OnlyWanted == Spec => []OnlyWantedDelivered
<1>1. Init => ChannelWanted
  BY PipelineAssumption DEF Init, ChannelWanted
<1>2. DeliveryInv /\ ChannelWanted => OnlyWantedDelivered
  BY DEF DeliveryInv, DeliveredWanted, ChannelWanted, OnlyWantedDelivered, Wanted,
         Routes
<1> QED
  BY <1>1, <1>2, ChannelStep, DeliveryAlways, PTL DEF Spec

\* The counts a reader keeps are those of what it sent to each handler and of the
\* item in its hand.
THEOREM CountsMatch == Spec => []CountsMatchDeliveries
<1>1. DeliveryInv => CountsMatchDeliveries
  <2> SUFFICES ASSUME DeliveryInv, NEW c \in Collectors, NEW h \in Handlers,
                      NEW n \in Routes(h)
               PROVE  emissionCounter[c][n]
                        = CountIn(delivered[c][h], n) + CountIn(InHand(c, h), n)
    BY DEF CountsMatchDeliveries, CountIn
  <2>0. TypeOK /\ n \in Names /\ emissionCounter[c][n] = CountIn(owed[c][h], n)
        /\ owed[c][h] = delivered[c][h] \o InHand(c, h)
    BY PipelineAssumption DEF DeliveryInv, OwedCounted, InOrderToEach, Routes
  <2>1. CountIn(<<>>, n) = 0
    BY <2>0, CountInEmpty
  <2>2. delivered[c][h] \in Seq(Items) /\ <<>> \in Seq(Items)
    BY <2>0 DEF TypeOK
  <2>3. CASE InHand(c, h) = <<>>
    <3>1. owed[c][h] = delivered[c][h]
      BY <2>0, <2>3, InHandForms
    <3>2. CountIn(delivered[c][h], n) \in Nat
      <4>1. PICK item \in Items : item = [kind |-> "plain", name |-> n]
        BY <2>0 DEF Items, Kinds
      <4> QED
        BY <2>0, <2>2, <4>1, CountInAppend
    <3> HIDE DEF CountIn
    <3> QED
      BY <2>0, <2>1, <2>3, <3>1, <3>2
  <2>4. CASE InHand(c, h) # <<>>
    <3>1. PICK item \in Items : /\ InHand(c, h) = <<item>>
                                /\ owed[c][h] = Append(delivered[c][h], item)
      BY <2>0, <2>4, InHandForms
    <3>2. /\ CountIn(delivered[c][h], n) \in Nat
          /\ CountIn(Append(delivered[c][h], item), n)
                = IF item.name = n THEN CountIn(delivered[c][h], n) + 1
                                   ELSE CountIn(delivered[c][h], n)
      BY <2>0, <2>2, CountInAppend
    <3>3. CountIn(Append(<<>>, item), n)
             = IF item.name = n THEN CountIn(<<>>, n) + 1 ELSE CountIn(<<>>, n)
      BY <2>0, <2>2, CountInAppend
    <3>4. Append(<<>>, item) = <<item>>
      OBVIOUS
    <3>5. CountIn(InHand(c, h), n) = IF item.name = n THEN 1 ELSE 0
      BY <2>1, <3>1, <3>3, <3>4
    <3>6. emissionCounter[c][n] = CountIn(Append(delivered[c][h], item), n)
      BY <2>0, <3>1
    <3> QED
      BY <3>2, <3>5, <3>6
  <2> QED
    BY <2>3, <2>4
<1> QED
  BY <1>1, DeliveryAlways, PTL

-----------------------------------------------------------------------------
(***************************************************************************)
(* Timers.                                                                 *)
(***************************************************************************)
TimerInv == TypeOK /\ TimerInRound

LEMMA TimerInit == Init => TimerInv
  BY TypeInit DEF Init, TimerInv, TimerInRound

LEMMA TimerStep == TimerInv /\ [Next]_vars => TimerInv'
<1> SUFFICES ASSUME TimerInv, [Next]_vars PROVE TimerInRound'
  BY TypeStep DEF TimerInv
<1>0. /\ round \in [Collectors -> Nat] /\ raised \in [Collectors -> Seq(Rounds)]
      /\ runner \in [Collectors -> RunnerSteps]
      /\ armed \in [Collectors -> SUBSET Rounds]
      /\ \A c \in Collectors : MaxRounds[c] \in Nat
      /\ TimerInRound
  BY PipelineAssumption DEF TimerInv, TypeOK
<1>1. ASSUME UNCHANGED <<round, runner, armed, raised>> PROVE TimerInRound'
  BY <1>0, <1>1 DEF TimerInRound
<1>2. ASSUME NEW c \in Collectors, Tick(c) PROVE TimerInRound'
  <2>1. armed[c] = {}
    BY <1>2 DEF Tick, TimerInv, TimerInRound
  <2>2. /\ round'[c] = round[c] + 1 /\ runner'[c] = "collecting"
        /\ \A r \in armed'[c] : r = round'[c] /\ c \notin Listeners
        /\ UNCHANGED raised
    BY <1>0, <1>2, <2>1 DEF Tick
  <2>3. \A i \in 1 .. Len(raised[c]) :
           raised[c][i] <= round[c] /\ raised[c][i] \in Rounds
    BY <1>0, ElementOfSeq DEF TimerInRound
  <2>4. Rounds \subseteq Nat
    BY <1>0 DEF Rounds
  <2>5. \A i \in 1 .. Len(raised[c]) :
           raised[c][i] <= round'[c] /\ raised[c][i] < round'[c]
    <3> SUFFICES ASSUME NEW i \in 1 .. Len(raised[c])
                 PROVE  /\ raised[c][i] <= round'[c]
                        /\ raised[c][i] < round'[c]
      OBVIOUS
    <3>1. round[c] \in Nat /\ raised[c][i] \in Nat
      BY <1>0, <2>3, <2>4
    <3>2. raised[c][i] <= round[c] /\ round'[c] = round[c] + 1
      BY <2>2, <2>3
    <3> QED
      BY <3>1, <3>2
  <2>6. \A d \in Collectors \ {c} :
           /\ round'[d] = round[d] /\ runner'[d] = runner[d]
           /\ armed'[d] = armed[d]
    BY <1>0, <1>2 DEF Tick
  <2> QED
    BY <1>0, <2>2, <2>5, <2>6 DEF TimerInRound
<1>3. ASSUME NEW c \in Collectors, CollectReturns(c) PROVE TimerInRound'
  <2>1. /\ UNCHANGED <<round, armed, raised>>
        /\ \A d \in Collectors :
              runner'[d] = IF d = c
                           THEN IF c \in Listeners THEN "waiting" ELSE "stopping"
                           ELSE runner[d]
    BY <1>0, <1>3 DEF CollectReturns
  <2> QED
    BY <1>0, <2>1 DEF TimerInRound
<1>4. ASSUME NEW c \in Collectors, StopTimer(c) PROVE TimerInRound'
  <2>1. /\ UNCHANGED <<round, raised>>
        /\ armed'[c] = {}
        /\ \A d \in Collectors \ {c} : /\ armed'[d] = armed[d]
                                       /\ runner'[d] = runner[d]
    BY <1>0, <1>4 DEF StopTimer, TimerInRound
  <2> QED
    BY <1>0, <2>1 DEF TimerInRound
<1>5. ASSUME NEW c \in Collectors, NEW q \in Rounds, TimerFires(c, q)
      PROVE  TimerInRound'
  <2>1. /\ UNCHANGED <<round, runner>>
        /\ q \in armed[c] /\ armed'[c] = armed[c] \ {q}
        /\ \A d \in Collectors \ {c} : /\ armed'[d] = armed[d]
                                       /\ raised'[d] = raised[d]
        /\ raised'[c] = Append(raised[c], q)
    BY <1>0, <1>5 DEF TimerFires
  <2>2. armed'[c] = {} /\ q = round[c]
    BY <1>0, <2>1 DEF TimerInRound
  <2>3. \A i \in 1 .. Len(raised'[c]) : raised'[c][i] <= round[c]
    <3>1. /\ raised[c] \in Seq(Rounds) /\ round[c] \in Nat
          /\ \A i \in 1 .. Len(raised[c]) : raised[c][i] <= round[c]
      BY <1>0 DEF TimerInRound
    <3>2. /\ Len(raised'[c]) = Len(raised[c]) + 1
          /\ raised'[c][Len(raised[c]) + 1] = q
          /\ \A i \in 1 .. Len(raised[c]) : raised'[c][i] = raised[c][i]
      BY <2>1, <3>1, AppendProperties
    <3>3. Len(raised[c]) \in Nat
      BY <3>1, LenProperties
    <3> QED
      BY <2>2, <3>1, <3>2, <3>3
  <2> QED
    BY <1>0, <2>1, <2>2, <2>3 DEF TimerInRound
<1>6. ASSUME NEW c \in Collectors,
             \/ \E r \in Rounds : Read(c, r)
             \/ ReadIncident(c)
             \/ ReaderStep(c)
      PROVE  TimerInRound'
  BY <1>1, <1>6 DEF Read, ReadIncident, ReaderStep, Publish, Skip, Deliver, ReaderPanics,
                    collectVars
<1>7. ASSUME NEW h \in Handlers, NEW n \in Names, Drain(h, n) PROVE TimerInRound'
  BY <1>1, <1>7 DEF Drain, collectVars
<1>8. ASSUME NEW k \in Errors, Fire(k) \/ ReportError(k) \/ HookPanics(k)
      PROVE  TimerInRound'
  BY <1>1, <1>8 DEF Fire, ReportError, HookPanics, collectVars
<1>9. CASE UNCHANGED vars
  BY <1>1, <1>9 DEF vars, collectVars
<1> QED
  BY <1>2, <1>3, <1>4, <1>5, <1>6, <1>7, <1>8, <1>9 DEF Next, CollectStep

\* A round is reported at most once, in order, only between its tick and the
\* stop of its timer, and never for a listener.
THEOREM LateOnce == Spec => LateRoundsReportedOnce
<1> DEFINE Late(c) ==
        /\ c \notin Listeners /\ runner[c] # "waiting"
        /\ raised'[c] = Append(raised[c], round[c])
        /\ \A i \in 1 .. Len(raised[c]) : raised[c][i] < round[c]
<1>1. TimerInv /\ [Next]_vars =>
         [\A c \in Collectors : raised'[c] # raised[c] => Late(c)]_vars
  <2> SUFFICES ASSUME TimerInv, Next, NEW c \in Collectors, raised'[c] # raised[c]
               PROVE  Late(c)
    OBVIOUS
  <2>1. PICK q \in Rounds : TimerFires(c, q)
    <3>1. \/ UNCHANGED raised
          \/ \E d \in Collectors, q \in Rounds : TimerFires(d, q)
      BY DEF Next, CollectStep, Tick, CollectReturns, StopTimer, Read, ReadIncident,
             ReaderStep, Publish, Skip, Deliver, ReaderPanics, Drain, Fire,
             ReportError, HookPanics, collectVars
    <3>2. PICK d \in Collectors, q \in Rounds : TimerFires(d, q)
      BY <3>1
    <3>3. raised' = [raised EXCEPT ![d] = Append(@, q)]
      BY <3>2 DEF TimerFires
    <3>4. d = c
      BY <3>3 DEF TimerInv, TypeOK
    <3> QED
      BY <3>2, <3>4
  <2>2. q \in armed[c] /\ raised'[c] = Append(raised[c], q)
    BY <2>1 DEF TimerFires, TimerInv, TypeOK
  <2> QED
    BY <2>2 DEF TimerInv, TimerInRound
<1> QED
  BY <1>1, TimerInit, TimerStep, PTL DEF Spec, LateRoundsReportedOnce

-----------------------------------------------------------------------------
(***************************************************************************)
(* Published counts.                                                       *)
(***************************************************************************)
\* What a collector sends, counts and publishes bears a name of its own.
OwnNames ==
    /\ \A c \in Collectors, r \in Rounds : \A i \in 1 .. Len(left[c][r]) :
          left[c][r][i].name \in NamesOf(c)
    /\ \A c \in Collectors, n \in Names : emissionCounter[c][n] > 0 => n \in NamesOf(c)
    /\ \A c \in Collectors : \A n \in reader[c].unpublished : emissionCounter[c][n] > 0

\* What is published of a collector's name is not ahead of the collector's count.
PublishedBehind ==
    \A c \in Collectors : \A n \in NamesOf(c) : collectorMetrics[n] <= emissionCounter[c][n]

\* Of a name no collector has, nothing is published.
OthersUnpublished ==
    \A n \in Names : (\A c \in Collectors : n \notin NamesOf(c)) => collectorMetrics[n] = 0

PublishInv == TypeOK /\ OwnNames /\ PublishedBehind /\ OthersUnpublished

LEMMA PublishInit == Init => PublishInv
<1> SUFFICES ASSUME Init PROVE PublishInv
  OBVIOUS
<1>1. \A c \in Collectors : NamesOf(c) \subseteq Names
  BY PipelineAssumption DEF NamesOf
<1> QED
  BY <1>1, TypeInit DEF Init, Receiving, PublishInv, OwnNames, PublishedBehind,
                        OthersUnpublished

\* A step that leaves the counts, what is published and the reader alone.
LEMMA PublishFrame ==
    ASSUME PublishInv, TypeOK',
           UNCHANGED <<emissionCounter, collectorMetrics>>,
           \A c \in Collectors : reader'[c].unpublished \subseteq reader[c].unpublished,
           \A c \in Collectors, r \in Rounds : \A i \in 1 .. Len(left'[c][r]) :
               left'[c][r][i].name \in NamesOf(c)
    PROVE  PublishInv'
<1>1. OwnNames'
  BY DEF PublishInv, OwnNames
<1>2. PublishedBehind' /\ OthersUnpublished'
  BY DEF PublishInv, PublishedBehind, OthersUnpublished
<1> QED
  BY <1>1, <1>2 DEF PublishInv

\* The reader counts an item of its own collector.
LEMMA TakeKeepsPublished ==
    ASSUME PublishInv, TypeOK', NEW c \in Collectors, NEW item \in Items,
           item.name \in NamesOf(c), Accept(c, item), UNCHANGED collectorMetrics,
           \A d \in Collectors, r \in Rounds : \A i \in 1 .. Len(left'[d][r]) :
               left'[d][r][i].name \in NamesOf(d)
    PROVE  PublishInv'
<1>0. TypeOK /\ \A d \in Collectors : NamesOf(d) \subseteq Names
  BY PipelineAssumption DEF PublishInv, NamesOf
<1>1. CASE UNCHANGED readerVars
  BY <1>1, PublishFrame DEF readerVars
<1>2. CASE /\ \A n \in reader'[c].unpublished : emissionCounter'[c][n] > 0
           /\ \A d \in Collectors \ {c} : reader'[d] = reader[d]
           /\ \A d \in Collectors, n \in Names :
                 emissionCounter'[d][n] = IF d = c /\ n = item.name
                                          THEN emissionCounter[d][n] + 1
                                          ELSE emissionCounter[d][n]
  <2>1. \A d \in Collectors, n \in Names :
           /\ emissionCounter[d][n] \in Nat /\ emissionCounter'[d][n] >= emissionCounter[d][n]
           /\ collectorMetrics[n] \in Nat
    <3>1. /\ emissionCounter \in [Collectors -> [Names -> Nat]]
          /\ collectorMetrics \in [Names -> Nat]
      BY <1>0 DEF TypeOK
    <3>2. \A d \in Collectors, n \in Names :
             emissionCounter[d][n] \in Nat /\ collectorMetrics[n] \in Nat
      BY <3>1
    <3> QED
      BY <1>2, <3>2
  <2>2. \A d \in Collectors, n \in Names : emissionCounter'[d][n] > 0 => n \in NamesOf(d)
    BY <1>0, <1>2 DEF PublishInv, OwnNames
  <2>3. \A d \in Collectors : \A n \in reader'[d].unpublished : emissionCounter'[d][n] > 0
    <3> SUFFICES ASSUME NEW d \in Collectors \ {c}, NEW n \in reader[d].unpublished
                 PROVE  emissionCounter'[d][n] > 0
      BY <1>2
    <3>1. n \in Names /\ emissionCounter[d][n] > 0
      BY <1>0 DEF PublishInv, OwnNames, TypeOK
    <3> QED
      BY <1>2, <3>1
  <2>4. OwnNames'
    BY <2>2, <2>3 DEF OwnNames
  <2>5. PublishedBehind'
    <3> SUFFICES ASSUME NEW d \in Collectors, NEW n \in NamesOf(d)
                 PROVE  collectorMetrics[n] <= emissionCounter'[d][n]
      BY DEF PublishedBehind
    <3>1. n \in Names /\ collectorMetrics[n] <= emissionCounter[d][n]
      BY <1>0 DEF PublishInv, PublishedBehind
    <3>2. emissionCounter'[d][n] \in Nat
      BY <1>2, <2>1, <3>1
    <3> QED
      BY <2>1, <3>1, <3>2
  <2>6. OthersUnpublished'
    BY DEF PublishInv, OthersUnpublished
  <2> QED
    BY <2>4, <2>5, <2>6 DEF PublishInv
<1> QED
  BY <1>0, <1>1, <1>2, AcceptEffect

LEMMA PublishStep == PublishInv /\ [Next]_vars => PublishInv'
<1> SUFFICES ASSUME PublishInv, [Next]_vars PROVE PublishInv'
  OBVIOUS
<1>0. TypeOK /\ TypeOK' /\ \A c \in Collectors : NamesOf(c) \subseteq Names
  BY TypeStep, PipelineAssumption DEF PublishInv, NamesOf
<1>1. ASSUME UNCHANGED <<left, reader, emissionCounter, collectorMetrics>>
      PROVE  PublishInv'
  BY <1>0, <1>1, PublishFrame DEF PublishInv, OwnNames
<1>2. ASSUME NEW c \in Collectors, Tick(c) PROVE PublishInv'
  <2>1. PICK script \in Scripts[c] : left' = [left EXCEPT ![c][round[c] + 1] = script]
    BY <1>2 DEF Tick
  <2>2. \A i \in 1 .. Len(script) : script[i].name \in NamesOf(c)
    <3>1. script \in Seq(Items)
      BY PipelineAssumption
    <3>2. \A i \in 1 .. Len(script) : script[i].name \in Names
      <4>1. \A item \in Items : item.name \in Names
        BY DEF Items
      <4> QED
        BY <3>1, <4>1
    <3> QED
      BY <3>2 DEF NamesOf
  <2>3. \A d \in Collectors, r \in Rounds : \A i \in 1 .. Len(left'[d][r]) :
           left'[d][r][i].name \in NamesOf(d)
    <3> SUFFICES ASSUME NEW d \in Collectors, NEW r \in Rounds
                 PROVE  \A i \in 1 .. Len(left'[d][r]) : left'[d][r][i].name \in NamesOf(d)
      OBVIOUS
    <3>1. (left'[d][r] = script /\ d = c) \/ left'[d][r] = left[d][r]
      BY <1>0, <2>1 DEF TypeOK
    <3> QED
      BY <2>2, <3>1 DEF PublishInv, OwnNames
  <2> QED
    BY <1>0, <1>2, <2>3, PublishFrame DEF Tick, readerVars
<1>3. ASSUME NEW c \in Collectors, NEW r \in Rounds, Read(c, r) PROVE PublishInv'
  <2>1. left[c][r] \in Seq(Items) /\ left[c][r] # <<>>
    BY <1>0, <1>3 DEF Read, TypeOK
  <2>2. Head(left[c][r]) \in Items /\ Head(left[c][r]).name \in NamesOf(c)
    <3>1. Head(left[c][r]) = left[c][r][1] /\ 1 \in 1 .. Len(left[c][r])
      BY <2>1
    <3> QED
      BY <2>1, <3>1 DEF PublishInv, OwnNames
  <2>3. \A d \in Collectors, q \in Rounds : \A i \in 1 .. Len(left'[d][q]) :
           left'[d][q][i].name \in NamesOf(d)
    <3> SUFFICES ASSUME NEW d \in Collectors, NEW q \in Rounds
                 PROVE  \A i \in 1 .. Len(left'[d][q]) : left'[d][q][i].name \in NamesOf(d)
      OBVIOUS
    <3>1. left' = [left EXCEPT ![c][r] = Tail(left[c][r])]
      BY <1>0, <1>3 DEF Read, TypeOK
    <3>2. \/ left'[d][q] = Tail(left[c][r]) /\ d = c
          \/ left'[d][q] = left[d][q]
      BY <1>0, <3>1 DEF TypeOK
    <3>3. \A i \in 1 .. Len(Tail(left[c][r])) :
             /\ Tail(left[c][r])[i] = left[c][r][i + 1]
             /\ i + 1 \in 1 .. Len(left[c][r])
      BY <2>1
    <3> QED
      BY <3>2, <3>3 DEF PublishInv, OwnNames
  <2> QED
    BY <1>0, <1>3, <2>2, <2>3, TakeKeepsPublished DEF Read
<1>4. ASSUME NEW c \in Collectors, ReadIncident(c) PROVE PublishInv'
  <2> DEFINE item == Incident(c)
  <2>1. item \in Items /\ item.name \in NamesOf(c)
    BY IncidentType DEF NamesOf, Incident
  <2>2. Accept(c, item) /\ UNCHANGED <<left, collectorMetrics>>
    BY <1>4 DEF ReadIncident
  <2> HIDE DEF item
  <2> QED
    BY <1>0, <2>1, <2>2, TakeKeepsPublished DEF PublishInv, OwnNames
<1>5. ASSUME NEW c \in Collectors, NEW n \in Names, Publish(c, n) PROVE PublishInv'
  <2>1. /\ reader \in [Collectors -> ReaderStates] /\ n \in reader[c].unpublished
        /\ UNCHANGED <<left, emissionCounter>>
        /\ collectorMetrics' = [collectorMetrics EXCEPT ![n] = emissionCounter[c][n]]
    BY <1>0, <1>5 DEF Publish, TypeOK, ReaderStates, collectVars
  <2>2. \A d \in Collectors : reader'[d].unpublished \subseteq reader[d].unpublished
    <3> DEFINE rest == reader[c].unpublished \ {n}
               after == [reader[c] EXCEPT !.unpublished = rest,
                                          !.step = IF rest = {} THEN "sending" ELSE @]
    <3>1. reader' = [reader EXCEPT ![c] = after]
      BY <1>5 DEF Publish
    <3>2. after.unpublished \subseteq reader[c].unpublished
      BY <2>1 DEF ReaderStates
    <3> HIDE DEF after
    <3> QED
      BY <2>1, <3>1, <3>2
  <2>3. OwnNames'
    BY <2>1, <2>2 DEF PublishInv, OwnNames
  <2>4. n \in NamesOf(c)
    BY <2>1 DEF PublishInv, OwnNames
  <2>5. \A d \in Collectors : n \in NamesOf(d) => d = c
    BY <2>4, NamesAssumption
  <2>6. \A m \in Names :
           collectorMetrics'[m] = IF m = n THEN emissionCounter[c][n] ELSE collectorMetrics[m]
    BY <1>0, <2>1 DEF TypeOK
  <2>7. PublishedBehind'
    <3> SUFFICES ASSUME NEW d \in Collectors, NEW m \in NamesOf(d)
                 PROVE  collectorMetrics'[m] <= emissionCounter'[d][m]
      BY DEF PublishedBehind
    <3>1. m \in Names /\ emissionCounter[d][m] \in Nat /\ emissionCounter[c][n] \in Nat
      BY <1>0 DEF TypeOK
    <3>2. CASE m = n
      BY <2>1, <2>5, <2>6, <3>1, <3>2
    <3>3. CASE m # n
      BY <2>1, <2>6, <3>1, <3>3 DEF PublishInv, PublishedBehind
    <3> QED
      BY <3>2, <3>3
  <2>8. OthersUnpublished'
    BY <2>4, <2>6 DEF PublishInv, OthersUnpublished
  <2> QED
    BY <1>0, <2>3, <2>7, <2>8 DEF PublishInv
<1>6. ASSUME NEW c \in Collectors, Skip(c) \/ Deliver(c) \/ ReaderPanics(c) PROVE PublishInv'
  <2>1. UNCHANGED <<left, emissionCounter, collectorMetrics>>
    BY <1>6 DEF Skip, Deliver, ReaderPanics, collectVars, readerVars
  <2>2. reader' = reader \/ reader' = [reader EXCEPT ![c] = AfterHandler(@)]
    BY <1>6 DEF Skip, Deliver, ReaderPanics, readerVars
  <2>3. AfterHandler(reader[c]).unpublished \subseteq reader[c].unpublished
    BY <1>0 DEF TypeOK, AfterHandler, Receiving
  <2>4. \A d \in Collectors : reader'[d].unpublished \subseteq reader[d].unpublished
    BY <1>0, <2>2, <2>3 DEF TypeOK
  <2> QED
    BY <1>0, <2>1, <2>4, PublishFrame DEF PublishInv, OwnNames
<1>7. ASSUME NEW c \in Collectors,
             \/ CollectReturns(c) \/ StopTimer(c)
             \/ \E r \in Rounds : TimerFires(c, r)
      PROVE  PublishInv'
  BY <1>1, <1>7 DEF CollectReturns, StopTimer, TimerFires, readerVars
<1>8. ASSUME NEW h \in Handlers, NEW n \in Names, Drain(h, n) PROVE PublishInv'
  BY <1>1, <1>8 DEF Drain, collectVars, readerVars
<1>9. ASSUME NEW k \in Errors, Fire(k) \/ ReportError(k) \/ HookPanics(k)
      PROVE  PublishInv'
  BY <1>1, <1>9 DEF Fire, ReportError, HookPanics, collectVars, readerVars
<1>10. CASE UNCHANGED vars
  BY <1>1, <1>10 DEF vars, collectVars, readerVars
<1> QED
  BY <1>2, <1>3, <1>4, <1>5, <1>6, <1>7, <1>8, <1>9, <1>10
     DEF Next, CollectStep, ReaderStep

\* What is published of a collector never goes back, and is never ahead of what
\* some collector counted, whatever rounds, incidents and readers do in between.
THEOREM NeverBack ==
    ASSUME Collectors # {}
    PROVE  Spec => CountsNeverGoBack
<1>1. PublishInv /\ PublishInv' /\ [Next]_vars =>
         [\A n \in Names :
             /\ collectorMetrics'[n] >= collectorMetrics[n]
             /\ \E c \in Collectors : collectorMetrics'[n] <= emissionCounter'[c][n]]_vars
  <2> SUFFICES ASSUME PublishInv, PublishInv', Next, NEW n \in Names
               PROVE  /\ collectorMetrics'[n] >= collectorMetrics[n]
                      /\ \E c \in Collectors : collectorMetrics'[n] <= emissionCounter'[c][n]
    OBVIOUS
  <2>0. /\ collectorMetrics \in [Names -> Nat]
        /\ emissionCounter \in [Collectors -> [Names -> Nat]]
        /\ emissionCounter' \in [Collectors -> [Names -> Nat]]
    BY DEF PublishInv, TypeOK
  <2>1. collectorMetrics'[n] >= collectorMetrics[n]
    <3>1. CASE UNCHANGED collectorMetrics
      BY <2>0, <3>1
    <3>2. ASSUME NEW c \in Collectors, NEW m \in Names, Publish(c, m)
          PROVE  collectorMetrics'[n] >= collectorMetrics[n]
      <4>1. /\ m \in reader[c].unpublished
            /\ collectorMetrics' = [collectorMetrics EXCEPT ![m] = emissionCounter[c][m]]
        BY <3>2 DEF Publish
      <4>2. m \in NamesOf(c)
        BY <4>1 DEF PublishInv, OwnNames
      <4>3. collectorMetrics[m] <= emissionCounter[c][m]
        BY <4>2 DEF PublishInv, PublishedBehind
      <4> QED
        BY <2>0, <4>1, <4>3
    <3>3. \/ UNCHANGED collectorMetrics
          \/ \E c \in Collectors, m \in Names : Publish(c, m)
      BY DEF Next, CollectStep, Tick, CollectReturns, StopTimer, TimerFires, Read,
             ReadIncident, ReaderStep, Skip, Deliver, ReaderPanics, Drain, Fire,
             ReportError, HookPanics
    <3> QED
      BY <3>1, <3>2, <3>3
  <2>2. CASE \E c \in Collectors : n \in NamesOf(c)
    BY <2>1, <2>2 DEF PublishInv, PublishedBehind
  <2>3. CASE \A c \in Collectors : n \notin NamesOf(c)
    <3>1. collectorMetrics'[n] = 0
      BY <2>3 DEF PublishInv, OthersUnpublished
    <3> QED
      BY <2>0, <2>1, <3>1
  <2> QED
    BY <2>1, <2>2, <2>3
<1> QED
  BY <1>1, PublishInit, PublishStep, PTL DEF Spec, CountsNeverGoBack
=============================================================================
