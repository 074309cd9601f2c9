------------------------ MODULE MetricSlicesProofs ------------------------
(***************************************************************************)
(* What TLAPS proves of MetricSlices for any number of listeners, any      *)
(* limits and bounds: whoever writes an array owns it.                     *)
(***************************************************************************)
EXTENDS MetricSlices, SequenceTheorems, TLAPS

\* No array is written by two listeners, or by one while an emission reads it.
OwnArrays ==
    /\ \A d, e \in Listeners : d # e => slice[d].array # slice[e].array
    /\ \A g \in Emissions, e \in Listeners :
          emissions[g].array # slice[e].array

\* So the places that an emission was given stay as they were.
HandedStays ==
    \A g \in Emissions : \A i \in 1 .. Len(emissions[g].handed) :
        memory[emissions[g].array][i] = emissions[g].handed[i]

SlicesInv == SlicesTypeOK /\ OwnArrays /\ HandedStays /\ ReadAsHanded

\* What is true of a slice in a memory, and of how append leaves the two: the
\* slice keeps its array or gets a new one, and nothing else is written.
SliceOf(mem, s) ==
    /\ s \in [array : 1 .. Len(mem), length : Nat]
    /\ s.length <= Len(mem[s.array])
    /\ \A i \in 1 .. s.length : mem[s.array][i] # Unwritten

Grown(s, after) ==
    /\ after.memory \in Seq(Seq(Places))
    /\ Len(memory) <= Len(after.memory)
    /\ SliceOf(after.memory, after.slice)
    /\ after.slice.array = s.array \/ after.slice.array > Len(memory)
    /\ \A a \in 1 .. Len(memory) :
          a # s.array => after.memory[a] = memory[a]

LEMMA SliceStays ==
    ASSUME NEW mem, NEW s, SliceOf(mem, s), NEW new,
           Len(mem) \in Nat, Len(new) \in Nat, Len(mem) <= Len(new),
           new[s.array] = mem[s.array]
    PROVE  SliceOf(new, s)
<1>1. s \in [array : 1 .. Len(new), length : Nat]
  BY DEF SliceOf
<1> QED
  BY <1>1 DEF SliceOf

LEMMA ConcatFirst ==
    ASSUME NEW S, NEW p \in Seq(S), NEW q \in Seq(S)
    PROVE  /\ p \o q \in Seq(S)
           /\ Len(p \o q) = Len(p) + Len(q)
           /\ \A i \in 1 .. Len(p) : (p \o q)[i] = p[i]
<1>1. Len(p) \in Nat /\ Len(q) \in Nat
  BY LenProperties
<1>2. 1 .. Len(p) \subseteq 1 .. Len(p) + Len(q)
  BY <1>1
<1> QED
  BY <1>1, <1>2, ConcatProperties

LEMMA ArrayType ==
    ASSUME NEW n \in Nat
    PROVE  /\ Array(n) \in Seq(Places)
           /\ Len(Array(n)) = n
           /\ \A i \in 1 .. n : Array(n)[i] = Unwritten
<1>1. Unwritten \in Places
  BY SlicesAssumption DEF Unwritten, Places
<1>2. Array(n) \in [1 .. n -> Places]
  BY <1>1 DEF Array
<1> QED
  BY <1>2 DEF Array

LEMMA GrowsInPlace ==
    ASSUME memory \in Seq(Seq(Places)), NEW s, SliceOf(memory, s), HasRoom(s),
           NEW x \in Places, x # Unwritten
    PROVE  Grown(s, AppendInPlace(s, x))
<1> DEFINE grown == [memory[s.array] EXCEPT ![s.length + 1] = x]
           mem == AppendInPlace(s, x).memory
           t == AppendInPlace(s, x).slice
<1>1. s.array \in 1 .. Len(memory) /\ s.length \in Nat
  BY DEF SliceOf
<1>2. memory[s.array] \in Seq(Places)
  BY <1>1, ElementOfSeq
<1>3. s.length + 1 \in 1 .. Len(memory[s.array])
  BY <1>1, <1>2, LenProperties DEF HasRoom
<1>4. /\ grown \in Seq(Places)
      /\ Len(grown) = Len(memory[s.array])
      /\ \A i \in 1 .. Len(memory[s.array]) :
            grown[i] = IF i = s.length + 1 THEN x ELSE memory[s.array][i]
  BY <1>2, <1>3, ExceptSeq
<1>5. mem = [memory EXCEPT ![s.array] = grown]
  BY DEF AppendInPlace
<1>6. /\ mem \in Seq(Seq(Places))
      /\ Len(mem) = Len(memory)
      /\ \A a \in 1 .. Len(memory) :
            mem[a] = IF a = s.array THEN grown ELSE memory[a]
  BY <1>1, <1>4, <1>5, ExceptSeq
<1>7. t.array = s.array /\ t.length = s.length + 1
      /\ t \in [array : 1 .. Len(memory), length : Nat]
  BY <1>1 DEF AppendInPlace, SliceOf
<1>8. \A i \in 1 .. s.length + 1 : grown[i] # Unwritten
  BY <1>1, <1>2, <1>3, <1>4, LenProperties DEF SliceOf
<1> HIDE DEF mem, t, grown
<1>9. SliceOf(mem, t)
  <2>1. mem[t.array] = grown
    BY <1>1, <1>6, <1>7
  <2>2. t.length <= Len(grown)
    BY <1>1, <1>3, <1>4, <1>7
  <2> QED
    BY <1>6, <1>7, <1>8, <2>1, <2>2 DEF SliceOf
<1>10. Len(memory) \in Nat
  BY LenProperties
<1> QED
  BY <1>1, <1>6, <1>7, <1>9, <1>10 DEF Grown, mem, t

LEMMA GrowsMoving ==
    ASSUME memory \in Seq(Seq(Places)), NEW s, SliceOf(memory, s),
           NEW x \in Places, x # Unwritten, NEW room \in 1 .. MaxRoom
    PROVE  Grown(s, AppendMoving(s, x, room))
<1> DEFINE old == SubSeq(memory[s.array], 1, s.length)
           grown == Append(old, x) \o Array(room - 1)
           mem == AppendMoving(s, x, room).memory
           t == AppendMoving(s, x, room).slice
<1>1. s.array \in 1 .. Len(memory) /\ s.length \in Nat
  BY DEF SliceOf
<1>2. memory[s.array] \in Seq(Places) /\ Len(memory) \in Nat
  BY <1>1, ElementOfSeq, LenProperties
<1>3. \A i \in 1 .. s.length : memory[s.array][i] \in Places \ {Unwritten}
  BY <1>1, <1>2, ElementOfSeq, LenProperties DEF SliceOf
<1>4. /\ old \in Seq(Places \ {Unwritten}) /\ Len(old) = s.length
  BY <1>1, <1>3, SubSeqProperties
<1>5. /\ Append(old, x) \in Seq(Places \ {Unwritten})
      /\ Len(Append(old, x)) = s.length + 1
  BY <1>4, AppendProperties
<1>6. Array(room - 1) \in Seq(Places) /\ Len(Array(room - 1)) = room - 1
  BY ArrayType, SlicesAssumption
<1>7. Append(old, x) \in Seq(Places)
  BY <1>5, SeqMonotonic
<1> DEFINE first == Append(old, x)
           rest == Array(room - 1)
<1> HIDE DEF first, rest
<1>8. /\ grown \in Seq(Places)
      /\ Len(grown) = s.length + room
      /\ \A i \in 1 .. s.length + 1 : grown[i] = first[i]
  <2>1. /\ first \in Seq(Places) /\ Len(first) = s.length + 1
        /\ rest \in Seq(Places) /\ Len(rest) = room - 1
    BY <1>5, <1>6, <1>7 DEF first, rest
  <2>2. grown = first \o rest
    BY DEF first, rest
  <2> HIDE DEF grown
  <2>3. /\ grown \in Seq(Places)
        /\ Len(grown) = Len(first) + Len(rest)
        /\ \A i \in 1 .. Len(first) : grown[i] = first[i]
    BY <2>1, <2>2, ConcatFirst
  <2>4. s.length + 1 + (room - 1) = s.length + room
    BY <1>1, SlicesAssumption
  <2> QED
    BY <2>1, <2>3, <2>4
<1>9. \A i \in 1 .. s.length + 1 : grown[i] # Unwritten
  <2>1. first \in Seq(Places \ {Unwritten}) /\ Len(first) = s.length + 1
    BY <1>5 DEF first
  <2> HIDE DEF grown
  <2> QED
    BY <1>8, <2>1, ElementOfSeq
<1>10. mem = Append(memory, grown)
  BY DEF AppendMoving
<1>12. t = [array |-> Len(memory) + 1, length |-> s.length + 1]
  BY DEF AppendMoving
<1> HIDE DEF old, grown, mem, t
<1>11. /\ mem \in Seq(Seq(Places))
       /\ Len(mem) = Len(memory) + 1
       /\ \A a \in 1 .. Len(memory) : mem[a] = memory[a]
       /\ mem[Len(memory) + 1] = grown
  BY <1>8, <1>10, AppendProperties
<1>13. SliceOf(mem, t)
  <2>1. t \in [array : 1 .. Len(mem), length : Nat]
    BY <1>1, <1>2, <1>11, <1>12
  <2>2. mem[t.array] = grown /\ t.length = s.length + 1
    BY <1>11, <1>12
  <2>3. t.length <= Len(grown)
    BY <1>1, <1>8, <2>2
  <2> QED
    BY <1>9, <2>1, <2>2, <2>3 DEF SliceOf
<1> QED
  BY <1>2, <1>11, <1>12, <1>13 DEF Grown, mem, t

LEMMA AppendGrows ==
    ASSUME memory \in Seq(Seq(Places)), NEW s, SliceOf(memory, s),
           NEW x \in Places, x # Unwritten, NEW after \in Appended(s, x)
    PROVE  Grown(s, after)
  BY GrowsInPlace, GrowsMoving DEF Appended

-----------------------------------------------------------------------------
LEMMA InvInit == Init => SlicesInv
<1> SUFFICES ASSUME Init PROVE SlicesInv
  OBVIOUS
<1>1. \A e \in Listeners : Array(BufferSize[e]) \in Seq(Places)
  BY ArrayType, SlicesAssumption
<1>2. memory \in [1 .. ListenerCount -> Seq(Places)]
  BY <1>1 DEF Init, Listeners
<1>3. memory \in Seq(Seq(Places)) /\ Len(memory) = ListenerCount
  BY <1>2, SlicesAssumption
<1>4. \A e \in Listeners : /\ memory[e] = Array(BufferSize[e])
                           /\ Len(memory[e]) \in Nat
  BY <1>1, LenProperties DEF Init
<1>5. SlicesTypeOK
  <2>1. slice \in [Listeners -> [array : 1 .. Len(memory), length : Nat]]
    BY <1>3 DEF Init, Listeners
  <2>2. \A e \in Listeners : slice[e].length = 0 /\ slice[e].array = e
    BY DEF Init
  <2>3. emissions = <<>> /\ Len(emissions) = 0 /\ taken = 0
    BY DEF Init
  <2>4. \A e \in Listeners :
            /\ slice[e].length <= Len(memory[slice[e].array])
            /\ \A i \in 1 .. slice[e].length :
                  memory[slice[e].array][i] # Unwritten
    BY <1>4, <2>2
  <2> QED
    BY <1>3, <2>1, <2>3, <2>4, SlicesAssumption
       DEF SlicesTypeOK, Emissions
<1>6. OwnArrays /\ HandedStays /\ ReadAsHanded
  BY DEF Init, OwnArrays, HandedStays, ReadAsHanded, Emissions
<1> QED
  BY <1>5, <1>6 DEF SlicesInv

-----------------------------------------------------------------------------
EmissionsOver(mem) ==
    [array : 1 .. Len(mem), handed : Seq(1 .. MaxMetrics), read : Seq(Places)]

LEMMA EmissionType ==
    ASSUME SlicesTypeOK, NEW g \in Emissions
    PROVE  emissions[g] \in EmissionsOver(memory)
<1>1. emissions \in Seq(EmissionsOver(memory))
  BY DEF SlicesTypeOK, EmissionsOver
<1> QED
  BY <1>1, ElementOfSeq DEF Emissions

\* One listener's slice is replaced by what append or a flush made of it; the
\* arrays of the others and of the emissions are left as they were.
LEMMA OthersKept ==
    ASSUME SlicesInv, NEW e \in Listeners, NEW after, Grown(slice[e], after)
    PROVE  /\ \A d \in Listeners \ {e} :
                 SliceOf(after.memory, slice[d])
           /\ \A g \in Emissions :
                 /\ emissions[g].array \in 1 .. Len(memory)
                 /\ after.memory[emissions[g].array]
                       = memory[emissions[g].array]
<1>1. memory \in Seq(Seq(Places)) /\ Len(memory) \in Nat
  BY LenProperties DEF SlicesInv, SlicesTypeOK
<1>2. after.memory \in Seq(Seq(Places)) /\ Len(after.memory) \in Nat
  BY LenProperties DEF Grown
<1>3. \A d \in Listeners \ {e} : SliceOf(after.memory, slice[d])
  <2> TAKE d \in Listeners \ {e}
  <2>1. SliceOf(memory, slice[d])
    BY DEF SlicesInv, SlicesTypeOK, SliceOf
  <2>2. slice[d].array # slice[e].array /\ slice[d].array \in 1 .. Len(memory)
    BY <2>1 DEF SlicesInv, OwnArrays, SliceOf
  <2>3. after.memory[slice[d].array] = memory[slice[d].array]
    BY <2>2 DEF Grown
  <2> QED
    BY <1>1, <1>2, <2>1, <2>3, SliceStays DEF Grown
<1>4. ASSUME NEW g \in Emissions
      PROVE  /\ emissions[g].array \in 1 .. Len(memory)
             /\ after.memory[emissions[g].array]
                   = memory[emissions[g].array]
  <2>1. emissions[g].array \in 1 .. Len(memory)
    BY EmissionType DEF SlicesInv, EmissionsOver
  <2> QED
    BY <2>1 DEF SlicesInv, OwnArrays, Grown
<1> QED
  BY <1>3, <1>4

LEMMA HandedType ==
    ASSUME NEW after, after.memory \in Seq(Seq(Places)),
           SliceOf(after.memory, after.slice)
    PROVE  LET new == Handed(after)
           IN  /\ new \in EmissionsOver(after.memory)
               /\ new.array = after.slice.array
               /\ Len(new.read) = Len(new.handed)
               /\ Len(new.handed) <= Len(after.memory[new.array])
               /\ \A i \in 1 .. Len(new.handed) :
                     /\ after.memory[new.array][i] = new.handed[i]
                     /\ new.read[i] = Unwritten
<1> DEFINE array == after.memory[after.slice.array]
           length == after.slice.length
           handed == SubSeq(array, 1, length)
<1>1. array \in Seq(Places) /\ length \in Nat /\ length <= Len(array)
  BY ElementOfSeq DEF SliceOf
<1>2. \A i \in 1 .. length : array[i] \in 1 .. MaxMetrics
  <2> TAKE i \in 1 .. length
  <2>1. array[i] \in Places /\ array[i] # Unwritten
    BY <1>1, ElementOfSeq, LenProperties DEF SliceOf
  <2> QED
    BY <2>1, SlicesAssumption DEF Places, Unwritten
<1> HIDE DEF array, length
<1>3. /\ handed \in Seq(1 .. MaxMetrics) /\ Len(handed) = length
      /\ \A i \in 1 .. length : handed[i] = array[i]
  BY <1>1, <1>2, SubSeqProperties
<1>4. /\ Array(length) \in Seq(Places) /\ Len(Array(length)) = length
      /\ \A i \in 1 .. length : Array(length)[i] = Unwritten
  BY <1>1, ArrayType
<1>5. Handed(after) = [array |-> after.slice.array, handed |-> handed,
                       read |-> Array(length)]
  BY DEF Handed, array, length
<1>6. after.slice.array \in 1 .. Len(after.memory)
  BY DEF SliceOf
<1> HIDE DEF handed
<1> QED
  BY <1>1, <1>3, <1>4, <1>5, <1>6 DEF array, EmissionsOver

\* What is asked of an emission's array and of what it has read.
EmissionOK(mem, r) ==
    /\ r \in EmissionsOver(mem)
    /\ Len(r.read) = Len(r.handed)
    /\ Len(r.handed) <= Len(mem[r.array])
    /\ \A i \in 1 .. Len(r.handed) :
          /\ mem[r.array][i] = r.handed[i]
          /\ r.read[i] \in {Unwritten, r.handed[i]}

\* The invariant, an emission and a listener at a time.
Parts ==
    /\ memory \in Seq(Seq(Places))
    /\ slice \in [Listeners -> [array : 1 .. Len(memory), length : Nat]]
    /\ \A e \in Listeners : SliceOf(memory, slice[e])
    /\ emissions \in Seq(EmissionsOver(memory))
    /\ \A g \in Emissions : EmissionOK(memory, emissions[g])
    /\ OwnArrays
    /\ taken \in 0 .. MaxMetrics

LEMMA InvByPart == SlicesInv <=> Parts
<1>1. SlicesTypeOK =>
        /\ emissions \in Seq(EmissionsOver(memory))
        /\ \A g \in Emissions : emissions[g] \in EmissionsOver(memory)
        /\ \A e \in Listeners : SliceOf(memory, slice[e])
  BY EmissionType DEF SlicesTypeOK, EmissionsOver, SliceOf
<1>2. SlicesInv =>
        \A g \in Emissions : EmissionOK(memory, emissions[g])
  BY <1>1 DEF SlicesInv, SlicesTypeOK, HandedStays, ReadAsHanded, EmissionOK
<1>3. ASSUME memory \in Seq(Seq(Places)),
             slice \in [Listeners -> [array : 1 .. Len(memory), length : Nat]],
             \A e \in Listeners : SliceOf(memory, slice[e]),
             emissions \in Seq(EmissionsOver(memory)),
             \A g \in Emissions : EmissionOK(memory, emissions[g]),
             OwnArrays, taken \in 0 .. MaxMetrics
      PROVE  SlicesInv
  <2>1. SlicesTypeOK
    BY <1>3 DEF SlicesTypeOK, EmissionsOver, EmissionOK, SliceOf
  <2>2. HandedStays /\ ReadAsHanded
    BY <1>3 DEF HandedStays, ReadAsHanded, EmissionOK
  <2> QED
    BY <1>3, <2>1, <2>2 DEF SlicesInv
<1>4. SlicesInv =>
        /\ memory \in Seq(Seq(Places))
        /\ slice \in [Listeners -> [array : 1 .. Len(memory), length : Nat]]
        /\ OwnArrays
        /\ taken \in 0 .. MaxMetrics
  BY DEF SlicesInv, SlicesTypeOK
<1>5. SlicesInv => SlicesTypeOK
  BY DEF SlicesInv
<1> QED
  BY <1>1, <1>2, <1>3, <1>4, <1>5 DEF Parts

LEMMA KeepStep ==
    ASSUME SlicesInv, NEW e \in Listeners, NEW after, Grown(slice[e], after),
           memory' = after.memory,
           slice' = [slice EXCEPT ![e] = after.slice],
           UNCHANGED emissions, taken' \in 0 .. MaxMetrics
    PROVE  SlicesInv'
<1>1. Len(memory) \in Nat /\ Len(after.memory) \in Nat
  BY LenProperties DEF SlicesInv, SlicesTypeOK, Grown
<1>2. \A d \in Listeners : SliceOf(memory', slice'[d])
  BY OthersKept DEF Grown, SlicesInv, SlicesTypeOK
<1>3. slice' \in [Listeners -> [array : 1 .. Len(memory'), length : Nat]]
  <2>1. DOMAIN slice' = Listeners /\ slice' = [d \in Listeners |-> slice'[d]]
    BY DEF SlicesInv, SlicesTypeOK
  <2> QED
    BY <1>2, <2>1 DEF SliceOf
<1>4. \A g \in Emissions : EmissionOK(memory', emissions[g])
  <2> TAKE g \in Emissions
  <2>1. EmissionOK(memory, emissions[g])
    BY InvByPart DEF Parts
  <2>2. emissions[g] \in EmissionsOver(memory')
    BY <1>1, <2>1 DEF EmissionOK, EmissionsOver, Grown
  <2> QED
    BY <2>1, <2>2, OthersKept DEF EmissionOK
<1>5. emissions' \in Seq(EmissionsOver(memory'))
  <2>1. EmissionsOver(memory) \subseteq EmissionsOver(memory')
    BY <1>1 DEF EmissionsOver, Grown
  <2>2. emissions \in Seq(EmissionsOver(memory))
    BY InvByPart DEF Parts
  <2> QED
    BY <2>1, <2>2, SeqMonotonic
<1>6. OwnArrays'
  <2>1. \A d \in Listeners : slice[d].array \in 1 .. Len(memory)
    BY DEF SlicesInv, SlicesTypeOK
  <2>2. \A g \in Emissions : emissions[g].array \in 1 .. Len(memory)
    BY OthersKept
  <2>3. \A d \in Listeners : slice'[d] = IF d = e THEN after.slice ELSE slice[d]
    BY DEF SlicesInv, SlicesTypeOK
  <2>4. \/ after.slice.array = slice[e].array
        \/ after.slice.array \notin 1 .. Len(memory)
    BY <1>1 DEF Grown, SliceOf
  <2>5. \A d, c \in Listeners : d # c => slice'[d].array # slice'[c].array
    BY <2>1, <2>3, <2>4 DEF SlicesInv, OwnArrays
  <2>6. \A g \in Emissions, d \in Listeners :
            emissions[g].array # slice'[d].array
    BY <2>2, <2>3, <2>4 DEF SlicesInv, OwnArrays
  <2> QED
    BY <2>5, <2>6 DEF OwnArrays, Emissions
<1>7. Parts'
  BY <1>2, <1>3, <1>4, <1>5, <1>6 DEF Parts, Grown, Emissions
<1> QED
  BY <1>7, InvByPart, PTL

\* A flush hands the array to the emission and leaves it for good: the new one
\* is the last of the memory, which nobody has had before.
LEMMA FlushStep ==
    ASSUME SlicesInv, NEW e \in Listeners, NEW after, Grown(slice[e], after),
           Flush(e, after), taken' \in 0 .. MaxMetrics
    PROVE  SlicesInv'
<1> DEFINE fresh == [array |-> Len(after.memory) + 1, length |-> 0]
           new == Handed(after)
<1>1. Len(memory) \in Nat /\ Len(after.memory) \in Nat
  BY LenProperties DEF SlicesInv, SlicesTypeOK, Grown
<1>2. Array(BufferSize[e]) \in Seq(Places)
  BY ArrayType, SlicesAssumption
<1>3. /\ memory' \in Seq(Seq(Places))
      /\ Len(memory') = Len(after.memory) + 1
      /\ \A a \in 1 .. Len(after.memory) : memory'[a] = after.memory[a]
      /\ memory'[Len(after.memory) + 1] = Array(BufferSize[e])
  BY <1>2, AppendProperties DEF Flush, Grown
<1>4. slice' = [slice EXCEPT ![e] = fresh]
  BY DEF Flush
<1>5. emissions' = Append(emissions, new)
  BY DEF Flush
<1>6. /\ new \in EmissionsOver(after.memory)
      /\ new.array = after.slice.array
      /\ EmissionOK(after.memory, new)
  BY HandedType DEF Grown, EmissionOK
<1> HIDE DEF fresh, new
<1>7. \A d \in Listeners : slice'[d] = IF d = e THEN fresh ELSE slice[d]
  BY <1>4 DEF SlicesInv, SlicesTypeOK
<1>8. \A d \in Listeners : SliceOf(memory', slice'[d])
  <2> TAKE d \in Listeners
  <2>1. CASE d = e
    <3>1. Len(Array(BufferSize[e])) \in Nat
      BY <1>2, LenProperties
    <3>2. fresh \in [array : 1 .. Len(memory'), length : Nat]
      BY <1>1, <1>3 DEF fresh
    <3>3. memory'[fresh.array] = Array(BufferSize[e]) /\ fresh.length = 0
      BY <1>3 DEF fresh
    <3>4. SliceOf(memory', fresh)
      BY <3>1, <3>2, <3>3 DEF SliceOf
    <3> QED
      BY <2>1, <3>4, <1>7
  <2>2. CASE d # e
    <3>1. SliceOf(after.memory, slice[d])
      BY <2>2, OthersKept
    <3>2. memory'[slice[d].array] = after.memory[slice[d].array]
      BY <3>1, <1>3 DEF SliceOf
    <3>3. Len(memory') \in Nat /\ Len(after.memory) <= Len(memory')
      BY <1>1, <1>3
    <3>4. SliceOf(memory', slice[d])
      BY <3>1, <3>2, <3>3, <1>1, SliceStays
    <3> QED
      BY <2>2, <3>4, <1>7
  <2> QED
    BY <2>1, <2>2
<1>9. slice' \in [Listeners -> [array : 1 .. Len(memory'), length : Nat]]
  <2>1. slice' = [d \in Listeners |-> slice'[d]]
    BY <1>4 DEF SlicesInv, SlicesTypeOK
  <2> QED
    BY <1>8, <2>1 DEF SliceOf
<1>10. emissions \in Seq(EmissionsOver(memory))
  BY InvByPart DEF Parts
<1>11. /\ EmissionsOver(memory) \subseteq EmissionsOver(memory')
       /\ EmissionsOver(after.memory) \subseteq EmissionsOver(memory')
  <2>1. /\ 1 .. Len(memory) \subseteq 1 .. Len(memory')
        /\ 1 .. Len(after.memory) \subseteq 1 .. Len(memory')
    BY <1>1, <1>3 DEF Grown
  <2> QED
    BY <2>1 DEF EmissionsOver
<1>12. emissions \in Seq(EmissionsOver(memory'))
  BY <1>10, <1>11, SeqMonotonic
<1>13. /\ emissions' \in Seq(EmissionsOver(memory'))
       /\ Len(emissions') = Len(emissions) + 1
       /\ \A g \in 1 .. Len(emissions) : emissions'[g] = emissions[g]
       /\ emissions'[Len(emissions) + 1] = new
  BY <1>5, <1>6, <1>11, <1>12, AppendProperties
<1>14. Len(emissions) \in Nat
  BY <1>10, LenProperties
<1>15. \A g \in Emissions' : g \in Emissions \/ g = Len(emissions) + 1
  BY <1>13, <1>14 DEF Emissions
<1>16. ASSUME NEW r \in EmissionsOver(after.memory),
              EmissionOK(after.memory, r)
       PROVE  EmissionOK(memory', r)
  BY <1>16, <1>3, <1>11 DEF EmissionOK, EmissionsOver
<1>17. \A g \in Emissions' : EmissionOK(memory', emissions'[g])
  <2> TAKE g \in Emissions'
  <2>1. CASE g \in Emissions
    <3>1. EmissionOK(memory, emissions[g])
      BY <2>1, InvByPart DEF Parts
    <3>2. emissions[g] \in EmissionsOver(after.memory)
      BY <1>1, <3>1 DEF EmissionOK, EmissionsOver, Grown
    <3>3. EmissionOK(after.memory, emissions[g])
      BY <2>1, <3>1, <3>2, OthersKept DEF EmissionOK
    <3> QED
      BY <2>1, <3>2, <3>3, <1>13, <1>16 DEF Emissions
  <2>2. CASE g = Len(emissions) + 1
    BY <2>2, <1>6, <1>13, <1>16
  <2> QED
    BY <2>1, <2>2, <1>15
<1>18. OwnArrays'
  <2>1. \A d \in Listeners \ {e} : slice[d].array \in 1 .. Len(memory)
    BY DEF SlicesInv, SlicesTypeOK
  <2>2. \A g \in Emissions : emissions[g].array \in 1 .. Len(memory)
    BY OthersKept
  <2>3. /\ after.slice.array \in 1 .. Len(after.memory)
        /\ \/ after.slice.array = slice[e].array
           \/ after.slice.array \notin 1 .. Len(memory)
    BY <1>1 DEF Grown, SliceOf
  <2>4. 1 .. Len(memory) \subseteq 1 .. Len(after.memory)
    BY <1>1 DEF Grown
  <2>5. fresh.array \notin 1 .. Len(after.memory)
    BY <1>1 DEF fresh
  <2>6. \A d, c \in Listeners : d # c => slice'[d].array # slice'[c].array
    BY <2>1, <2>4, <2>5, <1>7 DEF SlicesInv, OwnArrays
  <2>7. \A g \in Emissions, d \in Listeners :
            emissions[g].array # slice'[d].array
    BY <2>2, <2>4, <2>5, <1>7 DEF SlicesInv, OwnArrays
  <2>8. \A d \in Listeners : new.array # slice'[d].array
    BY <2>1, <2>3, <2>4, <2>5, <1>6, <1>7 DEF SlicesInv, OwnArrays
  <2>9. \A g \in Emissions', d \in Listeners :
            emissions'[g].array # slice'[d].array
    BY <2>7, <2>8, <1>13, <1>15 DEF Emissions
  <2> QED
    BY <2>6, <2>9 DEF OwnArrays
<1>19. Parts'
  BY <1>3, <1>8, <1>9, <1>13, <1>17, <1>18 DEF Parts
<1> QED
  BY <1>19, InvByPart, PTL

LEMMA ReadStep ==
    ASSUME SlicesInv, NEW g \in Emissions,
           NEW i \in 1 .. Len(emissions[g].read), Read(g, i)
    PROVE  SlicesInv'
<1> DEFINE r == emissions[g]
           next == [r EXCEPT !.read[i] = memory[r.array][i]]
<1>1. EmissionOK(memory, r)
  BY InvByPart DEF Parts
<1>2. /\ memory[r.array][i] = r.handed[i]
      /\ r.handed[i] \in Places
      /\ r.read \in Seq(Places)
  <2>1. r.handed \in Seq(1 .. MaxMetrics) /\ i \in 1 .. Len(r.handed)
    BY <1>1 DEF EmissionOK, EmissionsOver
  <2>2. r.handed[i] \in 1 .. MaxMetrics
    BY <2>1, ElementOfSeq
  <2>3. r.handed[i] \in Places
    BY <2>2, SlicesAssumption DEF Places
  <2> QED
    BY <1>1, <2>1, <2>3 DEF EmissionOK, EmissionsOver
<1>3. next = [r EXCEPT !.read = [r.read EXCEPT ![i] = r.handed[i]]]
  BY <1>1, <1>2 DEF EmissionOK, EmissionsOver
<1>4. /\ [r.read EXCEPT ![i] = r.handed[i]] \in Seq(Places)
      /\ Len([r.read EXCEPT ![i] = r.handed[i]]) = Len(r.read)
      /\ \A j \in 1 .. Len(r.read) :
            [r.read EXCEPT ![i] = r.handed[i]][j]
               = IF j = i THEN r.handed[i] ELSE r.read[j]
  BY <1>2, ExceptSeq
<1>5. /\ next \in EmissionsOver(memory)
      /\ next.array = r.array
      /\ EmissionOK(memory, next)
  <2> DEFINE read == [r.read EXCEPT ![i] = r.handed[i]]
  <2>1. /\ next.array = r.array /\ next.handed = r.handed
        /\ next.read = read
        /\ next \in EmissionsOver(memory)
    BY <1>1, <1>3, <1>4 DEF EmissionOK, EmissionsOver
  <2> HIDE DEF next, read
  <2>2. \A j \in 1 .. Len(r.handed) : read[j] \in {Unwritten, r.handed[j]}
    BY <1>1, <1>4 DEF EmissionOK, read
  <2>3. Len(read) = Len(r.read)
    BY <1>4 DEF read
  <2> QED
    BY <1>1, <2>1, <2>2, <2>3 DEF EmissionOK
<1>6. emissions' = [emissions EXCEPT ![g] = next]
  BY DEF Read
<1> HIDE DEF next
<1>7. /\ emissions' \in Seq(EmissionsOver(memory))
      /\ Len(emissions') = Len(emissions)
      /\ \A h \in Emissions :
            emissions'[h] = IF h = g THEN next ELSE emissions[h]
  BY <1>5, <1>6, InvByPart, ExceptSeq DEF Parts, Emissions
<1>8. UNCHANGED <<memory, slice, taken>>
  BY DEF Read
<1>9. \A h \in Emissions : EmissionOK(memory, emissions'[h])
  BY <1>5, <1>7, InvByPart DEF Parts
<1>10. OwnArrays'
  BY <1>5, <1>7, <1>8 DEF SlicesInv, OwnArrays, Emissions
<1>11. Parts'
  BY <1>7, <1>8, <1>9, <1>10, InvByPart DEF Parts, Emissions
<1> QED
  BY <1>11, InvByPart, PTL

-----------------------------------------------------------------------------
LEMMA InvStep == SlicesInv /\ [Next]_vars => SlicesInv'
<1> SUFFICES ASSUME SlicesInv, [Next]_vars PROVE SlicesInv'
  OBVIOUS
<1>1. /\ memory \in Seq(Seq(Places)) /\ Len(memory) \in Nat
      /\ \A e \in Listeners : SliceOf(memory, slice[e])
      /\ taken \in 0 .. MaxMetrics
  BY InvByPart, LenProperties DEF Parts
<1>2. ASSUME NEW e \in Listeners, Take(e) PROVE SlicesInv'
  <2>1. taken' \in 0 .. MaxMetrics /\ taken + 1 \in Places
        /\ taken + 1 # Unwritten
    BY <1>1, <1>2, SlicesAssumption DEF Take, Places, Unwritten
  <2>2. PICK after \in Appended(slice[e], taken + 1) :
            \/ Flush(e, after)
            \/ /\ memory' = after.memory
               /\ slice' = [slice EXCEPT ![e] = after.slice]
               /\ UNCHANGED emissions
    BY <1>2 DEF Take
  <2>3. Grown(slice[e], after)
    BY <1>1, <2>1, AppendGrows
  <2> QED
    BY <2>1, <2>2, <2>3, KeepStep, FlushStep
<1>3. ASSUME NEW e \in Listeners, FlushOld(e) PROVE SlicesInv'
  <2>1. PICK after : after = [memory |-> memory, slice |-> slice[e]]
    OBVIOUS
  <2>2. Grown(slice[e], after)
    BY <1>1, <2>1 DEF Grown
  <2>3. Flush(e, after)
    BY <1>3, <2>1 DEF FlushOld
  <2>4. taken' \in 0 .. MaxMetrics
    BY <1>1, <1>3 DEF FlushOld
  <2> QED
    BY <2>2, <2>3, <2>4, FlushStep
<1>4. ASSUME NEW g \in Emissions, NEW i \in 1 .. Len(emissions[g].read),
             Read(g, i)
      PROVE  SlicesInv'
  BY <1>4, ReadStep
<1>5. ASSUME UNCHANGED vars PROVE SlicesInv'
  BY <1>5 DEF vars, SlicesInv, SlicesTypeOK, OwnArrays, HandedStays,
              ReadAsHanded, Emissions, HasRoom
<1> QED
  BY <1>2, <1>3, <1>4, <1>5 DEF Next

\* No slice is longer than its array or holds a place nobody has written, for
\* any limits, 0 among them.
THEOREM SlicesTypes == Spec => []SlicesTypeOK
<1>1. SlicesInv => SlicesTypeOK
  BY DEF SlicesInv
<1> QED
  BY <1>1, InvInit, InvStep, PTL DEF Spec

\* Every emission reads what its listener handed to it, for any number of
\* listeners and whatever was appended and flushed after its start.
THEOREM ReadsAsHanded == Spec => []ReadAsHanded
<1>1. SlicesInv => ReadAsHanded
  BY DEF SlicesInv
<1> QED
  BY <1>1, InvInit, InvStep, PTL DEF Spec
=============================================================================
