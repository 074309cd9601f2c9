----------------------- MODULE CollectorRoundsProofs -----------------------
(***************************************************************************)
(* What TLAPS proves of CollectorRounds for all programs that the python   *)
(* compiler accepts, every number of instances and every bound.            *)
(***************************************************************************)
EXTENDS CollectorRounds, SequenceTheorems, WellFoundedInduction, TLAPS

-----------------------------------------------------------------------------
(***************************************************************************)
(* First of a sequence.                                                    *)
(***************************************************************************)
\* Every set of naturals that has a member has a least one, which Min is.
LEMMA MinIsLeast ==
    ASSUME NEW S \in SUBSET Nat, S # {}
    PROVE  Min(S) \in S /\ \A i \in S : Min(S) <= i
<1> DEFINE Less == {ss \in Nat \X Nat : ss[1] < ss[2]}
<1>1. Less = OpToRel(<, Nat)
  BY Zenon DEF OpToRel
<1>2. IsWellFoundedOn(Less, Nat)
  BY <1>1, NatLessThanWellFounded, Zenon
<1>3. PICK n \in S : \A i \in S : ~ (<<i, n>> \in Less)
  <2> HIDE DEF Less
  <2> QED
    BY <1>2, WFMin
<1>4. ASSUME NEW i \in S PROVE n <= i
  <2>1. ~ (i < n)
    BY <1>3
  <2> QED
    BY <2>1
<1> QED
  BY <1>3, <1>4 DEF Min

-----------------------------------------------------------------------------
(***************************************************************************)
(* What is left to do is a stack: what an item needs is further out.       *)
(***************************************************************************)
Statements == Straight \cup Looped
Items ==
    Statements \cup {Call(Program[c])[1] : c \in DOMAIN Program} \cup {End("call")[1]}
    \cup {EndTry(s.clauses)[1] : s \in {t \in Statements : t.op = "try"}}
    \cup [op : {"again"}, loop : {s \in Statements : s.op = "loop"}, turn : Nat]

EndsCall(item) == item.op = "end" /\ item.what = "call"

\* After item i of s a function ends, and before that, a turn of a loop.
InFunction(s, i) == \E j \in i + 1 .. Len(s) : EndsCall(s[j])
InLoop(s, i) ==
    \E j \in i + 1 .. Len(s) :
        s[j].op = "again" /\ \A m \in i + 1 .. j : ~EndsCall(s[m])

\* A statement, and a block of them, that may stand before what is after i.
RunsAt(statement, s, i) ==
    /\ InFunction(s, i)
    /\ statement \in Straight \/ (statement \in Looped /\ InLoop(s, i))
FitsAt(block, s, i) ==
    block \in Seq(Statements) /\ \A n \in 1 .. Len(block) : RunsAt(block[n], s, i)

PlacedAt(item, s, i) ==
    \/ item.op = "call" /\ item.body \in Seq(Straight)
    \/ RunsAt(item, s, i)
    \/ EndsCall(item)
    \/ /\ item.op = "end" /\ item.what = "try"
       /\ \A exc \in DOMAIN item.clauses : FitsAt(item.clauses[exc], s, i)
    \/ /\ item.op = "again" /\ InFunction(s, i)
       /\ item.loop.op = "loop" /\ item.loop.body \in Seq(Looped)
       /\ item.loop.kind = "instances" => item.turn \in 1 .. Instances

Stack(s) == s \in Seq(Items) /\ \A i \in 1 .. Len(s) : PlacedAt(s[i], s, i)

\* Items need nothing but the function and the loop they are in.
LEMMA PlacedFurther ==
    ASSUME NEW item, NEW s, NEW i, NEW t, NEW j,
           InFunction(s, i) => InFunction(t, j),
           InLoop(s, i) => InLoop(t, j),
           PlacedAt(item, s, i)
    PROVE  PlacedAt(item, t, j)
<1>1. ASSUME NEW statement, RunsAt(statement, s, i)
      PROVE  RunsAt(statement, t, j)
  BY <1>1 DEF RunsAt
<1>2. ASSUME NEW block, FitsAt(block, s, i)
      PROVE  FitsAt(block, t, j)
  BY <1>1, <1>2 DEF FitsAt
<1> QED
  BY <1>1, <1>2 DEF PlacedAt

LEMMA StatementsAreNoMarks ==
    ASSUME NEW s \in Statements
    PROVE  s.op \notin {"end", "again"} /\ ~EndsCall(s)
  BY CodeAssumption DEF Statements, EndsCall

LEMMA BlocksOfCode ==
    /\ \A p \in Seq(Straight) : p \in Seq(Statements) /\ \A n \in 1 .. Len(p) : p[n] \in Straight
    /\ \A p \in Seq(Looped) : p \in Seq(Statements) /\ \A n \in 1 .. Len(p) : p[n] \in Looped
    /\ \A p \in Seq(Statements) : p \in Seq(Items)
<1>1. Straight \subseteq Statements /\ Looped \subseteq Statements /\ Statements \subseteq Items
  BY DEF Statements, Items
<1> QED
  BY <1>1, SeqMonotonic, ElementOfSeq

\* The blocks of a statement may stand where it does.
LEMMA BlocksFit ==
    ASSUME NEW s, NEW i, NEW x, RunsAt(x, s, i), NEW b \in Blocks(x)
    PROVE  FitsAt(b, s, i)
<1>1. CASE x \in Straight
  <2>1. b \in Seq(Straight)
    BY <1>1, CodeAssumption
  <2> QED
    BY <2>1, BlocksOfCode DEF FitsAt, RunsAt
<1>2. CASE x \in Looped /\ InLoop(s, i)
  <2>1. b \in Seq(Looped)
    BY <1>2, CodeAssumption
  <2> QED
    BY <1>2, <2>1, BlocksOfCode DEF FitsAt, RunsAt
<1> QED
  BY <1>1, <1>2 DEF RunsAt

-----------------------------------------------------------------------------
(***************************************************************************)
(* What is dropped from a stack, and what is pushed on one.                *)
(***************************************************************************)
LEMMA SuffixContext ==
    ASSUME NEW s \in Seq(Items), NEW n \in 1 .. Len(s) + 1,
           NEW i \in 0 .. Len(s) - n + 1
    PROVE  /\ SubSeq(s, n, Len(s)) \in Seq(Items)
           /\ Len(SubSeq(s, n, Len(s))) = Len(s) - n + 1
           /\ \A j \in 1 .. Len(s) - n + 1 : SubSeq(s, n, Len(s))[j] = s[n + j - 1]
           /\ InFunction(s, n + i - 1) => InFunction(SubSeq(s, n, Len(s)), i)
           /\ InLoop(s, n + i - 1) => InLoop(SubSeq(s, n, Len(s)), i)
<1> DEFINE t == SubSeq(s, n, Len(s))
<1>1. Len(s) \in Nat /\ n \in Nat /\ i \in Nat
  BY LenProperties
<1>2. \A j \in n .. Len(s) : s[j] \in Items
  BY <1>1, ElementOfSeq
<1>3. /\ t \in Seq(Items) /\ Len(t) = Len(s) - n + 1
      /\ \A j \in 1 .. Len(s) - n + 1 : t[j] = s[n + j - 1]
  BY <1>1, <1>2, SubSeqProperties
<1> HIDE DEF t
<1>4. ASSUME InFunction(s, n + i - 1) PROVE InFunction(t, i)
  <2>1. PICK j \in n + i .. Len(s) : EndsCall(s[j])
    BY <1>1, <1>4 DEF InFunction
  <2>2. /\ j - n + 1 \in i + 1 .. Len(t) /\ j - n + 1 \in 1 .. Len(s) - n + 1
        /\ n + (j - n + 1) - 1 = j
    BY <1>1, <1>3
  <2>3. t[j - n + 1] = s[j]
    BY <1>3, <2>2
  <2> QED
    BY <2>1, <2>2, <2>3 DEF InFunction
<1>5. ASSUME InLoop(s, n + i - 1) PROVE InLoop(t, i)
  <2>1. PICK j \in n + i .. Len(s) :
           s[j].op = "again" /\ \A m \in n + i .. j : ~EndsCall(s[m])
    BY <1>1, <1>5 DEF InLoop
  <2>2. /\ j - n + 1 \in i + 1 .. Len(t) /\ j - n + 1 \in 1 .. Len(s) - n + 1
        /\ n + (j - n + 1) - 1 = j
    BY <1>1, <1>3
  <2>3. t[j - n + 1] = s[j]
    BY <1>3, <2>2
  <2>4. ASSUME NEW m \in i + 1 .. j - n + 1 PROVE ~EndsCall(t[m])
    <3>1. n + m - 1 \in n + i .. j /\ m \in 1 .. Len(s) - n + 1
      BY <1>1
    <3>2. t[m] = s[n + m - 1]
      BY <1>3, <3>1
    <3> QED
      BY <2>1, <3>1, <3>2
  <2> QED
    BY <2>1, <2>2, <2>3, <2>4 DEF InLoop
<1> QED
  BY <1>3, <1>4, <1>5 DEF t

LEMMA Suffix ==
    ASSUME NEW s, Stack(s), NEW n \in 1 .. Len(s) + 1
    PROVE  Stack(SubSeq(s, n, Len(s)))
<1> DEFINE t == SubSeq(s, n, Len(s))
<1>1. s \in Seq(Items) /\ Len(s) \in Nat
  BY LenProperties DEF Stack
<1>2. 0 \in 0 .. Len(s) - n + 1
  BY <1>1
<1>3. /\ t \in Seq(Items) /\ Len(t) = Len(s) - n + 1
      /\ \A j \in 1 .. Len(s) - n + 1 : t[j] = s[n + j - 1]
  BY <1>1, <1>2, SuffixContext
<1>4. ASSUME NEW i \in 0 .. Len(s) - n + 1
      PROVE  /\ InFunction(s, n + i - 1) => InFunction(t, i)
             /\ InLoop(s, n + i - 1) => InLoop(t, i)
  BY <1>1, SuffixContext
<1> HIDE DEF t
<1>5. ASSUME NEW i \in 1 .. Len(t) PROVE PlacedAt(t[i], t, i)
  <2>1. /\ n + i - 1 \in 1 .. Len(s) /\ i \in 0 .. Len(s) - n + 1
        /\ t[i] = s[n + i - 1]
    BY <1>1, <1>3
  <2>2. PlacedAt(t[i], s, n + i - 1)
    BY <2>1 DEF Stack
  <2> QED
    BY <1>4, <2>1, <2>2, PlacedFurther
<1> QED
  BY <1>3, <1>5 DEF Stack, t

LEMMA TailOfStack ==
    ASSUME NEW s, Stack(s), s # <<>>
    PROVE  /\ Stack(Tail(s)) /\ Tail(s) = SubSeq(s, 2, Len(s)) /\ Len(s) \in Nat \ {0}
           /\ InFunction(s, 1) => InFunction(Tail(s), 0)
           /\ InLoop(s, 1) => InLoop(Tail(s), 0)
<1>1. s \in Seq(Items) /\ Tail(s) = SubSeq(s, 2, Len(s)) /\ Len(s) \in Nat \ {0}
  BY TailIsSubSeq, EmptySeq DEF Stack
<1>2. 2 \in 1 .. Len(s) + 1 /\ 0 \in 0 .. Len(s) - 2 + 1 /\ 2 + 0 - 1 = 1
  BY <1>1
<1>3. Stack(SubSeq(s, 2, Len(s)))
  BY <1>2, Suffix
<1>4. /\ InFunction(s, 2 + 0 - 1) => InFunction(SubSeq(s, 2, Len(s)), 0)
      /\ InLoop(s, 2 + 0 - 1) => InLoop(SubSeq(s, 2, Len(s)), 0)
  BY <1>1, <1>2, SuffixContext
<1> QED
  BY <1>1, <1>2, <1>3, <1>4

\* What is joined to a stack leaves it as it is, and, without the end of a
\* function, is itself in the function and the loop that come first there.
LEMMA JoinContext ==
    ASSUME NEW p \in Seq(Items), NEW s \in Seq(Items)
    PROVE  /\ p \o s \in Seq(Items) /\ Len(p \o s) = Len(p) + Len(s)
           /\ \A i \in 1 .. Len(p) : (p \o s)[i] = p[i]
           /\ \A i \in 1 .. Len(s) : (p \o s)[i + Len(p)] = s[i]
           /\ \A i \in 0 .. Len(s) :
                 /\ InFunction(s, i) => InFunction(p \o s, i + Len(p))
                 /\ InLoop(s, i) => InLoop(p \o s, i + Len(p))
           /\ (\A m \in 1 .. Len(p) : ~EndsCall(p[m])) =>
                 \A i \in 0 .. Len(p) :
                    /\ InFunction(s, 0) => InFunction(p \o s, i)
                    /\ InLoop(s, 0) => InLoop(p \o s, i)
<1> DEFINE u == p \o s
           n == Len(p)
<1>1. n \in Nat /\ Len(s) \in Nat
  BY LenProperties
<1>2. /\ u \in Seq(Items) /\ Len(u) = n + Len(s)
      /\ \A i \in 1 .. n + Len(s) : u[i] = IF i <= n THEN p[i] ELSE s[i - n]
  BY ConcatProperties
<1> HIDE DEF u, n
<1>3. \A i \in 1 .. n : u[i] = p[i]
  BY <1>1, <1>2
<1>4. \A i \in 1 .. Len(s) : u[i + n] = s[i]
  <2> SUFFICES ASSUME NEW i \in 1 .. Len(s) PROVE u[i + n] = s[i]
    OBVIOUS
  <2>1. PICK k \in 1 .. n + Len(s) : k = i + n
    BY <1>1
  <2>2. ~(k <= n) /\ k - n = i
    BY <1>1, <2>1
  <2>3. u[k] = s[k - n]
    BY <1>2, <2>2
  <2>4. u[k] = s[i]
    BY <2>2, <2>3
  <2> QED
    BY <2>1, <2>4
<1>5. ASSUME NEW i \in 0 .. Len(s), InFunction(s, i)
      PROVE  \E j \in i + 1 .. Len(s) : j + n \in i + n + 1 .. Len(u) /\ EndsCall(u[j + n])
  <2>1. PICK j \in i + 1 .. Len(s) : EndsCall(s[j])
    BY <1>5 DEF InFunction
  <2>2. j \in 1 .. Len(s) /\ j + n \in i + n + 1 .. Len(u)
    BY <1>1, <1>2
  <2> QED
    BY <1>4, <2>1, <2>2
<1>6. ASSUME NEW i \in 0 .. Len(s), InLoop(s, i)
      PROVE  \E j \in i + 1 .. Len(s) :
                /\ j + n \in i + n + 1 .. Len(u) /\ u[j + n].op = "again"
                /\ \A m \in i + n + 1 .. j + n : ~EndsCall(u[m])
  <2>1. PICK j \in i + 1 .. Len(s) :
           s[j].op = "again" /\ \A m \in i + 1 .. j : ~EndsCall(s[m])
    BY <1>6 DEF InLoop
  <2>2. j \in 1 .. Len(s) /\ j + n \in i + n + 1 .. Len(u)
    BY <1>1, <1>2
  <2>3. ASSUME NEW m \in i + n + 1 .. j + n PROVE ~EndsCall(u[m])
    <3>1. m - n \in i + 1 .. j /\ m - n \in 1 .. Len(s) /\ (m - n) + n = m
      BY <1>1
    <3>2. u[m] = s[m - n]
      BY <1>4, <3>1
    <3> QED
      BY <2>1, <3>1, <3>2
  <2> QED
    BY <1>4, <2>1, <2>2, <2>3
<1>7. ASSUME NEW i \in 0 .. Len(s)
      PROVE  /\ InFunction(s, i) => InFunction(u, i + n)
             /\ InLoop(s, i) => InLoop(u, i + n)
  BY <1>5, <1>6 DEF InFunction, InLoop
<1>8. ASSUME \A m \in 1 .. n : ~EndsCall(p[m]), NEW i \in 0 .. n
      PROVE  /\ InFunction(s, 0) => InFunction(u, i)
             /\ InLoop(s, 0) => InLoop(u, i)
  <2>1. 0 \in 0 .. Len(s)
    BY <1>1
  <2>2. ASSUME InFunction(s, 0) PROVE InFunction(u, i)
    <3>1. PICK j \in 0 + 1 .. Len(s) : j + n \in 0 + n + 1 .. Len(u) /\ EndsCall(u[j + n])
      BY <1>5, <2>1, <2>2
    <3>2. j + n \in i + 1 .. Len(u)
      BY <1>1, <1>2, <3>1
    <3> QED
      BY <3>1, <3>2 DEF InFunction
  <2>3. ASSUME InLoop(s, 0) PROVE InLoop(u, i)
    <3>1. PICK j \in 0 + 1 .. Len(s) :
             /\ j + n \in 0 + n + 1 .. Len(u) /\ u[j + n].op = "again"
             /\ \A m \in 0 + n + 1 .. j + n : ~EndsCall(u[m])
      BY <1>6, <2>1, <2>3
    <3>2. j + n \in i + 1 .. Len(u)
      BY <1>1, <1>2, <3>1
    <3>3. ASSUME NEW m \in i + 1 .. j + n PROVE ~EndsCall(u[m])
      <4>1. m \in 1 .. n \/ m \in 0 + n + 1 .. j + n
        BY <1>1
      <4> QED
        BY <1>3, <1>8, <3>1, <4>1
    <3> QED
      BY <3>1, <3>2, <3>3 DEF InLoop
  <2> QED
    BY <2>2, <2>3
<1> QED
  BY <1>2, <1>3, <1>4, <1>7, <1>8 DEF u, n

\* A block that fits is pushed.
LEMMA PushBlock ==
    ASSUME NEW s, Stack(s), NEW block, FitsAt(block, s, 0)
    PROVE  Stack(block \o s)
<1> DEFINE u == block \o s
           n == Len(block)
<1>1. block \in Seq(Items) /\ s \in Seq(Items) /\ block \in Seq(Statements)
  BY BlocksOfCode DEF FitsAt, Stack
<1>2. n \in Nat /\ Len(s) \in Nat
  BY <1>1, LenProperties
<1>3. \A m \in 1 .. n : ~EndsCall(block[m])
  BY <1>1, StatementsAreNoMarks, ElementOfSeq
<1>4. /\ u \in Seq(Items) /\ Len(u) = n + Len(s)
      /\ \A i \in 1 .. n : u[i] = block[i]
      /\ \A i \in 1 .. Len(s) : u[i + n] = s[i]
      /\ \A i \in 0 .. Len(s) : /\ InFunction(s, i) => InFunction(u, i + n)
                                /\ InLoop(s, i) => InLoop(u, i + n)
      /\ \A i \in 0 .. n : /\ InFunction(s, 0) => InFunction(u, i)
                           /\ InLoop(s, 0) => InLoop(u, i)
  BY <1>1, <1>3, JoinContext
<1> HIDE DEF u
<1>5. ASSUME NEW i \in 1 .. n PROVE PlacedAt(u[i], u, i)
  <2>1. RunsAt(block[i], s, 0) /\ u[i] = block[i] /\ i \in 0 .. n
    BY <1>2, <1>4 DEF FitsAt
  <2> QED
    BY <1>4, <2>1 DEF RunsAt, PlacedAt
<1>6. ASSUME NEW i \in 1 .. Len(s) PROVE PlacedAt(u[i + n], u, i + n)
  <2>1. PlacedAt(s[i], s, i) /\ i \in 0 .. Len(s) /\ u[i + n] = s[i]
    BY <1>2, <1>4 DEF Stack
  <2> QED
    BY <1>4, <2>1, PlacedFurther
<1>7. ASSUME NEW i \in 1 .. Len(u) PROVE PlacedAt(u[i], u, i)
  <2>1. i \in 1 .. n \/ (i - n \in 1 .. Len(s) /\ (i - n) + n = i)
    BY <1>2, <1>4
  <2> QED
    BY <1>5, <1>6, <2>1
<1> QED
  BY <1>4, <1>7 DEF Stack, u

\* A mark is pushed.
LEMMA PushMark ==
    ASSUME NEW s, Stack(s), NEW mark \in Items, PlacedAt(mark, s, 0)
    PROVE  /\ Stack(<<mark>> \o s)
           /\ InFunction(s, 0) /\ ~EndsCall(mark) => InFunction(<<mark>> \o s, 0)
           /\ InLoop(s, 0) /\ ~EndsCall(mark) => InLoop(<<mark>> \o s, 0)
           /\ EndsCall(mark) => InFunction(<<mark>> \o s, 0)
           /\ mark.op = "again" => InLoop(<<mark>> \o s, 0)
<1> DEFINE p == <<mark>>
           u == p \o s
<1>1. p \in Seq(Items) /\ s \in Seq(Items) /\ Len(p) = 1 /\ p[1] = mark
  BY DEF Stack
<1>2. Len(s) \in Nat
  BY <1>1, LenProperties
<1> HIDE DEF p
<1>3. /\ u \in Seq(Items) /\ Len(u) = 1 + Len(s)
      /\ u[1] = mark
      /\ \A i \in 1 .. Len(s) : u[i + 1] = s[i]
      /\ \A i \in 0 .. Len(s) : /\ InFunction(s, i) => InFunction(u, i + 1)
                                /\ InLoop(s, i) => InLoop(u, i + 1)
      /\ ~EndsCall(mark) => /\ InFunction(s, 0) => InFunction(u, 0)
                            /\ InLoop(s, 0) => InLoop(u, 0)
  <2>1. 1 \in 1 .. Len(p) /\ 0 \in 0 .. Len(p) /\ \A m \in 1 .. Len(p) : m = 1
    BY <1>1
  <2>2. /\ u \in Seq(Items) /\ Len(u) = Len(p) + Len(s)
        /\ \A i \in 1 .. Len(p) : u[i] = p[i]
        /\ \A i \in 1 .. Len(s) : u[i + Len(p)] = s[i]
        /\ \A i \in 0 .. Len(s) :
              /\ InFunction(s, i) => InFunction(u, i + Len(p))
              /\ InLoop(s, i) => InLoop(u, i + Len(p))
        /\ (\A m \in 1 .. Len(p) : ~EndsCall(p[m])) =>
              \A i \in 0 .. Len(p) :
                 /\ InFunction(s, 0) => InFunction(u, i)
                 /\ InLoop(s, 0) => InLoop(u, i)
    BY <1>1, JoinContext
  <2> HIDE DEF u
  <2>3. ~EndsCall(mark) => /\ InFunction(s, 0) => InFunction(u, 0)
                           /\ InLoop(s, 0) => InLoop(u, 0)
    BY <1>1, <2>1, <2>2
  <2> QED
    BY <1>1, <2>1, <2>2, <2>3
<1> HIDE DEF u
<1>4. ASSUME NEW i \in 1 .. Len(s) PROVE PlacedAt(u[i + 1], u, i + 1)
  <2>1. PlacedAt(s[i], s, i) /\ i \in 0 .. Len(s) /\ u[i + 1] = s[i]
    BY <1>2, <1>3 DEF Stack
  <2> QED
    BY <1>3, <2>1, PlacedFurther
<1>5. PlacedAt(u[1], u, 1)
  <2>1. 0 \in 0 .. Len(s) /\ 0 + 1 = 1
    BY <1>2
  <2>2. (InFunction(s, 0) => InFunction(u, 1)) /\ (InLoop(s, 0) => InLoop(u, 1))
    BY <1>3, <2>1
  <2> QED
    BY <1>3, <2>2, PlacedFurther
<1>6. ASSUME NEW i \in 1 .. Len(u) PROVE PlacedAt(u[i], u, i)
  <2>1. i = 1 \/ (i - 1 \in 1 .. Len(s) /\ (i - 1) + 1 = i)
    BY <1>2, <1>3
  <2> QED
    BY <1>4, <1>5, <2>1
<1>7. 1 \in 0 + 1 .. Len(u)
  BY <1>2, <1>3
<1>8. EndsCall(mark) => InFunction(u, 0)
  BY <1>3, <1>7 DEF InFunction
<1>9. mark.op = "again" => InLoop(u, 0)
  <2>1. mark.op = "again" => ~EndsCall(mark)
    BY DEF EndsCall
  <2>2. \A m \in 0 + 1 .. 1 : m = 1
    OBVIOUS
  <2> QED
    BY <1>3, <1>7, <2>1, <2>2 DEF InLoop
<1> QED
  BY <1>3, <1>6, <1>8, <1>9 DEF Stack, u, p

-----------------------------------------------------------------------------
(***************************************************************************)
(* What the steps do to the stack.                                         *)
(***************************************************************************)
FirstOf(S) == IF S # {} THEN Min(S) ELSE 0

LEMMA FirstProperties ==
    ASSUME NEW n \in Nat, NEW S \in SUBSET (1 .. n)
    PROVE  /\ FirstOf(S) \in 0 .. n
           /\ S = {} => FirstOf(S) = 0
           /\ S # {} => /\ FirstOf(S) \in S /\ FirstOf(S) # 0
                        /\ \A i \in S : FirstOf(S) <= i
<1>1. CASE S = {}
  BY <1>1 DEF FirstOf
<1>2. CASE S # {}
  <2>1. S \in SUBSET Nat
    OBVIOUS
  <2>2. FirstOf(S) \in S /\ \A i \in S : FirstOf(S) <= i
    BY <1>2, <2>1, MinIsLeast DEF FirstOf
  <2>3. FirstOf(S) \in 1 .. n
    BY <2>2
  <2> QED
    BY <1>2, <2>2, <2>3
<1> QED
  BY <1>1, <1>2

Handlers(exc) == {i \in 1 .. Len(todo) : /\ todo[i].op = "end" /\ todo[i].what = "try"
                                         /\ exc \in DOMAIN todo[i].clauses}
CallEnds == {i \in 1 .. Len(todo) : todo[i].op = "end" /\ todo[i].what = "call"}
LoopTurns == {i \in 1 .. Len(todo) : todo[i].op = "again"}

LEMMA StackLength == \A s : Stack(s) => Len(s) \in Nat /\ s \in Seq(Items)
  BY LenProperties DEF Stack

LEMMA EmptyStack == Stack(<<>>)
  BY EmptySeq DEF Stack

\* An exception finds the code of its clause, or nothing is left to do.
LEMMA ThrowLeavesStack ==
    ASSUME Stack(todo), NEW exc, Throw(exc)
    PROVE  /\ Stack(todo')
           /\ outcome' = outcome \/ (outcome' = exc /\ todo' = <<>>)
<1> DEFINE h == FirstOf(Handlers(exc))
<1>1. IF h = 0 THEN outcome' = exc /\ todo' = <<>>
      ELSE todo' = todo[h].clauses[exc] \o From(h + 1) /\ UNCHANGED outcome
  BY DEF Throw, SelectInSeq, FirstOf, Handlers
<1>2. CASE h = 0
  BY <1>1, <1>2, EmptyStack
<1>3. CASE h # 0
  <2>1. Len(todo) \in Nat /\ todo \in Seq(Items) /\ Handlers(exc) \in SUBSET (1 .. Len(todo))
    BY StackLength DEF Handlers
  <2>2. h \in 1 .. Len(todo) /\ h \in Handlers(exc)
    BY <1>3, <2>1, FirstProperties
  <2>3. /\ todo[h].op = "end" /\ todo[h].what = "try" /\ exc \in DOMAIN todo[h].clauses
        /\ PlacedAt(todo[h], todo, h)
    BY <2>2 DEF Handlers, Stack
  <2> HIDE DEF h
  <2>4. ~RunsAt(todo[h], todo, h)
    BY <2>3, StatementsAreNoMarks DEF RunsAt, Statements
  <2>5. FitsAt(todo[h].clauses[exc], todo, h)
    BY <2>3, <2>4 DEF PlacedAt, EndsCall
  <2>6. h + 1 \in 1 .. Len(todo) + 1 /\ 0 \in 0 .. Len(todo) - (h + 1) + 1
        /\ (h + 1) + 0 - 1 = h
    BY <2>1, <2>2
  <2>7. Stack(From(h + 1))
    BY <2>6, Suffix DEF From
  <2>8. /\ InFunction(todo, (h + 1) + 0 - 1) => InFunction(From(h + 1), 0)
        /\ InLoop(todo, (h + 1) + 0 - 1) => InLoop(From(h + 1), 0)
    BY <2>1, <2>6, SuffixContext DEF From
  <2>9. FitsAt(todo[h].clauses[exc], From(h + 1), 0)
    BY <2>5, <2>6, <2>8 DEF FitsAt, RunsAt
  <2>10. Stack(todo[h].clauses[exc] \o From(h + 1))
    BY <2>7, <2>9, PushBlock
  <2> QED
    BY <1>1, <1>3, <2>10 DEF h
<1> QED
  BY <1>2, <1>3

\* What is at the top of the stack.
LEMMA TopOfStack ==
    ASSUME Stack(todo), NEW op, At(op)
    PROVE  /\ todo # <<>> /\ todo[1] \in Items /\ PlacedAt(todo[1], todo, 1)
           /\ Stack(Rest) /\ Rest = From(2) /\ Len(todo) \in Nat \ {0}
           /\ InFunction(todo, 1) => InFunction(Rest, 0)
           /\ InLoop(todo, 1) => InLoop(Rest, 0)
           /\ todo[1].op = op
<1>1. todo # <<>> /\ todo[1].op = op
  BY DEF At
<1>2. /\ Stack(Tail(todo)) /\ Tail(todo) = SubSeq(todo, 2, Len(todo))
      /\ Len(todo) \in Nat \ {0}
      /\ InFunction(todo, 1) => InFunction(Tail(todo), 0)
      /\ InLoop(todo, 1) => InLoop(Tail(todo), 0)
  BY <1>1, TailOfStack
<1>3. 1 \in 1 .. Len(todo) /\ todo \in Seq(Items)
  BY <1>2, StackLength
<1>4. todo[1] \in Items /\ PlacedAt(todo[1], todo, 1)
  BY <1>3, ElementOfSeq DEF Stack
<1> QED
  BY <1>1, <1>2, <1>4 DEF Rest, From

\* A statement that is no call is one of the code.
LEMMA StatementOnTop ==
    ASSUME Stack(todo), NEW op, At(op), op \notin {"call", "end", "again"}
    PROVE  RunsAt(todo[1], todo, 1) /\ todo[1] \in Statements /\ todo[1].op = op
<1>1. PlacedAt(todo[1], todo, 1) /\ todo[1].op = op
  BY TopOfStack
<1> QED
  BY <1>1 DEF PlacedAt, EndsCall, RunsAt, Statements

\* A mark, and a block in front of it.
LEMMA PushMarkedBlock ==
    ASSUME NEW s, Stack(s), NEW mark \in Items, PlacedAt(mark, s, 0),
           NEW block, FitsAt(block, <<mark>> \o s, 0)
    PROVE  Stack(block \o <<mark>> \o s)
<1>1. Stack(block \o (<<mark>> \o s))
  BY PushMark, PushBlock
<1>2. block \in Seq(Items) /\ <<mark>> \in Seq(Items) /\ s \in Seq(Items)
  BY BlocksOfCode DEF FitsAt, Stack
<1>3. block \o <<mark>> \o s = block \o (<<mark>> \o s)
  BY <1>2, ConcatAssociative
<1> QED
  BY <1>1, <1>3

LEMMA CallStack ==
    ASSUME NEW s, Stack(s), NEW body \in Seq(Straight)
    PROVE  Stack(body \o End("call") \o s)
<1> DEFINE mark == End("call")[1]
<1>1. /\ End("call") = <<mark>> /\ mark \in Items /\ EndsCall(mark)
      /\ PlacedAt(mark, s, 0)
  BY DEF End, Items, EndsCall, PlacedAt
<1> HIDE DEF mark
<1>2. InFunction(<<mark>> \o s, 0)
  BY <1>1, PushMark
<1>3. FitsAt(body, <<mark>> \o s, 0)
  BY <1>2, BlocksOfCode DEF FitsAt, RunsAt
<1> QED
  BY <1>1, <1>3, PushMarkedBlock

LEMMA TryStack ==
    ASSUME NEW s, Stack(s), NEW x, RunsAt(x, s, 0), x.op = "try"
    PROVE  Stack(x.body \o EndTry(x.clauses) \o s)
<1> DEFINE mark == EndTry(x.clauses)[1]
<1>1. x \in Statements /\ EndTry(x.clauses) = <<mark>>
  BY DEF RunsAt, Statements, EndTry
<1>2. mark \in Items
  BY <1>1 DEF Items
<1>3. /\ mark.op = "end" /\ mark.what = "try" /\ mark.clauses = x.clauses
      /\ ~EndsCall(mark)
  BY DEF EndTry, EndsCall
<1> HIDE DEF mark
<1>4. \A exc \in DOMAIN x.clauses : FitsAt(x.clauses[exc], s, 0)
  <2>1. \A exc \in DOMAIN x.clauses : x.clauses[exc] \in Blocks(x)
    BY DEF Blocks
  <2> QED
    BY <2>1, BlocksFit
<1>5. PlacedAt(mark, s, 0)
  BY <1>3, <1>4 DEF PlacedAt
<1>6. RunsAt(x, <<mark>> \o s, 0)
  BY <1>2, <1>3, <1>5, PushMark DEF RunsAt
<1>7. x.body \in Blocks(x)
  BY DEF Blocks
<1>8. FitsAt(x.body, <<mark>> \o s, 0)
  BY <1>6, <1>7, BlocksFit
<1> QED
  BY <1>1, <1>2, <1>5, <1>8, PushMarkedBlock

LEMMA TurnStack ==
    ASSUME NEW s, Stack(s), InFunction(s, 0), NEW loop \in Statements, loop.op = "loop",
           NEW turn \in Nat, loop.kind = "instances" => turn \in 1 .. Instances
    PROVE  Stack(loop.body \o Again(loop, turn) \o s)
<1> DEFINE mark == Again(loop, turn)[1]
<1>1. /\ Again(loop, turn) = <<mark>> /\ mark = [op |-> "again", loop |-> loop, turn |-> turn]
  BY DEF Again
<1>2. mark \in Items
  BY <1>1 DEF Items
<1>3. mark.op = "again" /\ mark.loop = loop /\ mark.turn = turn
  BY <1>1
<1> HIDE DEF mark
<1>4. loop.body \in Seq(Looped)
  BY CodeAssumption DEF Statements
<1>5. PlacedAt(mark, s, 0) /\ ~EndsCall(mark)
  BY <1>3, <1>4 DEF PlacedAt, EndsCall
<1>6. InFunction(<<mark>> \o s, 0) /\ InLoop(<<mark>> \o s, 0)
  BY <1>2, <1>3, <1>5, PushMark
<1>7. FitsAt(loop.body, <<mark>> \o s, 0)
  BY <1>4, <1>6, BlocksOfCode DEF FitsAt, RunsAt
<1> QED
  BY <1>1, <1>2, <1>5, <1>7, PushMarkedBlock

-----------------------------------------------------------------------------
\* A step goes on with another stack, or ends the round.
GoesOn ==
    /\ Stack(todo')
    /\ outcome' = outcome \/ (outcome' \in Every /\ todo' = <<>>)

LEMMA TopRuns ==
    ASSUME Stack(todo), NEW op, At(op), op \notin {"call", "end", "again"}
    PROVE  RunsAt(todo[1], Rest, 0) /\ Stack(Rest) /\ todo[1].op = op
           /\ todo[1] \in Statements
  BY TopOfStack, StatementOnTop DEF RunsAt

LEMMA Popping ==
    ASSUME Stack(todo), NEW op, At(op), Goto(Rest)
    PROVE  GoesOn
  BY TopOfStack DEF Goto, GoesOn

LEMMA Throwing ==
    ASSUME Stack(todo), NEW exc \in Every, Throw(exc)
    PROVE  GoesOn
  BY ThrowLeavesStack DEF GoesOn

LEMMA PopSteps ==
    ASSUME Stack(todo),
           \/ Answer \/ SetDims \/ PublishMetric \/ LogAnError \/ LeaveBlock \/ EndLoop
           \/ NoteFact \/ KeepFact \/ ForgetFact \/ UseFact
    PROVE  GoesOn
<1>1. Goto(Rest) /\ \E op : At(op)
  BY DEF Answer, SetDims, PublishMetric, LogAnError, LeaveBlock, EndLoop, NoteFact,
         KeepFact, ForgetFact, UseFact
<1> QED
  BY <1>1, Popping

LEMMA ThrowSteps ==
    ASSUME Stack(todo), AlarmRings \/ Fail \/ PublishFails \/ RaiseException
    PROVE  GoesOn
<1>1. CASE AlarmRings
  BY <1>1, Throwing DEF AlarmRings, Every
<1>2. CASE Fail \/ PublishFails
  <2>1. PICK op \in {"ask", "parse", "publish"} : At(op) /\ \E exc \in todo[1].excs : Throw(exc)
    BY <1>2 DEF Fail, PublishFails
  <2>2. todo[1] \in Statements /\ todo[1].op = op
    BY <2>1, TopRuns
  <2>3. todo[1].excs \subseteq Every
    BY <2>2, CodeAssumption DEF Statements
  <2> QED
    BY <2>1, <2>3, Throwing
<1>3. CASE RaiseException
  <2>1. At("raise") /\ Throw(todo[1].exc)
    BY <1>3 DEF RaiseException
  <2>2. todo[1] \in Statements /\ todo[1].op = "raise"
    BY <2>1, TopRuns
  <2>3. todo[1].exc \in Every
    BY <2>2, CodeAssumption DEF Statements
  <2> QED
    BY <2>1, <2>3, Throwing
<1> QED
  BY <1>1, <1>2, <1>3

LEMMA CallStep ==
    ASSUME Stack(todo), CallFunction
    PROVE  GoesOn
<1>1. At("call") /\ Goto(todo[1].body \o End("call") \o Rest)
  BY DEF CallFunction
<1>2. PlacedAt(todo[1], todo, 1) /\ todo[1].op = "call" /\ Stack(Rest)
  BY <1>1, TopOfStack
<1>3. todo[1].body \in Seq(Straight)
  <2>1. ASSUME RunsAt(todo[1], todo, 1) PROVE todo[1].body \in Seq(Straight)
    BY <1>2, <2>1, CodeAssumption DEF RunsAt
  <2> QED
    BY <1>2, <2>1 DEF PlacedAt, EndsCall
<1> QED
  BY <1>1, <1>2, <1>3, CallStack DEF Goto, GoesOn

LEMMA TryStep ==
    ASSUME Stack(todo), EnterTry
    PROVE  GoesOn
<1>1. At("try") /\ Goto(todo[1].body \o EndTry(todo[1].clauses) \o Rest)
  BY DEF EnterTry
<1>2. RunsAt(todo[1], Rest, 0) /\ Stack(Rest) /\ todo[1].op = "try"
  BY <1>1, TopRuns
<1> QED
  BY <1>1, <1>2, TryStack DEF Goto, GoesOn

LEMMA BlockSteps ==
    ASSUME Stack(todo), Choose \/ TestFact
    PROVE  GoesOn
<1>1. PICK op \in {"either", "if"} :
         At(op) /\ \E b \in Blocks(todo[1]) : Goto(b \o Rest)
  BY DEF Choose, TestFact, Blocks, At
<1>2. RunsAt(todo[1], Rest, 0) /\ Stack(Rest)
  BY <1>1, TopRuns
<1> QED
  BY <1>1, <1>2, BlocksFit, PushBlock DEF Goto, GoesOn

\* The turn of a loop that ends is followed by another one of that loop.
LEMMA TurnOnTop ==
    ASSUME Stack(todo), At("again")
    PROVE  /\ InFunction(Rest, 0) /\ todo[1].loop \in Statements
           /\ todo[1].loop.op = "loop" /\ todo[1].turn \in Nat
<1>1. todo[1].op = "again" /\ todo[1] \in Items /\ PlacedAt(todo[1], todo, 1)
  BY TopOfStack
<1>2. todo[1] \notin Statements
  BY <1>1, StatementsAreNoMarks
<1>3. todo[1] \in [op : {"again"}, loop : {s \in Statements : s.op = "loop"}, turn : Nat]
  BY <1>1, <1>2 DEF Items, Call, End, EndTry
<1>4. InFunction(todo, 1)
  BY <1>1, <1>2 DEF PlacedAt, RunsAt, Statements, EndsCall
<1> QED
  BY <1>3, <1>4, TopOfStack

LEMMA TurnStep ==
    ASSUME Stack(todo), Turn
    PROVE  GoesOn
<1> DEFINE loop == IF At("loop") THEN todo[1] ELSE todo[1].loop
           turn == IF At("loop") THEN 1 ELSE todo[1].turn + 1
           next == IF loop.kind = "forever" THEN 1 ELSE turn
<1>1. /\ At("loop") \/ At("again")
      /\ loop.kind = "instances" => turn <= Instances
      /\ Goto(loop.body \o Again(loop, next) \o Rest)
  BY DEF Turn
<1>2. /\ Stack(Rest) /\ InFunction(Rest, 0) /\ loop \in Statements /\ loop.op = "loop"
      /\ turn \in Nat \ {0}
  <2>1. CASE At("loop")
    BY <2>1, TopRuns DEF RunsAt
  <2>2. CASE At("again") /\ ~At("loop")
    <3>1. /\ InFunction(Rest, 0) /\ todo[1].loop \in Statements
          /\ todo[1].loop.op = "loop" /\ todo[1].turn \in Nat
      BY <2>2, TurnOnTop
    <3>2. Stack(Rest)
      BY <2>2, TopOfStack
    <3> QED
      BY <2>2, <3>1, <3>2
  <2> QED
    BY <1>1, <2>1, <2>2
<1> HIDE DEF loop, turn
<1>3. next \in Nat /\ (loop.kind = "instances" => next \in 1 .. Instances)
  BY <1>1, <1>2, RoundsAssumption
<1> HIDE DEF next
<1> QED
  BY <1>1, <1>2, <1>3, TurnStack DEF Goto, GoesOn

\* return finds the end of a call; continue and break find a turn of a loop, and
\* no call ends before it.
LEMMA CallEndFound ==
    ASSUME Stack(todo), InFunction(todo, 1), todo # <<>>
    PROVE  /\ FirstOf(CallEnds) \in CallEnds
           /\ \A i \in CallEnds : FirstOf(CallEnds) <= i
<1>1. Len(todo) \in Nat /\ CallEnds \in SUBSET (1 .. Len(todo))
  BY StackLength DEF CallEnds
<1>2. CallEnds # {}
  BY <1>1 DEF InFunction, EndsCall, CallEnds
<1> QED
  BY <1>1, <1>2, FirstProperties

LEMMA LoopTurnFound ==
    ASSUME Stack(todo), At("continue") \/ At("break")
    PROVE  /\ FirstOf(LoopTurns) \in LoopTurns
           /\ \E i \in LoopTurns : i <= FirstOf(CallEnds)
<1>1. PICK op \in {"continue", "break"} : At(op)
  OBVIOUS
<1>2. /\ RunsAt(todo[1], todo, 1) /\ todo[1].op = op /\ todo # <<>>
  BY <1>1, StatementOnTop, TopOfStack
<1>3. InFunction(todo, 1) /\ InLoop(todo, 1)
  BY <1>2, CodeAssumption DEF RunsAt
<1>4. Len(todo) \in Nat /\ LoopTurns \in SUBSET (1 .. Len(todo))
  BY StackLength DEF LoopTurns
<1>5. PICK j \in 1 + 1 .. Len(todo) :
         todo[j].op = "again" /\ \A m \in 1 + 1 .. j : ~EndsCall(todo[m])
  BY <1>3 DEF InLoop
<1>6. j \in LoopTurns
  BY <1>4, <1>5 DEF LoopTurns
<1>7. FirstOf(CallEnds) \in CallEnds
  BY <1>2, <1>3, CallEndFound
<1>8. ASSUME NEW c \in CallEnds PROVE j <= c
  <2>1. c \in 1 .. Len(todo) /\ EndsCall(todo[c])
    BY <1>8 DEF CallEnds, EndsCall
  <2>2. c # 1
    BY <1>2, <2>1 DEF EndsCall
  <2>3. c \notin 1 + 1 .. j
    BY <1>5, <2>1
  <2> QED
    BY <1>4, <1>5, <2>1, <2>2, <2>3
<1> QED
  BY <1>4, <1>6, <1>7, <1>8, FirstProperties

LEMMA JumpSteps ==
    ASSUME Stack(todo), ReturnFromCall \/ ContinueOrBreak
    PROVE  GoesOn
<1>1. Len(todo) \in Nat
  BY StackLength
<1>2. ASSUME NEW n \in 1 .. Len(todo) + 1, Goto(From(n))
      PROVE  GoesOn
  BY <1>2, Suffix DEF From, Goto, GoesOn
<1>3. CASE ReturnFromCall
  <2>1. Goto(From(1 + FirstOf(CallEnds)))
    BY <1>3 DEF ReturnFromCall, SelectInSeq, FirstOf, CallEnds
  <2>2. CallEnds \in SUBSET (1 .. Len(todo))
    BY DEF CallEnds
  <2>3. FirstOf(CallEnds) \in 0 .. Len(todo)
    BY <1>1, <2>2, FirstProperties
  <2>4. 1 + FirstOf(CallEnds) \in 1 .. Len(todo) + 1
    BY <1>1, <2>3
  <2> QED
    BY <1>2, <2>1, <2>4
<1>4. CASE ContinueOrBreak
  <2>1. Goto(From(IF At("break") THEN FirstOf(LoopTurns) + 1 ELSE FirstOf(LoopTurns)))
    BY <1>4 DEF ContinueOrBreak, SelectInSeq, FirstOf, LoopTurns
  <2>2. FirstOf(LoopTurns) \in 1 .. Len(todo)
    BY <1>4, LoopTurnFound DEF ContinueOrBreak, LoopTurns
  <2>3. (IF At("break") THEN FirstOf(LoopTurns) + 1 ELSE FirstOf(LoopTurns))
           \in 1 .. Len(todo) + 1
    BY <1>1, <2>2
  <2> QED
    BY <1>2, <2>1, <2>3
<1> QED
  BY <1>3, <1>4

LEMMA StackStep ==
    ASSUME Stack(todo), Step \/ AlarmRings
    PROVE  GoesOn
  BY PopSteps, ThrowSteps, CallStep, TryStep, BlockSteps, TurnStep, JumpSteps DEF Step

LEMMA StartedStack ==
    ASSUME NEW c \in DOMAIN Program
    PROVE  Stack(Call(Program[c]))
<1> DEFINE call == Call(Program[c])[1]
<1>1. Call(Program[c]) = <<call>> /\ call.op = "call" /\ call.body = Program[c]
  BY DEF Call
<1>2. call \in Items
  BY DEF Items
<1> HIDE DEF call
<1>3. PlacedAt(call, <<>>, 0)
  BY <1>1, CodeAssumption DEF PlacedAt
<1>4. Stack(<<call>> \o <<>>)
  BY <1>2, <1>3, EmptyStack, PushMark
<1>5. <<call>> \o <<>> = <<call>>
  BY <1>2, ConcatEmptySeq
<1> QED
  BY <1>1, <1>4, <1>5

-----------------------------------------------------------------------------
(***************************************************************************)
(* The type invariant.                                                     *)
(***************************************************************************)
\* TypeOK but for what a jump refers to, which the stack gives.
DataOK ==
    /\ collector \in DOMAIN Program
    /\ outcome \in {"none", "returned"} \cup Every
    /\ alarm \in {"idle", "set", "rung"}
    /\ dims \in {"none", "own", "error"}
    /\ connected \in BOOLEAN /\ noticed \in BOOLEAN
    /\ rounds \in 0 .. MaxRounds
    /\ failed \cup reached \subseteq 0 .. Instances
    /\ \A e \in DOMAIN kept :
          kept[e] \in 0 .. Instances /\ \E by \in Keys : e.of = KeyOf[by][kept[e]]
    /\ ~Running => todo = <<>>

RoundInv == DataOK /\ Stack(todo)

LEMMA HereIsInstance ==
    ASSUME Stack(todo)
    PROVE  Here \in 0 .. Instances
<1>1. Len(todo) \in Nat /\ DOMAIN todo = 1 .. Len(todo)
  BY StackLength, LenProperties
<1>2. CASE Turns = {}
  BY <1>2, RoundsAssumption DEF Here
<1>3. CASE Turns # {}
  <2>1. Turns \in SUBSET Nat
    BY <1>1 DEF Turns
  <2>2. Min(Turns) \in Turns
    BY <1>3, <2>1, MinIsLeast
  <2>3. PICK i \in Turns : i = Min(Turns)
    BY <2>2
  <2>4. /\ todo[i].op = "again" /\ todo[i].loop.kind = "instances"
        /\ PlacedAt(todo[i], todo, i)
    BY <1>1, <2>3 DEF Turns, Stack
  <2>5. todo[i].turn \in 1 .. Instances
    BY <2>4, StatementsAreNoMarks DEF PlacedAt, RunsAt, Statements, EndsCall
  <2> QED
    BY <1>3, <2>3, <2>5, RoundsAssumption DEF Here
<1> QED
  BY <1>2, <1>3

\* What a step does to the facts and the history of a round.
LEMMA KeptStep ==
    ASSUME RoundInv, Step \/ AlarmRings
    PROVE  \A e \in DOMAIN kept' :
               kept'[e] \in 0 .. Instances /\ \E by \in Keys : e.of = KeyOf[by][kept'[e]]
<1>1. CASE UNCHANGED kept
  BY <1>1 DEF RoundInv, DataOK
<1>2. CASE KeepFact
  <2>1. kept' = [e \in DOMAIN kept \cup {Entry} |-> IF e = Entry THEN Here ELSE kept[e]]
    BY <1>2 DEF KeepFact
  <2>2. todo[1] \in Statements /\ todo[1].op = "keep"
    BY <1>2, TopRuns DEF KeepFact, RoundInv
  <2>3. todo[1].by \in Keys
    BY <2>2, CodeAssumption DEF Statements
  <2>4. Entry.of = KeyOf[todo[1].by][Here] /\ Here \in 0 .. Instances
    BY HereIsInstance DEF Entry, RoundInv
  <2> QED
    BY <2>1, <2>3, <2>4 DEF RoundInv, DataOK
<1>3. CASE ForgetFact
  BY <1>3 DEF ForgetFact, RoundInv, DataOK
<1> QED
  BY <1>1, <1>2, <1>3
  DEF Step, AlarmRings, Answer, Fail, SetDims, PublishMetric, PublishFails, LogAnError,
      CallFunction, ReturnFromCall, EnterTry, LeaveBlock, RaiseException, Turn, EndLoop,
      ContinueOrBreak, Choose, NoteFact, UseFact, TestFact, Facts

LEMMA HistoryStep ==
    ASSUME RoundInv, Step \/ AlarmRings
    PROVE  /\ failed' \cup reached' \subseteq 0 .. Instances
           /\ noticed' \in BOOLEAN
<1>1. CASE UNCHANGED roundVars
  BY <1>1 DEF roundVars, RoundInv, DataOK
<1>2. CASE Fail
  BY <1>2, HereIsInstance DEF Fail, RoundInv, DataOK
<1>3. CASE PublishFails \/ LogAnError
  BY <1>3 DEF PublishFails, LogAnError, RoundInv, DataOK
<1>4. CASE Turn
  <2>1. PICK turn : /\ At("loop") => turn = 1
                    /\ At("again") /\ ~At("loop") => turn = todo[1].turn + 1
                    /\ reached' = reached \/ (turn <= Instances
                                               /\ reached' = reached \cup {turn})
    BY <1>4 DEF Turn
  <2>2. At("loop") \/ (At("again") /\ ~At("loop"))
    BY <1>4 DEF Turn
  <2>3. turn \in Nat
    BY <2>1, <2>2, TurnOnTop DEF RoundInv
  <2>4. turn <= Instances => turn \in 0 .. Instances
    BY <2>3, RoundsAssumption
  <2> QED
    BY <1>4, <2>1, <2>4 DEF Turn, RoundInv, DataOK
<1> QED
  BY <1>1, <1>2, <1>3, <1>4
  DEF Step, AlarmRings, Answer, SetDims, PublishMetric, CallFunction, ReturnFromCall,
      EnterTry, LeaveBlock, RaiseException, EndLoop, ContinueOrBreak, Choose, NoteFact,
      KeepFact, ForgetFact, UseFact, TestFact

LEMMA DimsStep ==
    ASSUME RoundInv, Step \/ AlarmRings
    PROVE  dims' \in {"none", "own", "error"}
<1>1. CASE UNCHANGED dims
  BY <1>1 DEF RoundInv, DataOK
<1>2. CASE SetDims
  <2>1. todo[1] \in Statements /\ todo[1].op = "dims"
    BY <1>2, TopRuns DEF SetDims, RoundInv
  <2>2. todo[1].to \in {"none", "own"}
    BY <2>1, CodeAssumption DEF Statements
  <2> QED
    BY <1>2, <2>2 DEF SetDims
<1>3. CASE PublishMetric \/ PublishFails \/ LogAnError
  BY <1>3 DEF PublishMetric, PublishFails, LogAnError, RoundInv, DataOK
<1> QED
  BY <1>1, <1>2, <1>3
  DEF Step, AlarmRings, Answer, Fail, CallFunction, ReturnFromCall, EnterTry, LeaveBlock,
      RaiseException, Turn, EndLoop, ContinueOrBreak, Choose, NoteFact, KeepFact,
      ForgetFact, UseFact, TestFact

LEMMA RunningStep ==
    ASSUME RoundInv, Step \/ AlarmRings
    PROVE  RoundInv'
<1>1. GoesOn
  BY StackStep DEF RoundInv
<1>2. UNCHANGED <<collector, connected, rounds>> /\ alarm' \in {alarm, "rung"} /\ Running
  BY DEF Step, AlarmRings, Answer, Fail, SetDims, PublishMetric, PublishFails, LogAnError,
         CallFunction, ReturnFromCall, EnterTry, LeaveBlock, RaiseException, Turn, EndLoop,
         ContinueOrBreak, Choose, NoteFact, KeepFact, ForgetFact, UseFact, TestFact, Still, At
<1>3. /\ outcome' \in {"none", "returned"} \cup Every
      /\ ~Running' => todo' = <<>>
  BY <1>1, <1>2 DEF GoesOn, Running, RoundInv, DataOK
<1> QED
  BY <1>1, <1>2, <1>3, KeptStep, HistoryStep, DimsStep DEF GoesOn, RoundInv, DataOK

LEMMA RoundStep ==
    ASSUME RoundInv, [Next]_vars
    PROVE  RoundInv'
<1>1. CASE StartRound
  <2>1. /\ todo' = Call(Program[collector]) /\ collector' = collector
        /\ outcome' = "none" /\ rounds' = rounds + 1 /\ rounds < MaxRounds
        /\ kept' \in {<<>>, kept} /\ dims' \in {"none", dims}
        /\ connected' \in BOOLEAN /\ alarm' = "set" /\ noticed' = FALSE
        /\ failed' = {} /\ reached' = {}
    BY <1>1 DEF StartRound
  <2>2. Stack(todo') /\ rounds' \in 0 .. MaxRounds
    BY <2>1, StartedStack, RoundsAssumption DEF RoundInv, DataOK
  <2>3. \A e \in DOMAIN kept' :
           kept'[e] \in 0 .. Instances /\ \E by \in Keys : e.of = KeyOf[by][kept'[e]]
    BY <2>1 DEF RoundInv, DataOK
  <2> QED
    BY <2>1, <2>2, <2>3 DEF RoundInv, DataOK, Running
<1>2. CASE EndRound
  BY <1>2 DEF EndRound, RoundInv, DataOK, roundVars, Running
<1>3. CASE Step \/ AlarmRings
  BY <1>3, RunningStep
<1>4. CASE UNCHANGED vars
  BY <1>4 DEF vars, roundVars, RoundInv, DataOK, Running
<1> QED
  BY <1>1, <1>2, <1>3, <1>4 DEF Next

LEMMA RoundInit == Init => RoundInv
<1> SUFFICES ASSUME Init PROVE RoundInv
  OBVIOUS
<1>1. DOMAIN kept = {} /\ Stack(todo) /\ todo = <<>> /\ rounds \in 0 .. MaxRounds
  BY EmptyStack, RoundsAssumption DEF Init
<1>2. DataOK
  BY <1>1 DEF Init, DataOK, Running
<1> QED
  BY <1>1, <1>2 DEF RoundInv

LEMMA RoundInvariant == Spec => []RoundInv
  BY RoundInit, RoundStep, PTL DEF Spec

LEMMA JumpsHaveTargets ==
    ASSUME RoundInv
    PROVE  /\ At("return") => InCall("end")
           /\ At("continue") \/ At("break") => InCall("again")
<1> DEFINE call == FirstOf(CallEnds)
<1>1. \A op : InCall(op) <=> \E i \in DOMAIN todo : todo[i].op = op /\ i <= call
  BY DEF InCall, SelectInSeq, FirstOf, CallEnds
<1>2. Len(todo) \in Nat /\ DOMAIN todo = 1 .. Len(todo)
  BY StackLength, LenProperties DEF RoundInv
<1>3. ASSUME At("return") PROVE InCall("end")
  <2>1. call \in CallEnds
    BY <1>3, StatementOnTop, TopOfStack, CallEndFound DEF RoundInv, RunsAt
  <2>2. call \in 1 .. Len(todo) /\ todo[call].op = "end"
    BY <2>1 DEF CallEnds
  <2> HIDE DEF call
  <2> QED
    BY <1>1, <1>2, <2>2
<1>4. ASSUME At("continue") \/ At("break") PROVE InCall("again")
  <2>1. PICK i \in LoopTurns : i <= call
    BY <1>4, LoopTurnFound DEF RoundInv
  <2>2. i \in DOMAIN todo /\ todo[i].op = "again"
    BY <1>2 DEF LoopTurns
  <2> HIDE DEF call
  <2> QED
    BY <1>1, <2>1, <2>2
<1> QED
  BY <1>3, <1>4

\* Whatever the program and wherever the alarm strikes, return, continue and break
\* find the function and the loop they are in, the turns of loops are those of
\* configured instances, and nothing is left to do when a round is over
\* (collector_process, Collector._run, every collect).
THEOREM RoundTypes == Spec => []TypeOK
<1>1. RoundInv => TypeOK
  BY JumpsHaveTargets DEF RoundInv, DataOK, TypeOK
<1> QED
  BY <1>1, RoundInvariant, PTL

-----------------------------------------------------------------------------
(***************************************************************************)
(* The collector's own code on the stack.                                  *)
(***************************************************************************)
Marks(c) ==
    {End("call")[1]}
    \cup {EndTry(s.clauses)[1] : s \in {t \in StatementsOf(c) : t.op = "try"}}
    \cup [op : {"again"}, loop : {s \in StatementsOf(c) : s.op = "loop"}, turn : Nat]
CodeItems(c) == StatementsOf(c) \cup Marks(c)

CodeInv == RoundInv /\ todo \in Seq(CodeItems(collector))

LEMMA BlocksAreCode ==
    ASSUME NEW c \in DOMAIN Program, NEW block \in CodeOf[c]
    PROVE  /\ block \in Seq(StatementsOf(c)) /\ block \in Seq(CodeItems(c))
           /\ DOMAIN block = 1 .. Len(block) /\ Len(block) \in Nat
<1>1. block \in Seq(Members(block))
  BY CodeAssumption
<1>2. Members(block) \subseteq StatementsOf(c) /\ StatementsOf(c) \subseteq CodeItems(c)
  BY DEF StatementsOf, CodeItems
<1>3. block \in Seq(StatementsOf(c)) /\ block \in Seq(CodeItems(c))
  BY <1>1, <1>2, SeqMonotonic
<1> QED
  BY <1>3, LenProperties

LEMMA MarksAreMarks ==
    ASSUME NEW c \in DOMAIN Program, NEW mark \in Marks(c)
    PROVE  mark.op \in {"end", "again"} /\ mark \in CodeItems(c)
  BY DEF Marks, CodeItems, End, EndTry

\* A statement on the stack is one of the collector, a try that is open one of its
\* try statements, a turn one of its loops.
LEMMA CodeOnStack ==
    ASSUME CodeInv, NEW i \in 1 .. Len(todo)
    PROVE  /\ collector \in DOMAIN Program /\ todo[i] \in CodeItems(collector)
           /\ todo[i].op \notin {"end", "again"} => todo[i] \in StatementsOf(collector)
           /\ todo[i].op = "again" =>
                todo[i].loop \in StatementsOf(collector) /\ todo[i].loop.op = "loop"
                /\ todo[i].turn \in Nat
           /\ todo[i].op = "end" /\ todo[i].what = "try" =>
                \E s \in StatementsOf(collector) :
                    s.op = "try" /\ todo[i].clauses = s.clauses
<1>1. collector \in DOMAIN Program /\ todo[i] \in CodeItems(collector)
  BY ElementOfSeq DEF CodeInv, RoundInv, DataOK
<1>2. CASE todo[i] \in StatementsOf(collector)
  BY <1>1, <1>2, CodeAssumption
<1>3. CASE todo[i] = End("call")[1]
  BY <1>1, <1>3 DEF End
<1>4. CASE todo[i] \in {EndTry(s.clauses)[1] : s \in {t \in StatementsOf(collector) : t.op = "try"}}
  BY <1>1, <1>4 DEF EndTry
<1>5. CASE todo[i] \in [op : {"again"}, loop : {s \in StatementsOf(collector) : s.op = "loop"},
                        turn : Nat]
  BY <1>1, <1>5
<1> QED
  BY <1>1, <1>2, <1>3, <1>4, <1>5 DEF CodeItems, Marks

LEMMA CodeOnTop ==
    ASSUME CodeInv, NEW op, At(op)
    PROVE  /\ collector \in DOMAIN Program /\ Len(todo) \in Nat \ {0} /\ todo # <<>>
           /\ todo[1].op = op /\ Running /\ Rest = From(2)
           /\ op \notin {"end", "again"} => todo[1] \in StatementsOf(collector)
<1>1. /\ Len(todo) \in Nat \ {0} /\ todo # <<>> /\ todo[1].op = op /\ Running
      /\ Rest = From(2)
  BY TopOfStack DEF CodeInv, RoundInv, At
<1>2. 1 \in 1 .. Len(todo)
  BY <1>1
<1> QED
  BY <1>1, <1>2, CodeOnStack

-----------------------------------------------------------------------------
\* How a step changes the stack: it drops what comes first, opens a block of the
\* code in the place of the statement on top, or goes to the clause of a try.
Drops ==
    \E n \in 2 .. Len(todo) + 1 :
        /\ todo' = From(n)
        /\ todo[n - 1].op # "dims" \/ (n <= Len(todo) /\ todo[n].op = "again")
Opens ==
    /\ todo # <<>> /\ todo[1].op # "dims"
    /\ \E block \in CodeOf[collector] :
          \/ todo' = block \o Rest
          \/ \E mark \in Marks(collector) : todo' = block \o <<mark>> \o Rest
Catches(exc) ==
    \E h \in 1 .. Len(todo), s \in StatementsOf(collector) :
        /\ todo[h].op = "end" /\ s.op = "try" /\ exc \in DOMAIN s.clauses
        /\ todo' = s.clauses[exc] \o From(h + 1)

LEMMA ThrowShape ==
    ASSUME CodeInv, NEW exc, Throw(exc)
    PROVE  \/ outcome' = exc /\ todo' = <<>>
           \/ UNCHANGED outcome /\ Catches(exc)
<1> DEFINE h == FirstOf(Handlers(exc))
<1>1. IF h = 0 THEN outcome' = exc /\ todo' = <<>>
      ELSE todo' = todo[h].clauses[exc] \o From(h + 1) /\ UNCHANGED outcome
  BY DEF Throw, SelectInSeq, FirstOf, Handlers
<1>2. CASE h # 0
  <2>1. Len(todo) \in Nat /\ Handlers(exc) \in SUBSET (1 .. Len(todo))
    BY StackLength DEF Handlers, CodeInv, RoundInv
  <2>2. h \in 1 .. Len(todo) /\ h \in Handlers(exc)
    BY <1>2, <2>1, FirstProperties
  <2>3. /\ todo[h].op = "end" /\ todo[h].what = "try" /\ exc \in DOMAIN todo[h].clauses
    BY <2>2 DEF Handlers
  <2>4. todo' = todo[h].clauses[exc] \o From(h + 1) /\ UNCHANGED outcome
    BY <1>1, <1>2
  <2> HIDE DEF h
  <2>5. PICK s \in StatementsOf(collector) : s.op = "try" /\ todo[h].clauses = s.clauses
    BY <2>2, <2>3, CodeOnStack
  <2> QED
    BY <2>2, <2>3, <2>4, <2>5 DEF Catches
<1> QED
  BY <1>1, <1>2

LEMMA DropShape ==
    ASSUME CodeInv,
           \/ Answer \/ PublishMetric \/ LogAnError \/ LeaveBlock \/ EndLoop
           \/ NoteFact \/ KeepFact \/ ForgetFact \/ UseFact
           \/ ReturnFromCall \/ ContinueOrBreak
    PROVE  Drops
<1>1. Len(todo) \in Nat
  BY StackLength DEF CodeInv, RoundInv
<1>2. CASE \/ Answer \/ PublishMetric \/ LogAnError \/ LeaveBlock \/ EndLoop
           \/ NoteFact \/ KeepFact \/ ForgetFact \/ UseFact
  <2>1. Goto(Rest) /\ \E op : At(op) /\ op # "dims"
    BY <1>2 DEF Answer, PublishMetric, LogAnError, LeaveBlock, EndLoop, NoteFact, KeepFact,
                ForgetFact, UseFact
  <2>2. todo' = From(2) /\ 2 \in 2 .. Len(todo) + 1 /\ todo[2 - 1].op # "dims"
    BY <2>1, CodeOnTop DEF Goto
  <2> QED
    BY <2>2 DEF Drops
<1>3. CASE ReturnFromCall
  <2>1. At("return") /\ todo' = From(1 + FirstOf(CallEnds))
    BY <1>3 DEF ReturnFromCall, SelectInSeq, FirstOf, CallEnds, Goto
  <2>2. FirstOf(CallEnds) \in CallEnds
    BY <2>1, StatementOnTop, TopOfStack, CallEndFound DEF CodeInv, RoundInv, RunsAt
  <2>3. PICK n \in 1 .. Len(todo) : n = FirstOf(CallEnds) /\ todo[n].op = "end"
    BY <2>2 DEF CallEnds
  <2>4. 1 + n \in 2 .. Len(todo) + 1 /\ (1 + n) - 1 = n
    BY <1>1
  <2> QED
    BY <2>1, <2>3, <2>4 DEF Drops
<1>4. CASE ContinueOrBreak
  <2>1. /\ At("continue") \/ At("break")
        /\ todo' = From(IF At("break") THEN FirstOf(LoopTurns) + 1 ELSE FirstOf(LoopTurns))
    BY <1>4 DEF ContinueOrBreak, SelectInSeq, FirstOf, LoopTurns, Goto
  <2>2. FirstOf(LoopTurns) \in LoopTurns
    BY <2>1, LoopTurnFound DEF CodeInv, RoundInv
  <2>3. PICK n \in 1 .. Len(todo) : n = FirstOf(LoopTurns) /\ todo[n].op = "again"
    BY <2>2 DEF LoopTurns
  <2>4. n # 1
    BY <2>1, <2>3 DEF At
  <2>5. /\ n + 1 \in 2 .. Len(todo) + 1 /\ (n + 1) - 1 = n
        /\ n \in 2 .. Len(todo) + 1 /\ n <= Len(todo)
    BY <1>1, <2>4
  <2>6. CASE At("break")
    BY <2>1, <2>3, <2>5, <2>6 DEF Drops
  <2>7. CASE ~At("break")
    BY <2>1, <2>3, <2>5, <2>7 DEF Drops
  <2> QED
    BY <2>6, <2>7
<1> QED
  BY <1>2, <1>3, <1>4

LEMMA OpenShape ==
    ASSUME CodeInv, CallFunction \/ EnterTry \/ Turn \/ Choose \/ TestFact
    PROVE  Opens
<1>1. CASE CallFunction
  <2>1. At("call") /\ todo' = todo[1].body \o End("call") \o Rest
    BY <1>1 DEF CallFunction, Goto
  <2>2. /\ todo[1] \in StatementsOf(collector) /\ todo[1].op = "call" /\ todo # <<>>
        /\ collector \in DOMAIN Program
    BY <2>1, CodeOnTop
  <2>3. todo[1].body \in CodeOf[collector]
    BY <2>2, CodeAssumption
  <2>4. End("call") = <<End("call")[1]>> /\ End("call")[1] \in Marks(collector)
    BY DEF End, Marks
  <2> QED
    BY <2>1, <2>2, <2>3, <2>4 DEF Opens
<1>2. CASE EnterTry
  <2>1. At("try") /\ todo' = todo[1].body \o EndTry(todo[1].clauses) \o Rest
    BY <1>2 DEF EnterTry, Goto
  <2>2. /\ todo[1] \in StatementsOf(collector) /\ todo[1].op = "try" /\ todo # <<>>
        /\ collector \in DOMAIN Program
    BY <2>1, CodeOnTop
  <2>3. todo[1].body \in Blocks(todo[1])
    BY <2>2 DEF Blocks
  <2>4. todo[1].body \in CodeOf[collector]
    BY <2>2, <2>3, CodeAssumption
  <2>5. /\ EndTry(todo[1].clauses) = <<EndTry(todo[1].clauses)[1]>>
        /\ EndTry(todo[1].clauses)[1] \in Marks(collector)
    BY <2>2 DEF EndTry, Marks
  <2> QED
    BY <2>1, <2>2, <2>4, <2>5 DEF Opens
<1>3. CASE Turn
  <2> DEFINE loop == IF At("loop") THEN todo[1] ELSE todo[1].loop
             turn == IF At("loop") THEN 1 ELSE todo[1].turn + 1
             next == IF loop.kind = "forever" THEN 1 ELSE turn
  <2>1. At("loop") \/ At("again")
    BY <1>3 DEF Turn
  <2>2. todo' = loop.body \o Again(loop, next) \o Rest
    BY <1>3 DEF Turn, Goto
  <2>3. /\ loop \in StatementsOf(collector) /\ loop.op = "loop" /\ turn \in Nat
        /\ todo # <<>> /\ todo[1].op # "dims" /\ collector \in DOMAIN Program
    <3>1. CASE At("loop")
      BY <3>1, CodeOnTop
    <3>2. CASE At("again") /\ ~At("loop")
      <4>1. todo[1].op = "again" /\ todo # <<>> /\ 1 \in 1 .. Len(todo)
        BY <3>2, CodeOnTop
      <4>2. /\ todo[1].loop \in StatementsOf(collector) /\ todo[1].loop.op = "loop"
            /\ todo[1].turn \in Nat /\ collector \in DOMAIN Program
        BY <4>1, CodeOnStack
      <4> QED
        BY <3>2, <4>1, <4>2
    <3> QED
      BY <2>1, <3>1, <3>2
  <2> HIDE DEF loop, turn
  <2>4. loop.body \in CodeOf[collector] /\ next \in Nat
    BY <2>3, CodeAssumption
  <2> HIDE DEF next
  <2>5. /\ Again(loop, next) = <<Again(loop, next)[1]>>
        /\ Again(loop, next)[1] \in Marks(collector)
    BY <2>3, <2>4 DEF Again, Marks
  <2> QED
    BY <2>2, <2>3, <2>4, <2>5 DEF Opens
<1>4. CASE Choose \/ TestFact
  <2>1. PICK op \in {"either", "if"} :
           At(op) /\ \E b \in Blocks(todo[1]) : todo' = b \o Rest
    BY <1>4 DEF Choose, TestFact, Blocks, At, Goto
  <2>2. /\ todo[1] \in StatementsOf(collector) /\ todo[1].op = op /\ todo # <<>>
        /\ collector \in DOMAIN Program
    BY <2>1, CodeOnTop
  <2>3. Blocks(todo[1]) \subseteq CodeOf[collector]
    BY <2>2, CodeAssumption
  <2> QED
    BY <2>1, <2>2, <2>3 DEF Opens
<1> QED
  BY <1>1, <1>2, <1>3, <1>4

\* A step in one of these ways.
Shape ==
    \/ SetDims /\ todo' = From(2)
    \/ Drops
    \/ Opens
    \/ \E exc \in Every : Catches(exc)
    \/ todo' = <<>>

LEMMA ThrowsWhat ==
    ASSUME CodeInv, AlarmRings \/ Fail \/ PublishFails \/ RaiseException
    PROVE  \E exc \in Every : Throw(exc)
<1>1. CASE AlarmRings
  BY <1>1 DEF AlarmRings, Every
<1>2. CASE Fail \/ PublishFails
  <2>1. PICK op \in {"ask", "parse", "publish"} : At(op) /\ \E exc \in todo[1].excs : Throw(exc)
    BY <1>2 DEF Fail, PublishFails
  <2>2. todo[1] \in Statements /\ todo[1].op = op
    BY <2>1, TopRuns DEF CodeInv, RoundInv
  <2>3. todo[1].excs \subseteq Every
    BY <2>2, CodeAssumption DEF Statements
  <2> QED
    BY <2>1, <2>3
<1>3. CASE RaiseException
  <2>1. At("raise") /\ Throw(todo[1].exc)
    BY <1>3 DEF RaiseException
  <2>2. todo[1] \in Statements /\ todo[1].op = "raise"
    BY <2>1, TopRuns DEF CodeInv, RoundInv
  <2>3. todo[1].exc \in Every
    BY <2>2, CodeAssumption DEF Statements
  <2> QED
    BY <2>1, <2>3
<1> QED
  BY <1>1, <1>2, <1>3

LEMMA Shapes ==
    ASSUME CodeInv, Step \/ AlarmRings
    PROVE  Shape
<1>1. CASE AlarmRings \/ Fail \/ PublishFails \/ RaiseException
  <2>1. PICK exc \in Every : Throw(exc)
    BY <1>1, ThrowsWhat
  <2> QED
    BY <2>1, ThrowShape DEF Shape
<1>2. CASE SetDims
  <2>1. todo' = Rest /\ At("dims")
    BY <1>2 DEF SetDims, Goto
  <2> QED
    BY <1>2, <2>1, CodeOnTop DEF Shape
<1> QED
  BY <1>1, <1>2, DropShape, OpenShape DEF Step, Shape

\* What is opened by a throw is a block of the code.
LEMMA ClausesAreCode ==
    ASSUME NEW c \in DOMAIN Program, NEW s \in StatementsOf(c), s.op = "try",
           NEW exc \in DOMAIN s.clauses
    PROVE  s.clauses[exc] \in CodeOf[c]
<1>1. s.clauses[exc] \in Blocks(s)
  BY DEF Blocks
<1> QED
  BY <1>1, CodeAssumption

LEMMA SuffixOf ==
    ASSUME NEW S, NEW s \in Seq(S), NEW n \in 1 .. Len(s) + 1
    PROVE  /\ SubSeq(s, n, Len(s)) \in Seq(S)
           /\ Len(SubSeq(s, n, Len(s))) = Len(s) - n + 1
           /\ \A j \in 1 .. Len(s) - n + 1 : SubSeq(s, n, Len(s))[j] = s[n + j - 1]
<1>1. Len(s) \in Nat /\ n \in Nat
  BY LenProperties
<1>2. \A j \in n .. Len(s) : s[j] \in S
  BY <1>1, ElementOfSeq
<1> QED
  BY <1>1, <1>2, SubSeqProperties

LEMMA CodeInvStep ==
    ASSUME CodeInv, [Next]_vars
    PROVE  CodeInv' /\ collector' = collector
<1> DEFINE c == collector
           S == CodeItems(c)
<1>1. RoundInv' /\ c \in DOMAIN Program /\ todo \in Seq(S) /\ Len(todo) \in Nat
  BY RoundStep, LenProperties DEF CodeInv, RoundInv, DataOK
<1>2. collector' = collector
  BY DEF Next, vars, StartRound, EndRound, Step, AlarmRings, Answer, Fail, SetDims,
         PublishMetric, PublishFails, LogAnError, CallFunction, ReturnFromCall, EnterTry,
         LeaveBlock, RaiseException, Turn, EndLoop, ContinueOrBreak, Choose, NoteFact,
         KeepFact, ForgetFact, UseFact, TestFact, Still
<1>3. \A n \in 1 .. Len(todo) + 1 : From(n) \in Seq(S)
  BY <1>1, SuffixOf DEF From
<1>4. \A b \in CodeOf[c] : b \in Seq(S)
  BY <1>1, BlocksAreCode
<1>5. \A mark \in Marks(c) : <<mark>> \in Seq(S)
  BY DEF CodeItems
<1>6. \A p, s \in Seq(S) : p \o s \in Seq(S)
  BY ConcatProperties
<1> HIDE DEF S
<1>7. CASE StartRound
  <2>1. todo' = Call(Program[c]) /\ Call(Program[c]) \in CodeOf[c]
    BY <1>1, <1>7, CodeAssumption DEF StartRound
  <2> QED
    BY <1>1, <1>2, <1>4, <2>1 DEF CodeInv, S
<1>8. CASE Step \/ AlarmRings
  <2>1. ASSUME SetDims, todo' = From(2) PROVE todo' \in Seq(S)
    <3>1. 2 \in 1 .. Len(todo) + 1
      BY <1>1, <2>1, CodeOnTop DEF SetDims
    <3> QED
      BY <1>3, <2>1, <3>1
  <2>2. ASSUME Drops PROVE todo' \in Seq(S)
    <3>1. PICK n \in 2 .. Len(todo) + 1 : todo' = From(n)
      BY <2>2 DEF Drops
    <3>2. n \in 1 .. Len(todo) + 1
      BY <1>1
    <3> QED
      BY <1>3, <3>1, <3>2
  <2>3. ASSUME Opens PROVE todo' \in Seq(S)
    <3>1. Rest \in Seq(S)
      BY <1>1, <2>3, HeadTailProperties DEF Opens, Rest
    <3> QED
      BY <1>4, <1>5, <1>6, <2>3, <3>1 DEF Opens
  <2>4. ASSUME NEW exc \in Every, Catches(exc) PROVE todo' \in Seq(S)
    <3>1. PICK h \in 1 .. Len(todo), s \in StatementsOf(c) :
             /\ s.op = "try" /\ exc \in DOMAIN s.clauses
             /\ todo' = s.clauses[exc] \o From(h + 1)
      BY <2>4 DEF Catches
    <3>2. s.clauses[exc] \in CodeOf[c] /\ h + 1 \in 1 .. Len(todo) + 1
      BY <1>1, <3>1, ClausesAreCode
    <3> QED
      BY <1>3, <1>4, <1>6, <3>1, <3>2
  <2>5. <<>> \in Seq(S)
    OBVIOUS
  <2>6. todo' \in Seq(S)
    BY <1>8, <2>1, <2>2, <2>3, <2>4, <2>5, Shapes DEF Shape
  <2> QED
    BY <1>1, <1>2, <2>6 DEF CodeInv, S
<1>9. CASE EndRound \/ UNCHANGED vars
  <2>1. todo' = todo
    BY <1>9 DEF EndRound, vars
  <2> QED
    BY <1>1, <1>2, <2>1 DEF CodeInv, S
<1> QED
  BY <1>2, <1>7, <1>8, <1>9 DEF Next

LEMMA CodeInvariant == Spec => []CodeInv
<1>1. Init => CodeInv
  BY RoundInit DEF Init, CodeInv
<1> QED
  BY <1>1, CodeInvStep, PTL DEF Spec

-----------------------------------------------------------------------------
(***************************************************************************)
(* Failures are noticed.                                                   *)
(***************************************************************************)
\* A failure that was not logged yet is about to be, or ends the round.
Pending == failed # {} \/ alarm = "rung"
LoggedNext ==
    IF Running THEN todo # <<>> /\ todo[1].op \in {"log", "raise"}
    ELSE outcome # "returned"
LoudInv == collector \in LogsFirst /\ Pending /\ ~noticed => LoggedNext

LEMMA ThrownIsLogged ==
    ASSUME CodeInv, Running, collector \in LogsFirst, NEW exc \in Thrown(collector),
           exc \in Every, Throw(exc)
    PROVE  LoggedNext'
<1>1. CASE outcome' = exc /\ todo' = <<>>
  BY <1>1 DEF LoggedNext, Running, Every, Errors, Alarm
<1>2. CASE UNCHANGED outcome /\ Catches(exc)
  <2>1. PICK h \in 1 .. Len(todo), s \in StatementsOf(collector) :
           /\ s.op = "try" /\ exc \in DOMAIN s.clauses
           /\ todo' = s.clauses[exc] \o From(h + 1)
    BY <1>2 DEF Catches
  <2> DEFINE clause == s.clauses[exc]
  <2>2. clause # <<>> /\ clause[1].op \in {"log", "raise"}
    BY <2>1 DEF LogsFirst
  <2>3. collector \in DOMAIN Program /\ Len(todo) \in Nat /\ todo \in Seq(CodeItems(collector))
    BY LenProperties DEF CodeInv, RoundInv, DataOK
  <2>4. clause \in Seq(CodeItems(collector))
    BY <2>1, <2>3, ClausesAreCode, BlocksAreCode
  <2>5. From(h + 1) \in Seq(CodeItems(collector))
    BY <2>3, SuffixOf DEF From
  <2> HIDE DEF clause
  <2>6. Len(clause) \in Nat \ {0} /\ Len(From(h + 1)) \in Nat
    BY <2>2, <2>4, <2>5, EmptySeq, LenProperties
  <2>7. (clause \o From(h + 1))[1] = clause[1] /\ Len(clause \o From(h + 1)) # 0
    BY <2>4, <2>5, <2>6, ConcatProperties
  <2>8. todo' = clause \o From(h + 1)
    BY <2>1 DEF clause
  <2>9. todo' # <<>> /\ todo'[1] = clause[1]
    BY <2>7, <2>8
  <2> QED
    BY <1>2, <2>2, <2>9 DEF LoggedNext, Running
<1> QED
  BY <1>1, <1>2, ThrowShape

LEMMA LoudStep ==
    ASSUME CodeInv, LoudInv, [Next]_vars
    PROVE  LoudInv'
<1>1. collector' = collector /\ collector \in DOMAIN Program
  BY CodeInvStep DEF CodeInv, RoundInv, DataOK
<1>2. CASE AlarmRings
  <2>1. Alarm \in Thrown(collector) /\ Alarm \in Every
    BY DEF Thrown, Every
  <2> QED
    BY <1>1, <1>2, <2>1, ThrownIsLogged DEF AlarmRings, LoudInv
<1>3. CASE Fail /\ At("ask")
  <2>1. PICK exc \in todo[1].excs : Throw(exc)
    BY <1>3 DEF Fail
  <2>2. todo[1] \in StatementsOf(collector) /\ todo[1].op = "ask" /\ Running
    BY <1>3, CodeOnTop
  <2>3. exc \in Thrown(collector)
    BY <2>2 DEF Thrown
  <2>4. exc \in Every
    <3>1. todo[1] \in Statements
      BY <1>3, TopRuns DEF CodeInv, RoundInv
    <3> QED
      BY <2>2, <3>1, CodeAssumption DEF Statements
  <2> QED
    BY <1>1, <2>1, <2>2, <2>3, <2>4, ThrownIsLogged DEF LoudInv
<1>4. CASE RaiseException
  <2>1. At("raise") /\ Throw(todo[1].exc)
    BY <1>4 DEF RaiseException
  <2>2. todo[1] \in StatementsOf(collector) /\ todo[1].op = "raise" /\ Running
    BY <2>1, CodeOnTop
  <2>3. todo[1].exc \in Thrown(collector)
    BY <2>2 DEF Thrown
  <2>4. todo[1].exc \in Every
    <3>1. todo[1] \in Statements
      BY <2>1, TopRuns DEF CodeInv, RoundInv
    <3> QED
      BY <2>2, <3>1, CodeAssumption DEF Statements
  <2> QED
    BY <1>1, <2>1, <2>2, <2>3, <2>4, ThrownIsLogged DEF LoudInv
<1>5. CASE PublishFails \/ LogAnError
  BY <1>5 DEF PublishFails, LogAnError, LoudInv
<1>6. CASE StartRound
  BY <1>6 DEF StartRound, LoudInv, Pending
\* All others go on from what is no failure.
<1>7. ASSUME UNCHANGED <<failed, noticed>>, alarm' = "rung" => alarm = "rung",
             collector \in LogsFirst /\ Pending /\ ~noticed => ~LoggedNext
      PROVE  LoudInv'
  BY <1>1, <1>7 DEF LoudInv, Pending
<1>8. ASSUME NEW op, At(op), op \notin {"log", "raise"}
      PROVE  ~LoggedNext
  BY <1>8 DEF At, LoggedNext
<1>9. CASE EndRound
  <2>1. UNCHANGED <<failed, noticed>> /\ (alarm' = "rung" => alarm = "rung")
    BY <1>9 DEF EndRound, roundVars
  <2>2. ~LoggedNext
    BY <1>9 DEF EndRound, LoggedNext
  <2> QED
    BY <1>7, <2>1, <2>2
<1>10. CASE \/ Answer \/ (Fail /\ ~At("ask")) \/ SetDims \/ PublishMetric \/ CallFunction
            \/ ReturnFromCall \/ EnterTry \/ LeaveBlock \/ Turn \/ EndLoop
            \/ ContinueOrBreak \/ Choose \/ NoteFact \/ KeepFact \/ ForgetFact
            \/ UseFact \/ TestFact
  <2>1. UNCHANGED <<failed, noticed, alarm>>
    BY <1>10 DEF Answer, Fail, SetDims, PublishMetric, CallFunction, ReturnFromCall,
                 EnterTry, LeaveBlock, Turn, EndLoop, ContinueOrBreak, Choose, NoteFact,
                 KeepFact, ForgetFact, UseFact, TestFact, Still, roundVars
  <2>2. \E op : At(op) /\ op \notin {"log", "raise"}
    BY <1>10 DEF Answer, Fail, SetDims, PublishMetric, CallFunction, ReturnFromCall,
                 EnterTry, LeaveBlock, Turn, EndLoop, ContinueOrBreak, Choose, NoteFact,
                 KeepFact, ForgetFact, UseFact, TestFact
  <2> QED
    BY <1>7, <1>8, <2>1, <2>2
<1>11. CASE UNCHANGED vars
  BY <1>11 DEF vars, roundVars, LoudInv, Pending, LoggedNext, Running
<1> QED
  BY <1>2, <1>3, <1>4, <1>5, <1>6, <1>9, <1>10, <1>11 DEF Next, Step

\* A collector whose except clauses log, or raise again, before anything else,
\* notices every failure of a source and every alarm that cuts it off, whatever else
\* it does and wherever the alarm strikes, the clauses themselves included.
THEOREM LoggingIsEnough == Spec => [](collector \in LogsFirst => FailuresNoticed)
<1>1. Init => LoudInv
  BY DEF Init, LoudInv, Pending
<1>2. CodeInv /\ LoudInv => (collector \in LogsFirst => FailuresNoticed)
  BY DEF LoudInv, FailuresNoticed, LoggedNext, Running, Pending
<1> QED
  BY <1>1, <1>2, LoudStep, CodeInvariant, PTL DEF Spec

-----------------------------------------------------------------------------
(***************************************************************************)
(* Dimensions are those of the metric.                                     *)
(***************************************************************************)
\* What sets dimensions is followed by what publishes with them, and that preceded
\* by it, if it is not the first of all.
Loose(s) ==
    \A i \in 1 .. Len(s) :
        /\ SetsOwn(s[i]) => i + 1 \in 1 .. Len(s) /\ PublishesOwn(s[i + 1])
        /\ PublishesOwn(s[i]) /\ i > 1 => SetsOwn(s[i - 1])
Tight(s) == Loose(s) /\ (Len(s) > 0 => ~PublishesOwn(s[1]))

LEMMA LooseSuffix ==
    ASSUME NEW S, NEW s \in Seq(S), NEW n \in 1 .. Len(s) + 1, Loose(s)
    PROVE  /\ Loose(SubSeq(s, n, Len(s)))
           /\ (n <= Len(s) => ~PublishesOwn(s[n])) => Tight(SubSeq(s, n, Len(s)))
<1> DEFINE t == SubSeq(s, n, Len(s))
<1>1. /\ Len(s) \in Nat /\ n \in Nat /\ Len(t) = Len(s) - n + 1
      /\ \A j \in 1 .. Len(s) - n + 1 : t[j] = s[n + j - 1]
  BY SuffixOf, LenProperties
<1> HIDE DEF t
<1>2. ASSUME NEW i \in 1 .. Len(t), SetsOwn(t[i])
      PROVE  i + 1 \in 1 .. Len(t) /\ PublishesOwn(t[i + 1])
  <2>1. PICK k \in 1 .. Len(s) : k = n + i - 1
    BY <1>1
  <2>2. t[i] = s[k]
    BY <1>1, <2>1
  <2>3. k + 1 \in 1 .. Len(s) /\ PublishesOwn(s[k + 1])
    BY <1>2, <2>2 DEF Loose
  <2>4. i + 1 \in 1 .. Len(t) /\ n + (i + 1) - 1 = k + 1
    BY <1>1, <2>1, <2>3
  <2>5. t[i + 1] = s[k + 1]
    BY <1>1, <2>4
  <2> QED
    BY <2>3, <2>4, <2>5
<1>3. ASSUME NEW i \in 1 .. Len(t), PublishesOwn(t[i]), i > 1
      PROVE  SetsOwn(t[i - 1])
  <2>1. PICK k \in 1 .. Len(s) : k = n + i - 1 /\ k > 1
    BY <1>1, <1>3
  <2>2. t[i] = s[k]
    BY <1>1, <2>1
  <2>3. SetsOwn(s[k - 1])
    BY <1>3, <2>1, <2>2 DEF Loose
  <2>4. i - 1 \in 1 .. Len(t) /\ n + (i - 1) - 1 = k - 1
    BY <1>1, <1>3, <2>1
  <2>5. t[i - 1] = s[k - 1]
    BY <1>1, <2>4
  <2> QED
    BY <2>3, <2>5
<1>4. Loose(t)
  BY <1>2, <1>3 DEF Loose
<1>5. ASSUME n <= Len(s) => ~PublishesOwn(s[n]), Len(t) > 0
      PROVE  ~PublishesOwn(t[1])
  <2>1. n <= Len(s) /\ 1 \in 1 .. Len(s) - n + 1 /\ n + 1 - 1 = n
    BY <1>1, <1>5
  <2>2. t[1] = s[n + 1 - 1]
    BY <1>1, <2>1
  <2> QED
    BY <1>5, <2>1, <2>2
<1> QED
  BY <1>4, <1>5 DEF Tight, t

LEMMA TightJoin ==
    ASSUME NEW S, NEW p \in Seq(S), NEW s \in Seq(S), Tight(p), Tight(s)
    PROVE  Tight(p \o s)
<1> DEFINE u == p \o s
           n == Len(p)
<1>1. n \in Nat /\ Len(s) \in Nat
  BY LenProperties
<1>2. /\ Len(u) = n + Len(s)
      /\ \A i \in 1 .. n + Len(s) : u[i] = IF i <= n THEN p[i] ELSE s[i - n]
  BY ConcatProperties
<1> HIDE DEF u
<1>3. ASSUME NEW i \in 1 .. Len(u), SetsOwn(u[i])
      PROVE  i + 1 \in 1 .. Len(u) /\ PublishesOwn(u[i + 1])
  <2>1. CASE i <= n
    <3>1. i \in 1 .. n /\ u[i] = p[i]
      BY <1>1, <1>2, <2>1
    <3>2. i + 1 \in 1 .. n /\ PublishesOwn(p[i + 1])
      BY <1>3, <3>1 DEF Tight, Loose
    <3>3. i + 1 \in 1 .. Len(u) /\ u[i + 1] = p[i + 1]
      BY <1>1, <1>2, <3>2
    <3> QED
      BY <3>2, <3>3
  <2>2. CASE i > n
    <3>1. PICK k \in 1 .. Len(s) : k = i - n
      BY <1>1, <1>2, <2>2
    <3>2. u[i] = s[k]
      BY <1>1, <1>2, <2>2, <3>1
    <3>3. k + 1 \in 1 .. Len(s) /\ PublishesOwn(s[k + 1])
      BY <1>3, <3>2 DEF Tight, Loose
    <3>4. i + 1 \in 1 .. Len(u) /\ (i + 1) - n = k + 1 /\ ~(i + 1 <= n)
      BY <1>1, <1>2, <2>2, <3>1, <3>3
    <3>5. u[i + 1] = s[k + 1]
      BY <1>2, <3>4
    <3> QED
      BY <3>3, <3>4, <3>5
  <2> QED
    BY <1>1, <2>1, <2>2
<1>4. ASSUME NEW i \in 1 .. Len(u), PublishesOwn(u[i])
      PROVE  i > 1 /\ SetsOwn(u[i - 1])
  <2>1. CASE i <= n
    <3>1. i \in 1 .. n /\ u[i] = p[i] /\ Len(p) > 0
      BY <1>1, <1>2, <2>1
    <3>2. i # 1
      BY <1>4, <3>1 DEF Tight
    <3>3. i > 1 /\ i - 1 \in 1 .. Len(u) /\ u[i - 1] = p[i - 1]
      BY <1>1, <1>2, <3>1, <3>2
    <3> QED
      BY <1>4, <3>1, <3>3 DEF Tight, Loose
  <2>2. CASE i > n
    <3>1. PICK k \in 1 .. Len(s) : k = i - n
      BY <1>1, <1>2, <2>2
    <3>2. u[i] = s[k] /\ Len(s) > 0
      BY <1>1, <1>2, <2>2, <3>1
    <3>3. k # 1
      BY <1>4, <3>2 DEF Tight
    <3>4. k > 1 /\ i > 1 /\ i - 1 \in 1 .. Len(u) /\ (i - 1) - n = k - 1 /\ ~(i - 1 <= n)
      BY <1>1, <1>2, <2>2, <3>1, <3>3
    <3>5. u[i - 1] = s[k - 1]
      BY <1>2, <3>4
    <3> QED
      BY <1>4, <3>2, <3>4, <3>5 DEF Tight, Loose
  <2> QED
    BY <1>1, <2>1, <2>2
<1>5. ASSUME Len(u) > 0 PROVE ~PublishesOwn(u[1])
  <2>1. 1 \in 1 .. Len(u)
    BY <1>1, <1>2, <1>5
  <2> QED
    BY <1>4, <2>1
<1> QED
  BY <1>3, <1>4, <1>5 DEF Tight, Loose, u

LEMMA EmptyIsTight == Tight(<<>>)
  BY DEF Tight, Loose

LEMMA BlocksAreTight ==
    ASSUME NEW c \in DimsAtOnce, NEW block \in CodeOf[c]
    PROVE  Tight(block) /\ c \in DOMAIN Program
<1>1. c \in DOMAIN Program
  BY DEF DimsAtOnce
<1>2. DOMAIN block = 1 .. Len(block) /\ Len(block) \in Nat
  BY <1>1, BlocksAreCode
<1>3. \A i \in DOMAIN block :
         /\ SetsOwn(block[i]) => i + 1 \in DOMAIN block /\ PublishesOwn(block[i + 1])
         /\ PublishesOwn(block[i]) => i > 1 /\ SetsOwn(block[i - 1])
  BY DEF DimsAtOnce
<1>4. Loose(block)
  BY <1>2, <1>3 DEF Loose
<1>5. ASSUME Len(block) > 0 PROVE ~PublishesOwn(block[1])
  <2>1. 1 \in DOMAIN block
    BY <1>2, <1>5
  <2> QED
    BY <1>3, <2>1
<1> QED
  BY <1>1, <1>4, <1>5 DEF Tight

LEMMA MarksAreTight ==
    ASSUME NEW c \in DOMAIN Program, NEW mark \in Marks(c)
    PROVE  Tight(<<mark>>) /\ <<mark>> \in Seq(CodeItems(c))
<1>1. ~SetsOwn(mark) /\ ~PublishesOwn(mark) /\ mark \in CodeItems(c)
  BY MarksAreMarks DEF SetsOwn, PublishesOwn
<1>2. Len(<<mark>>) = 1 /\ <<mark>>[1] = mark /\ \A i \in 1 .. 1 : i = 1
  OBVIOUS
<1> QED
  BY <1>1, <1>2 DEF Tight, Loose

\* The stack stays loose, and it is tight but after dimensions were set.
LEMMA LooseStep ==
    ASSUME CodeInv, collector \in DimsAtOnce, Loose(todo), Shape
    PROVE  Loose(todo') /\ (~SetDims => Tight(todo'))
<1> DEFINE c == collector
           S == CodeItems(c)
<1>1. /\ c \in DOMAIN Program /\ todo \in Seq(S) /\ Len(todo) \in Nat
      /\ DOMAIN todo = 1 .. Len(todo)
  BY LenProperties DEF CodeInv, RoundInv, DataOK
<1>2. \A n \in 1 .. Len(todo) + 1 :
         /\ From(n) \in Seq(S) /\ Loose(From(n))
         /\ (n <= Len(todo) => ~PublishesOwn(todo[n])) => Tight(From(n))
  BY <1>1, SuffixOf, LooseSuffix DEF From
<1>3. \A b \in CodeOf[c] : b \in Seq(S) /\ Tight(b)
  BY <1>1, BlocksAreCode, BlocksAreTight
<1>4. \A mark \in Marks(c) : <<mark>> \in Seq(S) /\ Tight(<<mark>>)
  BY <1>1, MarksAreTight
<1>5. \A p, s \in Seq(S) : p \o s \in Seq(S) /\ (Tight(p) /\ Tight(s) => Tight(p \o s))
  BY ConcatProperties, TightJoin
<1> HIDE DEF S
\* What follows an item that sets no dimensions does not publish with them.
<1>6. ASSUME NEW n \in 2 .. Len(todo) + 1, todo[n - 1].op # "dims"
      PROVE  Tight(From(n)) /\ From(n) \in Seq(S)
  <2>1. n \in 1 .. Len(todo) + 1 /\ n > 1
    BY <1>1
  <2>2. n <= Len(todo) => n \in 1 .. Len(todo)
    BY <1>1
  <2>3. n <= Len(todo) => ~PublishesOwn(todo[n])
    BY <1>6, <2>1, <2>2 DEF Loose, SetsOwn
  <2> QED
    BY <1>2, <2>1, <2>3
<1>7. ASSUME SetDims, todo' = From(2) PROVE Loose(todo')
  <2>1. 2 \in 1 .. Len(todo) + 1
    BY <1>1, <1>7, CodeOnTop DEF SetDims
  <2> QED
    BY <1>2, <1>7, <2>1
<1>8. ASSUME Drops PROVE Tight(todo')
  <2>1. PICK n \in 2 .. Len(todo) + 1 :
           /\ todo' = From(n)
           /\ todo[n - 1].op # "dims" \/ (n <= Len(todo) /\ todo[n].op = "again")
    BY <1>8 DEF Drops
  <2>2. CASE todo[n].op = "again"
    <3>1. ~PublishesOwn(todo[n]) /\ n \in 1 .. Len(todo) + 1
      BY <1>1, <2>2 DEF PublishesOwn
    <3> QED
      BY <1>2, <2>1, <3>1
  <2> QED
    BY <1>6, <2>1, <2>2
<1>9. ASSUME Opens PROVE Tight(todo')
  <2>1. todo # <<>> /\ todo[1].op # "dims"
    BY <1>9 DEF Opens
  <2>2. Rest = From(2) /\ 2 \in 2 .. Len(todo) + 1 /\ 2 - 1 = 1
    BY <1>1, <2>1, TailIsSubSeq, EmptySeq DEF Rest, From
  <2>3. Tight(Rest) /\ Rest \in Seq(S)
    BY <1>6, <2>1, <2>2
  <2>4. ASSUME NEW b \in CodeOf[c], NEW mark \in Marks(c)
        PROVE  Tight(b \o Rest) /\ Tight(b \o <<mark>> \o Rest)
    BY <1>3, <1>4, <1>5, <2>3
  <2>5. PICK b \in CodeOf[c] : \/ todo' = b \o Rest
                               \/ \E mark \in Marks(c) : todo' = b \o <<mark>> \o Rest
    BY <1>9 DEF Opens
  <2>6. Marks(c) # {}
    BY DEF Marks
  <2> QED
    BY <2>4, <2>5, <2>6
<1>10. ASSUME NEW exc \in Every, Catches(exc) PROVE Tight(todo')
  <2>1. PICK h \in 1 .. Len(todo), s \in StatementsOf(c) :
           /\ todo[h].op = "end" /\ s.op = "try" /\ exc \in DOMAIN s.clauses
           /\ todo' = s.clauses[exc] \o From(h + 1)
    BY <1>10 DEF Catches
  <2>2. s.clauses[exc] \in CodeOf[c]
    BY <1>1, <2>1, ClausesAreCode
  <2>3. h + 1 \in 2 .. Len(todo) + 1 /\ (h + 1) - 1 = h
    BY <1>1
  <2>4. Tight(From(h + 1)) /\ From(h + 1) \in Seq(S)
    BY <1>6, <2>1, <2>3
  <2> QED
    BY <1>3, <1>5, <2>1, <2>2, <2>4
<1>11. Tight(todo') => Loose(todo')
  BY DEF Tight
<1> QED
  BY <1>7, <1>8, <1>9, <1>10, <1>11, EmptyIsTight DEF Shape

\* What sets dimensions was on top, and what publishes with them comes next; of an
\* alarm between the two there is a clause that logs it, or the round ends.
OwnNext ==
    IF Running
    THEN todo # <<>> /\ (PublishesOwn(todo[1]) \/ (todo[1].op = "log" /\ todo[1].inExcept))
    ELSE outcome # "returned"
DimsInv ==
    collector \in DimsAtOnce =>
        /\ Loose(todo)
        /\ At("publish") /\ todo[1].own => dims = "own"
        /\ dims = "own" => OwnNext /\ \E s \in StatementsOf(collector) : SetsOwn(s)

LEMMA TightTop ==
    ASSUME Tight(todo), Len(todo) \in Nat, todo # <<>>, todo \in Seq(CodeItems(collector))
    PROVE  ~PublishesOwn(todo[1])
<1>1. Len(todo) > 0
  BY EmptySeq
<1> QED
  BY <1>1 DEF Tight

LEMMA DimsSet ==
    ASSUME CodeInv, collector \in DimsAtOnce, Loose(todo), SetDims
    PROVE  DimsInv'
<1>1. /\ At("dims") /\ dims' = todo[1].to /\ todo' = From(2) /\ UNCHANGED outcome
      /\ collector' = collector
  BY CodeOnTop DEF SetDims, Goto, Still
<1>2. /\ collector \in DOMAIN Program /\ Len(todo) \in Nat \ {0} /\ Running
      /\ todo[1] \in StatementsOf(collector) /\ SetsOwn(todo[1])
      /\ todo \in Seq(CodeItems(collector))
  BY <1>1, CodeOnTop DEF SetsOwn, CodeInv
<1>3. todo[1].to = "own"
  <2>1. PICK block \in CodeOf[collector] : todo[1] \in Members(block)
    BY <1>2 DEF StatementsOf
  <2>2. PICK i \in DOMAIN block : block[i] = todo[1]
    BY <2>1 DEF Members
  <2> QED
    BY <1>2, <2>2 DEF DimsAtOnce
<1>4. 1 \in 1 .. Len(todo) /\ 1 + 1 = 2 /\ 2 \in 1 .. Len(todo) + 1
  BY <1>2
<1>5. 2 \in 1 .. Len(todo) /\ PublishesOwn(todo[2])
  BY <1>2, <1>4 DEF Loose
<1>6. /\ todo' \in Seq(CodeItems(collector)) /\ Len(todo') = Len(todo) - 2 + 1
      /\ \A j \in 1 .. Len(todo) - 2 + 1 : todo'[j] = todo[2 + j - 1]
  BY <1>1, <1>2, <1>4, SuffixOf DEF From
<1>7. Len(todo') # 0 /\ 1 \in 1 .. Len(todo) - 2 + 1 /\ 2 + 1 - 1 = 2
  BY <1>2, <1>5, <1>6
<1>8. todo' # <<>> /\ todo'[1] = todo[2]
  BY <1>6, <1>7
<1>9. Loose(todo')
  BY <1>1, <1>2, <1>4, LooseSuffix DEF From
<1> QED
  BY <1>1, <1>2, <1>3, <1>5, <1>8, <1>9 DEF DimsInv, OwnNext, Running

\* An alarm that strikes between the two.
LEMMA AlarmIsLogged ==
    ASSUME CodeInv, DimsInv, collector \in DimsAtOnce, dims = "own", AlarmRings
    PROVE  OwnNext'
<1>1. Running /\ Throw(Alarm) /\ Alarm \in Every
  BY DEF AlarmRings, Every
<1>2. CASE outcome' = Alarm /\ todo' = <<>>
  BY <1>2 DEF OwnNext, Running, Alarm
<1>3. CASE UNCHANGED outcome /\ Catches(Alarm)
  <2>1. PICK h \in 1 .. Len(todo), s \in StatementsOf(collector) :
           /\ s.op = "try" /\ Alarm \in DOMAIN s.clauses
           /\ todo' = s.clauses[Alarm] \o From(h + 1)
    BY <1>3 DEF Catches
  <2> DEFINE clause == s.clauses[Alarm]
  <2>2. clause # <<>> /\ clause[1].op = "log" /\ clause[1].inExcept
    BY <2>1 DEF DimsAtOnce, DimsInv
  <2>3. collector \in DOMAIN Program /\ Len(todo) \in Nat /\ todo \in Seq(CodeItems(collector))
    BY LenProperties DEF CodeInv, RoundInv, DataOK
  <2>4. clause \in Seq(CodeItems(collector))
    BY <2>1, <2>3, ClausesAreCode, BlocksAreCode
  <2>5. From(h + 1) \in Seq(CodeItems(collector))
    BY <2>3, SuffixOf DEF From
  <2> HIDE DEF clause
  <2>6. Len(clause) \in Nat \ {0} /\ Len(From(h + 1)) \in Nat
    BY <2>2, <2>4, <2>5, EmptySeq, LenProperties
  <2>7. (clause \o From(h + 1))[1] = clause[1] /\ Len(clause \o From(h + 1)) # 0
    BY <2>4, <2>5, <2>6, ConcatProperties
  <2>8. todo' = clause \o From(h + 1)
    BY <2>1 DEF clause
  <2>9. todo' # <<>> /\ todo'[1] = clause[1]
    BY <2>7, <2>8
  <2> QED
    BY <1>1, <1>3, <2>2, <2>9 DEF OwnNext, Running
<1> QED
  BY <1>1, <1>2, <1>3, ThrowShape

LEMMA OwnStep ==
    ASSUME CodeInv, DimsInv, [Next]_vars
    PROVE  DimsInv'
<1>1. CASE UNCHANGED vars
  BY <1>1 DEF vars, DimsInv, OwnNext, Running, At
<1> SUFFICES ASSUME Next, collector \in DimsAtOnce
             PROVE  DimsInv'
  BY <1>1, CodeInvStep DEF DimsInv
<1> DEFINE S == CodeItems(collector)
<1>2. /\ CodeInv' /\ collector' = collector /\ todo' \in Seq(S) /\ Len(todo') \in Nat
      /\ collector \in DOMAIN Program
  BY CodeInvStep, LenProperties DEF CodeInv, RoundInv, DataOK
<1>3. Loose(todo) /\ (dims = "own" => OwnNext /\ \E s \in StatementsOf(collector) : SetsOwn(s))
  BY DEF DimsInv
<1> HIDE DEF S
\* It is enough that the stack is tight and that dimensions, if any, are still used.
<1>4. ASSUME Tight(todo'), dims' = "own" => dims = "own" /\ OwnNext'
      PROVE  DimsInv'
  <2>1. todo' # <<>> => ~PublishesOwn(todo'[1])
    <3>1. todo' # <<>> => Len(todo') > 0
      BY <1>2, EmptySeq DEF S
    <3> QED
      BY <1>4, <3>1 DEF Tight
  <2>2. ~(At("publish") /\ todo[1].own)'
    BY <2>1 DEF At, PublishesOwn
  <2>3. Loose(todo')
    BY <1>4 DEF Tight
  <2> QED
    BY <1>2, <1>3, <1>4, <2>2, <2>3 DEF DimsInv
<1>5. CASE SetDims
  BY <1>3, <1>5, DimsSet
<1>6. ASSUME Step \/ AlarmRings, ~SetDims PROVE Tight(todo')
  BY <1>3, <1>6, Shapes, LooseStep
<1>7. ASSUME NEW op, At(op), op \notin {"publish", "log"} PROVE dims # "own"
  BY <1>3, <1>7 DEF At, OwnNext, PublishesOwn
<1>8. ~SetDims \/ At("dims")
  BY DEF SetDims
<1>9. CASE AlarmRings
  <2>1. dims' = dims
    BY <1>9 DEF AlarmRings
  <2>2. CASE SetDims
    BY <1>3, <2>2, DimsSet
  <2>3. CASE ~SetDims
    BY <1>4, <1>6, <1>9, <2>1, <2>3, AlarmIsLogged
  <2> QED
    BY <2>2, <2>3
<1>10. CASE PublishMetric \/ PublishFails \/ LogAnError
  <2>1. At("publish") \/ At("log")
    BY <1>10 DEF PublishMetric, PublishFails, LogAnError
  <2>2. ~SetDims
    BY <2>1 DEF SetDims, At
  <2>3. dims' # "own"
    BY <1>3, <1>10 DEF PublishMetric, PublishFails, LogAnError, OwnNext, At, PublishesOwn
  <2> QED
    BY <1>4, <1>6, <1>10, <2>2, <2>3 DEF Step
<1>11. CASE \/ Answer \/ Fail \/ CallFunction \/ ReturnFromCall \/ EnterTry \/ LeaveBlock
            \/ RaiseException \/ Turn \/ EndLoop \/ ContinueOrBreak \/ Choose \/ NoteFact
            \/ KeepFact \/ ForgetFact \/ UseFact \/ TestFact
  <2>1. PICK op : At(op) /\ op \notin {"publish", "log", "dims"}
    BY <1>11 DEF Answer, Fail, CallFunction, ReturnFromCall, EnterTry, LeaveBlock,
       RaiseException, Turn, EndLoop, ContinueOrBreak, Choose, NoteFact, KeepFact,
       ForgetFact, UseFact, TestFact
  <2>2. ~SetDims
    BY <2>1 DEF SetDims, At
  <2>3. dims' = dims
    BY <1>11 DEF Answer, Fail, CallFunction, ReturnFromCall, EnterTry, LeaveBlock,
       RaiseException, Turn, EndLoop, ContinueOrBreak, Choose, NoteFact, KeepFact,
       ForgetFact, UseFact, TestFact
  <2>4. dims # "own"
    BY <1>7, <2>1
  <2> QED
    BY <1>4, <1>6, <1>11, <2>2, <2>3, <2>4 DEF Step
<1>12. CASE StartRound
  <2>1. ~Running /\ todo' = Call(Program[collector])
        /\ dims' = IF outcome = "returned" THEN dims ELSE "none"
    BY <1>12 DEF StartRound
  <2>2. Call(Program[collector]) \in CodeOf[collector]
    BY <1>2, CodeAssumption
  <2>3. Tight(todo') /\ dims' # "own"
    BY <1>3, <2>1, <2>2, BlocksAreTight DEF OwnNext
  <2> QED
    BY <1>4, <2>3
<1>13. CASE EndRound
  <2>1. Running /\ todo = <<>> /\ todo' = todo /\ dims' = dims
    BY <1>13 DEF EndRound
  <2>2. Tight(todo') /\ dims' # "own"
    BY <1>3, <2>1, EmptyIsTight DEF OwnNext
  <2> QED
    BY <1>4, <2>2
<1> QED
  BY <1>5, <1>9, <1>10, <1>11, <1>12, <1>13 DEF Next, Step

\* A collector that sets dimensions for the very next statement, which publishes,
\* and logs the alarm where it catches it, publishes every metric with the dimensions
\* it was meant to have, or with those of an error: however often it is cut off
\* between the two statements, in one round or over several.
THEOREM OwnAtOnce == Spec => [](collector \in DimsAtOnce => OwnDimensions)
<1>1. Init => DimsInv
  <2>1. ASSUME Init PROVE DimsInv
    <3>1. Loose(todo) /\ ~At("publish") /\ dims # "own"
      BY <2>1, EmptyIsTight DEF Init, Tight, At
    <3> QED
      BY <3>1 DEF DimsInv
  <2> QED
    BY <2>1
<1>2. CodeInv /\ DimsInv => (collector \in DimsAtOnce => OwnDimensions)
  <2>1. ASSUME CodeInv, DimsInv, collector \in DimsAtOnce, At("publish"), dims = "own"
        PROVE  todo[1].own
    BY <2>1 DEF DimsInv, OwnNext, At, PublishesOwn
  <2>2. ASSUME DimsInv, collector \in DimsAtOnce, At("publish"), todo[1].own
        PROVE  dims = "own"
    BY <2>2 DEF DimsInv
  <2> QED
    BY <2>1, <2>2 DEF OwnDimensions
<1> QED
  BY <1>1, <1>2, OwnStep, CodeInvariant, PTL DEF Spec

-----------------------------------------------------------------------------
(***************************************************************************)
(* What is remembered is of the instance it is used for.                   *)
(***************************************************************************)
\* A collector that has no instances remembers nothing of one; what any other keeps of
\* an attribute it uses has the key, by what it uses it by, of the instance it is of.
Uses == {s \in StatementsOf(collector) : s.op = "use"}
NoInstances == \A s \in StatementsOf(collector) : s.op = "loop" => s.kind # "instances"
KeyedAsUsed ==
    \A e \in DOMAIN kept : \A use \in Uses :
        use.fact = e.fact => e.of = KeyOf[use.by][kept[e]]
MemoryInv ==
    collector \in KeepsApart =>
        \/ NoInstances /\ \A e \in DOMAIN kept : kept[e] = 0
        \/ ~NoInstances /\ KeyedAsUsed

\* Without a loop over instances it is never the turn of one.
LEMMA NobodysTurn ==
    ASSUME CodeInv, NoInstances
    PROVE  Here = 0
<1>1. DOMAIN todo = 1 .. Len(todo)
  BY LenProperties DEF CodeInv, RoundInv, DataOK
<1>2. \A i \in 1 .. Len(todo) : todo[i].op = "again" => todo[i].loop.kind # "instances"
  BY CodeOnStack DEF NoInstances
<1>3. Turns = {}
  BY <1>1, <1>2 DEF Turns
<1> QED
  BY <1>3 DEF Here

\* What is kept of an attribute is kept by the key it is used by.
LEMMA KeptAsUsed ==
    ASSUME CodeInv, collector \in KeepsApart, ~NoInstances, At("keep"),
           NEW use \in Uses, use.fact = todo[1].fact
    PROVE  todo[1].by = use.by
<1>1. todo[1] \in StatementsOf(collector) /\ todo[1].op = "keep"
  BY CodeOnTop
<1> QED
  BY <1>1 DEF KeepsApart, NoInstances, Uses

LEMMA MemoryStep ==
    ASSUME CodeInv, MemoryInv, [Next]_vars
    PROVE  MemoryInv'
<1>1. collector' = collector
  BY CodeInvStep
<1>2. CASE KeepFact
  <2>1. /\ At("keep")
        /\ kept' = [e \in DOMAIN kept \cup {Entry} |-> IF e = Entry THEN Here ELSE kept[e]]
    BY <1>2 DEF KeepFact
  <2>2. CASE NoInstances
    <3>1. Here = 0
      BY <2>2, NobodysTurn
    <3>2. collector \in KeepsApart => \A e \in DOMAIN kept' : kept'[e] = 0
      BY <2>1, <2>2, <3>1 DEF MemoryInv
    <3> QED
      BY <1>1, <2>2, <3>2 DEF MemoryInv, NoInstances
  <2>3. CASE ~NoInstances
    <3> SUFFICES ASSUME collector \in KeepsApart, NEW e \in DOMAIN kept', NEW use \in Uses,
                        use.fact = e.fact
                 PROVE  e.of = KeyOf[use.by][kept'[e]]
      BY <1>1, <2>3 DEF MemoryInv, NoInstances, KeyedAsUsed, Uses
    <3>1. CASE e = Entry
      <4>1. e.fact = todo[1].fact /\ e.of = KeyOf[todo[1].by][Here]
        BY <3>1 DEF Entry
      <4>2. todo[1].by = use.by
        BY <2>1, <2>3, <4>1, KeptAsUsed
      <4>3. kept'[e] = Here
        BY <2>1, <3>1
      <4> QED
        BY <4>1, <4>2, <4>3
    <3>2. CASE e # Entry
      <4>1. e \in DOMAIN kept /\ kept'[e] = kept[e]
        BY <2>1, <3>2
      <4> QED
        BY <2>3, <4>1 DEF MemoryInv, KeyedAsUsed
    <3> QED
      BY <3>1, <3>2
  <2> QED
    BY <2>2, <2>3
<1>3. CASE ForgetFact
  <2>1. kept' = [e \in DOMAIN kept \ {Entry} |-> kept[e]]
    BY <1>3 DEF ForgetFact
  <2> QED
    BY <1>1, <2>1 DEF MemoryInv, KeyedAsUsed, NoInstances, Uses
<1>4. ASSUME kept' \in {kept, <<>>} PROVE MemoryInv'
  <2>1. DOMAIN <<>> = {}
    OBVIOUS
  <2> QED
    BY <1>1, <1>4, <2>1 DEF MemoryInv, KeyedAsUsed, NoInstances, Uses
<1>5. CASE StartRound \/ EndRound \/ AlarmRings
  BY <1>4, <1>5 DEF StartRound, EndRound, AlarmRings
<1>6. CASE Step /\ ~KeepFact /\ ~ForgetFact
  <2>1. kept' = kept
    BY <1>6 DEF Step, Answer, Fail, SetDims, PublishMetric, PublishFails, LogAnError,
       CallFunction, ReturnFromCall, EnterTry, LeaveBlock, RaiseException, Turn, EndLoop,
       ContinueOrBreak, Choose, NoteFact, UseFact, TestFact, Facts
  <2> QED
    BY <1>4, <2>1
<1>7. CASE UNCHANGED vars
  BY <1>4, <1>7 DEF vars
<1> QED
  BY <1>2, <1>3, <1>5, <1>6, <1>7 DEF Next

\* A collector that has no instances, or that uses attributes only by keys that tell
\* these apart, and by the same key wherever they are used and kept, never uses for one
\* instance what it remembers of another: whatever instances have for keys, whatever
\* round the fact was kept in, and whatever failed or was cut off since.
THEOREM ApartIsEnough == Spec => [](collector \in KeepsApart => OwnMemory)
<1>1. Init => MemoryInv
  <2>1. DOMAIN <<>> = {}
    OBVIOUS
  <2> QED
    BY <2>1 DEF Init, MemoryInv, KeyedAsUsed
<1>2. CodeInv /\ MemoryInv => (collector \in KeepsApart => OwnMemory)
  <2> SUFFICES ASSUME CodeInv, MemoryInv, collector \in KeepsApart, At("use"),
                      Entry \in DOMAIN kept
               PROVE  kept[Entry] = Here
    BY DEF OwnMemory
  <2>1. CASE NoInstances
    BY <2>1, NobodysTurn DEF MemoryInv
  <2>2. CASE ~NoInstances
    <3>1. todo[1] \in Uses
      BY CodeOnTop DEF Uses
    <3>2. Entry.fact = todo[1].fact /\ Entry.of = KeyOf[todo[1].by][Here]
      BY DEF Entry
    <3>3. Entry.of = KeyOf[todo[1].by][kept[Entry]]
      BY <2>2, <3>1, <3>2 DEF MemoryInv, KeyedAsUsed
    <3>4. TellsApart(todo[1].by)
      BY <2>2, <3>1 DEF KeepsApart, NoInstances, Uses
    <3>5. Here \in 0 .. Instances /\ kept[Entry] \in 0 .. Instances
      BY HereIsInstance DEF CodeInv, RoundInv, DataOK
    <3> QED
      BY <3>2, <3>3, <3>4, <3>5 DEF TellsApart
  <2> QED
    BY <2>1, <2>2
<1> QED
  BY <1>1, <1>2, MemoryStep, CodeInvariant, PTL DEF Spec

-----------------------------------------------------------------------------
(***************************************************************************)
(* The others go on.                                                       *)
(***************************************************************************)
\* The turn of an instance, and the ways out of an item of the stack: what of it is
\* still to run may throw, return or break.
Instance(item) == item.op = "again" /\ item.loop.kind = "instances"
Out(item) ==
    IF item.op = "again" THEN Exits[item.loop.body] \ {"break"}
    ELSE IF item.op # "end" THEN WaysOut(item, Exits)
    ELSE IF item.what = "try" THEN UNION {Exits[item.clauses[exc]] : exc \in DOMAIN item.clauses}
    ELSE {}

\* Where a way out ends.
Stops(item, way) ==
    \/ EndsCall(item) /\ way = "return"
    \/ item.op = "again" /\ way = "break"
    \/ item.op = "end" /\ item.what = "try" /\ way \in DOMAIN item.clauses

\* A way out that is taken at i, or before it, ends inside of the turn of an instance.
StoppedAfter(s, i, way) ==
    \A j \in i + 1 .. Len(s) :
        Instance(s[j]) => \E m \in i + 1 .. j - 1 : Stops(s[m], way)
Held(s) == \A i \in 1 .. Len(s) : \A way \in Out(s[i]) : StoppedAfter(s, i, way)
NoInstance(s) == \A i \in 1 .. Len(s) : ~Instance(s[i])

\* The turns that instances are in, and the instances that had theirs.
TurnsIn(s) == {s[i].turn : i \in {j \in 1 .. Len(s) : Instance(s[j])}}
InTurn(s, done) ==
    \E k \in 0 .. Instances :
        /\ done = 1 .. k
        /\ \A turn \in TurnsIn(s) : turn <= k
        /\ TurnsIn(s) = {} => k \in {0, Instances}

LEMMA HeldSuffix ==
    ASSUME NEW S, NEW s \in Seq(S), NEW n \in 1 .. Len(s) + 1
    PROVE  /\ \A i \in 0 .. Len(s) - n + 1 : \A way :
                 StoppedAfter(s, n + i - 1, way) => StoppedAfter(SubSeq(s, n, Len(s)), i, way)
           /\ Held(s) => Held(SubSeq(s, n, Len(s)))
           /\ (\A j \in 1 .. n - 1 : ~Instance(s[j])) =>
                 TurnsIn(SubSeq(s, n, Len(s))) = TurnsIn(s)
           /\ TurnsIn(SubSeq(s, n, Len(s))) \subseteq TurnsIn(s)
<1> DEFINE t == SubSeq(s, n, Len(s))
<1>1. /\ Len(s) \in Nat /\ n \in Nat /\ Len(t) = Len(s) - n + 1
      /\ \A j \in 1 .. Len(s) - n + 1 : t[j] = s[n + j - 1]
  BY SuffixOf, LenProperties
<1> HIDE DEF t
<1>2. ASSUME NEW i \in 0 .. Len(s) - n + 1, NEW way, StoppedAfter(s, n + i - 1, way)
      PROVE  StoppedAfter(t, i, way)
  <2> SUFFICES ASSUME NEW j \in i + 1 .. Len(t), Instance(t[j])
               PROVE  \E m \in i + 1 .. j - 1 : Stops(t[m], way)
    BY DEF StoppedAfter
  <2>1. /\ n + j - 1 \in (n + i - 1) + 1 .. Len(s) /\ j \in 1 .. Len(s) - n + 1
        /\ t[j] = s[n + j - 1]
    BY <1>1
  <2>2. PICK m \in (n + i - 1) + 1 .. (n + j - 1) - 1 : Stops(s[m], way)
    BY <1>2, <2>1 DEF StoppedAfter
  <2>3. /\ m - n + 1 \in i + 1 .. j - 1 /\ m - n + 1 \in 1 .. Len(s) - n + 1
        /\ n + (m - n + 1) - 1 = m
    BY <1>1
  <2>4. t[m - n + 1] = s[m]
    BY <1>1, <2>3
  <2> QED
    BY <2>2, <2>3, <2>4
<1>3. ASSUME Held(s) PROVE Held(t)
  <2> SUFFICES ASSUME NEW i \in 1 .. Len(t), NEW way \in Out(t[i])
               PROVE  StoppedAfter(t, i, way)
    BY DEF Held
  <2>1. /\ n + i - 1 \in 1 .. Len(s) /\ i \in 0 .. Len(s) - n + 1
        /\ t[i] = s[n + i - 1]
    BY <1>1
  <2>2. StoppedAfter(s, n + i - 1, way)
    BY <1>3, <2>1 DEF Held
  <2> QED
    BY <1>2, <2>1, <2>2
<1>4. TurnsIn(t) \subseteq TurnsIn(s)
  <2> SUFFICES ASSUME NEW j \in 1 .. Len(t), Instance(t[j])
               PROVE  t[j].turn \in TurnsIn(s)
    BY DEF TurnsIn
  <2>1. n + j - 1 \in 1 .. Len(s) /\ t[j] = s[n + j - 1]
    BY <1>1
  <2> QED
    BY <2>1 DEF TurnsIn
<1>5. ASSUME \A j \in 1 .. n - 1 : ~Instance(s[j])
      PROVE  TurnsIn(s) \subseteq TurnsIn(t)
  <2> SUFFICES ASSUME NEW j \in 1 .. Len(s), Instance(s[j])
               PROVE  s[j].turn \in TurnsIn(t)
    BY DEF TurnsIn
  <2>1. j \notin 1 .. n - 1
    BY <1>5
  <2>2. j - n + 1 \in 1 .. Len(t) /\ j - n + 1 \in 1 .. Len(s) - n + 1 /\ n + (j - n + 1) - 1 = j
    BY <1>1, <2>1
  <2>3. t[j - n + 1] = s[j]
    BY <1>1, <2>2
  <2> QED
    BY <2>2, <2>3 DEF TurnsIn
<1> QED
  BY <1>2, <1>3, <1>4, <1>5 DEF t

\* What is joined to a stack.
LEMMA StoppedJoin ==
    ASSUME NEW S, NEW p \in Seq(S), NEW s \in Seq(S), NEW way
    PROVE  /\ \A i \in 0 .. Len(s) :
                 StoppedAfter(s, i, way) => StoppedAfter(p \o s, i + Len(p), way)
           /\ NoInstance(p) /\ StoppedAfter(s, 0, way) =>
                 \A i \in 0 .. Len(p) : StoppedAfter(p \o s, i, way)
<1> DEFINE u == p \o s
           n == Len(p)
<1>1. n \in Nat /\ Len(s) \in Nat
  BY LenProperties
<1>2. /\ Len(u) = n + Len(s)
      /\ \A i \in 1 .. n + Len(s) : u[i] = IF i <= n THEN p[i] ELSE s[i - n]
  BY ConcatProperties
<1> HIDE DEF u, n
<1>3. /\ \A i \in 1 .. n : i \in 1 .. Len(u) /\ u[i] = p[i]
      /\ \A i \in n + 1 .. n + Len(s) : i - n \in 1 .. Len(s) /\ u[i] = s[i - n]
  BY <1>1, <1>2
<1>4. ASSUME NEW i \in 0 .. Len(s), StoppedAfter(s, i, way),
             NEW j \in i + n + 1 .. Len(u), Instance(u[j])
      PROVE  \E m \in i + n + 1 .. j - 1 : Stops(u[m], way)
  <2>1. j - n \in i + 1 .. Len(s) /\ j \in n + 1 .. n + Len(s)
    BY <1>1, <1>2
  <2>2. PICK m \in i + 1 .. (j - n) - 1 : Stops(s[m], way)
    BY <1>3, <1>4, <2>1 DEF StoppedAfter
  <2>3. m + n \in n + 1 .. n + Len(s) /\ (m + n) - n = m /\ m + n \in i + n + 1 .. j - 1
    BY <1>1, <2>1
  <2>4. u[m + n] = s[(m + n) - n]
    BY <1>3, <2>3
  <2> QED
    BY <2>2, <2>3, <2>4
<1>5. \A i \in 0 .. Len(s) : StoppedAfter(s, i, way) => StoppedAfter(u, i + n, way)
  BY <1>4 DEF StoppedAfter
<1>6. ASSUME NoInstance(p), StoppedAfter(s, 0, way), NEW i \in 0 .. n,
             NEW j \in i + 1 .. Len(u), Instance(u[j])
      PROVE  \E m \in i + 1 .. j - 1 : Stops(u[m], way)
  <2>1. j \notin 1 .. n
    BY <1>3, <1>6 DEF NoInstance, n
  <2>2. j \in 0 + n + 1 .. Len(u) /\ 0 \in 0 .. Len(s)
    BY <1>1, <1>2, <2>1
  <2>3. PICK m \in 0 + n + 1 .. j - 1 : Stops(u[m], way)
    BY <1>4, <1>6, <2>2
  <2>4. m \in i + 1 .. j - 1
    BY <1>1
  <2> QED
    BY <2>3, <2>4
<1>7. NoInstance(p) /\ StoppedAfter(s, 0, way) =>
         \A i \in 0 .. n : StoppedAfter(u, i, way)
  BY <1>6 DEF StoppedAfter
<1> QED
  BY <1>5, <1>7 DEF u, n

LEMMA HeldJoin ==
    ASSUME NEW S, NEW p \in Seq(S), NEW s \in Seq(S), NoInstance(p) \/ Len(p) = 1,
           Held(s),
           \A n \in 1 .. Len(p) : \A way \in Out(p[n]) : StoppedAfter(s, 0, way)
    PROVE  Held(p \o s)
<1> DEFINE u == p \o s
           n == Len(p)
<1>1. n \in Nat /\ Len(s) \in Nat
  BY LenProperties
<1>2. /\ Len(u) = n + Len(s)
      /\ \A i \in 1 .. n + Len(s) : u[i] = IF i <= n THEN p[i] ELSE s[i - n]
  BY ConcatProperties
<1>3. \A way : /\ \A i \in 0 .. Len(s) : StoppedAfter(s, i, way) => StoppedAfter(u, i + n, way)
               /\ NoInstance(p) /\ StoppedAfter(s, 0, way) =>
                     \A i \in 0 .. n : StoppedAfter(u, i, way)
  BY StoppedJoin
<1> HIDE DEF u, n
<1> SUFFICES ASSUME NEW i \in 1 .. Len(u), NEW way \in Out(u[i])
             PROVE  StoppedAfter(u, i, way)
  BY DEF Held, u
<1>4. CASE i <= n
  <2>1. i \in 1 .. n /\ i \in 0 .. n /\ u[i] = p[i]
    BY <1>1, <1>2, <1>4
  <2>2. StoppedAfter(s, 0, way)
    BY <2>1 DEF n
  <2>3. CASE n = 1
    <3>1. i = 0 + n /\ 0 \in 0 .. Len(s)
      BY <1>1, <2>1, <2>3
    <3> QED
      BY <1>3, <2>2, <3>1
  <2> QED
    BY <1>3, <2>1, <2>2, <2>3 DEF n
<1>5. CASE ~(i <= n)
  <2>1. /\ i - n \in 1 .. Len(s) /\ i - n \in 0 .. Len(s) /\ (i - n) + n = i
        /\ u[i] = s[i - n]
    BY <1>1, <1>2, <1>5
  <2>2. StoppedAfter(s, i - n, way)
    BY <2>1 DEF Held
  <2>3. StoppedAfter(u, (i - n) + n, way)
    BY <1>3, <2>1, <2>2
  <2> QED
    BY <2>1, <2>3
<1> QED
  BY <1>4, <1>5

LEMMA TurnsJoin ==
    ASSUME NEW S, NEW p \in Seq(S), NEW s \in Seq(S)
    PROVE  TurnsIn(p \o s) = TurnsIn(p) \cup TurnsIn(s)
<1> DEFINE u == p \o s
           n == Len(p)
<1>1. n \in Nat /\ Len(s) \in Nat
  BY LenProperties
<1>2. /\ Len(u) = n + Len(s)
      /\ \A i \in 1 .. n + Len(s) : u[i] = IF i <= n THEN p[i] ELSE s[i - n]
  BY ConcatProperties
<1> HIDE DEF u, n
<1>3. ASSUME NEW j \in 1 .. Len(u), Instance(u[j])
      PROVE  u[j].turn \in TurnsIn(p) \cup TurnsIn(s)
  <2>1. CASE j <= n
    <3>1. j \in 1 .. n /\ u[j] = p[j]
      BY <1>1, <1>2, <2>1
    <3> QED
      BY <1>3, <3>1 DEF TurnsIn, n
  <2>2. CASE ~(j <= n)
    <3>1. j - n \in 1 .. Len(s) /\ u[j] = s[j - n]
      BY <1>1, <1>2, <2>2
    <3> QED
      BY <1>3, <3>1 DEF TurnsIn
  <2> QED
    BY <2>1, <2>2
<1>4. ASSUME NEW j \in 1 .. n, Instance(p[j]) PROVE p[j].turn \in TurnsIn(u)
  <2>1. j \in 1 .. Len(u) /\ u[j] = p[j]
    BY <1>1, <1>2
  <2> QED
    BY <1>4, <2>1 DEF TurnsIn
<1>5. ASSUME NEW j \in 1 .. Len(s), Instance(s[j]) PROVE s[j].turn \in TurnsIn(u)
  <2>1. PICK i \in 1 .. Len(u) : i = j + n
    BY <1>1, <1>2
  <2>2. ~(i <= n) /\ i - n = j /\ i \in 1 .. n + Len(s)
    BY <1>1, <2>1
  <2>3. u[i] = s[i - n]
    BY <1>2, <2>2
  <2>4. u[i] = s[j]
    BY <2>2, <2>3
  <2> QED
    BY <1>5, <2>4 DEF TurnsIn
<1>6. TurnsIn(u) \subseteq TurnsIn(p) \cup TurnsIn(s)
  BY <1>3 DEF TurnsIn
<1>7. TurnsIn(p) \subseteq TurnsIn(u) /\ TurnsIn(s) \subseteq TurnsIn(u)
  BY <1>4, <1>5 DEF TurnsIn, n
<1> QED
  BY <1>6, <1>7 DEF u

LEMMA EmptyIsHeld == Held(<<>>) /\ TurnsIn(<<>>) = {}
  BY DEF Held, TurnsIn

\* A block of the code has no mark in it.
LEMMA BlocksHaveNoMark ==
    ASSUME NEW c \in DOMAIN Program, NEW block \in CodeOf[c]
    PROVE  /\ block \in Seq(CodeItems(c)) /\ NoInstance(block) /\ TurnsIn(block) = {}
           /\ \A n \in 1 .. Len(block) : Out(block[n]) \subseteq Exits[block]
<1>1. /\ block \in Seq(StatementsOf(c)) /\ block \in Seq(CodeItems(c))
      /\ DOMAIN block = 1 .. Len(block)
  BY BlocksAreCode
<1>2. \A n \in 1 .. Len(block) : block[n].op \notin {"end", "again"}
  BY <1>1, ElementOfSeq, CodeAssumption
<1>3. NoInstance(block)
  BY <1>2 DEF NoInstance, Instance
<1>4. \A n \in 1 .. Len(block) : Out(block[n]) \subseteq Exits[block]
  BY <1>1, <1>2, ExitsAssumption DEF Out
<1> QED
  BY <1>1, <1>3, <1>4 DEF NoInstance, TurnsIn

\* A step that drops no turn of an instance.
LEMMA DropHolds ==
    ASSUME CodeInv, Held(todo), NEW n \in 1 .. Len(todo) + 1, todo' = From(n),
           \A j \in 1 .. n - 1 : ~Instance(todo[j])
    PROVE  Held(todo') /\ TurnsIn(todo') = TurnsIn(todo)
  BY HeldSuffix DEF CodeInv, From

\* A step that puts a block, and what ends it, in the place of what is on top.
LEMMA OpenHolds ==
    ASSUME CodeInv, Held(todo), todo # <<>>, NEW block \in CodeOf[collector],
           todo' = block \o Rest, Exits[block] \subseteq Out(todo[1])
    PROVE  Held(todo') /\ TurnsIn(todo') = TurnsIn(Rest)
<1> DEFINE S == CodeItems(collector)
<1>1. /\ collector \in DOMAIN Program /\ todo \in Seq(S) /\ Len(todo) \in Nat \ {0}
      /\ Rest = From(2)
  BY LenProperties, EmptySeq, TailIsSubSeq DEF CodeInv, RoundInv, DataOK, Rest, From
<1>2. 2 \in 1 .. Len(todo) + 1 /\ 0 \in 0 .. Len(todo) - 2 + 1 /\ 2 + 0 - 1 = 1
      /\ 1 \in 1 .. Len(todo)
  BY <1>1
<1>3. /\ Rest \in Seq(S) /\ Held(Rest)
      /\ \A way : StoppedAfter(todo, 1, way) => StoppedAfter(Rest, 0, way)
  <2>1. Rest \in Seq(S)
    BY <1>1, <1>2, SuffixOf DEF From
  <2>2. /\ Held(Rest)
        /\ \A way : StoppedAfter(todo, 2 + 0 - 1, way) => StoppedAfter(Rest, 0, way)
    BY <1>1, <1>2, HeldSuffix DEF From
  <2> QED
    BY <1>2, <2>1, <2>2
<1>4. /\ block \in Seq(S) /\ NoInstance(block) /\ TurnsIn(block) = {}
      /\ \A n \in 1 .. Len(block) : Out(block[n]) \subseteq Exits[block]
  BY <1>1, BlocksHaveNoMark
<1> HIDE DEF S
<1>5. \A way \in Exits[block] : StoppedAfter(Rest, 0, way)
  BY <1>2, <1>3 DEF Held
<1>6. \A n \in 1 .. Len(block) : \A way \in Out(block[n]) : StoppedAfter(Rest, 0, way)
  BY <1>4, <1>5
<1>7. Held(block \o Rest)
  BY <1>3, <1>4, <1>6, HeldJoin
<1>8. TurnsIn(block \o Rest) = TurnsIn(block) \cup TurnsIn(Rest)
  <2>1. block \in Seq(S) /\ Rest \in Seq(S)
    BY <1>3, <1>4
  <2> QED
    BY <2>1, TurnsJoin
<1>9. TurnsIn(block \o Rest) = TurnsIn(Rest)
  BY <1>4, <1>8
<1> QED
  BY <1>7, <1>9

LEMMA MarkHolds ==
    ASSUME CodeInv, Held(todo), todo # <<>>, NEW mark \in Marks(collector),
           NEW block \in CodeOf[collector], todo' = block \o <<mark>> \o Rest,
           Out(mark) \subseteq Out(todo[1]),
           IF Instance(mark) THEN Exits[block] = {}
           ELSE \A way \in Exits[block] : way \in Out(todo[1]) \/ Stops(mark, way)
    PROVE  /\ Held(todo')
           /\ TurnsIn(todo') = TurnsIn(Rest) \cup (IF Instance(mark) THEN {mark.turn} ELSE {})
<1> DEFINE S == CodeItems(collector)
           p == <<mark>>
           marked == p \o Rest
<1>1. /\ collector \in DOMAIN Program /\ todo \in Seq(S) /\ Len(todo) \in Nat \ {0}
      /\ Rest = From(2)
  BY LenProperties, EmptySeq, TailIsSubSeq DEF CodeInv, RoundInv, DataOK, Rest, From
<1>2. 2 \in 1 .. Len(todo) + 1 /\ 0 \in 0 .. Len(todo) - 2 + 1 /\ 2 + 0 - 1 = 1
      /\ 1 \in 1 .. Len(todo)
  BY <1>1
<1>3. /\ Rest \in Seq(S) /\ Held(Rest)
      /\ \A way : StoppedAfter(todo, 1, way) => StoppedAfter(Rest, 0, way)
  <2>1. Rest \in Seq(S)
    BY <1>1, <1>2, SuffixOf DEF From
  <2>2. /\ Held(Rest)
        /\ \A way : StoppedAfter(todo, 2 + 0 - 1, way) => StoppedAfter(Rest, 0, way)
    BY <1>1, <1>2, HeldSuffix DEF From
  <2> QED
    BY <1>2, <2>1, <2>2
<1>4. /\ block \in Seq(S) /\ NoInstance(block) /\ TurnsIn(block) = {}
      /\ \A n \in 1 .. Len(block) : Out(block[n]) \subseteq Exits[block]
  BY <1>1, BlocksHaveNoMark
<1>5. p \in Seq(S) /\ Len(p) = 1 /\ p[1] = mark
  BY <1>1, MarksAreMarks DEF S
<1>6. \A way \in Out(todo[1]) : StoppedAfter(Rest, 0, way)
  BY <1>2, <1>3 DEF Held
<1>7. marked \in Seq(S) /\ Len(marked) = 1 + Len(Rest) /\ marked[1] = mark /\ Len(Rest) \in Nat
  <2>1. Len(Rest) \in Nat
    BY <1>3, LenProperties
  <2> QED
    BY <1>3, <1>5, <2>1, ConcatProperties
<1> HIDE DEF S, p
<1>8. \A n \in 1 .. Len(p) : \A way \in Out(p[n]) : StoppedAfter(Rest, 0, way)
  BY <1>5, <1>6
<1>9. Held(marked)
  BY <1>3, <1>5, <1>8, HeldJoin
<1>10. TurnsIn(p) = IF Instance(mark) THEN {mark.turn} ELSE {}
  <2>1. \A j \in 1 .. Len(p) : j = 1 /\ p[j] = mark
    BY <1>5
  <2>2. 1 \in 1 .. Len(p)
    BY <1>5
  <2> QED
    BY <1>5, <2>1, <2>2 DEF TurnsIn
<1>11. TurnsIn(marked) = TurnsIn(p) \cup TurnsIn(Rest)
  BY <1>3, <1>5, TurnsJoin
<1>12. ASSUME ~Instance(mark), NEW way, StoppedAfter(Rest, 0, way) \/ Stops(mark, way)
       PROVE  StoppedAfter(marked, 0, way)
  <2>1. NoInstance(p) /\ 0 \in 0 .. Len(p)
    BY <1>5, <1>12 DEF NoInstance
  <2>2. CASE StoppedAfter(Rest, 0, way)
    BY <1>3, <1>5, <2>1, <2>2, StoppedJoin
  <2>3. CASE Stops(mark, way)
    <3> SUFFICES ASSUME NEW j \in 0 + 1 .. Len(marked), Instance(marked[j])
                 PROVE  \E m \in 0 + 1 .. j - 1 : Stops(marked[m], way)
      BY DEF StoppedAfter
    <3>1. j # 1
      BY <1>7, <1>12
    <3>2. 1 \in 0 + 1 .. j - 1
      BY <1>7, <3>1
    <3> QED
      BY <1>7, <2>3, <3>2
  <2> QED
    BY <1>12, <2>2, <2>3
<1>13. \A way \in Exits[block] : StoppedAfter(marked, 0, way)
  BY <1>6, <1>12
<1> HIDE DEF marked
<1>14. \A n \in 1 .. Len(block) : \A way \in Out(block[n]) : StoppedAfter(marked, 0, way)
  BY <1>4, <1>13
<1>15. Held(block \o marked)
  BY <1>4, <1>7, <1>9, <1>14, HeldJoin
<1>16. TurnsIn(block \o marked) = TurnsIn(block) \cup TurnsIn(marked)
  <2>1. block \in Seq(S) /\ marked \in Seq(S)
    BY <1>4, <1>7
  <2> QED
    BY <2>1, TurnsJoin
<1>17. todo' = block \o marked
  BY DEF marked, p
<1>18. TurnsIn(block \o marked) = TurnsIn(Rest) \cup (IF Instance(mark) THEN {mark.turn} ELSE {})
  BY <1>4, <1>10, <1>11, <1>16
<1> QED
  BY <1>15, <1>17, <1>18
\* What a try catches are exceptions, and no return or break.
LEMMA TryClauses ==
    ASSUME CodeInv, NEW m \in 1 .. Len(todo), NEW way \in {"return", "break"}, Stops(todo[m], way)
    PROVE  ~ (todo[m].op = "end" /\ todo[m].what = "try")
<1> SUFFICES ASSUME todo[m].op = "end", todo[m].what = "try" PROVE FALSE
  OBVIOUS
<1>1. way \in DOMAIN todo[m].clauses
  BY DEF Stops, EndsCall
<1>2. PICK s \in StatementsOf(collector) : s.op = "try" /\ todo[m].clauses = s.clauses
  BY CodeOnStack
<1>3. collector \in DOMAIN Program
  BY DEF CodeInv, RoundInv, DataOK
<1>4. DOMAIN s.clauses \subseteq Every
  BY <1>2, <1>3, CodeAssumption
<1>5. way \in Every
  BY <1>1, <1>2, <1>4
<1> QED
  BY <1>5 DEF Every, Errors, Alarm

\* What is on top leaves the stack in a way that ends before the turn of an instance.
LEMMA WayOnTop ==
    ASSUME CodeInv, Held(todo), NEW op, At(op), op \notin {"end", "again"},
           NEW way \in WaysOut(todo[1], Exits),
           NEW j \in 1 .. Len(todo), Instance(todo[j])
    PROVE  \E m \in 2 .. j - 1 : Stops(todo[m], way)
<1>1. todo[1].op = op /\ Len(todo) \in Nat \ {0}
  BY CodeOnTop
<1>2. 1 \in 1 .. Len(todo) /\ way \in Out(todo[1])
  BY <1>1 DEF Out
<1>3. StoppedAfter(todo, 1, way)
  BY <1>2 DEF Held
<1>4. j # 1
  BY <1>1 DEF Instance
<1>5. j \in 1 + 1 .. Len(todo)
  BY <1>1, <1>4
<1>6. PICK m \in 1 + 1 .. j - 1 : Stops(todo[m], way)
  BY <1>3, <1>5 DEF StoppedAfter
<1> QED
  BY <1>6

LEMMA ThrowHolds ==
    ASSUME CodeInv, Held(todo), NEW op, At(op), op \notin {"end", "again"},
           NEW exc \in Every, exc \in WaysOut(todo[1], Exits), Throw(exc)
    PROVE  Held(todo') /\ TurnsIn(todo') = TurnsIn(todo)
<1> DEFINE h == FirstOf(Handlers(exc))
           S == CodeItems(collector)
<1>1. IF h = 0 THEN outcome' = exc /\ todo' = <<>>
      ELSE todo' = todo[h].clauses[exc] \o From(h + 1) /\ UNCHANGED outcome
  BY DEF Throw, SelectInSeq, FirstOf, Handlers
<1>2. /\ Len(todo) \in Nat /\ Handlers(exc) \in SUBSET (1 .. Len(todo))
      /\ collector \in DOMAIN Program /\ todo \in Seq(S)
  BY LenProperties DEF Handlers, CodeInv, RoundInv, DataOK
<1>3. /\ h \in 0 .. Len(todo) /\ \A i \in Handlers(exc) : h # 0 /\ h <= i
      /\ h # 0 => h \in Handlers(exc)
  BY <1>2, FirstProperties
<1> HIDE DEF h
<1>4. ASSUME NEW j \in 1 .. Len(todo), Instance(todo[j])
      PROVE  h # 0 /\ h < j
  <2>1. PICK m \in 2 .. j - 1 : Stops(todo[m], exc)
    BY <1>4, WayOnTop
  <2>2. m \in 1 .. Len(todo) /\ m < j
    BY <1>2
  <2>3. exc # "return" /\ exc # "break"
    BY DEF Every, Errors, Alarm
  <2>4. m \in Handlers(exc)
    BY <2>1, <2>2, <2>3 DEF Stops, Handlers
  <2> QED
    BY <1>2, <1>3, <2>2, <2>4
<1>5. CASE h = 0
  <2>1. todo' = <<>>
    BY <1>1, <1>5
  <2>2. TurnsIn(todo) = {}
    BY <1>4, <1>5 DEF TurnsIn
  <2> QED
    BY <2>1, <2>2, EmptyIsHeld
<1>6. CASE h # 0
  <2> DEFINE clause == todo[h].clauses[exc]
  <2>1. /\ h \in 1 .. Len(todo) /\ todo[h].op = "end" /\ todo[h].what = "try"
        /\ exc \in DOMAIN todo[h].clauses /\ todo' = clause \o From(h + 1)
    BY <1>1, <1>2, <1>3, <1>6 DEF Handlers
  <2>2. PICK s \in StatementsOf(collector) : s.op = "try" /\ todo[h].clauses = s.clauses
    BY <2>1, CodeOnStack
  <2>3. clause \in CodeOf[collector]
    BY <1>2, <2>1, <2>2, ClausesAreCode
  <2>4. Exits[clause] \subseteq Out(todo[h])
    BY <2>1 DEF Out
  <2>5. /\ h + 1 \in 1 .. Len(todo) + 1 /\ 0 \in 0 .. Len(todo) - (h + 1) + 1
        /\ (h + 1) + 0 - 1 = h /\ (h + 1) - 1 = h
    BY <1>2, <2>1
  <2>6. \A j \in 1 .. h : ~Instance(todo[j])
    BY <1>2, <1>4, <2>1
  <2>7. /\ Held(From(h + 1)) /\ TurnsIn(From(h + 1)) = TurnsIn(todo)
        /\ \A way : StoppedAfter(todo, h, way) => StoppedAfter(From(h + 1), 0, way)
    <3> DEFINE rest == SubSeq(todo, h + 1, Len(todo))
    <3>1. /\ \A way : StoppedAfter(todo, (h + 1) + 0 - 1, way) => StoppedAfter(rest, 0, way)
          /\ Held(todo) => Held(rest)
          /\ (\A j \in 1 .. (h + 1) - 1 : ~Instance(todo[j])) => TurnsIn(rest) = TurnsIn(todo)
      BY <1>2, <2>5, HeldSuffix
    <3>2. From(h + 1) = rest
      BY DEF From
    <3> HIDE DEF rest
    <3>3. /\ Held(rest) /\ TurnsIn(rest) = TurnsIn(todo)
          /\ \A way : StoppedAfter(todo, h, way) => StoppedAfter(rest, 0, way)
      BY <2>5, <2>6, <3>1
    <3> QED
      BY <3>2, <3>3
  <2>8. From(h + 1) \in Seq(S)
    BY <1>2, <2>5, SuffixOf DEF From
  <2>9. /\ clause \in Seq(S) /\ NoInstance(clause) /\ TurnsIn(clause) = {}
        /\ \A n \in 1 .. Len(clause) : Out(clause[n]) \subseteq Exits[clause]
    BY <1>2, <2>3, BlocksHaveNoMark
  <2> HIDE DEF clause, S
  <2>10. \A way \in Exits[clause] : StoppedAfter(From(h + 1), 0, way)
    BY <2>1, <2>4, <2>7 DEF Held
  <2>11. \A n \in 1 .. Len(clause) : \A way \in Out(clause[n]) : StoppedAfter(From(h + 1), 0, way)
    BY <2>9, <2>10
  <2>12. Held(clause \o From(h + 1))
    BY <2>7, <2>8, <2>9, <2>11, HeldJoin
  <2>13. TurnsIn(clause \o From(h + 1)) = TurnsIn(clause) \cup TurnsIn(From(h + 1))
    <3>1. clause \in Seq(S)
      BY <2>9
    <3> QED
      BY <2>8, <3>1, TurnsJoin
  <2> QED
    BY <2>1, <2>7, <2>9, <2>12, <2>13
<1> QED
  BY <1>5, <1>6

LEMMA JumpHolds ==
    ASSUME CodeInv, Held(todo), ReturnFromCall \/ ContinueOrBreak
    PROVE  Held(todo') /\ TurnsIn(todo') = TurnsIn(todo)
<1>1. Len(todo) \in Nat
  BY StackLength DEF CodeInv, RoundInv
<1>2. CASE ReturnFromCall
  <2>1. At("return") /\ todo' = From(1 + FirstOf(CallEnds))
    BY <1>2 DEF ReturnFromCall, SelectInSeq, FirstOf, CallEnds, Goto
  <2>2. FirstOf(CallEnds) \in CallEnds /\ \A i \in CallEnds : FirstOf(CallEnds) <= i
    BY <2>1, StatementOnTop, TopOfStack, CallEndFound DEF CodeInv, RoundInv, RunsAt
  <2>3. PICK n \in 1 .. Len(todo) : n = FirstOf(CallEnds)
    BY <2>2 DEF CallEnds
  <2>4. "return" \in WaysOut(todo[1], Exits)
    BY <2>1, CodeOnTop DEF WaysOut
  <2>5. ASSUME NEW j \in 1 .. Len(todo), Instance(todo[j]) PROVE n < j
    <3>1. PICK m \in 2 .. j - 1 : Stops(todo[m], "return")
      BY <2>1, <2>4, <2>5, WayOnTop
    <3>2. m \in 1 .. Len(todo) /\ m < j
      BY <1>1
    <3>3. m \in CallEnds
      BY <2>4, <3>1, <3>2, TryClauses DEF Stops, CallEnds, EndsCall
    <3> QED
      BY <1>1, <2>2, <2>3, <3>2, <3>3
  <2>6. /\ 1 + n \in 1 .. Len(todo) + 1
        /\ \A j \in 1 .. (1 + n) - 1 : ~Instance(todo[j])
    BY <1>1, <2>5
  <2> QED
    BY <2>1, <2>3, <2>6, DropHolds
<1>3. CASE ContinueOrBreak
  <2>1. /\ At("continue") \/ At("break")
        /\ todo' = From(IF At("break") THEN FirstOf(LoopTurns) + 1 ELSE FirstOf(LoopTurns))
    BY <1>3 DEF ContinueOrBreak, SelectInSeq, FirstOf, LoopTurns, Goto
  <2>2. /\ FirstOf(LoopTurns) \in LoopTurns /\ \A i \in LoopTurns : FirstOf(LoopTurns) <= i
    <3>1. LoopTurns \in SUBSET (1 .. Len(todo))
      BY DEF LoopTurns
    <3>2. FirstOf(LoopTurns) \in LoopTurns
      BY <2>1, LoopTurnFound DEF CodeInv, RoundInv
    <3> QED
      BY <1>1, <3>1, <3>2, FirstProperties
  <2>3. PICK n \in 1 .. Len(todo) : n = FirstOf(LoopTurns)
    BY <2>2 DEF LoopTurns
  <2>4. \A j \in 1 .. n - 1 : ~Instance(todo[j])
    <3> SUFFICES ASSUME NEW j \in 1 .. n - 1, Instance(todo[j]) PROVE FALSE
      OBVIOUS
    <3>1. j \in LoopTurns
      BY <1>1 DEF LoopTurns, Instance
    <3> QED
      BY <1>1, <2>2, <2>3, <3>1
  <2>5. CASE ~At("break")
    <3>1. todo' = From(n) /\ n \in 1 .. Len(todo) + 1
      BY <1>1, <2>1, <2>3, <2>5
    <3> QED
      BY <2>4, <3>1, DropHolds
  <2>6. CASE At("break")
    <3>1. "break" \in WaysOut(todo[1], Exits)
      BY <2>6, CodeOnTop DEF WaysOut
    <3>2. ~Instance(todo[n])
      <4> SUFFICES ASSUME Instance(todo[n]) PROVE FALSE
        OBVIOUS
      <4>1. PICK m \in 2 .. n - 1 : Stops(todo[m], "break")
        BY <2>6, <3>1, WayOnTop
      <4>2. m \in 1 .. Len(todo) /\ m < n
        BY <1>1
      <4>3. m \in LoopTurns
        BY <4>1, <4>2, TryClauses DEF Stops, LoopTurns, EndsCall
      <4> QED
        BY <1>1, <2>2, <2>3, <4>2, <4>3
    <3>3. /\ n + 1 \in 1 .. Len(todo) + 1 /\ todo' = From(n + 1)
          /\ \A j \in 1 .. (n + 1) - 1 : ~Instance(todo[j])
      BY <1>1, <2>1, <2>3, <2>4, <2>6, <3>2
    <3> QED
      BY <3>3, DropHolds
  <2> QED
    BY <2>5, <2>6
<1> QED
  BY <1>2, <1>3
-----------------------------------------------------------------------------
\* The steps, but for those that begin and end the turn of an instance.
StaysInTurn == Held(todo') /\ TurnsIn(todo') = TurnsIn(todo) /\ UNCHANGED reached

LEMMA NoMarkOnTop ==
    ASSUME CodeInv, NEW op, At(op), op # "again"
    PROVE  ~Instance(todo[1]) /\ 2 \in 1 .. Len(todo) + 1 /\ TurnsIn(Rest) = TurnsIn(todo)
<1> DEFINE S == CodeItems(collector)
<1>1. Len(todo) \in Nat \ {0} /\ todo[1].op = op /\ Rest = From(2) /\ todo \in Seq(S)
  BY CodeOnTop DEF CodeInv
<1>2. ~Instance(todo[1])
  BY <1>1 DEF Instance
<1>3. 2 \in 1 .. Len(todo) + 1 /\ \A j \in 1 .. 2 - 1 : ~Instance(todo[j])
  BY <1>1, <1>2
<1>4. TurnsIn(SubSeq(todo, 2, Len(todo))) = TurnsIn(todo)
  BY <1>1, <1>3, HeldSuffix
<1> QED
  BY <1>1, <1>2, <1>3, <1>4 DEF From

LEMMA PopHolds ==
    ASSUME CodeInv, Held(todo),
           \/ Answer \/ SetDims \/ PublishMetric \/ LogAnError \/ LeaveBlock
           \/ NoteFact \/ KeepFact \/ ForgetFact \/ UseFact
    PROVE  StaysInTurn
<1>1. Goto(Rest) /\ UNCHANGED reached /\ \E op : At(op) /\ op # "again"
  BY DEF Answer, SetDims, PublishMetric, LogAnError, LeaveBlock, NoteFact, KeepFact,
         ForgetFact, UseFact, roundVars
<1>2. /\ 2 \in 1 .. Len(todo) + 1 /\ todo' = From(2)
      /\ \A j \in 1 .. 2 - 1 : ~Instance(todo[j])
  BY <1>1, CodeOnTop, NoMarkOnTop DEF Goto
<1> QED
  BY <1>1, <1>2, DropHolds DEF StaysInTurn

LEMMA FailureHolds ==
    ASSUME CodeInv, Held(todo), Fail \/ PublishFails \/ RaiseException
    PROVE  StaysInTurn
<1>1. UNCHANGED reached
  BY DEF Fail, PublishFails, RaiseException, roundVars
<1>2. PICK op \in {"ask", "parse", "publish", "raise"} :
         /\ At(op)
         /\ \E exc : Throw(exc) /\ exc \in IF op = "raise" THEN {todo[1].exc} ELSE todo[1].excs
  BY DEF Fail, PublishFails, RaiseException
<1>3. PICK exc : Throw(exc) /\ exc \in IF op = "raise" THEN {todo[1].exc} ELSE todo[1].excs
  BY <1>2
<1>4. todo[1] \in Statements /\ todo[1].op = op
  BY <1>2, TopRuns DEF CodeInv, RoundInv
<1>5. exc \in Every
  BY <1>3, <1>4, CodeAssumption DEF Statements
<1>6. exc \in WaysOut(todo[1], Exits)
  BY <1>3, <1>4 DEF WaysOut
<1> QED
  BY <1>1, <1>2, <1>3, <1>5, <1>6, ThrowHolds DEF StaysInTurn

LEMMA CallHolds ==
    ASSUME CodeInv, Held(todo), CallFunction
    PROVE  StaysInTurn
<1> DEFINE mark == End("call")[1]
           body == todo[1].body
<1>1. /\ At("call") /\ todo' = body \o End("call") \o Rest /\ UNCHANGED reached
  BY DEF CallFunction, Goto, roundVars
<1>2. /\ todo[1] \in StatementsOf(collector) /\ todo[1].op = "call" /\ todo # <<>>
      /\ collector \in DOMAIN Program
  BY <1>1, CodeOnTop
<1>3. body \in CodeOf[collector]
  BY <1>2, CodeAssumption
<1>4. /\ End("call") = <<mark>> /\ mark \in Marks(collector)
      /\ mark.op = "end" /\ mark.what = "call"
  BY DEF End, Marks
<1>5. Out(todo[1]) = Exits[body] \ {"return"}
  BY <1>2 DEF Out, WaysOut
<1> HIDE DEF mark, body
<1>6. ~Instance(mark) /\ Out(mark) = {} /\ Stops(mark, "return")
  BY <1>4 DEF Instance, Out, Stops, EndsCall
<1>7. \A way \in Exits[body] : way \in Out(todo[1]) \/ Stops(mark, way)
  BY <1>5, <1>6
<1>8. todo' = body \o <<mark>> \o Rest
  BY <1>1, <1>4
<1>9. Held(todo') /\ TurnsIn(todo') = TurnsIn(Rest)
  BY <1>2, <1>3, <1>4, <1>6, <1>7, <1>8, MarkHolds
<1> QED
  BY <1>1, <1>9, NoMarkOnTop DEF StaysInTurn

LEMMA TryHolds ==
    ASSUME CodeInv, Held(todo), EnterTry
    PROVE  StaysInTurn
<1> DEFINE mark == EndTry(todo[1].clauses)[1]
           body == todo[1].body
<1>1. /\ At("try") /\ todo' = body \o EndTry(todo[1].clauses) \o Rest /\ UNCHANGED reached
  BY DEF EnterTry, Goto, roundVars
<1>2. /\ todo[1] \in StatementsOf(collector) /\ todo[1].op = "try" /\ todo # <<>>
      /\ collector \in DOMAIN Program
  BY <1>1, CodeOnTop
<1>3. body \in CodeOf[collector]
  <2>1. body \in Blocks(todo[1])
    BY <1>2 DEF Blocks
  <2> QED
    BY <1>2, <2>1, CodeAssumption
<1>4. /\ EndTry(todo[1].clauses) = <<mark>> /\ mark \in Marks(collector)
      /\ mark.op = "end" /\ mark.what = "try" /\ mark.clauses = todo[1].clauses
  BY <1>2 DEF EndTry, Marks
<1>5. Out(todo[1]) = (Exits[body] \ DOMAIN todo[1].clauses)
                     \cup UNION {Exits[todo[1].clauses[exc]] : exc \in DOMAIN todo[1].clauses}
  BY <1>2 DEF Out, WaysOut
<1> HIDE DEF mark, body
<1>6. /\ ~Instance(mark) /\ \A way \in DOMAIN todo[1].clauses : Stops(mark, way)
      /\ Out(mark) = UNION {Exits[todo[1].clauses[exc]] : exc \in DOMAIN todo[1].clauses}
  BY <1>4 DEF Instance, Out, Stops
<1>7. /\ Out(mark) \subseteq Out(todo[1])
      /\ \A way \in Exits[body] : way \in Out(todo[1]) \/ Stops(mark, way)
  BY <1>5, <1>6
<1>8. todo' = body \o <<mark>> \o Rest
  BY <1>1, <1>4
<1>9. Held(todo') /\ TurnsIn(todo') = TurnsIn(Rest)
  BY <1>2, <1>3, <1>4, <1>6, <1>7, <1>8, MarkHolds
<1> QED
  BY <1>1, <1>9, NoMarkOnTop DEF StaysInTurn

LEMMA ChoiceHolds ==
    ASSUME CodeInv, Held(todo), Choose \/ TestFact
    PROVE  StaysInTurn
<1>1. PICK op \in {"either", "if"} :
         At(op) /\ \E b \in Blocks(todo[1]) : todo' = b \o Rest
  BY DEF Choose, TestFact, Blocks, At, Goto
<1>2. UNCHANGED reached
  BY DEF Choose, TestFact, roundVars
<1>3. /\ todo[1] \in StatementsOf(collector) /\ todo[1].op = op /\ todo # <<>>
      /\ collector \in DOMAIN Program
  BY <1>1, CodeOnTop
<1>4. PICK b \in Blocks(todo[1]) : todo' = b \o Rest
  BY <1>1
<1>5. b \in CodeOf[collector]
  BY <1>3, <1>4, CodeAssumption
<1>6. Exits[b] \subseteq Out(todo[1])
  BY <1>3, <1>4 DEF Out, WaysOut
<1>7. Held(todo') /\ TurnsIn(todo') = TurnsIn(Rest)
  BY <1>3, <1>4, <1>5, <1>6, OpenHolds
<1> QED
  BY <1>1, <1>2, <1>7, NoMarkOnTop DEF StaysInTurn
LEMMA TurnsAreNumbers ==
    ASSUME CodeInv
    PROVE  \A turn \in TurnsIn(todo) : turn \in Nat
  BY CodeOnStack DEF TurnsIn, Instance
-----------------------------------------------------------------------------
\* The turn of an instance is the next one, or the first of an inner loop.
LEMMA TurnHolds ==
    ASSUME CodeInv, Held(todo), InTurn(todo, reached), collector \in Isolates, Turn
    PROVE  Held(todo') /\ InTurn(todo', reached')
<1> DEFINE loop == IF At("loop") THEN todo[1] ELSE todo[1].loop
           turn == IF At("loop") THEN 1 ELSE todo[1].turn + 1
           next == IF loop.kind = "forever" THEN 1 ELSE turn
           mark == Again(loop, next)[1]
           body == loop.body
<1>1. /\ todo' = body \o Again(loop, next) \o Rest
      /\ loop.kind = "instances" => turn <= Instances
      /\ reached' = IF loop.kind = "instances" THEN reached \cup {turn} ELSE reached
  BY DEF Turn, Goto
<1>2. /\ loop \in StatementsOf(collector) /\ loop.op = "loop" /\ turn \in Nat \ {0}
      /\ todo # <<>> /\ Len(todo) \in Nat \ {0} /\ collector \in DOMAIN Program
      /\ Out(todo[1]) = Exits[body] \ {"break"}
      /\ Instance(todo[1]) => turn = todo[1].turn + 1 /\ todo[1].turn \in Nat
      /\ At("loop") => ~Instance(todo[1]) /\ turn = 1
      /\ ~At("loop") => (Instance(todo[1]) <=> loop.kind = "instances")
  <2>1. CASE At("loop")
    <3>1. todo[1] \in StatementsOf(collector) /\ todo[1].op = "loop" /\ Len(todo) \in Nat \ {0}
      BY <2>1, CodeOnTop
    <3>2. Out(todo[1]) = Exits[todo[1].body] \ {"break"} /\ ~Instance(todo[1])
      BY <3>1 DEF Out, WaysOut, Instance
    <3> QED
      BY <2>1, <3>1, <3>2, CodeOnTop
  <2>2. CASE At("again") /\ ~At("loop")
    <3>1. /\ todo[1].op = "again" /\ todo # <<>> /\ Len(todo) \in Nat \ {0}
          /\ 1 \in 1 .. Len(todo)
      BY <2>2, CodeOnTop
    <3>2. /\ todo[1].loop \in StatementsOf(collector) /\ todo[1].loop.op = "loop"
          /\ todo[1].turn \in Nat /\ collector \in DOMAIN Program
      BY <3>1, CodeOnStack
    <3>3. /\ Out(todo[1]) = Exits[todo[1].loop.body] \ {"break"}
          /\ Instance(todo[1]) <=> todo[1].loop.kind = "instances"
      BY <3>1 DEF Out, Instance
    <3> QED
      BY <2>2, <3>1, <3>2, <3>3
  <2> QED
    BY <2>1, <2>2 DEF Turn
<1> HIDE DEF loop, turn
<1>3. body \in CodeOf[collector] /\ next \in Nat
  BY <1>2, CodeAssumption
<1>4. /\ Again(loop, next) = <<mark>> /\ mark \in Marks(collector)
      /\ mark.op = "again" /\ mark.loop = loop /\ mark.turn = next
  BY <1>2, <1>3 DEF Again, Marks
<1> HIDE DEF next, mark
<1>5. /\ Instance(mark) <=> loop.kind = "instances"
      /\ Out(mark) = Exits[body] \ {"break"} /\ Stops(mark, "break")
  BY <1>4 DEF Instance, Out, Stops
<1>6. Instance(mark) => Exits[body] = {}
  BY <1>2, <1>5 DEF Isolates
<1>7. todo' = body \o <<mark>> \o Rest
  BY <1>1, <1>4
<1> HIDE DEF body
<1>8. /\ Held(todo')
      /\ TurnsIn(todo') = TurnsIn(Rest) \cup (IF Instance(mark) THEN {mark.turn} ELSE {})
  BY <1>2, <1>3, <1>4, <1>5, <1>6, <1>7, MarkHolds
<1>9. /\ TurnsIn(Rest) \subseteq TurnsIn(todo)
      /\ ~Instance(todo[1]) => TurnsIn(Rest) = TurnsIn(todo)
      /\ Instance(todo[1]) => todo[1].turn \in TurnsIn(todo)
  <2> DEFINE S == CodeItems(collector)
  <2>1. todo \in Seq(S) /\ 2 \in 1 .. Len(todo) + 1 /\ 1 \in 1 .. Len(todo) /\ Rest = From(2)
    BY <1>2, TailIsSubSeq DEF CodeInv, Rest, From
  <2>2. ~Instance(todo[1]) => \A j \in 1 .. 2 - 1 : ~Instance(todo[j])
    OBVIOUS
  <2>3. /\ TurnsIn(From(2)) \subseteq TurnsIn(todo)
        /\ ~Instance(todo[1]) => TurnsIn(From(2)) = TurnsIn(todo)
    BY <2>1, <2>2, HeldSuffix DEF From
  <2>4. Instance(todo[1]) => todo[1].turn \in TurnsIn(todo)
    BY <2>1 DEF TurnsIn
  <2> QED
    BY <2>1, <2>3, <2>4
<1>10. PICK k \in 0 .. Instances :
          /\ reached = 1 .. k
          /\ \A t \in TurnsIn(todo) : t <= k
          /\ TurnsIn(todo) = {} => k \in {0, Instances}
  BY DEF InTurn
<1>11. CASE loop.kind # "instances"
  <2>1. ~Instance(todo[1]) /\ ~Instance(mark) /\ reached' = reached
    BY <1>1, <1>2, <1>5, <1>11
  <2>2. TurnsIn(todo') = TurnsIn(todo)
    BY <1>8, <1>9, <2>1
  <2> QED
    BY <1>8, <2>1, <2>2 DEF InTurn
<1>12. CASE loop.kind = "instances"
  <2>1. next = turn /\ turn <= Instances /\ reached' = reached \cup {turn}
    BY <1>1, <1>12 DEF next
  <2>2. TurnsIn(todo') = TurnsIn(Rest) \cup {turn}
    BY <1>4, <1>5, <1>8, <1>12, <2>1
  <2>3. turn <= k + 1
    <3>1. CASE At("loop")
      BY <1>2, <1>10, <3>1
    <3>2. CASE ~At("loop")
      <4>1. Instance(todo[1]) /\ turn = todo[1].turn + 1 /\ todo[1].turn \in Nat
        BY <1>2, <1>12, <3>2
      <4>2. todo[1].turn <= k
        BY <1>9, <1>10, <4>1
      <4> QED
        BY <1>10, <4>1, <4>2
    <3> QED
      BY <3>1, <3>2
  <2>4. PICK n \in 0 .. Instances : n = IF turn <= k THEN k ELSE turn
    BY <1>2, <1>10, <2>1, RoundsAssumption
  <2>5. k <= n /\ turn <= n /\ (n = k \/ (n = turn /\ turn = k + 1))
    BY <1>2, <1>10, <2>3, <2>4, RoundsAssumption
  <2>6. reached' = 1 .. n
    <3>1. reached' = (1 .. k) \cup {turn}
      BY <1>10, <2>1
    <3>2. (1 .. k) \cup {turn} = 1 .. n
      BY <1>2, <1>10, <2>4, <2>5, RoundsAssumption
    <3> QED
      BY <3>1, <3>2
  <2>7. \A t \in TurnsIn(todo') : t <= n
    <3> SUFFICES ASSUME NEW t \in TurnsIn(todo') PROVE t <= n
      OBVIOUS
    <3>1. CASE t = turn
      BY <2>5, <3>1
    <3>2. CASE t \in TurnsIn(todo)
      <4>1. t <= k
        BY <1>10, <3>2
      <4>2. t \in Nat
        BY <3>2, TurnsAreNumbers
      <4> QED
        BY <1>10, <2>5, <4>1, <4>2, RoundsAssumption
    <3> QED
      BY <1>9, <2>2, <3>1, <3>2
  <2>8. TurnsIn(todo') # {}
    BY <2>2
  <2> QED
    BY <1>8, <2>6, <2>7, <2>8 DEF InTurn
<1> QED
  BY <1>11, <1>12

\* A loop ends after the turn of the last instance.
LEMMA EndLoopHolds ==
    ASSUME CodeInv, Held(todo), InTurn(todo, reached), EndLoop
    PROVE  Held(todo') /\ InTurn(todo', reached')
<1> DEFINE S == CodeItems(collector)
<1>1. /\ At("loop") \/ At("again")
      /\ todo' = Rest /\ UNCHANGED reached
      /\ At("again") => todo[1].loop.kind = "data" \/ todo[1].turn = Instances
  BY DEF EndLoop, Goto, roundVars
<1>2. /\ todo \in Seq(S) /\ Len(todo) \in Nat \ {0} /\ todo' = From(2)
      /\ At("loop") => ~Instance(todo[1])
      /\ Instance(todo[1]) => todo[1].turn = Instances
  BY <1>1, CodeOnTop DEF CodeInv, Instance
<1>3. 2 \in 1 .. Len(todo) + 1 /\ 1 \in 1 .. Len(todo)
  BY <1>2
<1>4. CASE ~Instance(todo[1])
  <2>1. \A j \in 1 .. 2 - 1 : ~Instance(todo[j])
    BY <1>4
  <2> QED
    BY <1>1, <1>2, <1>3, <2>1, DropHolds DEF InTurn
<1>5. CASE Instance(todo[1])
  <2>1. Held(todo') /\ TurnsIn(todo') \subseteq TurnsIn(todo)
    BY <1>2, <1>3, HeldSuffix DEF From
  <2>2. Instances \in TurnsIn(todo)
    BY <1>2, <1>3, <1>5 DEF TurnsIn
  <2>3. PICK k \in 0 .. Instances : reached = 1 .. k /\ \A t \in TurnsIn(todo) : t <= k
    BY DEF InTurn
  <2>4. k = Instances
    BY <2>2, <2>3, RoundsAssumption
  <2> QED
    BY <1>1, <2>1, <2>3, <2>4 DEF InTurn
<1> QED
  BY <1>4, <1>5

\* As long as it is not cut off, a round is in the turns of instances it gave a turn
\* to, or had those of all.
TurnInv ==
    collector \in Isolates /\ alarm # "rung" => Held(todo) /\ InTurn(todo, reached)

LEMMA TurnInvStep ==
    ASSUME CodeInv, TurnInv, [Next]_vars
    PROVE  TurnInv'
<1> SUFFICES ASSUME collector \in Isolates, alarm' # "rung"
             PROVE  Held(todo') /\ InTurn(todo', reached')
  BY CodeInvStep DEF TurnInv
<1>1. CASE StartRound
  <2>1. todo' = Call(Program[collector]) /\ reached' = {} /\ collector \in DOMAIN Program
    BY <1>1 DEF StartRound, CodeInv, RoundInv, DataOK
  <2>2. Call(Program[collector]) \in CodeOf[collector]
    BY <2>1, CodeAssumption
  <2>3. NoInstance(todo') /\ TurnsIn(todo') = {}
    BY <2>1, <2>2, BlocksHaveNoMark
  <2>4. Held(todo')
    <3>1. Len(todo') \in Nat
      BY <2>1, <2>2, BlocksAreCode
    <3>2. \A i \in 1 .. Len(todo') : \A j \in i + 1 .. Len(todo') : j \in 1 .. Len(todo')
      BY <3>1
    <3>3. \A i \in 1 .. Len(todo') : \A j \in i + 1 .. Len(todo') : ~Instance(todo'[j])
      BY <2>3, <3>2 DEF NoInstance
    <3> QED
      BY <3>3 DEF Held, StoppedAfter
  <2>5. 0 \in 0 .. Instances /\ {} = 1 .. 0
    BY RoundsAssumption
  <2> QED
    BY <2>1, <2>3, <2>4, <2>5 DEF InTurn
<1>2. CASE EndRound \/ UNCHANGED vars
  <2>1. todo' = todo /\ reached' = reached /\ (alarm' # "rung" => alarm # "rung")
    BY <1>2 DEF EndRound, vars, roundVars
  <2> QED
    BY <2>1 DEF TurnInv
<1>3. CASE AlarmRings
  BY <1>3 DEF AlarmRings
<1>4. CASE Step
  <2>1. alarm' = alarm
    BY <1>4 DEF Step, Answer, Fail, SetDims, PublishMetric, PublishFails, LogAnError,
           CallFunction, ReturnFromCall, EnterTry, LeaveBlock, RaiseException, Turn, EndLoop,
           ContinueOrBreak, Choose, NoteFact, KeepFact, ForgetFact, UseFact, TestFact, Still
  <2>2. Held(todo) /\ InTurn(todo, reached)
    BY <2>1 DEF TurnInv
  <2>3. ASSUME StaysInTurn PROVE Held(todo') /\ InTurn(todo', reached')
    BY <2>2, <2>3 DEF StaysInTurn, InTurn
  <2>4. CASE ReturnFromCall \/ ContinueOrBreak
    <3>1. UNCHANGED reached
      BY <2>4 DEF ReturnFromCall, ContinueOrBreak, roundVars
    <3> QED
      BY <2>2, <2>3, <2>4, <3>1, JumpHolds DEF StaysInTurn
  <2>5. CASE Turn
    BY <2>2, <2>5, TurnHolds
  <2>6. CASE EndLoop
    BY <2>2, <2>6, EndLoopHolds
  <2>7. CASE Fail \/ PublishFails \/ RaiseException
    BY <2>2, <2>3, <2>7, FailureHolds
  <2>8. CASE CallFunction \/ EnterTry \/ Choose \/ TestFact
    BY <2>2, <2>3, <2>8, CallHolds, TryHolds, ChoiceHolds
  <2>9. CASE \/ Answer \/ SetDims \/ PublishMetric \/ LogAnError \/ LeaveBlock
             \/ NoteFact \/ KeepFact \/ ForgetFact \/ UseFact
    BY <2>2, <2>3, <2>9, PopHolds
  <2> QED
    BY <1>4, <2>4, <2>5, <2>6, <2>7, <2>8, <2>9 DEF Step
<1> QED
  BY <1>1, <1>2, <1>3, <1>4 DEF Next

\* A collector that leaves the turn of an instance at its end only, by no exception,
\* return or break, gives all instances their turn in each round that is not cut off
\* and gives it to one: whatever fails, and whatever it catches inside of a turn.
THEOREM IsolatingIsEnough == Spec => [](collector \in Isolates => OthersGoOn)
<1>1. Init => TurnInv
  <2> SUFFICES ASSUME Init PROVE TurnInv
    OBVIOUS
  <2>1. todo = <<>> /\ reached = {}
    BY DEF Init
  <2>2. 0 \in 0 .. Instances /\ {} = 1 .. 0
    BY RoundsAssumption
  <2> QED
    BY <2>1, <2>2, EmptyIsHeld DEF TurnInv, InTurn
<1>2. ASSUME CodeInv, TurnInv PROVE collector \in Isolates => OthersGoOn
  <2> SUFFICES ASSUME collector \in Isolates, ~Running, alarm # "rung", reached # {}
               PROVE  reached = 1 .. Instances
    BY DEF OthersGoOn
  <2>1. todo = <<>>
    BY <1>2 DEF CodeInv, RoundInv, DataOK
  <2>2. PICK k \in {0, Instances} : reached = 1 .. k
    BY <1>2, <2>1, EmptyIsHeld DEF TurnInv, InTurn
  <2>3. k # 0
    BY <2>2
  <2> QED
    BY <2>2, <2>3
<1> QED
  BY <1>1, <1>2, TurnInvStep, CodeInvariant, PTL DEF Spec
=============================================================================
