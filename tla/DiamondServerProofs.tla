------------------------ MODULE DiamondServerProofs ------------------------
(***************************************************************************)
(* The server runs one process for a collector, and stops none it wants,   *)
(* for any names, processes, edits and SIGHUPs.                            *)
(*                                                                         *)
(* OneProcessPerCollector is about what the server forks, which it chooses *)
(* by a set it computed some steps before.  What makes the set good until  *)
(* it is used is NothingTwice: no name is left to start that a child, or   *)
(* the process being started, has.                                         *)
(***************************************************************************)
EXTENDS DiamondServer, FiniteSetTheorems, TLAPS

\* A process was started under a name.
Named == \A p \in Processes : state[p] # "unused" => name[p] \in Names

\* start() is under way for one process at most, which is not a child yet.
OneStart ==
    /\ step # "forking" => starting = {}
    /\ \A p, q \in starting : p = q
    /\ \A p \in starting : state[p] \in {"forked", "ended"}

\* SIGHUP leaves nothing over of the turn of the loop it ended.
CleanReload == step = "reloading" => toStop = {} /\ toStart = {}

NothingTwice ==
    \A p \in Processes : state[p] = "child" \/ p \in starting => name[p] \notin toStart

Inv ==
    /\ TypeOK /\ Named /\ OneStart /\ CleanReload /\ NothingTwice
    /\ IsFiniteSet(Orphans) /\ OneProcessPerCollector

-----------------------------------------------------------------------------
\* One more or fewer lost process.
LEMMA FewerOrphans ==
    ASSUME NEW S, IsFiniteSet(S), NEW T \in SUBSET S, NEW n \in Nat, Cardinality(S) <= n
    PROVE  IsFiniteSet(T) /\ Cardinality(T) <= n
<1>1. IsFiniteSet(T) /\ Cardinality(T) <= Cardinality(S)
  BY FS_Subset
<1>2. Cardinality(S) \in Nat /\ Cardinality(T) \in Nat
  BY <1>1, FS_CardinalityType
<1> QED
  BY <1>1, <1>2

LEMMA OneMoreOrphan ==
    ASSUME NEW S, IsFiniteSet(S), NEW p, NEW n \in Nat, Cardinality(S) <= n
    PROVE  IsFiniteSet(S \cup {p}) /\ Cardinality(S \cup {p}) <= n + 1
<1>1. /\ IsFiniteSet(S \cup {p})
      /\ \/ Cardinality(S \cup {p}) = Cardinality(S)
         \/ Cardinality(S \cup {p}) = Cardinality(S) + 1
  BY FS_AddElement
<1>2. Cardinality(S) \in Nat
  BY FS_CardinalityType
<1> QED
  BY <1>1, <1>2

LEMMA InvInit == Init => Inv
<1> SUFFICES ASSUME Init PROVE Inv
  OBVIOUS
<1>1. TypeOK
  BY ServerAssumption DEF Init, TypeOK, Steps, States
<1>2. Alive = {} /\ Orphans = {}
  BY DEF Init, Alive, Orphans
<1>3. IsFiniteSet(Orphans) /\ OneProcessPerCollector
  BY <1>2, FS_EmptySet DEF Init, OneProcessPerCollector
<1> QED
  BY <1>1, <1>3 DEF Init, Inv, Named, OneStart, CleanReload, NothingTwice

\* Type correctness of a step, and what goes with it.
LEMMA TypeStep == Inv /\ [Next]_vars => TypeOK' /\ Named' /\ OneStart' /\ CleanReload'
<1> SUFFICES ASSUME Inv, [Next]_vars
             PROVE  TypeOK' /\ Named' /\ OneStart' /\ CleanReload'
  OBVIOUS
<1> USE ServerAssumption DEF Inv, TypeOK, Named, OneStart, CleanReload, Steps, States
<1>1. CASE Observe
  BY <1>1 DEF Observe, NamesOf, Children, processVars
<1>2. ASSUME NEW n \in Names, Stop(n)
      PROVE  TypeOK' /\ Named' /\ OneStart' /\ CleanReload'
  BY <1>2 DEF Stop
<1>3. ASSUME NEW n \in Names, StartNothing(n)
      PROVE  TypeOK' /\ Named' /\ OneStart' /\ CleanReload'
  BY <1>3 DEF StartNothing, processVars
<1>4. ASSUME Die, hups' \in 0 .. MaxHups, starting = {}
      PROVE  TypeOK' /\ Named' /\ OneStart' /\ CleanReload'
  BY <1>4 DEF Die, Children
<1>5. ASSUME NEW n \in Names, MissConf(n)
      PROVE  TypeOK' /\ Named' /\ OneStart' /\ CleanReload'
  BY <1>4, <1>5 DEF MissConf
<1>6. ASSUME NEW n \in Names, Fork(n)
      PROVE  TypeOK' /\ Named' /\ OneStart' /\ CleanReload'
  BY <1>6 DEF Fork
<1>7. CASE AllStopped
  BY <1>7 DEF AllStopped, processVars
<1>8. CASE Record
  BY <1>8 DEF Record
<1>9. CASE AllStarted
  BY <1>9 DEF AllStarted, processVars
<1>10. CASE Reload
  BY <1>4, <1>10 DEF Reload, processVars
<1>11. CASE Hup
  <2>1. hups' \in 0 .. MaxHups
    BY <1>11 DEF Hup
  <2>2. CASE step = "reloading" /\ Die
    BY <1>4, <2>1, <2>2
  <2>3. CASE step' = "reloading" /\ toStop' = {} /\ toStart' = {} /\ starting' = {}
             /\ UNCHANGED <<file, edits, config, observed, processVars>>
    BY <2>1, <2>3 DEF processVars
  <2> QED
    BY <1>11, <2>2, <2>3 DEF Hup
<1>12. ASSUME NEW n \in Names, HupSwallowed(n)
       PROVE  TypeOK' /\ Named' /\ OneStart' /\ CleanReload'
  BY <1>12 DEF HupSwallowed, processVars
<1>13. CASE Edit
  BY <1>13 DEF Edit, serverVars, processVars
<1>14. ASSUME NEW p \in Processes, End(p)
       PROVE  TypeOK' /\ Named' /\ OneStart' /\ CleanReload'
  BY <1>14 DEF End, serverVars, Alive
<1>15. CASE UNCHANGED vars
  BY <1>15 DEF vars, serverVars, processVars
<1> QED
  BY <1>1, <1>2, <1>3, <1>5, <1>6, <1>7, <1>8, <1>9, <1>10, <1>11, <1>12, <1>13,
     <1>14, <1>15 DEF Next, ServerStep

\* Nothing is left to start that is there: the set is computed from the children,
\* shrinks, and loses a name before its process can become one.
LEMMA NothingTwiceStep == Inv /\ [Next]_vars => NothingTwice'
<1> SUFFICES ASSUME Inv, [Next]_vars PROVE NothingTwice'
  OBVIOUS
<1> USE DEF Inv, TypeOK, OneStart, NothingTwice
<1>1. CASE Observe
  BY <1>1 DEF Observe, NamesOf, Children, processVars
<1>2. ASSUME NEW n \in Names, Fork(n) PROVE NothingTwice'
  BY <1>2 DEF Fork
<1>3. CASE Record
  BY <1>3 DEF Record
<1>4. ASSUME Die PROVE NothingTwice'
  BY <1>4 DEF Die, Children
<1>5. ASSUME NEW p \in Processes, End(p) PROVE NothingTwice'
  BY <1>5 DEF End, serverVars, Alive
<1>6. CASE Hup
  BY <1>4, <1>6 DEF Hup, processVars
<1>7. CASE Reload
  BY <1>4, <1>7 DEF Reload, processVars
<1>8. ASSUME NEW n \in Names,
             Stop(n) \/ StartNothing(n) \/ MissConf(n) \/ HupSwallowed(n)
      PROVE  NothingTwice'
  BY <1>4, <1>8 DEF Stop, StartNothing, MissConf, HupSwallowed, processVars
<1>9. CASE AllStopped \/ AllStarted \/ Edit \/ UNCHANGED vars
  BY <1>9 DEF AllStopped, AllStarted, Edit, vars, serverVars, processVars
<1> QED
  BY <1>1, <1>2, <1>3, <1>5, <1>6, <1>7, <1>8, <1>9 DEF Next, ServerStep

\* Two processes of one name: only Fork makes another one, of a name no child has;
\* only SIGHUP between fork and record loses one.
OneAlive ==
    \A p, q \in Alive : p # q /\ name[p] = name[q] => p \in Orphans \/ q \in Orphans
FewOrphans == IsFiniteSet(Orphans) /\ Cardinality(Orphans) <= hups

LEMMA AliveStep == Inv /\ [Next]_vars => OneAlive' /\ FewOrphans'
<1> SUFFICES ASSUME Inv, [Next]_vars PROVE OneAlive' /\ FewOrphans'
  OBVIOUS
<1>0. /\ OneAlive /\ FewOrphans /\ hups \in Nat
      /\ state \in [Processes -> States] /\ name \in [Processes -> Names \cup {None}]
  BY DEF Inv, OneProcessPerCollector, OneAlive, FewOrphans, TypeOK
\* Where nobody is started or lost, processes can only have ended.
<1>1. ASSUME Orphans' \subseteq Orphans, hups' \in {hups, hups + 1}
      PROVE  FewOrphans'
  <2>1. IsFiniteSet(Orphans') /\ Cardinality(Orphans') <= hups
    BY <1>0, <1>1, FewerOrphans DEF FewOrphans
  <2>2. Cardinality(Orphans') \in Nat
    BY <2>1, FS_CardinalityType
  <2> QED
    BY <1>0, <1>1, <2>1, <2>2 DEF FewOrphans
<1>2. ASSUME UNCHANGED <<name, starting>>, hups' \in {hups, hups + 1},
             \A p \in Processes : state'[p] \in {state[p], "ended"}
      PROVE  OneAlive' /\ FewOrphans'
  <2>1. Alive' \subseteq Alive /\ Orphans' \subseteq Orphans
    BY <1>2 DEF Alive, Orphans
  <2>2. \A p \in Alive' : p \in Orphans => p \in Orphans'
    BY <1>2 DEF Alive, Orphans
  <2> QED
    BY <1>0, <1>1, <1>2, <2>1, <2>2 DEF OneAlive
<1>3. ASSUME NEW n \in Names, Fork(n) PROVE OneAlive' /\ FewOrphans'
  <2>1. PICK p \in Processes : /\ state[p] = "unused"
                               /\ state' = [state EXCEPT ![p] = "forked"]
                               /\ name' = [name EXCEPT ![p] = n]
                               /\ starting' = {p}
    BY <1>3 DEF Fork
  <2>2. starting = {} /\ n \in toStart /\ hups' = hups
    BY <1>3 DEF Fork, Inv, OneStart
  <2>3. Alive' = Alive \cup {p} /\ p \notin Alive /\ Orphans' = Orphans
    BY <1>0, <2>1, <2>2 DEF Alive, Orphans
  <2>4. \A q \in Alive : name'[q] = name[q] /\ (name[q] = n => q \in Orphans)
    BY <1>0, <2>1, <2>2 DEF Alive, Orphans, Inv, NothingTwice
  <2>5. name'[p] = n
    BY <1>0, <2>1
  <2> QED
    BY <1>0, <1>1, <2>2, <2>3, <2>4, <2>5 DEF OneAlive
<1>4. CASE Record
  <2>1. Alive' = Alive /\ Orphans' = Orphans
    BY <1>0, <1>4 DEF Record, Alive, Orphans
  <2> QED
    BY <1>0, <1>1, <1>4, <2>1 DEF Record, OneAlive
<1>5. CASE Hup
  <2>1. CASE Die /\ hups' = hups + 1
    BY <1>0, <1>2, <2>1 DEF Die
  <2>2. CASE step # "dead" /\ starting' = {} /\ UNCHANGED processVars /\ hups' = hups + 1
    <3>1. Alive' = Alive /\ name' = name /\ Orphans \subseteq Orphans'
      BY <2>2 DEF Alive, Orphans, processVars
    <3>2. Orphans' \subseteq Orphans \cup starting
      BY <2>2 DEF Alive, Orphans, processVars
    <3>3. PICK s : starting \subseteq {s}
      BY DEF Inv, OneStart
    <3>4. IsFiniteSet(Orphans \cup {s}) /\ Cardinality(Orphans \cup {s}) <= hups + 1
      BY <1>0, OneMoreOrphan DEF FewOrphans
    <3>5. FewOrphans'
      BY <1>0, <2>2, <3>2, <3>3, <3>4, FewerOrphans DEF FewOrphans
    <3> QED
      BY <1>0, <3>1, <3>5 DEF OneAlive
  <2> QED
    BY <1>5, <2>1, <2>2 DEF Hup
<1>6. CASE Reload
  BY <1>0, <1>2, <1>6 DEF Reload, Die, processVars
<1>7. ASSUME NEW n \in Names,
             Stop(n) \/ StartNothing(n) \/ MissConf(n) \/ HupSwallowed(n)
      PROVE  OneAlive' /\ FewOrphans'
  BY <1>0, <1>2, <1>7 DEF Stop, StartNothing, MissConf, HupSwallowed, Die, processVars
<1>8. ASSUME NEW p \in Processes, End(p) PROVE OneAlive' /\ FewOrphans'
  BY <1>0, <1>2, <1>8 DEF End, serverVars
<1>9. CASE Observe \/ AllStopped \/ AllStarted \/ Edit \/ UNCHANGED vars
  BY <1>0, <1>2, <1>9
     DEF Observe, AllStopped, AllStarted, Edit, vars, serverVars, processVars
<1> QED
  BY <1>3, <1>4, <1>5, <1>6, <1>7, <1>8, <1>9 DEF Next, ServerStep

LEMMA InvStep == Inv /\ [Next]_vars => Inv'
  BY TypeStep, NothingTwiceStep, AliveStep
     DEF Inv, OneProcessPerCollector, OneAlive, FewOrphans

LEMMA InvAlways == Spec => []Inv
  BY InvInit, InvStep, PTL DEF Spec

-----------------------------------------------------------------------------
\* Type correctness: what is left to stop is never configured, what is left to
\* start always is, also across SIGHUPs that change the configuration.
THEOREM ServerTypes == Spec => []TypeOK
<1>1. Inv => TypeOK
  BY DEF Inv
<1> QED
  BY <1>1, InvAlways, PTL

\* The server never starts a second process for a collector that has one, except
\* beside one that a SIGHUP made it lose, and loses at most one for each SIGHUP.
THEOREM OneProcess == Spec => []OneProcessPerCollector
<1>1. Inv => OneProcessPerCollector
  BY DEF Inv
<1> QED
  BY <1>1, InvAlways, PTL

\* No process is told to stop whose name is configured.
THEOREM StopsUnwanted == Spec => StopsOnlyUnwanted
<1>1. Inv /\ [Next]_vars
        => [\A p \in Processes : told'[p] # told[p] => name[p] \notin config']_vars
  <2> SUFFICES ASSUME Inv, Next, NEW p \in Processes, told'[p] # told[p]
               PROVE  name[p] \notin config'
    OBVIOUS
  <2>1. PICK n \in Names : Stop(n)
    BY DEF Next, ServerStep, Observe, StartNothing, MissConf, Fork, AllStopped, Record,
           AllStarted, Reload, Hup, HupSwallowed, Edit, End, Die, serverVars, processVars
  <2> QED
    BY <2>1 DEF Stop, Inv, TypeOK
<1> QED
  BY <1>1, InvAlways, PTL DEF Spec, StopsOnlyUnwanted
=============================================================================
